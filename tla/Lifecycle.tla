------------------------------ MODULE Lifecycle ------------------------------
(***************************************************************************)
(* How the program starts and ends: main and graceExit of cmd/main.go, and *)
(* of pkg/k3/watch/watch.go InitWatcher with a goroutine per index         *)
(* (forkWatcher), the two clocks, and Closed.  One context, WatcherContext,*)
(* ends them all.  The obsolete clock logs to GlobalLogger, which main     *)
(* closes: the logger's own steps are those of DebugLogger.                *)
(*                                                                         *)
(* What the goroutines do while they run is in FileWatch and Pipeline.     *)
(***************************************************************************)
EXTENDS DebugLogger

CONSTANTS
  AllIndexes,      \* index names; the configuration gives any of them
  Intervals,       \* what sync_interval and obsolete_interval may be
  MaxLogged,       \* bound: the records the obsolete clock logs
  MaxFaults        \* bound: failures of watchers, servers and the logger

ASSUME LifecycleAssumption ==
  /\ IsFiniteSet(AllIndexes) /\ Intervals \subseteq Int
  /\ MaxLogged \in Nat /\ MaxFaults \in Nat

DefaultSyncInterval == 60

Clocks == {"sync", "obsolete"}

VARIABLES
  main,            \* where the main goroutine is
  indexes,         \* the keys of the directory map
  watchers,        \* where the goroutine of each index is
  clocks,          \* where the two clocks are
  isSuccess,       \* the answers in the channel isSuccess
  isSuccessClosed,
  answered,        \* how many answers InitWatcher has read
  cancelled,       \* WatcherContext.Done() is closed
  outcome,         \* how the process ended, or "running"
  faults,          \* history: what has failed
  signalled        \* history: graceExit has received a signal

startVars == <<indexes, isSuccess, isSuccessClosed, answered>>
processVars == <<outcome, faults, signalled>>
vars == <<main, watchers, clocks, cancelled, startVars, processVars, loggerVars>>

Init ==
  /\ indexes \in SUBSET AllIndexes
  /\ main = "fork"
  /\ watchers = [x \in AllIndexes |-> "off"]
  /\ clocks = [c \in Clocks |-> "off"]
  /\ isSuccess = <<>>
  /\ isSuccessClosed = FALSE
  /\ answered = 0
  /\ cancelled = FALSE
  /\ outcome = "running"
  /\ faults = 0
  /\ signalled = FALSE
  /\ LoggerInit

Running == outcome = "running"
At(l) == Running /\ main = l
Ends(how) == outcome' = how /\ UNCHANGED <<faults, signalled>>
Fails(how) == faults < MaxFaults /\ faults' = faults + 1 /\ outcome' = how /\ UNCHANGED signalled
-----------------------------------------------------------------------------
(* InitWatcher: the channel has room for an answer of every goroutine. *)
Fork ==
  /\ At("fork")
  /\ main' = "await"
  /\ watchers' = [x \in AllIndexes |-> IF x \in indexes THEN "open" ELSE "off"]
  /\ UNCHANGED <<clocks, cancelled, startVars, processVars, loggerVars>>

(* The first error ends the loop. *)
Await ==
  /\ At("await")
  /\ answered < Cardinality(indexes)
  /\ isSuccess # <<>>
  /\ answered' = answered + 1
  /\ isSuccess' = Tail(isSuccess)
  /\ cancelled' = (cancelled \/ Head(isSuccess) = "error")
  /\ main' = IF Head(isSuccess) = "error" THEN "failed" ELSE "await"
  /\ UNCHANGED <<indexes, isSuccessClosed, watchers, clocks, processVars, loggerVars>>

(* Mutant: the loop over the answers begins at 1. *)
CloseIsSuccessEarly ==
  /\ \/ At("await") /\ answered + 1 >= Cardinality(indexes) /\ main' = "clocks"
     \/ At("failed") /\ main' = "return"
  /\ isSuccessClosed' = TRUE
  /\ UNCHANGED <<indexes, isSuccess, answered, watchers, clocks, cancelled, processVars, loggerVars>>

(* close(isSuccess) after the last answer, or after the first error. *)
CloseIsSuccess ==
  /\ \/ At("await") /\ answered = Cardinality(indexes) /\ main' = "clocks"
     \/ At("failed") /\ main' = "return"
  /\ isSuccessClosed' = TRUE
  /\ UNCHANGED <<indexes, isSuccess, answered, watchers, clocks, cancelled, processVars, loggerVars>>

SyncSeconds(i) == IF i < 0 \/ i > DefaultSyncInterval THEN DefaultSyncInterval ELSE i

(* Run starts the two clocks one after the other and returns; main starts  *)
(* the two HTTP servers.  time.NewTicker panics unless its interval is     *)
(* above 0, which nobody recovers here.                                    *)
StartClocks ==
  /\ At("clocks")
  /\ \E sync, obsolete \in Intervals :
       \/ /\ SyncSeconds(sync) > 0 /\ obsolete > 0
          /\ clocks' = [c \in Clocks |-> "loop"]
          /\ main' = "serve"
          /\ UNCHANGED processVars
       \/ /\ SyncSeconds(sync) > 0 /\ obsolete <= 0
          /\ clocks' = [clocks EXCEPT !["sync"] = "loop"]
          /\ Ends("panicked")
          /\ UNCHANGED main
       \/ /\ SyncSeconds(sync) <= 0
          /\ Ends("panicked")
          /\ UNCHANGED <<main, clocks>>
  /\ UNCHANGED <<watchers, cancelled, startVars, loggerVars>>

(* Run failed: main returns, and with it the process ends. *)
Return ==
  /\ At("return")
  /\ Ends("returned")
  /\ UNCHANGED <<main, watchers, clocks, cancelled, startVars, loggerVars>>
-----------------------------------------------------------------------------
(* forkWatcher *)
WatcherAt(x, l) == Running /\ watchers[x] = l

(* A watcher for the index and for each of its directories. *)
Opens(x) ==
  /\ WatcherAt(x, "open")
  /\ watchers' = [watchers EXCEPT ![x] = "ready"]
  /\ UNCHANGED <<main, clocks, cancelled, startVars, processVars, loggerVars>>

OpenFails(x) ==
  /\ WatcherAt(x, "open")
  /\ Fails("running")
  /\ cancelled' = TRUE
  /\ watchers' = [watchers EXCEPT ![x] = "failed"]
  /\ UNCHANGED <<main, clocks, startVars, loggerVars>>

(* isSuccess <- nil or <- err; the channel may be closed by now, and the   *)
(* send panics.                                                            *)
Answers(x) ==
  /\ WatcherAt(x, "ready") \/ WatcherAt(x, "failed")
  /\ \/ /\ isSuccessClosed
        /\ Ends("panicked")
        /\ UNCHANGED <<watchers, isSuccess>>
     \/ /\ ~isSuccessClosed
        /\ isSuccess' = Append(isSuccess, IF watchers[x] = "ready" THEN "ok" ELSE "error")
        /\ watchers' = [watchers EXCEPT ![x] = IF @ = "ready" THEN "watch" ELSE "leave"]
        /\ UNCHANGED processVars
  /\ UNCHANGED <<main, clocks, cancelled, indexes, isSuccessClosed, answered, loggerVars>>

(* An error of the watcher, or one of its channels closed. *)
WatchFails(x) ==
  /\ WatcherAt(x, "watch")
  /\ Fails("running")
  /\ cancelled' = TRUE
  /\ watchers' = [watchers EXCEPT ![x] = "leave"]
  /\ UNCHANGED <<main, clocks, startVars, loggerVars>>

SeesDone(x) ==
  /\ WatcherAt(x, "watch")
  /\ cancelled
  /\ watchers' = [watchers EXCEPT ![x] = "leave"]
  /\ UNCHANGED <<main, clocks, cancelled, startVars, processVars, loggerVars>>

(* The deferred calls: cancel, then WatcherWG.Done. *)
Leaves(x) ==
  /\ WatcherAt(x, "leave")
  /\ cancelled' = TRUE
  /\ watchers' = [watchers EXCEPT ![x] = "done"]
  /\ UNCHANGED <<main, clocks, startVars, processVars, loggerVars>>

(* Mutant: WatcherWG.Add is called by the goroutine itself, so that Wait   *)
(* may be over before any of them has begun.                               *)
NobodyCounted == \A x \in indexes : watchers[x] \in {"open", "done"}

(* WatcherWG.Wait() returns, at once when there is no index. *)
NobodyWatches == \A x \in indexes : watchers[x] = "done"

(* The goroutine of InitWatcher that waits for the others cancels again.   *)
(* Those that wait for the clocks do the same; a clock always cancels      *)
(* before it is done, so they change nothing.                              *)
Collect ==
  /\ Running
  /\ main # "fork"
  /\ NobodyWatches
  /\ ~cancelled
  /\ cancelled' = TRUE
  /\ UNCHANGED <<main, watchers, clocks, startVars, processVars, loggerVars>>
-----------------------------------------------------------------------------
(* The clocks.  A tick of the sync clock changes nothing here; a tick of   *)
(* the obsolete clock looks at the files and logs some.                    *)
ClockAt(c, l) == Running /\ clocks[c] = l
ClockGoes(c, l) == clocks' = [clocks EXCEPT ![c] = l]

Tick ==
  /\ ClockAt("obsolete", "loop")
  /\ accepted < MaxLogged
  /\ ClockGoes("obsolete", "files")
  /\ UNCHANGED <<main, watchers, cancelled, startVars, processVars, loggerVars>>

FilesDone ==
  /\ ClockAt("obsolete", "files")
  /\ ClockGoes("obsolete", "loop")
  /\ UNCHANGED <<main, watchers, cancelled, startVars, processVars, loggerVars>>

(* GlobalLogger.Add tests the channel ... *)
LogTests ==
  /\ ClockAt("obsolete", "files")
  /\ accepted < MaxLogged
  /\ \/ chState # "nil" /\ ClockGoes("obsolete", "log") /\ UNCHANGED loggerVars
     \/ AddRefused /\ UNCHANGED clocks
  /\ UNCHANGED <<main, watchers, cancelled, startVars, processVars>>

(* ... and sends. *)
Logs ==
  /\ ClockAt("obsolete", "log")
  /\ \/ AddSends /\ ClockGoes("obsolete", "files") /\ UNCHANGED processVars
     \/ AddPanics /\ Ends("panicked") /\ UNCHANGED clocks
  /\ UNCHANGED <<main, watchers, cancelled, startVars>>

ClockSeesDone(c) ==
  /\ ClockAt(c, "loop")
  /\ cancelled
  /\ ClockGoes(c, "done")
  /\ UNCHANGED <<main, watchers, cancelled, startVars, processVars, loggerVars>>

LoggerStep ==
  /\ Running
  /\ FlushStep
  /\ UNCHANGED <<main, watchers, clocks, cancelled, startVars, processVars>>

DateChanges ==
  /\ Running
  /\ DayChanges
  /\ UNCHANGED <<main, watchers, clocks, cancelled, startVars, processVars>>

(* log.Fatalf of the logger, the panic of the status page's server and the *)
(* log.Fatalf of the profiler's when they cannot listen.                   *)
Dies ==
  /\ Running
  /\ Fails("died")
  /\ \/ FlushFails
     \/ main \notin {"fork", "await", "failed", "return", "clocks"} /\ UNCHANGED loggerVars
  /\ UNCHANGED <<main, watchers, clocks, cancelled, startVars>>
-----------------------------------------------------------------------------
(* graceExit waits for a signal, one of four, or for the context; the      *)
(* signals that come after it are not read.                                *)
Signal ==
  /\ At("serve")
  /\ signalled' = TRUE
  /\ main' = "cancel"
  /\ UNCHANGED <<watchers, clocks, cancelled, startVars, outcome, faults, loggerVars>>

(* Mutant: graceExit is given a context that nobody cancels. *)
ContextOfItsOwn ==
  /\ At("serve")
  /\ FALSE
  /\ UNCHANGED vars

ContextDone ==
  /\ At("serve")
  /\ cancelled
  /\ main' = "cancel"
  /\ UNCHANGED <<watchers, clocks, cancelled, startVars, processVars, loggerVars>>

(* What graceExit does then, in order, as far as anybody here can tell:    *)
(* Closed cancels and, a second later, closes the consumer; the close of   *)
(* GlobalConsumer and that of GlobalLogger in its two parts; Exit, another *)
(* second later.  The save of the offsets before it is in Pipeline, and    *)
(* the shutdown of the status page has a time-out.                         *)
Following == [cancel |-> "closeConsumer", closeConsumer |-> "closeLog",
              closeLog |-> "closeLogger", closeLogger |-> "waitLogger",
              waitLogger |-> "linger", linger |-> "gone"]

CleanUp ==
  /\ Running
  /\ main \in DOMAIN Following
  /\ main' = Following[main]
  /\ cancelled' = (cancelled \/ main = "cancel")
  /\ \/ main = "closeLogger" /\ ClosesChannel
     \/ main = "waitLogger" /\ ForgetsChannel
     \/ main \notin {"closeLogger", "waitLogger"} /\ UNCHANGED loggerVars
  /\ IF main = "linger" THEN Ends("exited") ELSE UNCHANGED processVars
  /\ UNCHANGED <<watchers, clocks, startVars>>
-----------------------------------------------------------------------------
(* The process is gone, or everybody waits for a signal. *)
Stopped == ~Running /\ UNCHANGED vars

MainStep == Fork \/ Await \/ CloseIsSuccess \/ StartClocks \/ Return \/ ContextDone \/ CleanUp
WatcherStep(x) == Opens(x) \/ Answers(x) \/ SeesDone(x) \/ Leaves(x)

Next ==
  \/ MainStep \/ Signal
  \/ \E x \in AllIndexes : WatcherStep(x) \/ OpenFails(x) \/ WatchFails(x)
  \/ Collect
  \/ \E c \in Clocks : ClockSeesDone(c)
  \/ Tick \/ FilesDone \/ LogTests \/ Logs
  \/ LoggerStep \/ DateChanges \/ Dies
  \/ Stopped

Spec == Init /\ [][Next]_vars

(* The closes that may never return: that of the batch consumer, whose     *)
(* FlushAll may go on for ever while readers still add and which waits for *)
(* Elasticsearch, and that of the log consumer, when its file could not be *)
(* opened at the start.                                                    *)
Closes == main \in {"closeConsumer", "closeLog"}

(* What is under way gets on, but for these closes: the scheduler runs     *)
(* somebody who can run, and each of these has only so many steps.  select *)
(* takes the closed Done channel in the end although ticks go on (strong   *)
(* fairness), and the obsolete clock has finitely many files to look at.   *)
(* Nobody owes a signal.                                                   *)
UnderWay ==
  \/ MainStep /\ ~Closes
  \/ \E x \in AllIndexes : WatcherStep(x) \/ OpenFails(x)
  \/ Collect \/ Logs \/ LoggerStep

FairSpec ==
  /\ Spec
  /\ WF_vars(UnderWay)
  /\ SF_vars(\E c \in Clocks : ClockSeesDone(c))
  /\ SF_vars(FilesDone)
-----------------------------------------------------------------------------
TypeOK ==
  /\ main \in {"fork", "await", "failed", "return", "clocks", "serve", "gone"}
                \cup DOMAIN Following
  /\ indexes \subseteq AllIndexes
  /\ watchers \in [AllIndexes -> {"off", "open", "ready", "failed", "watch", "leave", "done"}]
  /\ clocks \in [Clocks -> {"off", "loop", "files", "log", "done"}]
  /\ isSuccess \in Seq({"ok", "error"}) /\ Len(isSuccess) + answered <= Cardinality(indexes)
  /\ isSuccessClosed \in BOOLEAN /\ cancelled \in BOOLEAN /\ signalled \in BOOLEAN
  /\ answered \in 0..Cardinality(indexes)
  /\ outcome \in {"running", "returned", "panicked", "died", "exited"}
  /\ faults \in 0..MaxFaults
  /\ LoggerTypeOK

(* watch.go:231: the program comes up with every index watched, or not at  *)
(* all; and once it is up, nobody sends on the closed isSuccess any more.  *)
Up == main \in {"clocks", "serve"} \cup DOMAIN Following
StartsTogether ==
  Up => \A x \in indexes : watchers[x] \in {"watch", "leave", "done"}

(* Nobody cancels WatcherContext, and the exit does not begin, but for a   *)
(* signal, for a failure, or because there is nothing to watch.            *)
StopsForAReason ==
  cancelled \/ main \in DOMAIN Following => signalled \/ faults > 0 \/ indexes = {}

(* watch.go:232: when the goroutine of one index, or a clock, has ended,   *)
(* all of them end, and so does the process: if the close of the consumer  *)
(* and that of the log consumer return, which this module does not promise *)
(* (BatchConsumer and LogConsumer say when they do not).                   *)
Ended == \/ \E x \in indexes : watchers[x] = "done"
         \/ \E c \in Clocks : clocks[c] = "done"
ClosesEnd == WF_vars(MainStep /\ Closes)
EndsTogether == ClosesEnd => (Ended ~> ~Running)
=============================================================================
