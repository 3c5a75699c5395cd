------------------------------ MODULE Pipeline ------------------------------
(***************************************************************************)
(* The file watcher of FileWatch together with what is behind and around   *)
(* it: DataAnalytics and the consumer, which keep in memory what they were *)
(* handed until it is settled, and graceExit of cmd/main.go, which saves   *)
(* the offsets, cancels the watcher, gives it a second, closes the         *)
(* consumer and ends the process.                                          *)
(*                                                                         *)
(* The consumer is the queue that OrderedDelivery says it is (and          *)
(* BatchConsumer is shown to be, as long as nobody adds during its Close). *)
(* What was handed over is settled when it has left the process or the     *)
(* sender has written it off; which of the two is ElasticSender's concern. *)
(***************************************************************************)
EXTENDS FileWatch

VARIABLES
  main,        \* where graceExit is
  fate,        \* what became of each member of sent[p]
  unclean      \* history: a watching process was killed, or its exit raced

pipeVars == <<vars, main, fate, unclean>>

PipeInit ==
  /\ Init
  /\ main = "serve"
  /\ fate = [p \in Paths |-> <<>>]
  /\ unclean = FALSE

InMemory == {p \in Paths : "memory" \in Range(fate[p])}

(* When the process ends its memory is gone.  What was there is read again *)
(* after the next start, unless the saved offset is past its beginning.    *)
AfterDeath(p, i) ==
  IF fate[p][i] # "memory" THEN fate[p][i]
  ELSE IF disk[p] > sent[p][i].from THEN "skipped" ELSE "lost"

(* DataAnalytics.Track: what a reader sends is in the consumer's memory.   *)
(* A line added while the consumer closes races with FlushAll.             *)
Follow ==
  /\ fate' = [p \in Paths |-> [i \in DOMAIN sent'[p] |->
       IF i > Len(fate[p]) THEN "memory"
       ELSE IF phase' = "down" THEN AfterDeath(p, i)
       ELSE fate[p][i]]]
  /\ main' = IF phase' = "down" THEN "serve"
             ELSE IF main = "close" /\ sent' # sent THEN "race"
             ELSE main
  /\ unclean' = (unclean \/ (phase = "up" /\ phase' = "down"))

(* Of every path, what was handed over first is settled first. *)
Deliver(p) ==
  /\ phase = "up"
  /\ \E i \in DOMAIN fate[p] :
       /\ fate[p][i] = "memory"
       /\ \A j \in 1..(i - 1) : fate[p][j] # "memory"
       /\ fate' = [fate EXCEPT ![p][i] = "settled"]
  /\ UNCHANGED <<vars, main, unclean>>
-----------------------------------------------------------------------------
(* The process is killed, or the machine stops. *)
Crash ==
  /\ phase # "down"
  /\ Fault
  /\ Die /\ UNCHANGED panicked
  /\ Follow

(* graceExit *)
MainAt(l) == phase = "up" /\ main = l
MainGoes(l) == main' = l /\ UNCHANGED <<fate, unclean>>

(* A signal came, or WatcherContext is done: the states are saved, in the  *)
(* two steps of SaveGlobalFileStatesToDiskFile.                            *)
ExitSaveOpen ==
  /\ MainAt("serve")
  /\ MainGoes("write")
  /\ SaveOpen("main") /\ UNCHANGED clock

ExitSaveWrite ==
  /\ MainAt("write")
  /\ MainGoes("grace")
  /\ SaveWrite("main") /\ UNCHANGED <<phase, clock>>

(* The error is not looked at. *)
ExitSaveFails ==
  /\ MainAt("serve") \/ MainAt("write")
  /\ MainGoes("grace")
  /\ SaveFails("main") /\ UNCHANGED <<phase, clock>>

(* Closed: cancel and a second of sleep.  Nobody waits for the readers and *)
(* the clocks, and a select may prefer an event to the closed context.     *)
EndGrace ==
  /\ MainAt("grace")
  /\ MainGoes("close")
  /\ UNCHANGED vars

(* Mutant: os.Exit does not wait for the consumer. *)
ExitAtOnce ==
  /\ MainAt("close") \/ MainAt("race")
  /\ fate' = [p \in Paths |-> [i \in DOMAIN fate[p] |-> AfterDeath(p, i)]]
  /\ main' = "serve"
  /\ unclean' = (unclean \/ main = "race")
  /\ Die /\ UNCHANGED <<faults, panicked>>

(* GlobalDataAnalytics.Close returns when the consumer is empty, if nobody *)
(* adds; os.Exit then ends whatever still runs.                            *)
Exit ==
  /\ (MainAt("close") /\ InMemory = {}) \/ MainAt("race")
  /\ fate' = [p \in Paths |-> [i \in DOMAIN fate[p] |-> AfterDeath(p, i)]]
  /\ main' = "serve"
  /\ unclean' = (unclean \/ main = "race")
  /\ Die /\ UNCHANGED <<faults, panicked>>
-----------------------------------------------------------------------------
Watch == Next /\ Follow

PipeNext ==
  \/ Watch \/ Crash
  \/ \E p \in Paths : Deliver(p)
  \/ ExitSaveOpen \/ ExitSaveWrite \/ ExitSaveFails \/ EndGrace \/ Exit

PipeSpec == PipeInit /\ [][PipeNext]_pipeVars

(* FileWatch's fairness; what graceExit has begun it ends, and the Close   *)
(* of the consumer hands everything over.  Before it, a partial buffer may *)
(* wait for ever; a raced Close may never end; nobody owes a signal.       *)
FairPipe ==
  /\ PipeSpec
  /\ Fairness
  /\ WF_pipeVars(ExitSaveWrite) /\ WF_pipeVars(EndGrace)
  /\ WF_pipeVars(main = "close" /\ Exit)
  /\ \A p \in Paths : WF_pipeVars(main = "close" /\ Deliver(p))
-----------------------------------------------------------------------------
(* Every variable has its type; all that was sent has a fate, nothing is   *)
(* in memory without a process, and graceExit holds the lock exactly while *)
(* it saves.                                                               *)
PipeTypeOK ==
  /\ TypeOK
  /\ main \in {"serve", "write", "grace", "close", "race"}
  /\ \A p \in Paths : /\ fate[p] \in Seq({"memory", "settled", "lost", "skipped"})
                      /\ Len(fate[p]) = Len(sent[p])
  /\ unclean \in BOOLEAN
  /\ phase # "up" => main = "serve" /\ InMemory = {}
  /\ lock = "main" <=> main = "write"

(* The members of sent[p] with the unit at x of the file now at p. *)
With(p, x) == {i \in DOMAIN sent[p] : /\ sent[p][i].gen = files[p].gen
                                      /\ sent[p][i].from <= x /\ x < sent[p][i].to}
Kept(p, x) == \E i \in With(p, x) : fate[p][i] # "lost"

(* Neither offset, in memory or saved, is past a unit the consumer never   *)
(* had, nor past one that was lost with the process and is still to be     *)
(* read again: a death costs only what the saved offset was past already.  *)
(* And it takes a crash while it watched, or a raced exit: a start that    *)
(* fails costs nothing, and the exit itself (main.go:187) waits until what *)
(* the consumer holds is settled.                                          *)
KeptBelow(o, p) == \A x \in 0..(MaxSize - 1) : x < o /\ x < files[p].size => Kept(p, x)
NothingForgotten ==
  \A p \in Paths : /\ KeptBelow(states[p], p) /\ KeptBelow(disk[p], p)
                   /\ Range(fate[p]) \cap {"lost", "skipped"} # {} => unclean

(* What a death took from the consumer, and the saved offset was not past, *)
(* is handed over again, provided the program is started again and its     *)
(* next exit is not raced.                                                 *)
Lost(p, x) == With(p, x) # {} /\ ~Kept(p, x)
DownForGood == phase = "down" /\ boots = MaxBoots
LostIsReadAgain ==
  \A p \in Paths, x \in 0..(MaxSize - 1) :
    Lost(p, x) ~> ~Lost(p, x) \/ DownForGood \/ main = "race"
=============================================================================
