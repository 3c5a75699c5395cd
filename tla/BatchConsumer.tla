---------------------------- MODULE BatchConsumer ----------------------------
(***************************************************************************)
(* pkg/k3/consumer_batch.go: the K3BatchConsumer, two in-memory stages     *)
(* (buffer, then cacheBuffer) between the goroutines that Add records and  *)
(* a Sender.  Its threads are the adders, the auto-flush goroutine         *)
(* (Ticker) and the goroutine that calls Close (Closer).                   *)
(*                                                                         *)
(* Every action is one access to shared memory, or one critical section    *)
(* nobody can look into.  Flush works under cacheMutex and bufferMutex;    *)
(* FlushAll runs the same statements under no lock at all, so each         *)
(* read-modify-write of a slice is a load into a register (reg) and a      *)
(* store, and the two may race.                                            *)
(***************************************************************************)
EXTENDS Integers, Sequences, FiniteSets, Functions

CONSTANTS
  Adders,             \* goroutines that call Add
  Ticker,             \* the auto-flush goroutine
  Closer,             \* the goroutine that calls Close
  NoOne,              \* the holder of a free mutex
  Records,            \* the records Add may be given, each at most once
  ConfigBatchSize,    \* K3BatchConsumerConfig.BatchSize, any integer
  DefaultBatchSize,
  MaxBatchSize,
  CacheCapacity,      \* cacheCapacity after its default was applied
  AutoFlush,          \* K3BatchConsumerConfig.AutoFlush
  SendMayFail,        \* whether Sender.Send may return an error
  LateAdds            \* whether goroutines may still Add while Close runs

Threads == Adders \cup {Ticker, Closer}

ASSUME ThreadsAssumption ==
  /\ Ticker # Closer
  /\ Ticker \notin Adders /\ Closer \notin Adders
  /\ NoOne \notin Threads
  /\ IsFiniteSet(Adders)

ASSUME SizeAssumption ==
  /\ ConfigBatchSize \in Int
  /\ DefaultBatchSize \in Nat \ {0}
  /\ MaxBatchSize \in Nat \ {0}
  /\ CacheCapacity \in Nat \ {0}

ASSUME SwitchAssumption ==
  AutoFlush \in BOOLEAN /\ SendMayFail \in BOOLEAN /\ LateAdds \in BOOLEAN

(* initBatchConsumer: the configured size clamped to 1..MaxBatchSize. *)
BatchSize == IF ConfigBatchSize > MaxBatchSize THEN MaxBatchSize
             ELSE IF ConfigBatchSize <= 0 THEN DefaultBatchSize
             ELSE ConfigBatchSize

VARIABLES
  pc,            \* where each thread is
  buffer,        \* k.buffer
  cacheBuffer,   \* k.cacheBuffer, a sequence of batches
  bufferMutex,   \* the thread that holds it for writing, or NoOne
  cacheMutex,
  reg,           \* what each thread loaded and has not stored back yet
  closed,        \* the channel k.closed is closed
  senderClosed,  \* Sender.Close was called
  added,         \* history: records stored by Add, in order
  sent,          \* history: records handed to Sender.Send, in order
  refused        \* history: records of batches Send returned an error for

buffers == <<buffer, cacheBuffer>>
locks == <<bufferMutex, cacheMutex>>
flags == <<closed, senderClosed>>
history == <<added, sent, refused>>
vars == <<pc, buffers, locks, reg, flags, history>>

Blank == [cache |-> <<>>, buf |-> <<>>]

Init ==
  /\ pc = [t \in Threads |-> IF t = Ticker /\ ~AutoFlush THEN "done" ELSE "idle"]
  /\ buffer = <<>>
  /\ cacheBuffer = <<>>
  /\ bufferMutex = NoOne
  /\ cacheMutex = NoOne
  /\ reg = [t \in Threads |-> Blank]
  /\ closed = FALSE
  /\ senderClosed = FALSE
  /\ added = <<>>
  /\ sent = <<>>
  /\ refused = {}

Goto(t, l) == pc' = [pc EXCEPT ![t] = l]

(* The deferred unlocks of Flush; the Closer holds no lock. *)
Unlock(t) ==
  /\ bufferMutex' = IF t = Closer THEN bufferMutex ELSE NoOne
  /\ cacheMutex' = IF t = Closer THEN cacheMutex ELSE NoOne

(* Flush returns to its caller; FlushAll returns to the test of its loop. *)
ReturnLabel(t) == IF t = Closer THEN "loop" ELSE "idle"

(* Mutant: Track does not recover. *)
PanicLabelNoRecover(t) == IF t = Ticker THEN "done" ELSE "crashed"

(* A panic in Send or in cacheBuffer[0].  Track and the auto-flush         *)
(* goroutine recover (the latter then ends); Close has no recover and the  *)
(* whole process dies.                                                     *)
PanicLabel(t) == CASE t = Closer -> "crashed"
                   [] t = Ticker -> "done"
                   [] OTHER -> "idle"
-----------------------------------------------------------------------------
(* Add: k.buffer = append(k.buffer, data) under bufferMutex. *)
AddLoad(t) ==
  /\ t \in Adders
  /\ pc[t] = "idle"
  /\ LateAdds \/ pc[Closer] = "idle"
  /\ Range(added) # Records
  /\ bufferMutex = NoOne
  /\ bufferMutex' = t
  /\ reg' = [reg EXCEPT ![t].buf = buffer]
  /\ Goto(t, "store")
  /\ UNCHANGED <<buffers, cacheMutex, flags, history>>

AddStore(t) ==
  /\ pc[t] = "store"
  /\ \E r \in Records \ Range(added) :
       /\ buffer' = Append(reg[t].buf, r)
       /\ added' = Append(added, r)
  /\ bufferMutex' = NoOne
  /\ reg' = [reg EXCEPT ![t] = Blank]
  /\ Goto(t, "checkBuffer")
  /\ UNCHANGED <<cacheBuffer, cacheMutex, flags, sent, refused>>

(* Mutant: > instead of >=. *)
CheckBufferAbove(t) ==
  /\ pc[t] = "checkBuffer"
  /\ bufferMutex = NoOne
  /\ Goto(t, IF Len(buffer) > BatchSize THEN "lockCache" ELSE "checkCache")
  /\ UNCHANGED <<buffers, locks, reg, flags, history>>

(* Add: fetchBufferLength() >= batchSize, under the read lock. *)
CheckBuffer(t) ==
  /\ pc[t] = "checkBuffer"
  /\ bufferMutex = NoOne
  /\ Goto(t, IF Len(buffer) >= BatchSize THEN "lockCache" ELSE "checkCache")
  /\ UNCHANGED <<buffers, locks, reg, flags, history>>

(* Add: ... || fetchCacheLength() > 0. *)
CheckCache(t) ==
  /\ pc[t] = "checkCache"
  /\ cacheMutex = NoOne
  /\ Goto(t, IF Len(cacheBuffer) > 0 THEN "lockCache" ELSE "idle")
  /\ UNCHANGED <<buffers, locks, reg, flags, history>>
-----------------------------------------------------------------------------
(* Flush, first lock. *)
LockCache(t) ==
  /\ pc[t] = "lockCache"
  /\ cacheMutex = NoOne
  /\ cacheMutex' = t
  /\ Goto(t, "lockBuffer")
  /\ UNCHANGED <<buffers, bufferMutex, reg, flags, history>>

(* Mutant: the batches wait until the cache is full. *)
MustSendFullCache == Len(cacheBuffer) >= CacheCapacity

(* Flush sends when the cache reached its capacity, or holds anything. *)
MustSend == Len(cacheBuffer) >= CacheCapacity \/ Len(cacheBuffer) > 0

(* Mutant: the buffer is read and reset without its lock. *)
LockBufferNot(t) ==
  /\ pc[t] = "lockBuffer"
  /\ Goto(t, IF Len(buffer) >= BatchSize THEN "move"
             ELSE IF MustSend THEN "send" ELSE "idle")
  /\ cacheMutex' = IF pc'[t] = "idle" THEN NoOne ELSE t
  /\ UNCHANGED <<buffers, bufferMutex, reg, flags, history>>

(* Mutant: the batch size decides with > in Flush. *)
LockBufferAbove(t) ==
  /\ pc[t] = "lockBuffer"
  /\ bufferMutex = NoOne
  /\ LET full == Len(buffer) > BatchSize
     IN /\ Goto(t, IF full THEN "move" ELSE IF MustSend THEN "send" ELSE "idle")
        /\ bufferMutex' = IF full \/ MustSend THEN t ELSE NoOne
        /\ cacheMutex' = bufferMutex'
  /\ UNCHANGED <<buffers, reg, flags, history>>

(* Flush, second lock, then its tests: nothing at all to send, a full      *)
(* buffer to move to the cache, or a batch left in the cache.              *)
LockBuffer(t) ==
  /\ pc[t] = "lockBuffer"
  /\ bufferMutex = NoOne
  /\ \/ /\ Len(buffer) >= BatchSize
        /\ Goto(t, "move")
        /\ bufferMutex' = t
        /\ UNCHANGED cacheMutex
     \/ /\ Len(buffer) < BatchSize
        /\ MustSend
        /\ Goto(t, "send")
        /\ bufferMutex' = t
        /\ UNCHANGED cacheMutex
     \/ /\ Len(buffer) < BatchSize
        /\ ~MustSend
        /\ Goto(t, "idle")
        /\ cacheMutex' = NoOne
        /\ UNCHANGED bufferMutex
  /\ UNCHANGED <<buffers, reg, flags, history>>
-----------------------------------------------------------------------------
(* The statements Flush (under both locks) and FlushAll (under none) share. *)

(* k.cacheBuffer = append(k.cacheBuffer, k.buffer) *)
MoveLoad(t) ==
  /\ pc[t] = "move"
  /\ reg' = [reg EXCEPT ![t] = [cache |-> cacheBuffer, buf |-> buffer]]
  /\ Goto(t, "moved")
  /\ UNCHANGED <<buffers, locks, flags, history>>

MoveStore(t) ==
  /\ pc[t] = "moved"
  /\ cacheBuffer' = Append(reg[t].cache, reg[t].buf)
  /\ reg' = [reg EXCEPT ![t] = Blank]
  /\ Goto(t, "reset")
  /\ UNCHANGED <<buffer, locks, flags, history>>

(* k.buffer = make([]protocol.Data, 0, k.batchSize).  FlushAll goes on to  *)
(* send unconditionally, Flush tests the cache again.                      *)
Reset(t) ==
  /\ pc[t] = "reset"
  /\ buffer' = <<>>
  /\ IF t = Closer \/ MustSend
       THEN /\ Goto(t, "send")
            /\ UNCHANGED locks
       ELSE /\ Goto(t, "idle")
            /\ Unlock(t)
  /\ UNCHANGED <<cacheBuffer, reg, flags, history>>

(* k.sender.Send(k.cacheBuffer[0]).  A closed Elasticsearch sender panics  *)
(* on the first record (its channel is closed); an empty cache panics on   *)
(* the index.                                                              *)
SendPanics == \/ cacheBuffer = <<>>
              \/ senderClosed /\ Head(cacheBuffer) # <<>>

SendOk(t) ==
  /\ pc[t] = "send"
  /\ ~SendPanics
  /\ sent' = sent \o Head(cacheBuffer)
  /\ Goto(t, "pop")
  /\ UNCHANGED <<buffers, locks, reg, flags, added, refused>>

(* Flush pops the batch all the same and returns the error to its caller;  *)
(* FlushAll gives up and Close returns without closing the sender.         *)
SendError(t) ==
  /\ pc[t] = "send"
  /\ SendMayFail
  /\ ~SendPanics
  /\ sent' = sent \o Head(cacheBuffer)
  /\ refused' = refused \cup Range(Head(cacheBuffer))
  /\ Goto(t, IF t = Closer THEN "failed" ELSE "pop")
  /\ UNCHANGED <<buffers, locks, reg, flags, added>>

(* Mutant: the unlocks are not deferred and a panic skips them. *)
SendPanicLocked(t) ==
  /\ pc[t] = "send"
  /\ SendPanics
  /\ Goto(t, PanicLabel(t))
  /\ UNCHANGED <<buffers, locks, reg, flags, history>>

SendPanic(t) ==
  /\ pc[t] = "send"
  /\ SendPanics
  /\ Goto(t, PanicLabel(t))
  /\ Unlock(t)
  /\ UNCHANGED <<buffers, reg, flags, history>>

(* Mutant: the last batch is not popped. *)
PopLoadNotLast(t) ==
  /\ pc[t] = "pop"
  /\ IF Len(cacheBuffer) > 1
       THEN /\ reg' = [reg EXCEPT ![t].cache = Tail(cacheBuffer)]
            /\ Goto(t, "popped")
            /\ UNCHANGED locks
       ELSE /\ UNCHANGED reg
            /\ Goto(t, ReturnLabel(t))
            /\ Unlock(t)
  /\ UNCHANGED <<buffers, flags, history>>

(* if len(k.cacheBuffer) > 0 { k.cacheBuffer = k.cacheBuffer[1:] } *)
PopLoad(t) ==
  /\ pc[t] = "pop"
  /\ IF cacheBuffer # <<>>
       THEN /\ reg' = [reg EXCEPT ![t].cache = Tail(cacheBuffer)]
            /\ Goto(t, "popped")
            /\ UNCHANGED locks
       ELSE /\ UNCHANGED reg
            /\ Goto(t, ReturnLabel(t))
            /\ Unlock(t)
  /\ UNCHANGED <<buffers, flags, history>>

PopStore(t) ==
  /\ pc[t] = "popped"
  /\ cacheBuffer' = reg[t].cache
  /\ reg' = [reg EXCEPT ![t] = Blank]
  /\ Goto(t, ReturnLabel(t))
  /\ Unlock(t)
  /\ UNCHANGED <<buffer, flags, history>>
-----------------------------------------------------------------------------
(* The auto-flush goroutine: select over the ticker and k.closed. *)
Tick ==
  /\ pc[Ticker] = "idle"
  /\ Goto(Ticker, "lockCache")
  /\ UNCHANGED <<buffers, locks, reg, flags, history>>

TickerExit ==
  /\ pc[Ticker] = "idle"
  /\ closed
  /\ Goto(Ticker, "done")
  /\ UNCHANGED <<buffers, locks, reg, flags, history>>
-----------------------------------------------------------------------------
AddersIdle == \A t \in Adders : pc[t] = "idle"

(* Mutant: Close waits for the auto-flush goroutine without telling it. *)
CloseStartSilent ==
  /\ pc[Closer] = "idle"
  /\ LateAdds \/ AddersIdle
  /\ Goto(Closer, "wait")
  /\ UNCHANGED <<buffers, locks, reg, flags, history>>

(* Close: close(k.closed) when auto-flush is on, then k.wg.Wait(). *)
CloseStart ==
  /\ pc[Closer] = "idle"
  /\ LateAdds \/ AddersIdle
  /\ closed' = AutoFlush
  /\ Goto(Closer, "wait")
  /\ UNCHANGED <<buffers, locks, reg, senderClosed, history>>

CloseWait ==
  /\ pc[Closer] = "wait"
  /\ pc[Ticker] = "done"
  /\ Goto(Closer, "loop")
  /\ UNCHANGED <<buffers, locks, reg, flags, history>>

(* FlushAll: for fetchCacheLength() > 0 || fetchBufferLength() > 0 *)
LoopTestCache ==
  /\ pc[Closer] = "loop"
  /\ cacheMutex = NoOne
  /\ Goto(Closer, IF Len(cacheBuffer) > 0 THEN "move" ELSE "loopBuffer")
  /\ UNCHANGED <<buffers, locks, reg, flags, history>>

(* Mutant: a partial buffer is not worth another round. *)
LoopTestBufferFull ==
  /\ pc[Closer] = "loopBuffer"
  /\ bufferMutex = NoOne
  /\ Goto(Closer, IF Len(buffer) >= BatchSize THEN "move" ELSE "closeSender")
  /\ UNCHANGED <<buffers, locks, reg, flags, history>>

LoopTestBuffer ==
  /\ pc[Closer] = "loopBuffer"
  /\ bufferMutex = NoOne
  /\ Goto(Closer, IF Len(buffer) > 0 THEN "move" ELSE "closeSender")
  /\ UNCHANGED <<buffers, locks, reg, flags, history>>

CloseSender ==
  /\ pc[Closer] = "closeSender"
  /\ senderClosed' = TRUE
  /\ Goto(Closer, "done")
  /\ UNCHANGED <<buffers, locks, reg, closed, history>>
-----------------------------------------------------------------------------
AdderStep(t) ==
  \/ AddLoad(t) \/ AddStore(t) \/ CheckBuffer(t) \/ CheckCache(t)

FlushStep(t) ==
  \/ LockCache(t) \/ LockBuffer(t)
  \/ MoveLoad(t) \/ MoveStore(t) \/ Reset(t)
  \/ SendOk(t) \/ SendError(t) \/ SendPanic(t)
  \/ PopLoad(t) \/ PopStore(t)

TickerStep == Tick \/ TickerExit

CloserStep ==
  CloseStart \/ CloseWait \/ LoopTestCache \/ LoopTestBuffer \/ CloseSender

(* Everything is over: the process died, or Close returned and no adder    *)
(* has anything left to do.                                                *)
Over == \/ pc[Closer] = "crashed"
        \/ /\ pc[Closer] \in {"done", "failed"}
           /\ AddersIdle
           /\ LateAdds => Range(added) = Records

Stopped == Over /\ UNCHANGED vars

Alive == pc[Closer] # "crashed"

Next ==
  \/ /\ Alive
     /\ \/ \E t \in Adders : AdderStep(t)
        \/ \E t \in Threads : FlushStep(t)
        \/ TickerStep
        \/ CloserStep
  \/ Stopped

Spec == Init /\ [][Next]_vars

(* The Go scheduler runs every runnable goroutine eventually and a waiting *)
(* RWMutex writer is not overtaken for ever: strong fairness for the steps *)
(* that take a lock, weak fairness for the others.  Nobody is obliged to   *)
(* call Add or Close; the timer of the auto-flush goroutine does fire.     *)
TakesLock(t) == CheckBuffer(t) \/ CheckCache(t) \/ LockCache(t) \/ LockBuffer(t)

Fairness ==
  /\ \A t \in Adders : WF_vars(Alive /\ AddStore(t))
  /\ \A t \in Threads : /\ SF_vars(Alive /\ TakesLock(t))
                        /\ WF_vars(Alive /\ FlushStep(t))
  /\ WF_vars(Alive /\ Tick)
  /\ SF_vars(Alive /\ TickerExit)
  /\ WF_vars(Alive /\ (CloseWait \/ CloseSender))
  /\ SF_vars(Alive /\ (LoopTestCache \/ LoopTestBuffer))

FairSpec == Spec /\ Fairness
-----------------------------------------------------------------------------
Sending == {"move", "moved", "reset", "send", "pop", "popped"}
FlushLabels == {"lockCache", "lockBuffer"} \cup Sending
FlushAllLabels == {"loop", "loopBuffer"} \cup Sending
AdderLabels == {"idle", "store", "checkBuffer", "checkCache"} \cup FlushLabels
TickerLabels == {"idle", "done"} \cup FlushLabels
CloserLabels == {"idle", "wait", "closeSender", "done", "failed", "crashed"}
                  \cup FlushAllLabels
AllLabels == AdderLabels \cup TickerLabels \cup CloserLabels

Labels(t) == IF t = Closer THEN CloserLabels
             ELSE IF t = Ticker THEN TickerLabels ELSE AdderLabels

(* Every variable has its type; a thread only reaches the labels of its    *)
(* own code, in particular only the Closer can bring the process down.     *)
PcOK == /\ pc \in [Threads -> AllLabels]
        /\ \A t \in Threads : pc[t] \in Labels(t)

DataOK ==
  /\ buffer \in Seq(Records)
  /\ cacheBuffer \in Seq(Seq(Records))
  /\ bufferMutex \in Threads \cup {NoOne}
  /\ cacheMutex \in Threads \cup {NoOne}
  /\ reg \in [Threads -> [cache : Seq(Seq(Records)), buf : Seq(Records)]]
  /\ closed \in BOOLEAN
  /\ senderClosed \in BOOLEAN
  /\ added \in Seq(Records)
  /\ sent \in Seq(Records)
  /\ refused \subseteq Records

TypeOK == PcOK /\ DataOK

(* The unlocked FlushAll has not begun, or nobody is left to race with it. *)
RaceFree == ~LateAdds \/ pc[Closer] \in {"idle", "wait"}

(* The locks are held by exactly the threads inside the critical sections, *)
(* also after Send panicked under them.                                    *)
HoldsCache(t) == pc[t] \in {"lockBuffer", "move", "moved", "reset", "send",
                            "pop", "popped"}
HoldsBuffer(t) == pc[t] \in {"store", "move", "moved", "reset", "send", "pop",
                             "popped"}
LocksFollowProgram ==
  \A t \in Threads \ {Closer} : /\ cacheMutex = t <=> HoldsCache(t)
                                /\ bufferMutex = t <=> HoldsBuffer(t)

(* What is still to be sent: between the move and the reset the buffer's   *)
(* records are in the cache already, between the Send and the pop those of *)
(* the cache are sent already.                                             *)
At(l) == \E t \in Threads : pc[t] = l
InBuffer == IF At("reset") THEN <<>> ELSE buffer
InCache == IF At("pop") \/ At("popped") \/ At("failed") \/ cacheBuffer = <<>>
             THEN <<>> ELSE Head(cacheBuffer)

(* No record is lost, sent twice or sent out of order: what was added is   *)
(* what was sent, then what waits in the cache, then what waits in the     *)
(* buffer (the cache holds one batch at most).                             *)
InOrder == RaceFree => added = sent \o InCache \o InBuffer

(* A buffer that reached the batch size has somebody who is going to flush *)
(* it: an Add that found it full, or has not looked yet, or its Flush.     *)
WillFlush(t) == pc[t] \in {"checkBuffer", "lockCache", "lockBuffer", "move",
                           "moved", "reset"}
NoStrandedFullBuffer ==
  Len(buffer) >= BatchSize => \E t \in Adders : WillFlush(t)

(* Add appends before anyone flushes, so a batch may exceed the batch      *)
(* size, but only by the adders that got in before the flush.              *)
LongestBatch == BatchSize - 1 + Cardinality(Adders)
BatchBounded ==
  RaceFree => /\ Len(buffer) <= LongestBatch
              /\ \A b \in Range(cacheBuffer) : Len(b) <= LongestBatch

(* Whenever no flush is under way the cache is empty: it never fills up to *)
(* its capacity, and Add's second condition never holds.                   *)
CacheEmptyBetweenFlushes ==
  RaceFree /\ cacheMutex = NoOne /\ pc[Closer] \notin FlushAllLabels \cup {"failed"}
    => cacheBuffer = <<>>

(* When Close has returned without an error, everything was sent. *)
DrainedByClose == ~LateAdds /\ pc[Closer] = "done" => sent = added

(* The stage is an ordered, exactly-once buffer, as long as nobody adds    *)
(* while FlushAll runs.                                                    *)
OD == INSTANCE OrderedDelivery WITH accepted <- added, delivered <- sent
ImplementsOrderedDelivery == OD!Spec

(* A record in a full buffer is handed to the sender in the end. *)
FullBufferSent ==
  \A r \in Records :
    Len(buffer) >= BatchSize /\ r \in Range(buffer) ~> r \in Range(sent)

(* Close returns: the auto-flush goroutine ends and FlushAll drains. *)
CloseReturns == pc[Closer] = "wait" ~> pc[Closer] \in {"done", "failed"}
-----------------------------------------------------------------------------
(* What a comment says, and the code does not do.                          *)

(* consumer_batch.go:99: FlushAll goes on until the end, when nothing is   *)
(* left in the cache.                                                      *)
FlushAllEnds == pc[Closer] = "loop" ~> pc[Closer] \notin FlushAllLabels
=============================================================================
