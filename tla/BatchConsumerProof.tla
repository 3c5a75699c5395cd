------------------------- MODULE BatchConsumerProof -------------------------
(* Proofs about BatchConsumer, for every number of adders and every size.  *)
EXTENDS BatchConsumer, TLAPS, SequenceTheorems, FiniteSetTheorems

USE DEF buffers, locks, flags, history

LEMMA BatchSizePositive == BatchSize \in Nat \ {0}
BY SizeAssumption DEF BatchSize

LEMMA RangeIsSubset ==
  ASSUME NEW S, NEW s \in Seq(S)
  PROVE  Range(s) \subseteq S
BY RangeOfSeq

LEMMA LabelsAreLabels ==
  ASSUME NEW t \in Threads
  PROVE  Labels(t) \subseteq AllLabels
BY DEF Labels, AllLabels

LEMMA GotoKeepsPc ==
  ASSUME PcOK, NEW t \in Threads, NEW l \in Labels(t), Goto(t, l)
  PROVE  PcOK'
<1>1. l \in AllLabels
  BY LabelsAreLabels
<1>2. pc' = [pc EXCEPT ![t] = l]
  BY DEF Goto
<1> QED
  BY <1>1, <1>2 DEF PcOK, Labels

(* The labels a thread jumps to in Flush or FlushAll are its own. *)
LEMMA FlushTargets ==
  ASSUME NEW t \in Threads
  PROVE  /\ {"send", "pop", "popped", "moved", "reset"} \subseteq Labels(t)
         /\ ReturnLabel(t) \in Labels(t)
         /\ PanicLabel(t) \in Labels(t)
         /\ t # Closer => {"idle", "lockBuffer", "move"} \subseteq Labels(t)
BY ThreadsAssumption DEF Labels, AdderLabels, TickerLabels, CloserLabels, FlushLabels,
       FlushAllLabels, Sending, ReturnLabel, PanicLabel

LEMMA LockLabels ==
  ASSUME PcOK, NEW t \in Threads, pc[t] \in {"lockCache", "lockBuffer"}
  PROVE  t # Closer
BY DEF PcOK, Labels, CloserLabels, FlushAllLabels, Sending

LEMMA FlushKeepsPc ==
  ASSUME PcOK, NEW t \in Threads, FlushStep(t)
  PROVE  PcOK'
<1>1. ASSUME NEW l \in Labels(t), Goto(t, l)
      PROVE  PcOK'
  BY <1>1, GotoKeepsPc
<1> HIDE DEF Goto
<1>2. CASE LockCache(t)
  BY <1>1, <1>2, FlushTargets, LockLabels DEF LockCache
<1>3. CASE LockBuffer(t)
  BY <1>1, <1>3, FlushTargets, LockLabels DEF LockBuffer
<1>4. CASE MoveLoad(t)
  BY <1>1, <1>4, FlushTargets DEF MoveLoad
<1>5. CASE MoveStore(t)
  BY <1>1, <1>5, FlushTargets DEF MoveStore
<1>6. CASE Reset(t)
  BY <1>1, <1>6, FlushTargets DEF Reset
<1>7. CASE SendOk(t)
  BY <1>1, <1>7, FlushTargets DEF SendOk
<1>8. CASE SendError(t)
  <2>1. t = Closer => "failed" \in Labels(t)
    BY DEF Labels, CloserLabels
  <2> QED
    BY <1>1, <1>8, <2>1, FlushTargets DEF SendError
<1>9. CASE SendPanic(t)
  BY <1>1, <1>9, FlushTargets DEF SendPanic
<1>10. CASE PopLoad(t)
  BY <1>1, <1>10, FlushTargets DEF PopLoad
<1>11. CASE PopStore(t)
  BY <1>1, <1>11, FlushTargets DEF PopStore
<1> QED
  BY <1>2, <1>3, <1>4, <1>5, <1>6, <1>7, <1>8, <1>9, <1>10, <1>11 DEF FlushStep

LEMMA FlushKeepsData ==
  ASSUME DataOK, NEW t \in Threads, FlushStep(t)
  PROVE  DataOK'
<1> USE DEF DataOK
<1>1. (\E u \in Threads : bufferMutex' = u) \/ bufferMutex' \in {bufferMutex, NoOne}
  BY DEF FlushStep, LockCache, LockBuffer, MoveLoad, MoveStore, Reset, SendOk,
         SendError, SendPanic, PopLoad, PopStore, Unlock
<1>2. (\E u \in Threads : cacheMutex' = u) \/ cacheMutex' \in {cacheMutex, NoOne}
  BY DEF FlushStep, LockCache, LockBuffer, MoveLoad, MoveStore, Reset, SendOk,
         SendError, SendPanic, PopLoad, PopStore, Unlock
<1>3. CASE LockCache(t) \/ LockBuffer(t)
  BY <1>1, <1>2, <1>3 DEF LockCache, LockBuffer
<1>4. CASE MoveLoad(t)
  BY <1>1, <1>2, <1>4 DEF MoveLoad
<1>5. CASE MoveStore(t)
  <2>1. cacheBuffer' \in Seq(Seq(Records))
    BY <1>5 DEF MoveStore
  <2> QED
    BY <1>1, <1>2, <1>5, <2>1 DEF MoveStore, Blank
<1>6. CASE Reset(t)
  BY <1>1, <1>2, <1>6 DEF Reset
<1>7. CASE SendOk(t) \/ SendError(t)
  <2>1. Head(cacheBuffer) \in Seq(Records)
    BY <1>7 DEF SendOk, SendError, SendPanics
  <2>2. Range(Head(cacheBuffer)) \subseteq Records
    BY <2>1, RangeIsSubset
  <2>3. sent' = sent \o Head(cacheBuffer)
    BY <1>7 DEF SendOk, SendError
  <2>4. sent' \in Seq(Records)
    BY <2>1, <2>3
  <2>5. refused' \in {refused, refused \cup Range(Head(cacheBuffer))}
    BY <1>7 DEF SendOk, SendError
  <2>6. refused' \subseteq Records
    BY <2>2, <2>5
  <2> QED
    BY <1>7, <2>4, <2>6 DEF SendOk, SendError
<1>8. CASE SendPanic(t)
  BY <1>1, <1>2, <1>8 DEF SendPanic
<1>9. CASE PopLoad(t)
  <2>1. cacheBuffer # <<>> => Tail(cacheBuffer) \in Seq(Seq(Records))
    OBVIOUS
  <2>2. reg[t] \in [cache : Seq(Seq(Records)), buf : Seq(Records)]
    OBVIOUS
  <2>3. cacheBuffer # <<>> => [reg[t] EXCEPT !.cache = Tail(cacheBuffer)] \in
                                 [cache : Seq(Seq(Records)), buf : Seq(Records)]
    BY <2>1, <2>2
  <2>4. reg' \in [Threads -> [cache : Seq(Seq(Records)), buf : Seq(Records)]]
    BY <1>9, <2>3 DEF PopLoad
  <2> QED
    BY <1>1, <1>2, <1>9, <2>4 DEF PopLoad
<1>10. CASE PopStore(t)
  BY <1>1, <1>2, <1>10 DEF PopStore, Blank
<1> QED
  BY <1>3, <1>4, <1>5, <1>6, <1>7, <1>8, <1>9, <1>10 DEF FlushStep

LEMMA AdderKeepsTypes ==
  ASSUME TypeOK, NEW t \in Adders, AdderStep(t)
  PROVE  TypeOK'
<1>1. t \in Threads /\ {"store", "checkBuffer", "lockCache", "checkCache", "idle"} \subseteq Labels(t)
  BY ThreadsAssumption DEF Threads, Labels, AdderLabels, TickerLabels, FlushLabels, Sending
<1>2. ASSUME NEW l \in Labels(t), Goto(t, l)
      PROVE  PcOK'
  BY <1>1, <1>2, GotoKeepsPc DEF TypeOK
<1>3. PcOK'
  BY <1>1, <1>2 DEF AdderStep, AddLoad, AddStore, CheckBuffer, CheckCache
<1>4. DataOK'
  <2> USE <1>1 DEF TypeOK, DataOK
  <2>1. CASE AddLoad(t)
    BY <2>1 DEF AddLoad
  <2>2. CASE AddStore(t)
    BY <2>2 DEF AddStore, Blank
  <2>3. CASE CheckBuffer(t) \/ CheckCache(t)
    BY <2>3 DEF CheckBuffer, CheckCache
  <2> QED
    BY <2>1, <2>2, <2>3 DEF AdderStep
<1> QED
  BY <1>3, <1>4 DEF TypeOK

LEMMA TickerKeepsTypes == TypeOK /\ TickerStep => TypeOK'
<1> SUFFICES ASSUME TypeOK, TickerStep
             PROVE  TypeOK'
  OBVIOUS
<1>1. Ticker \in Threads /\ {"lockCache", "done"} \subseteq Labels(Ticker)
  BY ThreadsAssumption DEF Threads, Labels, AdderLabels, TickerLabels, FlushLabels, Sending
<1>2. PcOK'
  BY <1>1, GotoKeepsPc DEF TickerStep, Tick, TickerExit, TypeOK
<1>3. DataOK'
  BY DEF TickerStep, Tick, TickerExit, TypeOK, DataOK
<1> QED
  BY <1>2, <1>3 DEF TypeOK

LEMMA CloserKeepsTypes == TypeOK /\ CloserStep => TypeOK'
<1> SUFFICES ASSUME TypeOK, CloserStep
             PROVE  TypeOK'
  OBVIOUS
<1>1. /\ Closer \in Threads
      /\ {"wait", "loop", "move", "loopBuffer", "closeSender", "done"} \subseteq Labels(Closer)
  BY DEF Threads, Labels, CloserLabels, FlushAllLabels, Sending
<1>2. PcOK'
  BY <1>1, GotoKeepsPc
  DEF CloserStep, CloseStart, CloseWait, LoopTestCache, LoopTestBuffer,
      CloseSender, TypeOK
<1>3. DataOK'
  BY SwitchAssumption
  DEF CloserStep, CloseStart, CloseWait, LoopTestCache, LoopTestBuffer,
      CloseSender, TypeOK, DataOK
<1> QED
  BY <1>2, <1>3 DEF TypeOK

LEMMA TypesKept == TypeOK /\ [Next]_vars => TypeOK'
<1> SUFFICES ASSUME TypeOK, [Next]_vars
             PROVE  TypeOK'
  OBVIOUS
<1>1. ASSUME NEW t \in Threads, FlushStep(t)
      PROVE  TypeOK'
  BY <1>1, FlushKeepsPc, FlushKeepsData DEF TypeOK
<1>2. ASSUME UNCHANGED vars
      PROVE  TypeOK'
  BY <1>2 DEF TypeOK, PcOK, DataOK, vars
<1> QED
  BY <1>1, <1>2, AdderKeepsTypes, TickerKeepsTypes, CloserKeepsTypes DEF Next, Stopped

LEMMA InitTypes == Init => TypeOK
<1> SUFFICES ASSUME Init PROVE TypeOK
  OBVIOUS
<1>1. PcOK
  BY ThreadsAssumption DEF Init, PcOK, Threads, Labels, AllLabels, AdderLabels,
         TickerLabels, CloserLabels
<1>2. Blank \in [cache : Seq(Seq(Records)), buf : Seq(Records)]
  BY DEF Blank
<1>3. DataOK
  <2>1. reg \in [Threads -> [cache : Seq(Seq(Records)), buf : Seq(Records)]]
    BY <1>2 DEF Init
  <2>2. <<>> \in Seq(Records) /\ <<>> \in Seq(Seq(Records))
    OBVIOUS
  <2>3. {} \subseteq Records
    OBVIOUS
  <2> QED
    BY <2>1, <2>2, <2>3, Zenon DEF Init, DataOK
<1> QED
  BY <1>1, <1>3 DEF TypeOK

(* Every reachable state is well typed, and no thread leaves its own code; *)
(* only Close can end in a crash of the process.                           *)
THEOREM TypeCorrect == Spec => []TypeOK
BY InitTypes, TypesKept, PTL DEF Spec
-----------------------------------------------------------------------------
(* The locks.  They hold whatever races: the Closer never takes one.       *)

LEMMA FlushKeepsLocks ==
  ASSUME TypeOK, LocksFollowProgram, NEW t \in Threads, FlushStep(t)
  PROVE  LocksFollowProgram'
<1> USE ThreadsAssumption DEF LocksFollowProgram, HoldsCache, HoldsBuffer, Goto
<1>0. pc \in [Threads -> AllLabels] /\ NoOne \notin Threads
  BY DEF TypeOK, PcOK
<1>1. CASE LockCache(t)
  BY <1>0, <1>1, LockLabels DEF LockCache, TypeOK
<1>2. CASE LockBuffer(t)
  BY <1>0, <1>2, LockLabels DEF LockBuffer, TypeOK
<1>3. CASE MoveLoad(t) \/ MoveStore(t) \/ SendOk(t)
  BY <1>0, <1>3 DEF MoveLoad, MoveStore, SendOk
<1>4. CASE Reset(t)
  BY <1>0, <1>4 DEF Reset, Unlock
<1>5. CASE SendError(t)
  BY <1>0, <1>5 DEF SendError
<1>6. CASE SendPanic(t)
  BY <1>0, <1>6 DEF SendPanic, PanicLabel, Unlock
<1>7. CASE PopLoad(t) \/ PopStore(t)
  BY <1>0, <1>7 DEF PopLoad, PopStore, ReturnLabel, Unlock
<1> QED
  BY <1>1, <1>2, <1>3, <1>4, <1>5, <1>6, <1>7 DEF FlushStep

LEMMA LocksKept == TypeOK /\ LocksFollowProgram /\ [Next]_vars => LocksFollowProgram'
<1> SUFFICES ASSUME TypeOK, LocksFollowProgram, [Next]_vars
             PROVE  LocksFollowProgram'
  OBVIOUS
<1>0. pc \in [Threads -> AllLabels] /\ NoOne \notin Threads
  BY ThreadsAssumption DEF TypeOK, PcOK
<1>1. ASSUME NEW t \in Adders, AdderStep(t)
      PROVE  LocksFollowProgram'
  <2>1. t \in Threads \ {Closer}
    BY ThreadsAssumption DEF Threads
  <2> QED
    BY <1>0, <1>1, <2>1
    DEF LocksFollowProgram, HoldsCache, HoldsBuffer, Goto, AdderStep, AddLoad,
        AddStore, CheckBuffer, CheckCache
<1>2. ASSUME NEW t \in Threads, FlushStep(t)
      PROVE  LocksFollowProgram'
  BY <1>2, FlushKeepsLocks
<1>3. CASE TickerStep
  BY <1>0, <1>3
  DEF LocksFollowProgram, HoldsCache, HoldsBuffer, Goto, TickerStep, Tick,
      TickerExit
<1>4. CASE CloserStep
  BY <1>0, <1>4
  DEF LocksFollowProgram, HoldsCache, HoldsBuffer, Goto, CloserStep, CloseStart,
      CloseWait, LoopTestCache, LoopTestBuffer, CloseSender
<1>5. CASE UNCHANGED vars
  BY <1>5 DEF LocksFollowProgram, HoldsCache, HoldsBuffer, vars
<1> QED
  BY <1>1, <1>2, <1>3, <1>4, <1>5 DEF Next, Stopped

LEMMA InitLocks == Init => LocksFollowProgram
BY ThreadsAssumption DEF Init, LocksFollowProgram, HoldsCache, HoldsBuffer, Threads

(* The two mutexes are held exactly inside their critical sections, whoever *)
(* panics and whatever races: no panic in Send leaves the consumer locked.  *)
THEOREM LocksCorrect == Spec => []LocksFollowProgram
BY InitLocks, TypeCorrect, LocksKept, PTL DEF Spec
-----------------------------------------------------------------------------
(* A full buffer always has somebody who is going to flush it.             *)

LEMMA StrandedKept ==
  TypeOK /\ NoStrandedFullBuffer /\ [Next]_vars => NoStrandedFullBuffer'
<1> SUFFICES ASSUME TypeOK, NoStrandedFullBuffer, [Next]_vars
             PROVE  NoStrandedFullBuffer'
  OBVIOUS
<1> USE DEF NoStrandedFullBuffer, WillFlush
<1>0. pc \in [Threads -> AllLabels] /\ Adders \subseteq Threads /\ BatchSize \in Nat \ {0}
  BY BatchSizePositive DEF TypeOK, PcOK, Threads
<1>1. ASSUME NEW t \in Adders, AdderStep(t)
      PROVE  NoStrandedFullBuffer'
  <2>1. CASE AddStore(t)
    <3>1. pc'[t] = "checkBuffer"
      BY <1>0, <2>1 DEF AddStore, Goto
    <3> QED
      BY <3>1
  <2>2. CASE CheckBuffer(t)
    BY <1>0, <2>2 DEF CheckBuffer, Goto
  <2>3. CASE AddLoad(t) \/ CheckCache(t)
    BY <1>0, <2>3 DEF AddLoad, CheckCache, Goto
  <2> QED
    BY <1>1, <2>1, <2>2, <2>3 DEF AdderStep
<1>2. ASSUME NEW t \in Threads, FlushStep(t)
      PROVE  NoStrandedFullBuffer'
  <2>1. CASE LockBuffer(t)
    BY <1>0, <2>1 DEF LockBuffer, Goto
  <2>2. CASE Reset(t)
    <3>1. Len(buffer') = 0
      BY <2>2 DEF Reset
    <3> QED
      BY <1>0, <3>1
  <2>3. CASE LockCache(t) \/ MoveLoad(t) \/ MoveStore(t)
    BY <1>0, <2>3 DEF LockCache, MoveLoad, MoveStore, Goto
  <2>4. CASE SendOk(t) \/ SendError(t) \/ SendPanic(t) \/ PopLoad(t) \/ PopStore(t)
    BY <1>0, <2>4 DEF SendOk, SendError, SendPanic, PopLoad, PopStore, Goto
  <2> QED
    BY <1>2, <2>1, <2>2, <2>3, <2>4 DEF FlushStep
<1>3. CASE TickerStep
  BY <1>0, <1>3, ThreadsAssumption DEF TickerStep, Tick, TickerExit, Goto
<1>4. CASE CloserStep
  BY <1>0, <1>4, ThreadsAssumption
  DEF CloserStep, CloseStart, CloseWait, LoopTestCache, LoopTestBuffer, CloseSender, Goto
<1>5. CASE UNCHANGED vars
  BY <1>5 DEF vars
<1> QED
  BY <1>1, <1>2, <1>3, <1>4, <1>5 DEF Next, Stopped

(* A buffer of batch size or more is about to be flushed by the Add that   *)
(* filled it, in every interleaving, the races with FlushAll included.     *)
THEOREM FullBufferIsFlushed == Spec => []NoStrandedFullBuffer
<1>1. Init => NoStrandedFullBuffer
  BY BatchSizePositive DEF Init, NoStrandedFullBuffer
<1> QED
  BY <1>1, TypeCorrect, StrandedKept, PTL DEF Spec
-----------------------------------------------------------------------------
(* The inductive invariant behind InOrder.  While nothing races with       *)
(* FlushAll, at most one thread is between its first and last access to    *)
(* the buffers (Alone), and what it has loaded is what is there (Stage).   *)

Quiet == /\ pc[Closer] \notin {"idle", "wait"} => pc[Ticker] = "done"
         /\ ~LateAdds /\ pc[Closer] # "idle" => AddersIdle
         /\ senderClosed => pc[Closer] = "done"

Active == Sending \cup {"store", "failed"}

Alone == \A s, t \in Threads : pc[s] \in Active /\ pc[t] \in Active => s = t

(* The labels at which a thread has put a batch into the cache. *)
Hot == {"reset", "send", "pop", "popped", "failed"}
Cold == \A t \in Threads : pc[t] \notin Hot

Stage(t) ==
  /\ pc[t] = "store" => reg[t].buf = buffer
  /\ pc[t] = "moved" => reg[t].cache = cacheBuffer /\ reg[t].buf = buffer
  /\ pc[t] = "reset" => cacheBuffer = <<buffer>> /\ added = sent \o buffer
  /\ pc[t] = "send" => \E b \in Seq(Records) :
       cacheBuffer = <<b>> /\ added = (sent \o b) \o buffer
  /\ pc[t] \in {"pop", "popped", "failed"} => \E b \in Seq(Records) :
       cacheBuffer = <<b>> /\ added = sent \o buffer
  /\ pc[t] = "popped" => reg[t].cache = <<>>

Stages == /\ Cold => cacheBuffer = <<>> /\ added = sent \o buffer
          /\ \A t \in Threads : Stage(t)
          /\ pc[Closer] \in {"closeSender", "done"} /\ ~LateAdds => buffer = <<>>

IInv == TypeOK /\ LocksFollowProgram /\ Quiet /\ (RaceFree => Stages)

LEMMA QuietKept == TypeOK /\ Quiet /\ [Next]_vars => Quiet'
<1> SUFFICES ASSUME TypeOK, Quiet, [Next]_vars
             PROVE  Quiet'
  OBVIOUS
<1> USE ThreadsAssumption DEF Quiet, AddersIdle, Goto
<1>0. pc \in [Threads -> AllLabels] /\ Adders \subseteq Threads
      /\ Ticker \in Threads /\ Closer \in Threads
  BY DEF TypeOK, PcOK, Threads
<1>1. ASSUME NEW t \in Adders, AdderStep(t)
      PROVE  Quiet'
  BY <1>0, <1>1 DEF AdderStep, AddLoad, AddStore, CheckBuffer, CheckCache
<1>2. ASSUME NEW t \in Threads, FlushStep(t)
      PROVE  Quiet'
  <2>1. pc[t] \in FlushLabels
    BY <1>2 DEF FlushStep, LockCache, LockBuffer, MoveLoad, MoveStore, Reset,
       SendOk, SendError, SendPanic, PopLoad, PopStore, FlushLabels, Sending
  <2>2. senderClosed' = senderClosed
    BY <1>2 DEF FlushStep, LockCache, LockBuffer, MoveLoad, MoveStore, Reset,
       SendOk, SendError, SendPanic, PopLoad, PopStore
  <2>3. \E l \in AllLabels : pc' = [pc EXCEPT ![t] = l]
    <3>1. PcOK'
      BY <1>2, FlushKeepsPc DEF TypeOK
    <3>2. \E l : pc' = [pc EXCEPT ![t] = l]
      BY <1>2 DEF FlushStep, LockCache, LockBuffer, MoveLoad, MoveStore, Reset,
         SendOk, SendError, SendPanic, PopLoad, PopStore
    <3> QED
      BY <1>0, <3>1, <3>2 DEF PcOK
  <2>4. t = Closer => pc[t] \notin {"idle", "wait", "done"}
    BY <2>1 DEF FlushLabels, Sending
  <2>5. t # Closer => pc[t] \notin {"idle", "done"}
    BY <2>1 DEF FlushLabels, Sending
  <2> QED
    BY <1>0, <2>2, <2>3, <2>4, <2>5
<1>3. CASE TickerStep
  BY <1>0, <1>3 DEF TickerStep, Tick, TickerExit
<1>4. CASE CloserStep
  BY <1>0, <1>4
  DEF CloserStep, CloseStart, CloseWait, LoopTestCache, LoopTestBuffer, CloseSender
<1>5. CASE UNCHANGED vars
  BY <1>5 DEF vars
<1> QED
  BY <1>1, <1>2, <1>3, <1>4, <1>5 DEF Next, Stopped

LEMMA AloneHolds == TypeOK /\ LocksFollowProgram /\ Quiet /\ RaceFree => Alone
<1> SUFFICES ASSUME TypeOK, LocksFollowProgram, Quiet, RaceFree,
                    NEW s \in Threads, NEW t \in Threads,
                    pc[s] \in Active, pc[t] \in Active
             PROVE  s = t
  BY DEF Alone
<1>1. CASE s # Closer /\ t # Closer
  <2>1. pc[s] # "failed" /\ pc[t] # "failed"
    BY <1>1 DEF TypeOK, PcOK, Labels, AdderLabels, TickerLabels, FlushLabels, Sending
  <2>2. HoldsBuffer(s) /\ HoldsBuffer(t)
    BY <2>1 DEF HoldsBuffer, Active, Sending
  <2> QED
    BY <1>1, <2>2 DEF LocksFollowProgram
<1>2. ASSUME NEW u \in Threads, pc[Closer] \in Active, pc[u] \in Active
      PROVE  u = Closer
  <2>1. ~LateAdds /\ pc[Closer] \notin {"idle", "wait"}
    BY <1>2 DEF RaceFree, Active, Sending
  <2>2. AddersIdle /\ pc[Ticker] = "done"
    BY <2>1 DEF Quiet
  <2> QED
    BY <1>2, <2>2 DEF AddersIdle, Threads, Active, Sending
<1> QED
  BY <1>1, <1>2

LEMMA RaceFreeBefore == TypeOK /\ [Next]_vars /\ RaceFree' => RaceFree
<1> SUFFICES ASSUME TypeOK, [Next]_vars, RaceFree', LateAdds
             PROVE  pc[Closer] \in {"idle", "wait"}
  BY DEF RaceFree
<1> USE ThreadsAssumption DEF Goto
<1>0. pc \in [Threads -> AllLabels] /\ pc'[Closer] \in {"idle", "wait"} /\ Closer \in Threads
  BY DEF TypeOK, PcOK, RaceFree, Threads
<1>1. ASSUME NEW t \in Adders, AdderStep(t)
      PROVE  pc[Closer] \in {"idle", "wait"}
  BY <1>0, <1>1 DEF AdderStep, AddLoad, AddStore, CheckBuffer, CheckCache
<1>2. ASSUME NEW t \in Threads, FlushStep(t)
      PROVE  pc[Closer] \in {"idle", "wait"}
  BY <1>0, <1>2, LockLabels
  DEF FlushStep, LockCache, LockBuffer, MoveLoad, MoveStore, Reset,
      SendOk, SendError, SendPanic, PopLoad, PopStore, ReturnLabel, PanicLabel, TypeOK
<1>3. CASE TickerStep
  BY <1>0, <1>3 DEF TickerStep, Tick, TickerExit
<1>4. CASE CloserStep
  BY <1>0, <1>4
  DEF CloserStep, CloseStart, CloseWait, LoopTestCache, LoopTestBuffer, CloseSender
<1>5. CASE UNCHANGED vars
  BY <1>0, <1>5 DEF vars
<1> QED
  BY <1>1, <1>2, <1>3, <1>4, <1>5 DEF Next, Stopped
-----------------------------------------------------------------------------
(* A step of t, the only thread that may be active, leaves the Stage of    *)
(* every other thread alone; what remains is its own.                      *)
LEMMA OwnStage ==
  ASSUME NEW t \in Threads, NEW l, TypeOK, Alone', pc' = [pc EXCEPT ![t] = l],
         l \in Active, Stage(t)'
  PROVE  \A s \in Threads : Stage(s)'
<1> SUFFICES ASSUME NEW s \in Threads, s # t
             PROVE  Stage(s)'
  OBVIOUS
<1>1. pc'[s] \notin Active
  BY DEF Alone, TypeOK, PcOK
<1> QED
  BY <1>1 DEF Stage, Active, Sending

(* As OwnStage, for a thread that was active and no longer is. *)
LEMMA NoStage ==
  ASSUME NEW t \in Threads, NEW l, TypeOK, Alone, pc' = [pc EXCEPT ![t] = l],
         pc[t] \in Active, l \notin Active
  PROVE  /\ \A s \in Threads : Stage(s)'
         /\ Cold'
<1> SUFFICES ASSUME NEW s \in Threads
             PROVE  Stage(s)' /\ pc'[s] \notin Hot
  BY DEF Cold
<1>1. pc'[s] \notin Active
  BY DEF Alone, TypeOK, PcOK
<1> QED
  BY <1>1 DEF Stage, Active, Sending, Hot

(* If the only active thread is not hot, nobody is. *)
LEMMA ColdWhenAlone ==
  ASSUME NEW t \in Threads, Alone, pc[t] \in Active \ Hot
  PROVE  Cold
BY DEF Alone, Cold, Hot, Active, Sending

LEMMA NotCold ==
  ASSUME NEW t \in Threads, TypeOK, NEW l \in Hot, pc' = [pc EXCEPT ![t] = l]
  PROVE  ~Cold'
BY DEF Cold, TypeOK, PcOK

LEMMA ConcatFacts ==
  ASSUME NEW S, NEW a \in Seq(S), NEW b \in Seq(S), NEW c \in Seq(S)
  PROVE  /\ (a \o b) \o c = a \o (b \o c)
         /\ a \o <<>> = a /\ <<>> \o a = a
BY ConcatAssociative, ConcatEmptySeq

LEMMA AppendConcat ==
  ASSUME NEW S, NEW a \in Seq(S), NEW b \in Seq(S), NEW e \in S
  PROVE  a \o Append(b, e) = Append(a \o b, e)
<1>1. Append(b, e) = b \o <<e>> /\ Append(a \o b, e) = (a \o b) \o <<e>>
  BY AppendIsConcat, ConcatProperties
<1>2. <<e>> \in Seq(S)
  OBVIOUS
<1> QED
  BY <1>1, <1>2, ConcatAssociative

(* The steps of a flush, one lemma each. *)
LEMMA MoveStages ==
  ASSUME IInv, NEW t \in Threads, RaceFree, Stages, Alone, Alone',
         MoveLoad(t) \/ MoveStore(t)
  PROVE  Stages'
<1> USE DEF IInv
<1>0. t \in Threads /\ pc \in [Threads -> AllLabels] /\ Stage(t)
      /\ buffer \in Seq(Records) /\ reg \in [Threads -> [cache : Seq(Seq(Records)), buf : Seq(Records)]]
  BY DEF Stages, TypeOK, PcOK, DataOK
<1>1. Cold /\ cacheBuffer = <<>> /\ added = sent \o buffer
  BY ColdWhenAlone DEF MoveLoad, MoveStore, Active, Hot, Sending, Stages
<1>2. CASE MoveLoad(t)
  <2>1. pc' = [pc EXCEPT ![t] = "moved"] /\ "moved" \in Active \ Hot
    BY <1>2 DEF MoveLoad, Goto, Active, Hot, Sending
  <2>2. Cold'
    BY <1>0, <1>1, <2>1 DEF Cold
  <2>3. Stage(t)'
    BY <1>0, <1>2, <2>1 DEF MoveLoad, Stage
  <2>4. \A s \in Threads : Stage(s)'
    BY <2>1, <2>3, OwnStage
  <2> QED
    BY <1>0, <1>1, <1>2, <2>1, <2>2, <2>4 DEF Stages, MoveLoad
<1>3. CASE MoveStore(t)
  <2>1. pc' = [pc EXCEPT ![t] = "reset"] /\ "reset" \in Active /\ "reset" \in Hot
    BY <1>3 DEF MoveStore, Goto, Active, Hot, Sending
  <2>2. ~Cold'
    BY <2>1, NotCold
  <2>3. cacheBuffer' = <<buffer>> /\ buffer' = buffer
    <3>1. reg[t].cache = <<>> /\ reg[t].buf = buffer
      BY <1>0, <1>1, <1>3 DEF MoveStore, Stage
    <3> QED
      BY <1>0, <1>3, <3>1 DEF MoveStore
  <2>4. Stage(t)'
    BY <1>0, <1>1, <1>3, <2>1, <2>3 DEF MoveStore, Stage
  <2>5. \A s \in Threads : Stage(s)'
    BY <2>1, <2>4, OwnStage
  <2> QED
    BY <1>0, <2>1, <2>2, <2>3, <2>5 DEF Stages
<1> QED
  BY <1>2, <1>3

LEMMA ResetStages ==
  ASSUME IInv, NEW t \in Threads, RaceFree, Stages, Alone, Alone', Reset(t)
  PROVE  Stages'
<1> USE DEF IInv
<1>0. pc \in [Threads -> AllLabels] /\ Stage(t) /\ pc[t] = "reset"
      /\ buffer \in Seq(Records) /\ sent \in Seq(Records)
  BY DEF Stages, TypeOK, PcOK, DataOK, Reset
<1>1. cacheBuffer = <<buffer>> /\ added = sent \o buffer
  BY <1>0 DEF Stage
<1>2. /\ pc' = [pc EXCEPT ![t] = "send"] /\ "send" \in Active /\ "send" \in Hot
      /\ buffer' = <<>> /\ cacheBuffer' = cacheBuffer /\ added' = added /\ sent' = sent
  BY <1>1 DEF Reset, MustSend, Goto, Active, Hot, Sending
<1>3. ~Cold'
  BY <1>2, NotCold
<1>4. added = (sent \o buffer) \o <<>>
  BY <1>0, <1>1, ConcatFacts, ConcatProperties
<1>5. Stage(t)'
  BY <1>0, <1>1, <1>2, <1>4 DEF Stage
<1>6. \A s \in Threads : Stage(s)'
  BY <1>2, <1>5, OwnStage
<1> QED
  BY <1>0, <1>2, <1>3, <1>6 DEF Stages

LEMMA SendStages ==
  ASSUME IInv, NEW t \in Threads, RaceFree, Stages, Alone, Alone',
         SendOk(t) \/ SendError(t)
  PROVE  Stages'
<1> USE DEF IInv
<1>0. pc \in [Threads -> AllLabels] /\ Stage(t) /\ pc[t] = "send"
      /\ buffer \in Seq(Records) /\ sent \in Seq(Records)
  BY DEF Stages, TypeOK, PcOK, DataOK, SendOk, SendError
<1>1. PICK b \in Seq(Records) : cacheBuffer = <<b>> /\ added = (sent \o b) \o buffer
  BY <1>0 DEF Stage
<1>2. /\ sent' = sent \o b
      /\ buffer' = buffer /\ cacheBuffer' = cacheBuffer /\ added' = added
  BY <1>1 DEF SendOk, SendError
<1>3. PICK l \in {"pop", "failed"} : pc' = [pc EXCEPT ![t] = l]
  BY DEF SendOk, SendError, Goto
<1>4. l \in Active /\ l \in Hot
  BY DEF Active, Hot, Sending
<1>5. ~Cold'
  BY <1>3, <1>4, NotCold
<1>6. Stage(t)'
  BY <1>0, <1>1, <1>2, <1>3 DEF Stage
<1>7. \A s \in Threads : Stage(s)'
  BY <1>3, <1>4, <1>6, OwnStage
<1>8. t = Closer => pc'[Closer] \in {"pop", "failed"}
  BY <1>0, <1>3
<1>9. t # Closer => pc'[Closer] = pc[Closer]
  BY <1>0, <1>3
<1> QED
  BY <1>2, <1>5, <1>7, <1>8, <1>9 DEF Stages

LEMMA NoPanic ==
  ASSUME IInv, NEW t \in Threads, RaceFree, Stages
  PROVE  ~SendPanic(t)
<1> SUFFICES ASSUME SendPanic(t)
             PROVE  FALSE
  OBVIOUS
<1>1. Stage(t) /\ pc[t] = "send"
  BY DEF Stages, SendPanic
<1>2. cacheBuffer # <<>>
  <2>1. PICK b \in Seq(Records) : cacheBuffer = <<b>>
    BY <1>1 DEF Stage
  <2>2. Len(<<b>>) = 1 /\ Len(<<>>) = 0
    OBVIOUS
  <2> QED
    BY <2>1, <2>2
<1>3. senderClosed
  BY <1>2, Zenon DEF SendPanic, SendPanics
<1>4. pc[Closer] = "done"
  BY <1>3, Zenon DEF IInv, Quiet
<1>5. ~LateAdds /\ AddersIdle /\ pc[Ticker] = "done"
  BY <1>4 DEF RaceFree, IInv, Quiet
<1> QED
  BY <1>1, <1>4, <1>5 DEF AddersIdle, Threads

LEMMA PopStages ==
  ASSUME IInv, NEW t \in Threads, RaceFree, Stages, Alone, Alone',
         PopLoad(t) \/ PopStore(t)
  PROVE  Stages'
<1> USE DEF IInv
<1>0. pc \in [Threads -> AllLabels] /\ Stage(t) /\ pc[t] \in {"pop", "popped"}
      /\ reg \in [Threads -> [cache : Seq(Seq(Records)), buf : Seq(Records)]]
  BY DEF Stages, TypeOK, PcOK, DataOK, PopLoad, PopStore
<1>1. PICK b \in Seq(Records) : cacheBuffer = <<b>> /\ added = sent \o buffer
  BY <1>0 DEF Stage
<1>2. buffer' = buffer /\ added' = added /\ sent' = sent
  BY DEF PopLoad, PopStore
<1>3. CASE PopLoad(t)
  <2>1. /\ pc' = [pc EXCEPT ![t] = "popped"] /\ "popped" \in Active /\ "popped" \in Hot
        /\ cacheBuffer' = cacheBuffer
    BY <1>1, <1>3 DEF PopLoad, Goto, Active, Hot, Sending
  <2>2. reg'[t].cache = <<>>
    BY <1>0, <1>1, <1>3 DEF PopLoad
  <2>3. ~Cold'
    BY <2>1, NotCold
  <2>4. Stage(t)'
    BY <1>0, <1>1, <1>2, <2>1, <2>2 DEF Stage
  <2>5. \A s \in Threads : Stage(s)'
    BY <2>1, <2>4, OwnStage
  <2> QED
    BY <1>0, <1>2, <2>1, <2>3, <2>5 DEF Stages
<1>4. CASE PopStore(t)
  <2>1. PICK l \in {"loop", "idle"} : pc' = [pc EXCEPT ![t] = l]
    BY <1>4 DEF PopStore, Goto, ReturnLabel
  <2>2. l \notin Active /\ pc[t] \in Active
    BY <1>0 DEF Active, Sending
  <2>3. Cold' /\ \A s \in Threads : Stage(s)'
    BY <2>1, <2>2, NoStage
  <2>4. cacheBuffer' = <<>>
    BY <1>0, <1>4 DEF PopStore, Stage
  <2> QED
    BY <1>0, <1>1, <1>2, <2>1, <2>3, <2>4 DEF Stages
<1> QED
  BY <1>3, <1>4

(* A thread that is not active and becomes neither active nor Closer-done. *)
LEMMA IdleStages ==
  ASSUME IInv, NEW t \in Threads, Stages, NEW l, pc' = [pc EXCEPT ![t] = l],
         pc[t] \notin Hot, l \notin Active, l \notin {"closeSender", "done"} \/ t # Closer,
         buffer' = buffer, cacheBuffer' = cacheBuffer, added' = added, sent' = sent,
         reg' = reg
  PROVE  Stages'
<1>0. pc \in [Threads -> AllLabels] /\ Closer \in Threads
  BY DEF IInv, TypeOK, PcOK, Threads
<1>1. Cold' = Cold
  BY <1>0 DEF Cold, Active, Sending, Hot
<1>2. ASSUME NEW s \in Threads
      PROVE  Stage(s)'
  <2>1. CASE s = t
    <3>1. pc'[s] \notin Active
      BY <1>0, <2>1
    <3> QED
      BY <3>1 DEF Stage, Active, Sending
  <2>2. CASE s # t
    <3>1. pc'[s] = pc[s] /\ Stage(s)
      BY <1>0, <2>2 DEF Stages
    <3> QED
      BY <3>1 DEF Stage
  <2> QED
    BY <2>1, <2>2
<1> QED
  BY <1>0, <1>1, <1>2 DEF Stages

LEMMA LockStages ==
  ASSUME IInv, NEW t \in Threads, RaceFree, Stages, Alone', LockCache(t) \/ LockBuffer(t)
  PROVE  Stages'
<1> USE DEF IInv
<1>0. pc \in [Threads -> AllLabels] /\ t # Closer /\ pc[t] \notin Hot
  BY LockLabels DEF TypeOK, PcOK, LockCache, LockBuffer, Hot
<1>1. CASE LockCache(t)
  <2>1. pc' = [pc EXCEPT ![t] = "lockBuffer"] /\ "lockBuffer" \notin Active
    BY <1>1 DEF LockCache, Goto, Active, Sending
  <2> QED
    BY <1>0, <1>1, <2>1, IdleStages DEF LockCache
<1>2. CASE LockBuffer(t)
  <2>1. Cold
    <3>1. ASSUME NEW s \in Threads, pc[s] \in Hot
          PROVE  FALSE
      <4>1. s # t
        BY <1>0, <3>1
      <4>2. s # Closer
        <5>1. ASSUME s = Closer
              PROVE  FALSE
          <6>1. ~LateAdds /\ AddersIdle /\ pc[Ticker] = "done"
            BY <3>1, <5>1 DEF RaceFree, Quiet, Hot
          <6> QED
            BY <1>0, <1>2, <6>1 DEF LockBuffer, AddersIdle, Threads
        <5> QED
          BY <5>1
      <4>3. pc[s] # "failed"
        BY <4>2 DEF TypeOK, PcOK, Labels, AdderLabels, TickerLabels, FlushLabels, Sending
      <4>4. HoldsCache(s) /\ HoldsCache(t)
        BY <1>2, <3>1, <4>3 DEF HoldsCache, LockBuffer, Hot
      <4> QED
        BY <1>0, <4>1, <4>2, <4>4 DEF LocksFollowProgram
    <3> QED
      BY <3>1 DEF Cold
  <2>2. cacheBuffer = <<>> /\ added = sent \o buffer /\ ~MustSend
    BY <2>1, SizeAssumption DEF Stages, MustSend
  <2>3. PICK l \in {"move", "idle"} : pc' = [pc EXCEPT ![t] = l]
    BY <1>2, <2>2 DEF LockBuffer, Goto
  <2>4. Cold'
    BY <1>0, <2>1, <2>3 DEF Cold, Hot
  <2>5. Stage(t)'
    BY <1>0, <2>3 DEF Stage
  <2>6. ASSUME NEW s \in Threads
        PROVE  Stage(s)'
    BY <1>0, <1>2, <2>3, <2>5 DEF Stages, Stage, LockBuffer
  <2> QED
    BY <1>0, <1>2, <2>2, <2>3, <2>4, <2>6 DEF Stages, LockBuffer
<1> QED
  BY <1>1, <1>2

LEMMA AdderStages ==
  ASSUME IInv, NEW t \in Adders, RaceFree, Stages, Alone, Alone', AdderStep(t)
  PROVE  Stages'
<1> USE DEF IInv
<1>0. /\ pc \in [Threads -> AllLabels] /\ t \in Threads /\ t # Closer
      /\ reg \in [Threads -> [cache : Seq(Seq(Records)), buf : Seq(Records)]]
      /\ buffer \in Seq(Records) /\ sent \in Seq(Records)
  BY ThreadsAssumption DEF TypeOK, PcOK, DataOK, Threads
<1>1. CASE AddLoad(t)
  <2>1. /\ pc' = [pc EXCEPT ![t] = "store"] /\ "store" \in Active
        /\ buffer' = buffer /\ cacheBuffer' = cacheBuffer /\ added' = added /\ sent' = sent
    BY <1>1 DEF AddLoad, Goto, Active
  <2>2. reg'[t].buf = buffer /\ pc'[t] = "store"
    BY <1>0, <1>1, <2>1 DEF AddLoad
  <2>3. Stage(t)'
    BY <2>1, <2>2 DEF Stage
  <2>4. \A s \in Threads : Stage(s)'
    BY <1>0, <2>1, <2>3, OwnStage
  <2>5. Cold' = Cold
    BY <1>0, <1>1, <2>1 DEF AddLoad, Cold, Hot
  <2> QED
    BY <1>0, <2>1, <2>4, <2>5 DEF Stages
<1>2. CASE AddStore(t)
  <2>1. /\ pc' = [pc EXCEPT ![t] = "checkBuffer"] /\ "checkBuffer" \notin Active
        /\ pc[t] \in Active \ Hot
        /\ cacheBuffer' = cacheBuffer /\ sent' = sent
    BY <1>2 DEF AddStore, Goto, Active, Hot, Sending
  <2>2. Cold' /\ \A s \in Threads : Stage(s)'
    BY <1>0, <2>1, NoStage
  <2>3. Cold
    BY <1>0, <2>1, ColdWhenAlone
  <2>4. cacheBuffer = <<>> /\ added = sent \o buffer /\ reg[t].buf = buffer
    BY <1>0, <1>2, <2>3 DEF Stages, Stage, AddStore
  <2>5. PICK r \in Records : buffer' = Append(buffer, r) /\ added' = Append(added, r)
    BY <1>2, <2>4 DEF AddStore
  <2>6. added' = sent' \o buffer'
    <3>1. sent \o Append(buffer, r) = Append(sent \o buffer, r)
      BY <1>0, AppendConcat
    <3> QED
      BY <2>1, <2>4, <2>5, <3>1
  <2>7. LateAdds \/ pc[Closer] = "idle"
    BY <1>0, <1>2 DEF AddStore, Quiet, AddersIdle
  <2>8. ~(pc'[Closer] \in {"closeSender", "done"} /\ ~LateAdds)
    BY <1>0, <2>1, <2>7
  <2> QED
    BY <2>1, <2>2, <2>4, <2>6, <2>8 DEF Stages
<1>3. CASE CheckBuffer(t)
  <2>1. PICK l \in {"lockCache", "checkCache"} : pc' = [pc EXCEPT ![t] = l]
    BY <1>3 DEF CheckBuffer, Goto
  <2>2. l \notin Active /\ pc[t] \notin Hot
    BY <1>3 DEF CheckBuffer, Active, Hot, Sending
  <2> QED
    BY <1>0, <1>3, <2>1, <2>2, IdleStages DEF CheckBuffer
<1>4. CASE CheckCache(t)
  <2>1. PICK l \in {"lockCache", "idle"} : pc' = [pc EXCEPT ![t] = l]
    BY <1>4 DEF CheckCache, Goto
  <2>2. l \notin Active /\ pc[t] \notin Hot
    BY <1>4 DEF CheckCache, Active, Hot, Sending
  <2> QED
    BY <1>0, <1>4, <2>1, <2>2, IdleStages DEF CheckCache
<1> QED
  BY <1>1, <1>2, <1>3, <1>4 DEF AdderStep

LEMMA CloserStages ==
  ASSUME IInv, RaceFree, Stages, Alone', CloserStep
  PROVE  Stages'
<1> USE DEF IInv
<1>0. /\ pc \in [Threads -> AllLabels] /\ Closer \in Threads
      /\ buffer \in Seq(Records)
  BY DEF TypeOK, PcOK, DataOK, Threads
<1>1. CASE CloseStart
  <2>1. pc' = [pc EXCEPT ![Closer] = "wait"] /\ "wait" \notin Active
    BY <1>1 DEF CloseStart, Goto, Active, Sending
  <2> QED
    BY <1>0, <1>1, <2>1, IdleStages DEF CloseStart, Hot
<1>2. CASE CloseWait
  <2>1. pc' = [pc EXCEPT ![Closer] = "loop"] /\ "loop" \notin Active
    BY <1>2 DEF CloseWait, Goto, Active, Sending
  <2> QED
    BY <1>0, <1>2, <2>1, IdleStages DEF CloseWait, Hot
<1>3. ASSUME pc[Closer] \in {"loop", "loopBuffer", "closeSender"}
      PROVE  /\ Cold
             /\ cacheBuffer = <<>>
             /\ ~LateAdds
  <2>1. ~LateAdds /\ AddersIdle /\ pc[Ticker] = "done"
    BY <1>3 DEF RaceFree, Quiet
  <2>2. Cold
    BY <1>3, <2>1 DEF Cold, Hot, AddersIdle, Threads
  <2> QED
    BY <2>1, <2>2 DEF Stages
<1>4. CASE LoopTestCache
  <2>1. pc' = [pc EXCEPT ![Closer] = "loopBuffer"] /\ "loopBuffer" \notin Active
    BY <1>3, <1>4 DEF LoopTestCache, Goto, Active, Sending
  <2> QED
    BY <1>0, <1>4, <2>1, IdleStages DEF LoopTestCache, Hot
<1>5. CASE LoopTestBuffer
  <2>0. Cold /\ cacheBuffer = <<>> /\ added = sent \o buffer
    BY <1>3, <1>5 DEF LoopTestBuffer, Stages
  <2>1. PICK l \in {"move", "closeSender"} :
          /\ pc' = [pc EXCEPT ![Closer] = l]
          /\ l = "closeSender" => buffer = <<>>
    <3>1. Len(buffer) > 0 \/ buffer = <<>>
      BY <1>0, EmptySeq
    <3> QED
      BY <1>5, <3>1 DEF LoopTestBuffer, Goto
  <2>2. /\ buffer' = buffer /\ cacheBuffer' = cacheBuffer /\ added' = added
        /\ sent' = sent /\ reg' = reg
    BY <1>5 DEF LoopTestBuffer
  <2>3. Cold'
    BY <1>0, <2>0, <2>1 DEF Cold, Hot
  <2>4. ASSUME NEW s \in Threads
        PROVE  Stage(s)'
    BY <1>0, <2>1, <2>2, <2>3 DEF Stages, Stage, Cold, Hot
  <2> QED
    BY <1>0, <2>0, <2>1, <2>2, <2>3, <2>4 DEF Stages
<1>6. CASE CloseSender
  <2>1. pc' = [pc EXCEPT ![Closer] = "done"] /\ pc[Closer] = "closeSender"
    BY <1>6 DEF CloseSender, Goto
  <2>2. /\ buffer' = buffer /\ cacheBuffer' = cacheBuffer /\ added' = added
        /\ sent' = sent /\ reg' = reg
    BY <1>6 DEF CloseSender
  <2>3. Cold /\ cacheBuffer = <<>> /\ added = sent \o buffer /\ buffer = <<>>
    BY <1>3, <2>1 DEF Stages
  <2>4. ASSUME NEW s \in Threads
        PROVE  Stage(s)'
    BY <1>0, <2>1, <2>2, <2>3 DEF Stages, Stage, Cold, Hot
  <2> QED
    BY <2>2, <2>3, <2>4 DEF Stages
<1> QED
  BY <1>1, <1>2, <1>4, <1>5, <1>6 DEF CloserStep

LEMMA TickerStages ==
  ASSUME IInv, Stages, TickerStep
  PROVE  Stages'
<1>1. PICK l \in {"lockCache", "done"} : pc' = [pc EXCEPT ![Ticker] = l]
  BY DEF TickerStep, Tick, TickerExit, Goto
<1>2. l \notin Active /\ pc[Ticker] \notin Hot /\ Ticker \in Threads /\ Ticker # Closer
  BY ThreadsAssumption DEF TickerStep, Tick, TickerExit, Active, Hot, Sending, Threads
<1> QED
  BY <1>1, <1>2, IdleStages DEF TickerStep, Tick, TickerExit

LEMMA IInvKept == IInv /\ [Next]_vars => IInv'
<1> SUFFICES ASSUME IInv, [Next]_vars
             PROVE  IInv'
  OBVIOUS
<1>1. TypeOK' /\ LocksFollowProgram' /\ Quiet'
  BY TypesKept, LocksKept, QuietKept DEF IInv
<1>2. ASSUME RaceFree'
      PROVE  Stages'
  <2>1. RaceFree /\ Stages
    BY <1>2, RaceFreeBefore DEF IInv
  <2>2. Alone
    BY <2>1, AloneHolds DEF IInv
  <2>3. Alone'
    BY <1>1, <1>2, AloneHolds, PTL
  <2>4. ASSUME NEW t \in Threads, FlushStep(t)
        PROVE  Stages'
    BY <2>1, <2>2, <2>3, <2>4, LockStages, MoveStages, ResetStages, SendStages,
       NoPanic, PopStages DEF FlushStep
  <2>5. ASSUME NEW t \in Adders, AdderStep(t)
        PROVE  Stages'
    BY <2>1, <2>2, <2>3, <2>5, AdderStages
  <2>6. CASE TickerStep
    BY <2>1, <2>6, TickerStages
  <2>7. CASE CloserStep
    BY <2>1, <2>3, <2>7, CloserStages
  <2>8. CASE UNCHANGED vars
    BY <2>1, <2>8 DEF Stages, Stage, Cold, vars
  <2> QED
    BY <2>4, <2>5, <2>6, <2>7, <2>8 DEF Next, Stopped
<1> QED
  BY <1>1, <1>2 DEF IInv

LEMMA IInvCorrect == Spec => []IInv
<1>1. Init => IInv
  <2> SUFFICES ASSUME Init
               PROVE  IInv
    OBVIOUS
  <2>1. Quiet
    BY ThreadsAssumption DEF Init, Quiet, Threads
  <2>2. Stages
    BY ThreadsAssumption DEF Init, Stages, Stage, Cold, Hot, Threads
  <2> QED
    BY <2>1, <2>2, InitTypes, InitLocks DEF IInv
<1> QED
  BY <1>1, IInvKept, PTL DEF Spec
-----------------------------------------------------------------------------
LEMMA StageAtMostOne ==
  ASSUME IInv, RaceFree, NEW t \in Threads, pc[t] \in Hot
  PROVE  \A s \in Threads : pc[s] \in Hot => s = t
<1>1. Alone
  BY AloneHolds DEF IInv
<1> QED
  BY <1>1 DEF Alone, Active, Hot, Sending

LEMMA OrderFromStages == IInv => InOrder
<1> SUFFICES ASSUME IInv, RaceFree
             PROVE  added = sent \o InCache \o InBuffer
  BY DEF InOrder
<1>0. Stages /\ sent \in Seq(Records) /\ buffer \in Seq(Records) /\ <<>> \in Seq(Records)
  BY DEF IInv, TypeOK, DataOK
<1>1. CASE Cold
  <2>1. cacheBuffer = <<>> /\ added = sent \o buffer
    BY <1>0, <1>1 DEF Stages
  <2>2. InCache = <<>> /\ InBuffer = buffer
    BY <1>1, <2>1 DEF InCache, InBuffer, Cold, Hot, At
  <2> QED
    BY <1>0, <2>1, <2>2, ConcatFacts
<1>2. ASSUME NEW t \in Threads, pc[t] \in Hot
      PROVE  added = sent \o InCache \o InBuffer
  <2>1. \A s \in Threads : pc[s] \in Hot => s = t
    BY <1>2, StageAtMostOne
  <2>2. Stage(t)
    BY <1>0 DEF Stages
  <2>3. CASE pc[t] = "reset"
    <3>1. cacheBuffer = <<buffer>> /\ added = sent \o buffer
      BY <2>2, <2>3 DEF Stage
    <3>2. ~At("pop") /\ ~At("popped") /\ ~At("failed") /\ At("reset")
      BY <2>1, <2>3 DEF At, Hot
    <3>3. cacheBuffer # <<>> /\ Head(cacheBuffer) = buffer
      <4>1. Len(<<buffer>>) = 1 /\ Len(<<>>) = 0 /\ Head(<<buffer>>) = buffer
        OBVIOUS
      <4> QED
        BY <3>1, <4>1
    <3>4. InCache = buffer /\ InBuffer = <<>>
      BY <3>2, <3>3 DEF InCache, InBuffer
    <3> QED
      BY <1>0, <3>1, <3>4, ConcatFacts
  <2>4. CASE pc[t] = "send"
    <3>1. PICK b \in Seq(Records) : cacheBuffer = <<b>> /\ added = (sent \o b) \o buffer
      BY <2>2, <2>4 DEF Stage
    <3>2. ~At("pop") /\ ~At("popped") /\ ~At("failed") /\ ~At("reset")
      BY <2>1, <2>4 DEF At, Hot
    <3>3. cacheBuffer # <<>> /\ Head(cacheBuffer) = b
      <4>1. Len(<<b>>) = 1 /\ Len(<<>>) = 0 /\ Head(<<b>>) = b
        OBVIOUS
      <4> QED
        BY <3>1, <4>1
    <3>4. InCache = b /\ InBuffer = buffer
      BY <3>2, <3>3 DEF InCache, InBuffer
    <3> QED
      BY <1>0, <3>1, <3>4
  <2>5. CASE pc[t] \in {"pop", "popped", "failed"}
    <3>1. added = sent \o buffer
      BY <2>2, <2>5 DEF Stage
    <3>2. (At("pop") \/ At("popped") \/ At("failed")) /\ ~At("reset")
      BY <2>1, <2>5 DEF At, Hot
    <3>3. InCache = <<>> /\ InBuffer = buffer
      BY <3>2 DEF InCache, InBuffer
    <3> QED
      BY <1>0, <3>1, <3>3, ConcatFacts
  <2> QED
    BY <1>2, <2>3, <2>4, <2>5 DEF Hot
<1> QED
  BY <1>1, <1>2 DEF Cold

(* No record is lost, duplicated or reordered between Add and Send, for    *)
(* any number of adders, as long as nobody adds while FlushAll runs.       *)
THEOREM OrderCorrect == Spec => []InOrder
BY IInvCorrect, OrderFromStages, PTL

(* Between flushes the cache is empty: cacheCapacity is never reached.     *)
THEOREM CacheEmpty == Spec => []CacheEmptyBetweenFlushes
<1>1. IInv => CacheEmptyBetweenFlushes
  <2> SUFFICES ASSUME IInv, RaceFree, cacheMutex = NoOne,
                      pc[Closer] \notin FlushAllLabels \cup {"failed"}
               PROVE  cacheBuffer = <<>>
    BY DEF CacheEmptyBetweenFlushes
  <2>1. ASSUME NEW t \in Threads, pc[t] \in Hot
        PROVE  FALSE
    <3>1. t # Closer
      BY <2>1 DEF FlushAllLabels, Sending, Hot
    <3>2. pc[t] # "failed"
      BY <3>1 DEF IInv, TypeOK, PcOK, Labels, AdderLabels, TickerLabels, FlushLabels, Sending
    <3>3. cacheMutex = t
      BY <2>1, <3>1, <3>2 DEF IInv, LocksFollowProgram, HoldsCache, Hot
    <3> QED
      BY <3>3, ThreadsAssumption
  <2>2. Cold
    BY <2>1 DEF Cold
  <2> QED
    BY <2>2 DEF IInv, Stages
<1> QED
  BY <1>1, IInvCorrect, PTL

(* A Close that returned without an error, and nobody disturbed, has sent  *)
(* everything that was ever added.                                         *)
THEOREM DrainCorrect == Spec => []DrainedByClose
<1>1. IInv => DrainedByClose
  <2> SUFFICES ASSUME IInv, ~LateAdds, pc[Closer] = "done"
               PROVE  sent = added
    BY DEF DrainedByClose
  <2>1. Stages /\ sent \in Seq(Records)
    BY DEF IInv, RaceFree, TypeOK, DataOK
  <2>2. AddersIdle /\ pc[Ticker] = "done"
    BY DEF IInv, Quiet
  <2>3. Cold
    BY <2>2 DEF Cold, Hot, AddersIdle, Threads
  <2> QED
    BY <2>1, <2>3, ConcatEmptySeq DEF Stages
<1> QED
  BY <1>1, IInvCorrect, PTL
-----------------------------------------------------------------------------
(* Refinement: Add accepts, Send delivers, everything else stutters.       *)

LEMMA DeliverIsPrefix ==
  ASSUME NEW a \in Seq(Records), NEW b \in Seq(Records), NEW c \in Seq(Records),
         b # <<>>
  PROVE  \E n \in (Len(a) + 1)..Len((a \o b) \o c) : a \o b = SubSeq((a \o b) \o c, 1, n)
<1> DEFINE ab == a \o b
<1>1. ab \in Seq(Records) /\ Len(ab) = Len(a) + Len(b) /\ Len(b) \in Nat \ {0} /\ Len(a) \in Nat
  BY ConcatProperties, EmptySeq, LenProperties
<1>2. ab \o c \in Seq(Records) /\ Len(ab \o c) = Len(ab) + Len(c) /\ Len(c) \in Nat
  BY <1>1, ConcatProperties, LenProperties
<1>3. SubSeq(ab \o c, 1, Len(ab)) = SubSeq(ab, 1, Len(ab))
  <2> HIDE DEF ab
  <2> QED
    BY <1>1, SubSeqOfConcat1
<1>4. SubSeq(ab, 1, Len(ab)) = ab
  BY <1>1, SubSeqFull
<1>5. Len(ab) \in (Len(a) + 1)..Len(ab \o c)
  BY <1>1, <1>2
<1> QED
  BY <1>3, <1>4, <1>5

LEMMA StepRefines == IInv /\ RaceFree /\ [Next]_vars => [OD!Next]_(OD!odvars)
<1> SUFFICES ASSUME IInv, RaceFree, [Next]_vars
             PROVE  [OD!Next]_(OD!odvars)
  OBVIOUS
<1>0. Stages
  BY DEF IInv
<1>1. ASSUME NEW t \in Adders, AdderStep(t)
      PROVE  [OD!Next]_(OD!odvars)
  <2>1. CASE AddStore(t)
    <3>1. PICK r \in Records \ Range(added) : added' = Append(added, r)
      BY <2>1 DEF AddStore
    <3>2. sent' = sent
      BY <2>1 DEF AddStore
    <3> QED
      BY <3>1, <3>2 DEF OD!Next, OD!Accept, Range, OD!Range
  <2>2. CASE AddLoad(t) \/ CheckBuffer(t) \/ CheckCache(t)
    BY <2>2 DEF AddLoad, CheckBuffer, CheckCache, OD!odvars
  <2> QED
    BY <1>1, <2>1, <2>2 DEF AdderStep
<1>2. ASSUME NEW t \in Threads, SendOk(t) \/ SendError(t)
      PROVE  [OD!Next]_(OD!odvars)
  <2>1. Stage(t) /\ pc[t] = "send"
    BY <1>0, <1>2 DEF Stages, SendOk, SendError
  <2>2. PICK b \in Seq(Records) : cacheBuffer = <<b>> /\ added = (sent \o b) \o buffer
    BY <2>1 DEF Stage
  <2>3. sent' = sent \o b /\ added' = added
    BY <1>2, <2>2 DEF SendOk, SendError
  <2>4. sent \in Seq(Records) /\ buffer \in Seq(Records)
    BY DEF IInv, TypeOK, DataOK
  <2>5. CASE b = <<>>
    BY <2>3, <2>4, <2>5, ConcatEmptySeq DEF OD!odvars
  <2>6. CASE b # <<>>
    BY <2>2, <2>3, <2>4, <2>6, DeliverIsPrefix DEF OD!Next, OD!Deliver
  <2> QED
    BY <2>5, <2>6
<1>3. ASSUME NEW t \in Threads, FlushStep(t), ~SendOk(t), ~SendError(t)
      PROVE  [OD!Next]_(OD!odvars)
  BY <1>3 DEF FlushStep, LockCache, LockBuffer, MoveLoad, MoveStore, Reset,
     SendPanic, PopLoad, PopStore, OD!odvars
<1>4. CASE TickerStep \/ CloserStep
  BY <1>4 DEF TickerStep, Tick, TickerExit, CloserStep, CloseStart, CloseWait,
     LoopTestCache, LoopTestBuffer, CloseSender, OD!odvars
<1>5. CASE UNCHANGED vars
  BY <1>5 DEF vars, OD!odvars
<1> QED
  BY <1>1, <1>2, <1>3, <1>4, <1>5 DEF Next, Stopped

(* When no Add runs concurrently with Close, the consumer implements an    *)
(* ordered, exactly-once buffer between Add and Sender.Send.               *)
THEOREM RefinesOrderedDelivery ==
  ASSUME ~LateAdds
  PROVE  Spec => ImplementsOrderedDelivery
<1>1. Init => OD!Init
  BY DEF Init, OD!Init
<1>2. RaceFree
  BY DEF RaceFree
<1>3. IInv /\ [Next]_vars => [OD!Next]_(OD!odvars)
  BY <1>2, StepRefines
<1> QED
  BY <1>1, <1>3, IInvCorrect, PTL DEF Spec, OD!Spec, ImplementsOrderedDelivery
-----------------------------------------------------------------------------
(* The size of a batch.  What lets BatchBounded be proved: every record    *)
(* beyond a batch size less one belongs to an adder that is on its way to  *)
(* a flush, and nobody leaves that way before the buffer is small again.   *)

Flushers == {a \in Adders : WillFlush(a)}

BufferGrown == Len(buffer) <= BatchSize - 1 + Cardinality(Flushers)
CacheGrown == \A b \in Range(cacheBuffer) : Len(b) <= LongestBatch

Grown == RaceFree => BufferGrown /\ CacheGrown

LEMMA CountFlushers ==
  /\ IsFiniteSet(Flushers)
  /\ Cardinality(Flushers) \in Nat
  /\ Cardinality(Adders) \in Nat
  /\ Cardinality(Flushers) <= Cardinality(Adders)
<1>1. IsFiniteSet(Adders) /\ Flushers \subseteq Adders
  BY ThreadsAssumption DEF Flushers
<1> QED
  BY <1>1, FS_Subset, FS_CardinalityType

LEMMA GrownBounded ==
  ASSUME TypeOK, BufferGrown
  PROVE  Len(buffer) <= LongestBatch
<1>1. Len(buffer) \in Nat
  BY DEF TypeOK, DataOK
<1> QED
  BY <1>1, CountFlushers, BatchSizePositive DEF BufferGrown, LongestBatch

(* A step that leaves the buffer alone, and in which nobody turns from the *)
(* way to a flush, or only when the buffer is small.                       *)
LEMMA SameBuffer ==
  ASSUME TypeOK, BufferGrown, buffer' = buffer,
         Len(buffer) < BatchSize \/ Flushers \subseteq Flushers'
  PROVE  BufferGrown'
<1>0. Len(buffer) \in Nat /\ BatchSize \in Nat
  BY BatchSizePositive DEF TypeOK, DataOK
<1>1. IsFiniteSet(Flushers') /\ Cardinality(Flushers') \in Nat
  <2>1. IsFiniteSet(Adders) /\ Flushers' \subseteq Adders
    BY ThreadsAssumption DEF Flushers
  <2> QED
    BY <2>1, FS_Subset, FS_CardinalityType
<1>2. CASE Len(buffer) < BatchSize
  BY <1>0, <1>1, <1>2 DEF BufferGrown
<1>3. CASE Flushers \subseteq Flushers'
  <2>1. Cardinality(Flushers) <= Cardinality(Flushers')
    BY <1>1, <1>3, FS_Subset
  <2>2. Cardinality(Flushers) \in Nat
    BY CountFlushers
  <2> QED
    BY <1>0, <1>1, <2>1, <2>2 DEF BufferGrown
<1> QED
  BY <1>2, <1>3

LEMMA StoreGrows ==
  ASSUME IInv, RaceFree, BufferGrown, NEW t \in Adders, AddStore(t)
  PROVE  BufferGrown'
<1>0. t \in Threads /\ pc \in [Threads -> AllLabels] /\ buffer \in Seq(Records)
  BY DEF Threads, IInv, TypeOK, PcOK, DataOK
<1>1. reg[t].buf = buffer
  BY <1>0 DEF IInv, Stages, Stage, AddStore
<1>2. Len(buffer') = Len(buffer) + 1 /\ Len(buffer) \in Nat
  <2>1. PICK r \in Records : buffer' = Append(buffer, r)
    BY <1>1 DEF AddStore
  <2> QED
    BY <1>0, <2>1
<1>3. Flushers' = Flushers \cup {t}
  <2>1. \A a \in Adders : a # t => pc'[a] = pc[a]
    BY <1>0 DEF AddStore, Goto, Threads
  <2>2. pc'[t] = "checkBuffer"
    BY <1>0 DEF AddStore, Goto
  <2> QED
    BY <2>1, <2>2 DEF Flushers, WillFlush
<1>4. t \notin Flushers
  BY DEF AddStore, Flushers, WillFlush
<1>5. Cardinality(Flushers') = Cardinality(Flushers) + 1
  BY <1>3, <1>4, CountFlushers, FS_AddElement
<1> QED
  BY <1>2, <1>5, CountFlushers, BatchSizePositive DEF BufferGrown

(* The adders on their way to a flush before and after a step to l of t.   *)
LEMMA FlushersKept ==
  ASSUME TypeOK, NEW t \in Threads, NEW l, Goto(t, l),
         WillFlush(t) => l \in {"lockCache", "lockBuffer", "move", "moved", "reset"}
  PROVE  Flushers \subseteq Flushers'
<1>1. pc \in [Threads -> AllLabels] /\ Adders \subseteq Threads
  BY DEF TypeOK, PcOK, Threads
<1> QED
  BY <1>1 DEF Flushers, WillFlush, Goto

LEMMA BufferKept ==
  ASSUME IInv, RaceFree, BufferGrown, [Next]_vars
  PROVE  BufferGrown'
<1>0. TypeOK /\ Adders \subseteq Threads /\ Ticker \in Threads /\ Closer \in Threads
  BY DEF IInv, Threads
<1>1. ASSUME NEW t \in Adders, AdderStep(t)
      PROVE  BufferGrown'
  <2>1. CASE AddStore(t)
    BY <2>1, StoreGrows
  <2>2. CASE AddLoad(t)
    <3>1. Flushers \subseteq Flushers'
      BY <1>0, <2>2, FlushersKept DEF AddLoad, WillFlush
    <3> QED
      BY <1>0, <2>2, <3>1, SameBuffer DEF AddLoad
  <2>3. CASE CheckBuffer(t)
    <3>1. CASE Len(buffer) >= BatchSize
      <4>1. Flushers \subseteq Flushers'
        BY <1>0, <2>3, <3>1, FlushersKept DEF CheckBuffer
      <4> QED
        BY <1>0, <2>3, <4>1, SameBuffer DEF CheckBuffer
    <3>2. CASE ~(Len(buffer) >= BatchSize)
      <4>1. Len(buffer) < BatchSize
        BY <1>0, <3>2, BatchSizePositive DEF TypeOK, DataOK
      <4> QED
        BY <1>0, <2>3, <4>1, SameBuffer DEF CheckBuffer
    <3> QED
      BY <3>1, <3>2
  <2>4. CASE CheckCache(t)
    <3>1. Flushers \subseteq Flushers'
      BY <1>0, <2>4, FlushersKept DEF CheckCache, WillFlush
    <3> QED
      BY <1>0, <2>4, <3>1, SameBuffer DEF CheckCache
  <2> QED
    BY <1>1, <2>1, <2>2, <2>3, <2>4 DEF AdderStep
<1>2. ASSUME NEW t \in Threads, FlushStep(t)
      PROVE  BufferGrown'
  <2>1. CASE LockCache(t) \/ MoveLoad(t) \/ MoveStore(t)
    <3>1. Flushers \subseteq Flushers'
      BY <1>0, <2>1, FlushersKept DEF LockCache, MoveLoad, MoveStore
    <3> QED
      BY <1>0, <2>1, <3>1, SameBuffer DEF LockCache, MoveLoad, MoveStore
  <2>2. CASE LockBuffer(t)
    <3>1. CASE Len(buffer) >= BatchSize
      <4>0. ~(Len(buffer) < BatchSize)
        BY <1>0, <3>1, BatchSizePositive DEF TypeOK, DataOK
      <4>1. Flushers \subseteq Flushers'
        BY <1>0, <2>2, <4>0, FlushersKept DEF LockBuffer
      <4> QED
        BY <1>0, <2>2, <4>1, SameBuffer DEF LockBuffer
    <3>2. CASE Len(buffer) < BatchSize
      BY <1>0, <2>2, <3>2, SameBuffer DEF LockBuffer
    <3> QED
      BY <2>2, <3>1, <3>2 DEF LockBuffer
  <2>3. CASE Reset(t)
    <3>1. Len(buffer') = 0
      BY <2>3 DEF Reset
    <3>2. Cardinality(Flushers') \in Nat
      <4>1. IsFiniteSet(Adders) /\ Flushers' \subseteq Adders
        BY ThreadsAssumption DEF Flushers
      <4> QED
        BY <4>1, FS_Subset, FS_CardinalityType
    <3> QED
      BY <3>1, <3>2, BatchSizePositive DEF BufferGrown
  <2>4. CASE SendOk(t) \/ SendError(t) \/ SendPanic(t) \/ PopLoad(t) \/ PopStore(t)
    <3>1. ~WillFlush(t) /\ buffer' = buffer
      BY <2>4 DEF SendOk, SendError, SendPanic, PopLoad, PopStore, WillFlush
    <3>2. \E l : Goto(t, l)
      BY <2>4 DEF SendOk, SendError, SendPanic, PopLoad, PopStore
    <3> QED
      BY <1>0, <3>1, <3>2, FlushersKept, SameBuffer
  <2> QED
    BY <1>2, <2>1, <2>2, <2>3, <2>4 DEF FlushStep
<1>3. CASE TickerStep
  <2>1. ~WillFlush(Ticker) /\ buffer' = buffer
    BY <1>3 DEF TickerStep, Tick, TickerExit, WillFlush
  <2>2. \E l : Goto(Ticker, l)
    BY <1>3 DEF TickerStep, Tick, TickerExit
  <2> QED
    BY <1>0, <2>1, <2>2, FlushersKept, SameBuffer
<1>4. CASE CloserStep
  <2>1. ~WillFlush(Closer) /\ buffer' = buffer
    BY <1>4 DEF CloserStep, CloseStart, CloseWait, LoopTestCache, LoopTestBuffer,
       CloseSender, WillFlush
  <2>2. \E l : Goto(Closer, l)
    BY <1>4 DEF CloserStep, CloseStart, CloseWait, LoopTestCache, LoopTestBuffer,
       CloseSender
  <2> QED
    BY <1>0, <2>1, <2>2, FlushersKept, SameBuffer
<1>5. CASE UNCHANGED vars
  <2>1. Flushers' = Flushers /\ buffer' = buffer
    BY <1>5 DEF vars, Flushers, WillFlush
  <2> QED
    BY <1>0, <2>1, SameBuffer
<1> QED
  BY <1>1, <1>2, <1>3, <1>4, <1>5 DEF Next, Stopped

(* Only MoveStore puts a batch into the cache: the whole buffer, into a    *)
(* cache that is empty; PopStore leaves it empty.                          *)
LEMMA CacheKept ==
  ASSUME IInv, RaceFree, BufferGrown, CacheGrown, [Next]_vars
  PROVE  CacheGrown'
<1>1. Range(<<>>) = {} /\ Range(<<buffer>>) = {buffer}
  BY DEF Range
<1>2. ASSUME NEW t \in Threads, FlushStep(t)
      PROVE  CacheGrown'
  <2>0. Stage(t) /\ Alone
    BY AloneHolds DEF IInv, Stages
  <2>1. CASE MoveStore(t)
    <3>1. cacheBuffer = <<>>
      <4>1. pc[t] \in Active \ Hot
        BY <2>1 DEF MoveStore, Active, Hot, Sending
      <4> QED
        BY <2>0, <4>1, ColdWhenAlone DEF IInv, Stages
    <3>2. cacheBuffer' = <<buffer>>
      <4>1. reg[t].cache = <<>> /\ reg[t].buf = buffer
        BY <2>0, <2>1, <3>1 DEF Stage, MoveStore
      <4>2. buffer \in Seq(Records)
        BY DEF IInv, TypeOK, DataOK
      <4> QED
        BY <2>1, <4>1, <4>2 DEF MoveStore
    <3>3. Len(buffer) <= LongestBatch
      BY GrownBounded DEF IInv
    <3>4. Range(cacheBuffer') = {buffer}
      BY <1>1, <3>2
    <3>5. \A b \in Range(cacheBuffer') : Len(b) <= LongestBatch
      BY <3>3, <3>4
    <3> QED
      BY <3>5 DEF CacheGrown, LongestBatch, BatchSize
  <2>2. CASE PopStore(t)
    <3>1. cacheBuffer' = <<>>
      BY <2>0, <2>2 DEF Stage, PopStore
    <3>2. Range(cacheBuffer') = {}
      BY <1>1, <3>1
    <3> QED
      BY <3>2 DEF CacheGrown
  <2>3. CASE ~MoveStore(t) /\ ~PopStore(t)
    <3>1. cacheBuffer' = cacheBuffer
      BY <1>2, <2>3 DEF FlushStep, LockCache, LockBuffer, MoveLoad, Reset, SendOk,
         SendError, SendPanic, PopLoad
    <3> QED
      BY <3>1 DEF CacheGrown, LongestBatch, BatchSize
  <2> QED
    BY <2>1, <2>2, <2>3
<1>3. ASSUME cacheBuffer' = cacheBuffer
      PROVE  CacheGrown'
  BY <1>3 DEF CacheGrown, LongestBatch, BatchSize
<1>4. ASSUME NEW t \in Adders, AdderStep(t)
      PROVE  cacheBuffer' = cacheBuffer
  BY <1>4 DEF AdderStep, AddLoad, AddStore, CheckBuffer, CheckCache
<1>5. TickerStep \/ CloserStep \/ UNCHANGED vars => cacheBuffer' = cacheBuffer
  BY DEF TickerStep, Tick, TickerExit, CloserStep, CloseStart, CloseWait,
     LoopTestCache, LoopTestBuffer, CloseSender, vars
<1> QED
  BY <1>2, <1>3, <1>4, <1>5 DEF Next, Stopped

LEMMA GrownKept == IInv /\ Grown /\ [Next]_vars => Grown'
<1> SUFFICES ASSUME IInv, Grown, [Next]_vars, RaceFree'
             PROVE  BufferGrown' /\ CacheGrown'
  BY DEF Grown
<1>1. RaceFree /\ BufferGrown /\ CacheGrown
  BY RaceFreeBefore DEF IInv, Grown
<1> QED
  BY <1>1, BufferKept, CacheKept

LEMMA InitGrown == Init => Grown
<1> SUFFICES ASSUME Init
             PROVE  BufferGrown /\ CacheGrown
  BY DEF Grown
<1>1. Len(buffer) = 0 /\ Range(cacheBuffer) = {}
  BY DEF Init, Range
<1> QED
  BY <1>1, CountFlushers, BatchSizePositive DEF BufferGrown, CacheGrown

(* The buffer, and a batch in the cache, exceed the batch size by one      *)
(* record per adder less one at most, unless Add runs into FlushAll.       *)
THEOREM BatchesBounded == Spec => []BatchBounded
<1>1. IInv /\ Grown => BatchBounded
  BY GrownBounded DEF IInv, Grown, BatchBounded, CacheGrown
<1> QED
  BY <1>1, InitGrown, GrownKept, IInvCorrect, PTL DEF Spec
=============================================================================
