------------------------- MODULE ElasticSenderProof -------------------------
(* Proofs about ElasticSender, for every set of senders, every configured  *)
(* size and every number of records.                                       *)
EXTENDS ElasticSender, SequenceLemmas

USE DEF senderVars, counters, intake, outgoing, calls, history

(* The parts of the inductive invariant. *)
Labels == {"idle", "try", "sleep", "count", "receive", "request", "wait", "done"}
Shape == TypeOK /\ pc \in [Threads -> Labels]

(* A sender has records exactly while Send runs, a requester exactly while *)
(* it waits for an answer.                                                 *)
Occupied ==
  /\ \A s \in Senders : pc[s] = "idle" <=> todo[s] = <<>>
  /\ \A t \in Requesters : pc[t] = "request" <=> request[t] # <<>>

(* The phases of Close. *)
Closing ==
  /\ chanClosed <=> pc[Closer] # "idle"
  /\ pc[Writer] = "done" => chanClosed /\ dataChan = <<>>
  /\ pc[Closer] \in {"request", "done"} => pc[Writer] = "done" /\ bulkData = <<>>

(* Senders have different records. *)
Apart ==
  /\ \A s \in Senders : IsInjective(todo[s])
  /\ \A s, t \in Senders : s # t => Range(todo[s]) \cap Range(todo[t]) = {}

(* What a sender is about to count. *)
Counting ==
  /\ \A s \in Senders : pc[s] = "count" => reg[s] <= Cardinality(fate["exhausted"])
  /\ serial => \A s \in Senders : pc[s] = "count" => reg[s] = toChannelFailedCount

(* While calls are serial there is one sender at work, and its records come *)
(* after all that went before.                                              *)
InLine == requested \o (bulkData \o dataChan)
Lined ==
  /\ Range(requested) \subseteq 1..submitted
  /\ serial =>
       /\ \A s, t \in Senders : pc[s] # "idle" /\ pc[t] # "idle" => s = t
       /\ Increasing(InLine)
       /\ \A s \in Senders : /\ Increasing(todo[s])
                             /\ \A x \in Range(InLine), y \in Range(todo[s]) : x < y

IInv == /\ Shape /\ Occupied /\ Closing /\ Apart /\ OneFate
        /\ CountersAgree /\ Counting /\ BulkBounded /\ Lined
-----------------------------------------------------------------------------
(* Types. *)

LEMMA Sizes ==
  /\ MaxChannelSize \in Nat \ {0} /\ MaxRetries \in Int \ {0}
  /\ RetryInterval \in Int \ {0} /\ Timeout \in Int \ {0}
  /\ 0 \in Attempts /\ TimesOutAtOnce \in BOOLEAN
  /\ BulkLimit \in Nat \ {0}
BY SenderAssumption DEF MaxChannelSize, MaxRetries, RetryInterval, Timeout, BulkLimit, Clamp,
   Attempts, TimesOutAtOnce

LEMMA ThreadsDiffer ==
  /\ Writer \in Threads /\ Closer \in Threads /\ Writer # Closer
  /\ Requesters \subseteq Threads /\ Writer \in Requesters /\ Closer \in Requesters
  /\ \A s \in Senders : s \in Threads /\ s # Writer /\ s # Closer /\ s \notin Requesters
BY SenderAssumption DEF Threads, Requesters

(* A step of one thread to one of its own labels. *)
LEMMA GotoShape ==
  ASSUME Shape, NEW t \in Threads, NEW l \in Labels, Goto(t, l)
  PROVE  /\ pc' \in [Threads -> Labels] /\ pc'[t] = l
         /\ \A u \in Threads : u # t => pc'[u] = pc[u]
BY DEF Shape, Goto

LEMMA SenderGoto ==
  ASSUME Shape, NEW s \in Senders, NEW l \in {"idle", "try", "sleep", "count"}, Goto(s, l)
  PROVE  /\ pc' \in [Threads -> Labels]
         /\ \A u \in Senders : pc'[u] \in {"idle", "try", "sleep", "count"}
         /\ pc'[Writer] = pc[Writer] /\ pc'[Closer] = pc[Closer]
         /\ pc'[s] = l /\ \A u \in Threads : u # s => pc'[u] = pc[u]
<1>1. s \in Threads /\ l \in Labels
  BY ThreadsDiffer DEF Labels
<1> QED
  BY <1>1, GotoShape, ThreadsDiffer DEF Shape, TypeOK

(* What is left of a record's sender after it. *)
LEMMA NextRecordTypes ==
  ASSUME Shape, Occupied, NEW s \in Senders, pc[s] # "idle", NextRecord(s)
  PROVE  /\ todo' \in [Senders -> Seq(RecordIds)]
         /\ attempt' \in [Senders -> Attempts]
         /\ expired' \in [Senders -> BOOLEAN]
         /\ todo[s] # <<>> /\ Head(todo[s]) \in RecordIds
         /\ todo'[s] = Tail(todo[s]) /\ \A u \in Senders : u # s => todo'[u] = todo[u]
         /\ Goto(s, IF todo'[s] = <<>> THEN "idle" ELSE "try")
<1>1. todo \in [Senders -> Seq(RecordIds)] /\ todo[s] \in Seq(RecordIds) /\ todo[s] # <<>>
  BY DEF Shape, TypeOK, Occupied
<1>2. /\ Head(todo[s]) \in RecordIds /\ Tail(todo[s]) \in Seq(RecordIds)
      /\ Len(Tail(todo[s])) = Len(todo[s]) - 1
  BY <1>1, HeadTailProperties
<1>3. Len(todo[s]) = 1 <=> Tail(todo[s]) = <<>>
  <2>1. Tail(todo[s]) = <<>> <=> Len(Tail(todo[s])) = 0
    BY <1>2, EmptySeq
  <2>2. Len(todo[s]) \in Nat
    BY <1>1, LenProperties
  <2> QED
    BY <1>2, <2>1, <2>2
<1>4. todo' = [todo EXCEPT ![s] = Tail(todo[s])]
  BY DEF NextRecord
<1>5. 0 \in Attempts /\ TimesOutAtOnce \in BOOLEAN
  BY Sizes
<1>6. attempt' \in [Senders -> Attempts] /\ expired' \in [Senders -> BOOLEAN]
  BY <1>5 DEF NextRecord, Shape, TypeOK
<1> QED
  BY <1>1, <1>2, <1>3, <1>4, <1>6 DEF NextRecord, Shape, TypeOK

LEMMA SendTypes ==
  ASSUME Shape, NEW s \in Senders, Send(s)
  PROVE  Shape'
<1>1. PICK n \in 1..MaxBatch :
        /\ submitted + n <= MaxRecords
        /\ todo' = [todo EXCEPT ![s] = [i \in 1..n |-> submitted + i]]
        /\ submitted' = submitted + n
  BY DEF Send
<1>0. MaxRecords \in Nat /\ MaxBatch \in Nat /\ submitted \in 0..MaxRecords
  BY SenderAssumption DEF Shape, TypeOK
<1>2. n \in Nat /\ submitted \in Nat /\ (submitted + 1)..(submitted + n) \subseteq RecordIds
  BY <1>0, <1>1 DEF RecordIds
<1>3. [i \in 1..n |-> submitted + i] \in Seq(RecordIds)
  BY <1>2, CountedSequence
<1>4. todo' \in [Senders -> Seq(RecordIds)]
  BY <1>1, <1>3 DEF Shape, TypeOK
<1>5. attempt' \in [Senders -> Attempts] /\ expired' \in [Senders -> BOOLEAN]
  BY Sizes DEF Send, Shape, TypeOK
<1>7. submitted' \in 0..MaxRecords
  BY <1>0, <1>1
<1>8. serial' \in BOOLEAN
  BY DEF Send, SendersIdle
<1>6. /\ pc' \in [Threads -> Labels]
      /\ \A u \in Senders : pc'[u] \in {"idle", "try", "sleep", "count"}
      /\ pc'[Writer] = pc[Writer] /\ pc'[Closer] = pc[Closer]
  BY SenderGoto DEF Send
<1> QED
  BY <1>4, <1>5, <1>6, <1>7, <1>8 DEF Send, Shape, TypeOK

LEMMA SenderTypes ==
  ASSUME Shape, Occupied, NEW s \in Senders, SenderStep(s)
  PROVE  Shape'
<1>1. ASSUME NEW l \in {"idle", "try", "sleep", "count"}, Goto(s, l)
      PROVE  /\ pc' \in [Threads -> Labels]
             /\ \A u \in Senders : pc'[u] \in {"idle", "try", "sleep", "count"}
             /\ pc'[Writer] = pc[Writer] /\ pc'[Closer] = pc[Closer]
  BY <1>1, SenderGoto
<1>2. ASSUME NEW o \in Outcomes, NEW rs \in SUBSET RecordIds, Settle(o, rs)
      PROVE  fate' \in [Outcomes -> SUBSET RecordIds]
  BY <1>2 DEF Settle, Shape, TypeOK
<1>3. {"dropped", "abandoned", "exhausted"} \subseteq Outcomes
  BY DEF Outcomes
<1> HIDE DEF Goto
<1>4. CASE TimedOut(s)
  <2>1. pc[s] # "idle" /\ NextRecord(s) /\ Settle("dropped", {Head(todo[s])})
    BY <1>4 DEF TimedOut, Trying
  <2>2. fate' \in [Outcomes -> SUBSET RecordIds]
    BY <1>2, <1>3, <2>1, NextRecordTypes
  <2> QED
    BY <1>1, <1>4, <2>1, <2>2, NextRecordTypes DEF TimedOut, Shape, TypeOK
<1>5. CASE Push(s)
  <2>1. pc[s] # "idle" /\ NextRecord(s)
    BY <1>5 DEF Push, Trying
  <2>2. dataChan' \in Seq(RecordIds) /\ Len(dataChan') <= MaxChannelSize
    <3>1. dataChan \in Seq(RecordIds) /\ Head(todo[s]) \in RecordIds
      BY <2>1, NextRecordTypes DEF Shape, TypeOK
    <3>2. Len(dataChan) \in Nat /\ Len(dataChan) < MaxChannelSize
      BY <1>5, <3>1, LenProperties DEF Push, Room
    <3> QED
      BY <1>5, <3>1, <3>2, Sizes, AppendProperties DEF Push
  <2> QED
    BY <1>1, <1>5, <2>1, <2>2, NextRecordTypes DEF Push, Shape, TypeOK
<1>6. CASE PushPanics(s)
  <2>1. Range(todo[s]) \in SUBSET RecordIds
    BY RangeOfSeq DEF Shape, TypeOK
  <2>2. fate' \in [Outcomes -> SUBSET RecordIds]
    BY <1>2, <1>3, <1>6, <2>1 DEF PushPanics
  <2>3. todo' \in [Senders -> Seq(RecordIds)]
    BY <1>6, EmptySeq DEF PushPanics, Shape, TypeOK
  <2> QED
    BY <1>1, <1>6, <2>2, <2>3 DEF PushPanics, Shape, TypeOK
<1>7. CASE Full(s)
  <2>1. attempt' \in [Senders -> Attempts]
    <3>1. attempt[s] \in Attempts /\ attempt[s] < MaxRetries /\ attempt \in [Senders -> Attempts]
      BY <1>7 DEF Full, Trying, Shape, TypeOK
    <3>2. attempt[s] + 1 \in Attempts
      BY <3>1, Sizes DEF Attempts
    <3> QED
      BY <1>7, <3>1, <3>2 DEF Full
  <2> QED
    BY <1>1, <1>7, <2>1 DEF Full, Shape, TypeOK
<1>8. CASE Wake(s)
  <2>1. expired' \in [Senders -> BOOLEAN]
    BY <1>8 DEF Wake, Shape, TypeOK
  <2> QED
    BY <1>1, <1>8, <2>1 DEF Wake, Shape, TypeOK
<1>9. CASE Exhausted(s)
  BY <1>1, <1>9 DEF Exhausted, Shape, TypeOK
<1>10. CASE Count(s)
  <2>1. pc[s] # "idle" /\ NextRecord(s) /\ Settle("exhausted", {Head(todo[s])})
    BY <1>10 DEF Count
  <2>2. fate' \in [Outcomes -> SUBSET RecordIds]
    BY <1>2, <1>3, <2>1, NextRecordTypes
  <2>3. reg[s] + 1 \in Nat
    BY DEF Shape, TypeOK
  <2> QED
    BY <1>1, <1>10, <2>1, <2>2, <2>3, NextRecordTypes DEF Count, Shape, TypeOK
<1> QED
  BY <1>4, <1>5, <1>6, <1>7, <1>8, <1>9, <1>10 DEF SenderStep

LEMMA BulkTypes ==
  ASSUME Shape, NEW t \in Requesters, NEW collected \in Seq(RecordIds), NEW enough \in BOOLEAN,
         NEW otherwise \in Labels, SendBulkIf(enough, t, collected, otherwise)
  PROVE  /\ request' \in [Requesters -> Seq(RecordIds)]
         /\ requested' \in Seq(RecordIds)
         /\ bulkData' \in Seq(RecordIds)
         /\ pc' \in [Threads -> Labels] /\ pc'[t] \in {"request", otherwise}
         /\ \A u \in Threads : u # t => pc'[u] = pc[u]
<1>1. t \in Threads /\ "request" \in Labels
  BY ThreadsDiffer DEF Labels
<1>2. requested \o collected \in Seq(RecordIds) /\ <<>> \in Seq(RecordIds)
  BY ConcatProperties, EmptySeq DEF Shape, TypeOK
<1>3. \A l \in Labels : Goto(t, l) => /\ pc' \in [Threads -> Labels] /\ pc'[t] = l
                                      /\ \A u \in Threads : u # t => pc'[u] = pc[u]
  BY <1>1, GotoShape
<1> HIDE DEF Goto
<1>4. CASE enough
  BY <1>1, <1>2, <1>3, <1>4 DEF SendBulkIf, Shape, TypeOK
<1>5. CASE ~enough
  BY <1>1, <1>2, <1>3, <1>5 DEF SendBulkIf, Shape, TypeOK
<1> QED
  BY <1>4, <1>5

LEMMA OtherTypes ==
  ASSUME Shape, Receive \/ WriterExit \/ CloseStart \/ CloseWait
  PROVE  Shape'
<1>1. CASE Receive
  <2>1. /\ dataChan \in Seq(RecordIds) /\ dataChan # <<>>
        /\ Head(dataChan) \in RecordIds /\ dataChan' \in Seq(RecordIds)
        /\ Len(dataChan') <= MaxChannelSize
    <3>1. /\ dataChan \in Seq(RecordIds) /\ dataChan # <<>> /\ Len(dataChan) <= MaxChannelSize
          /\ dataChan' = Tail(dataChan)
      BY <1>1 DEF Receive, Shape, TypeOK
    <3>2. Len(dataChan) \in Nat /\ Len(dataChan') = Len(dataChan) - 1
      BY <3>1, HeadTailProperties, LenProperties
    <3> QED
      BY <3>1, <3>2, HeadTailProperties, Sizes
  <2>2. CASE Head(dataChan) \in NoData /\ Settle("skipped", {Head(dataChan)}) /\ UNCHANGED <<pc, outgoing, requested>>
    <3>1. fate' \in [Outcomes -> SUBSET RecordIds]
      BY <2>1, <2>2 DEF Settle, Shape, TypeOK, Outcomes
    <3> QED
      BY <1>1, <2>1, <2>2, <3>1 DEF Receive, Shape, TypeOK, outgoing
  <2>3. CASE SendBulk(Writer, Append(bulkData, Head(dataChan)), FALSE, "receive") /\ UNCHANGED fate
    <3>1. Append(bulkData, Head(dataChan)) \in Seq(RecordIds)
      BY <2>1, AppendProperties DEF Shape, TypeOK
    <3>2. /\ request' \in [Requesters -> Seq(RecordIds)]
          /\ requested' \in Seq(RecordIds) /\ bulkData' \in Seq(RecordIds)
          /\ pc' \in [Threads -> Labels] /\ pc'[Writer] \in {"request", "receive"}
          /\ \A u \in Threads : u # Writer => pc'[u] = pc[u]
      BY <2>3, <3>1, BulkTypes, ThreadsDiffer DEF SendBulk, Labels
    <3> QED
      BY <1>1, <2>1, <2>3, <3>2, ThreadsDiffer DEF Receive, Shape, TypeOK
  <2> QED
    BY <1>1, <2>2, <2>3 DEF Receive
<1>2. CASE WriterExit
  <2>1. /\ pc' \in [Threads -> Labels] /\ pc'[Writer] = "done"
        /\ \A u \in Threads : u # Writer => pc'[u] = pc[u]
    BY <1>2, GotoShape, ThreadsDiffer DEF WriterExit, Labels
  <2> QED
    BY <1>2, <2>1, ThreadsDiffer DEF WriterExit, Shape, TypeOK, outgoing
<1>3. CASE CloseStart
  <2>1. /\ pc' \in [Threads -> Labels] /\ pc'[Closer] = "wait"
        /\ \A u \in Threads : u # Closer => pc'[u] = pc[u]
    BY <1>3, GotoShape, ThreadsDiffer DEF CloseStart, Labels
  <2> QED
    BY <1>3, <2>1, ThreadsDiffer DEF CloseStart, Shape, TypeOK, outgoing
<1>4. CASE CloseWait
  <2>1. /\ request' \in [Requesters -> Seq(RecordIds)]
        /\ requested' \in Seq(RecordIds) /\ bulkData' \in Seq(RecordIds)
        /\ pc' \in [Threads -> Labels] /\ pc'[Closer] \in {"request", "done"}
        /\ \A u \in Threads : u # Closer => pc'[u] = pc[u]
    BY <1>4, BulkTypes, ThreadsDiffer DEF CloseWait, SendBulk, Labels, Shape, TypeOK
  <2> QED
    BY <1>4, <2>1, ThreadsDiffer DEF CloseWait, Shape, TypeOK
<1> QED
  BY <1>1, <1>2, <1>3, <1>4

LEMMA AnswerTypes ==
  ASSUME Shape, NEW t \in Requesters, Answer(t)
  PROVE  Shape'
<1>1. t \in Threads /\ t \in {Writer, Closer}
  BY ThreadsDiffer DEF Requesters
<1>2. Answered(t) /\ pc[t] = "request"
  BY DEF Answer, Accepted, Refused
<1>3. /\ pc' \in [Threads -> Labels] /\ pc'[t] = (IF t = Writer THEN "receive" ELSE "done")
      /\ \A u \in Threads : u # t => pc'[u] = pc[u]
  BY <1>1, <1>2, GotoShape DEF Answered, Labels
<1>4. request' \in [Requesters -> Seq(RecordIds)]
  BY <1>2, EmptySeq DEF Answered, Shape, TypeOK
<1>5. request[t] \in Seq(RecordIds) /\ Len(request[t]) \in Nat
  BY LenProperties DEF Shape, TypeOK
<1>6. Range(request[t]) \in SUBSET RecordIds
  BY <1>5, RangeOfSeq
<1>7. fate' \in [Outcomes -> SUBSET RecordIds]
  BY <1>6 DEF Answer, Accepted, Refused, Settle, Outcomes, Shape, TypeOK
<1>8. {successCount', failedCount'} \subseteq Nat
  BY <1>5 DEF Answer, Accepted, Refused, Shape, TypeOK
<1> QED
  BY <1>1, <1>2, <1>3, <1>4, <1>7, <1>8, ThreadsDiffer DEF Answered, Shape, TypeOK

LEMMA TypesKept == Shape /\ Occupied /\ [Next]_vars => Shape'
<1> SUFFICES ASSUME Shape, Occupied, [Next]_vars
             PROVE  Shape'
  OBVIOUS
<1>1. CASE UNCHANGED vars
  BY <1>1 DEF vars, outgoing, Shape, TypeOK
<1> QED
  BY <1>1, SendTypes, SenderTypes, OtherTypes, AnswerTypes DEF Next, Stopped
-----------------------------------------------------------------------------
(* What a step of a sender does to its records: nothing, the first one      *)
(* leaves, or all are given up.                                            *)
Stays(s) == UNCHANGED <<todo, dataChan, fate>> /\ pc[s] # "idle" /\ pc'[s] # "idle"

FirstLeaves(s) ==
  /\ pc[s] # "idle" /\ todo[s] # <<>>
  /\ todo'[s] = Tail(todo[s])
  /\ pc'[s] = "idle" <=> todo'[s] = <<>>
  /\ pc'[s] # "count"
  /\ \/ /\ ~chanClosed
        /\ dataChan' = Append(dataChan, Head(todo[s]))
        /\ UNCHANGED fate
     \/ /\ \E o \in {"dropped", "exhausted"} : Settle(o, {Head(todo[s])})
        /\ UNCHANGED dataChan

AllLeave(s) ==
  /\ pc[s] # "idle" /\ pc'[s] = "idle"
  /\ todo'[s] = <<>>
  /\ Settle("abandoned", Range(todo[s]))
  /\ UNCHANGED dataChan

LEMMA SenderEffect ==
  ASSUME Shape, Occupied, NEW s \in Senders, SenderStep(s)
  PROVE  /\ Stays(s) \/ FirstLeaves(s) \/ AllLeave(s)
         /\ \A u \in Senders : u # s => todo'[u] = todo[u] /\ pc'[u] = pc[u]
         /\ pc'[Writer] = pc[Writer] /\ pc'[Closer] = pc[Closer]
         /\ UNCHANGED <<chanClosed, bulkData, request, successCount, failedCount, calls, requested>>
<1>0. \A l \in {"idle", "try", "sleep", "count"} : Goto(s, l) =>
        /\ pc'[s] = l /\ pc'[Writer] = pc[Writer] /\ pc'[Closer] = pc[Closer]
        /\ \A u \in Senders : u # s => pc'[u] = pc[u]
  BY SenderGoto, ThreadsDiffer
<1>1. s \in Threads /\ todo \in [Senders -> Seq(RecordIds)]
  BY ThreadsDiffer DEF Shape, TypeOK
<1>2. ASSUME pc[s] # "idle", NextRecord(s)
      PROVE  /\ todo[s] # <<>> /\ todo'[s] = Tail(todo[s])
             /\ pc'[s] = "idle" <=> todo'[s] = <<>>
             /\ pc'[s] # "count"
             /\ pc'[Writer] = pc[Writer] /\ pc'[Closer] = pc[Closer]
             /\ \A u \in Senders : u # s => todo'[u] = todo[u] /\ pc'[u] = pc[u]
  <2>1. Goto(s, IF todo'[s] = <<>> THEN "idle" ELSE "try")
    BY <1>2, NextRecordTypes
  <2>2. CASE todo'[s] = <<>>
    BY <1>0, <1>2, <2>1, <2>2, NextRecordTypes
  <2>3. CASE todo'[s] # <<>>
    BY <1>0, <1>2, <2>1, <2>3, NextRecordTypes
  <2> QED
    BY <2>2, <2>3
<1> HIDE DEF Goto
<1>3. CASE TimedOut(s)
  <2>1. pc[s] # "idle" /\ NextRecord(s)
    BY <1>3 DEF TimedOut, Trying
  <2> QED
    BY <1>2, <1>3, <2>1 DEF TimedOut, FirstLeaves, outgoing
<1>4. CASE Push(s)
  <2>1. pc[s] # "idle" /\ NextRecord(s)
    BY <1>4 DEF Push, Trying
  <2> QED
    BY <1>2, <1>4, <2>1 DEF Push, FirstLeaves, outgoing
<1>5. CASE PushPanics(s)
  <2>1. pc[s] # "idle" /\ Goto(s, "idle") /\ todo'[s] = <<>>
    BY <1>1, <1>5 DEF PushPanics, Trying
  <2>2. \A u \in Senders : u # s => todo'[u] = todo[u]
    BY <1>1, <1>5 DEF PushPanics
  <2> QED
    BY <1>0, <1>5, <2>1, <2>2 DEF PushPanics, AllLeave, outgoing
<1>6. CASE Full(s)
  BY <1>0, <1>6 DEF Full, Trying, Stays, outgoing
<1>7. CASE Wake(s)
  BY <1>0, <1>7 DEF Wake, Stays, outgoing
<1>8. CASE Exhausted(s)
  BY <1>0, <1>8 DEF Exhausted, Stays, outgoing
<1>9. CASE Count(s)
  <2>1. pc[s] # "idle" /\ NextRecord(s)
    BY <1>9 DEF Count
  <2> QED
    BY <1>2, <1>9, <2>1 DEF Count, FirstLeaves, outgoing
<1> QED
  BY <1>3, <1>4, <1>5, <1>6, <1>7, <1>8, <1>9 DEF SenderStep

(* What a round of the Writer does: it skips the record, or collects it,   *)
(* or sends what it collected.                                             *)
Skips == /\ UNCHANGED <<pc, bulkData, request, requested>>
         /\ Settle("skipped", {Head(dataChan)})

Collects == /\ UNCHANGED <<request, requested, fate>> /\ pc'[Writer] = "receive"
            /\ bulkData' = Append(bulkData, Head(dataChan))
            /\ Len(bulkData') < BulkLimit

Submits == /\ UNCHANGED fate /\ pc'[Writer] = "request"
           /\ bulkData' = <<>>
           /\ request'[Writer] = Append(bulkData, Head(dataChan))
           /\ request'[Closer] = request[Closer]
           /\ requested' = requested \o Append(bulkData, Head(dataChan))

LEMMA ReceiveEffect ==
  ASSUME Shape, Receive
  PROVE  /\ Skips \/ Collects \/ Submits
         /\ pc[Writer] = "receive" /\ dataChan # <<>> /\ dataChan' = Tail(dataChan)
         /\ \A u \in Threads : u # Writer => pc'[u] = pc[u]
         /\ UNCHANGED <<senderVars, chanClosed, counters, calls>>
<1> DEFINE more == Append(bulkData, Head(dataChan))
<1>1. dataChan \in Seq(RecordIds) /\ bulkData \in Seq(RecordIds) /\ dataChan # <<>>
  BY DEF Shape, TypeOK, Receive
<1>2. more # <<>> /\ more \in Seq(RecordIds) /\ Len(more) \in Nat \ {0}
  BY <1>1, HeadTailProperties, AppendProperties, EmptySeq
<1>3. CASE Settle("skipped", {Head(dataChan)}) /\ UNCHANGED <<pc, outgoing, requested>>
  BY <1>3 DEF Receive, Skips, outgoing
<1>4. CASE SendBulk(Writer, more, FALSE, "receive") /\ UNCHANGED fate
  <2>1. \A l \in Labels : Goto(Writer, l) => /\ pc'[Writer] = l
                                             /\ \A u \in Threads : u # Writer => pc'[u] = pc[u]
    BY ThreadsDiffer, GotoShape
  <2>2. "request" \in Labels /\ "receive" \in Labels
    BY DEF Labels
  <2> HIDE DEF Goto, more
  <2>3. CASE Len(more) >= BulkSize
    <3>1. /\ request' = [request EXCEPT ![Writer] = more]
          /\ requested' = requested \o more /\ bulkData' = <<>> /\ Goto(Writer, "request")
      BY <1>2, <1>4, <2>3 DEF SendBulk, SendBulkIf
    <3>2. request'[Writer] = more /\ request'[Closer] = request[Closer]
      BY <3>1, ThreadsDiffer DEF Shape, TypeOK
    <3> QED
      BY <1>4, <2>1, <2>2, <3>1, <3>2 DEF Receive, Submits, more
  <2>4. CASE ~(Len(more) >= BulkSize)
    <3>1. /\ UNCHANGED <<request, requested>> /\ bulkData' = more /\ Goto(Writer, "receive")
      BY <1>2, <1>4, <2>4 DEF SendBulk, SendBulkIf
    <3>2. Len(more) < BulkLimit
      BY <1>2, <2>4, SenderAssumption DEF BulkLimit
    <3> QED
      BY <1>4, <2>1, <2>2, <3>1, <3>2 DEF Receive, Collects, more
  <2> QED
    BY <2>3, <2>4
<1> QED
  BY <1>3, <1>4 DEF Receive

LEMMA CloseWaitEffect ==
  ASSUME Shape, CloseWait
  PROVE  /\ pc[Closer] = "wait" /\ pc[Writer] = "done"
         /\ \A u \in Threads : u # Closer => pc'[u] = pc[u]
         /\ request'[Writer] = request[Writer]
         /\ bulkData' = <<>>
         /\ \/ /\ bulkData # <<>> /\ pc'[Closer] = "request"
               /\ request'[Closer] = bulkData /\ requested' = requested \o bulkData
            \/ /\ bulkData = <<>> /\ pc'[Closer] = "done"
               /\ UNCHANGED <<request, requested>>
         /\ UNCHANGED <<senderVars, intake, counters, calls, fate>>
<1>1. \A l \in Labels : Goto(Closer, l) => /\ pc'[Closer] = l
                                           /\ \A u \in Threads : u # Closer => pc'[u] = pc[u]
  BY ThreadsDiffer, GotoShape
<1>2. "request" \in Labels /\ "done" \in Labels
  BY DEF Labels
<1> HIDE DEF Goto
<1>3. CASE bulkData # <<>>
  <2>1. /\ request' = [request EXCEPT ![Closer] = bulkData]
        /\ requested' = requested \o bulkData /\ bulkData' = <<>> /\ Goto(Closer, "request")
    BY <1>3 DEF CloseWait, SendBulk, SendBulkIf
  <2>2. request'[Closer] = bulkData /\ request'[Writer] = request[Writer]
    BY <2>1, ThreadsDiffer DEF Shape, TypeOK
  <2> QED
    BY <1>1, <1>2, <1>3, <2>1, <2>2 DEF CloseWait
<1>4. CASE bulkData = <<>>
  <2>1. UNCHANGED <<request, requested>> /\ bulkData' = bulkData /\ Goto(Closer, "done")
    BY <1>4 DEF CloseWait, SendBulk, SendBulkIf
  <2> QED
    BY <1>1, <1>2, <1>4, <2>1 DEF CloseWait
<1> QED
  BY <1>3, <1>4

LEMMA AnswerEffect ==
  ASSUME Shape, NEW t \in Requesters, Answer(t)
  PROVE  /\ pc[t] = "request" /\ pc'[t] = (IF t = Writer THEN "receive" ELSE "done")
         /\ \A u \in Threads : u # t => pc'[u] = pc[u]
         /\ request'[t] = <<>> /\ \A u \in Requesters : u # t => request'[u] = request[u]
         /\ \/ /\ Settle("acked", Range(request[t]))
               /\ successCount' = successCount + Len(request[t]) /\ UNCHANGED failedCount
            \/ /\ Settle("refused", Range(request[t]))
               /\ failedCount' = failedCount + Len(request[t]) /\ UNCHANGED successCount
         /\ UNCHANGED <<senderVars, intake, bulkData, toChannelFailedCount, calls, requested>>
<1>1. Answered(t) /\ pc[t] = "request"
  BY DEF Answer, Accepted, Refused
<1>2. /\ pc'[t] = (IF t = Writer THEN "receive" ELSE "done")
      /\ \A u \in Threads : u # t => pc'[u] = pc[u]
  BY <1>1, ThreadsDiffer, GotoShape DEF Answered, Labels
<1>3. request'[t] = <<>> /\ \A u \in Requesters : u # t => request'[u] = request[u]
  BY <1>1 DEF Answered, Shape, TypeOK
<1> QED
  BY <1>1, <1>2, <1>3 DEF Answer, Accepted, Refused, Answered

LEMMA SendEffect ==
  ASSUME Shape, NEW s \in Senders, Send(s)
  PROVE  /\ pc[s] = "idle" /\ pc'[s] = "try"
         /\ \A u \in Senders : u # s => todo'[u] = todo[u] /\ pc'[u] = pc[u]
         /\ pc'[Writer] = pc[Writer] /\ pc'[Closer] = pc[Closer]
         /\ \E n \in Nat \ {0} : /\ todo'[s] = [i \in 1..n |-> submitted + i]
                                 /\ submitted' = submitted + n
         /\ todo'[s] # <<>>
         /\ serial' => serial /\ SendersIdle
         /\ UNCHANGED <<intake, outgoing, reg, counters, requested, fate>>
<1>1. PICK n \in 1..MaxBatch :
        /\ todo' = [todo EXCEPT ![s] = [i \in 1..n |-> submitted + i]]
        /\ submitted' = submitted + n
  BY DEF Send
<1>2. n \in Nat \ {0}
  BY SenderAssumption
<1>3. /\ todo'[s] = [i \in 1..n |-> submitted + i]
      /\ \A u \in Senders : u # s => todo'[u] = todo[u]
  BY <1>1 DEF Shape, TypeOK
<1>4. todo'[s] # <<>>
  <2>1. DOMAIN todo'[s] = 1..n
    BY <1>3
  <2>2. 1 \in 1..n /\ 1 \notin DOMAIN <<>>
    BY <1>2
  <2> QED
    BY <2>1, <2>2
<1>5. /\ pc'[s] = "try" /\ pc'[Writer] = pc[Writer] /\ pc'[Closer] = pc[Closer]
      /\ \A u \in Senders : u # s => pc'[u] = pc[u]
  BY SenderGoto, ThreadsDiffer DEF Send
<1> QED
  BY <1>1, <1>2, <1>3, <1>4, <1>5 DEF Send

LEMMA WriterExitEffect ==
  ASSUME Shape, WriterExit
  PROVE  /\ pc[Writer] = "receive" /\ dataChan = <<>> /\ chanClosed /\ pc'[Writer] = "done"
         /\ \A u \in Threads : u # Writer => pc'[u] = pc[u]
         /\ UNCHANGED <<senderVars, intake, outgoing, counters, history>>
BY GotoShape, ThreadsDiffer DEF WriterExit, Labels

LEMMA CloseStartEffect ==
  ASSUME Shape, CloseStart
  PROVE  /\ pc[Closer] = "idle" /\ chanClosed' = TRUE /\ pc'[Closer] = "wait"
         /\ \A u \in Threads : u # Closer => pc'[u] = pc[u]
         /\ UNCHANGED <<senderVars, dataChan, outgoing, counters, history>>
BY GotoShape, ThreadsDiffer DEF CloseStart, Labels
-----------------------------------------------------------------------------
(* The simple parts of the invariant. *)

LEMMA OccupiedKept == Shape /\ Occupied /\ [Next]_vars => Occupied'
<1> SUFFICES ASSUME Shape, Occupied, [Next]_vars
             PROVE  Occupied'
  OBVIOUS
<1>1. Requesters = {Writer, Closer}
  BY DEF Requesters
<1>2. ASSUME NEW s \in Senders, Send(s)
      PROVE  Occupied'
  BY <1>1, <1>2, SendEffect DEF Occupied
<1>3. ASSUME NEW s \in Senders, SenderStep(s)
      PROVE  Occupied'
  <2>1. pc'[s] = "idle" <=> todo'[s] = <<>>
    BY <1>3, SenderEffect DEF Occupied, Stays, FirstLeaves, AllLeave
  <2>2. \A u \in Senders : u # s => todo'[u] = todo[u] /\ pc'[u] = pc[u]
    BY <1>3, SenderEffect
  <2>3. UNCHANGED request /\ pc'[Writer] = pc[Writer] /\ pc'[Closer] = pc[Closer]
    BY <1>3, SenderEffect
  <2> QED
    BY <1>1, <2>1, <2>2, <2>3 DEF Occupied
<1>4. CASE Receive
  <2>1. bulkData \in Seq(RecordIds) /\ Head(dataChan) \in RecordIds
    BY <1>4, HeadTailProperties DEF Receive, Shape, TypeOK
  <2>2. Append(bulkData, Head(dataChan)) # <<>>
    BY <2>1, AppendProperties
  <2>3. /\ pc'[Writer] = "request" <=> request'[Writer] # <<>>
        /\ request'[Closer] = request[Closer] /\ UNCHANGED todo
    BY <1>1, <1>4, <2>2, ReceiveEffect DEF Occupied, Skips, Collects, Submits
  <2> QED
    BY <1>1, <1>4, <2>3, ReceiveEffect, ThreadsDiffer DEF Occupied
<1>5. CASE WriterExit
  BY <1>1, <1>5, WriterExitEffect, ThreadsDiffer DEF Occupied
<1>6. ASSUME NEW t \in Requesters, Answer(t)
      PROVE  Occupied'
  BY <1>1, <1>6, AnswerEffect, ThreadsDiffer DEF Occupied
<1>7. CASE CloseStart
  BY <1>1, <1>7, CloseStartEffect, ThreadsDiffer DEF Occupied
<1>8. CASE CloseWait
  BY <1>1, <1>8, CloseWaitEffect, ThreadsDiffer DEF Occupied
<1>9. CASE UNCHANGED vars
  BY <1>9 DEF vars, Occupied
<1> QED
  BY <1>2, <1>3, <1>4, <1>5, <1>6, <1>7, <1>8, <1>9 DEF Next, Stopped

LEMMA ClosingKept == Shape /\ Occupied /\ Closing /\ [Next]_vars => Closing'
<1> SUFFICES ASSUME Shape, Occupied, Closing, [Next]_vars
             PROVE  Closing'
  OBVIOUS
<1>1. \A t \in Requesters : t = Writer \/ t = Closer
  BY DEF Requesters
<1>2. ASSUME NEW s \in Senders, Send(s)
      PROVE  Closing'
  BY <1>2, SendEffect DEF Closing
<1>3. ASSUME NEW s \in Senders, SenderStep(s)
      PROVE  Closing'
  <2>1. chanClosed => UNCHANGED dataChan
    BY <1>3, SenderEffect DEF Stays, FirstLeaves, AllLeave
  <2>2. UNCHANGED <<chanClosed, bulkData>> /\ pc'[Writer] = pc[Writer] /\ pc'[Closer] = pc[Closer]
    BY <1>3, SenderEffect
  <2> QED
    BY <2>1, <2>2 DEF Closing
<1>4. CASE Receive
  <2>1. /\ pc[Writer] = "receive" /\ pc'[Writer] # "done" /\ UNCHANGED chanClosed
        /\ pc'[Closer] = pc[Closer]
    BY <1>4, ReceiveEffect, ThreadsDiffer DEF Skips, Collects, Submits
  <2> QED
    BY <2>1 DEF Closing
<1>5. CASE WriterExit
  BY <1>5, WriterExitEffect, ThreadsDiffer DEF Closing
<1>6. ASSUME NEW t \in Requesters, Answer(t)
      PROVE  Closing'
  BY <1>1, <1>6, AnswerEffect, ThreadsDiffer DEF Closing
<1>7. CASE CloseStart
  BY <1>7, CloseStartEffect, ThreadsDiffer DEF Closing
<1>8. CASE CloseWait
  BY <1>8, CloseWaitEffect, ThreadsDiffer DEF Closing
<1>9. CASE UNCHANGED vars
  BY <1>9 DEF vars, Closing
<1> QED
  BY <1>2, <1>3, <1>4, <1>5, <1>6, <1>7, <1>8, <1>9 DEF Next, Stopped

LEMMA BulkKept == Shape /\ Occupied /\ BulkBounded /\ [Next]_vars => BulkBounded'
<1> SUFFICES ASSUME Shape, Occupied, BulkBounded, [Next]_vars
             PROVE  BulkBounded'
  OBVIOUS
<1>0. BulkLimit \in Nat \ {0} /\ Len(<<>>) = 0 /\ bulkData \in Seq(RecordIds)
  BY Sizes, EmptySeq DEF Shape, TypeOK
<1>1. Requesters = {Writer, Closer} /\ Writer # Closer
  BY SenderAssumption DEF Requesters
<1>2. ASSUME NEW s \in Senders, Send(s) \/ SenderStep(s)
      PROVE  BulkBounded'
  <2>1. UNCHANGED <<bulkData, request>>
    BY <1>2, SendEffect, SenderEffect DEF outgoing
  <2> QED
    BY <2>1 DEF BulkBounded
<1>4. CASE Receive
  <2>1. Len(bulkData) \in Nat /\ Len(Append(bulkData, Head(dataChan))) = Len(bulkData) + 1
    <3>1. Head(dataChan) \in RecordIds
      BY <1>4, HeadTailProperties DEF Receive, Shape, TypeOK
    <3> QED
      BY <1>0, <3>1, LenProperties, AppendProperties
  <2>2. CASE Skips
    BY <2>2 DEF Skips, BulkBounded
  <2>3. CASE Collects
    BY <2>3 DEF Collects, BulkBounded
  <2>4. CASE Submits
    BY <1>0, <1>1, <2>1, <2>4 DEF Submits, BulkBounded
  <2> QED
    BY <1>4, <2>2, <2>3, <2>4, ReceiveEffect
<1>5. CASE WriterExit \/ CloseStart
  BY <1>5, WriterExitEffect, CloseStartEffect DEF BulkBounded
<1>6. ASSUME NEW t \in Requesters, Answer(t)
      PROVE  BulkBounded'
  <2>1. UNCHANGED bulkData /\ request'[t] = <<>>
        /\ \A u \in Requesters : u # t => request'[u] = request[u]
    BY <1>6, AnswerEffect
  <2> QED
    BY <1>0, <2>1 DEF BulkBounded
<1>8. CASE CloseWait
  <2>1. Len(bulkData) \in Nat
    BY <1>0, LenProperties
  <2>2. bulkData' = <<>> /\ request'[Writer] = request[Writer]
        /\ (request'[Closer] = bulkData \/ request' = request)
    BY <1>8, CloseWaitEffect
  <2> QED
    BY <1>0, <1>1, <2>1, <2>2 DEF BulkBounded
<1>9. CASE UNCHANGED vars
  BY <1>9 DEF vars, BulkBounded
<1> QED
  BY <1>2, <1>4, <1>5, <1>6, <1>8, <1>9 DEF Next, Stopped
-----------------------------------------------------------------------------
(* Everyone has what was left of it, or more.  What becomes of the records *)
(* is an apportionment of 1..n to those that wait, those in the buffers    *)
(* and those that met an end.                                              *)
Ends(f) == UNION {f[o] : o \in Outcomes}
Apportioned(w, b, f, n) ==
  /\ f \in [Outcomes -> SUBSET RecordIds]
  /\ w \cup b \cup Ends(f) = 1..n
  /\ w \cap b = {}
  /\ \A o \in Outcomes : f[o] \cap (w \cup b) = {}
  /\ \A o, p \in Outcomes : o # p => f[o] \cap f[p] = {}

LEMMA OneFateApportions ==
  Shape => (OneFate <=> /\ IsInjective(Buffered)
                        /\ Apportioned(Waiting, Range(Buffered), fate, submitted))
BY DEF Shape, TypeOK, OneFate, Apportioned, Ends

(* Records that meet an end leave the place where they were. *)
LEMMA Ending ==
  ASSUME NEW w, NEW b, NEW f, NEW n, Apportioned(w, b, f, n), NEW o \in Outcomes,
         NEW M \in SUBSET RecordIds, M \subseteq w \cup b,
         NEW g, g = [f EXCEPT ![o] = @ \cup M]
  PROVE  Apportioned(w \ M, b \ M, g, n)
<1>1. g \in [Outcomes -> SUBSET RecordIds]
  BY DEF Apportioned
<1>2. g[o] = f[o] \cup M /\ \A p \in Outcomes : p # o => g[p] = f[p]
  BY DEF Apportioned
<1>3. Ends(g) = Ends(f) \cup M
  BY <1>2 DEF Ends
<1>4. (w \ M) \cup (b \ M) \cup Ends(g) = 1..n
  BY <1>3 DEF Apportioned
<1>5. \A p \in Outcomes : f[p] \cap M = {}
  BY DEF Apportioned
<1>6. \A p \in Outcomes : g[p] \cap ((w \ M) \cup (b \ M)) = {}
  BY <1>2 DEF Apportioned
<1>7. \A p, q \in Outcomes : p # q => g[p] \cap g[q] = {}
  BY <1>2, <1>5 DEF Apportioned
<1> QED
  BY <1>1, <1>4, <1>6, <1>7 DEF Apportioned

(* Records that waited are buffered. *)
LEMMA Buffering ==
  ASSUME NEW w, NEW b, NEW f, NEW n, Apportioned(w, b, f, n), NEW M, M \subseteq w
  PROVE  Apportioned(w \ M, b \cup M, f, n) /\ M \cap b = {}
<1>1. (w \ M) \cup (b \cup M) = w \cup b
  OBVIOUS
<1> QED
  BY <1>1 DEF Apportioned

(* New records wait. *)
LEMMA Submitting ==
  ASSUME NEW w, NEW b, NEW f, NEW n \in Nat, Apportioned(w, b, f, n), NEW k \in Nat
  PROVE  /\ Apportioned(w \cup ((n + 1)..(n + k)), b, f, n + k)
         /\ \A x \in w \cup b \cup Ends(f) : x \notin (n + 1)..(n + k)
<1> DEFINE M == (n + 1)..(n + k)
<1>1. 1..(n + k) = (1..n) \cup M /\ (1..n) \cap M = {}
  OBVIOUS
<1>2. \A o \in Outcomes : f[o] \subseteq 1..n
  BY DEF Apportioned, Ends
<1>3. b \subseteq 1..n
  BY DEF Apportioned
<1> HIDE DEF M
<1>4. (w \cup M) \cup b \cup Ends(f) = 1..(n + k)
  BY <1>1 DEF Apportioned
<1>5. \A o \in Outcomes : f[o] \cap ((w \cup M) \cup b) = {}
  BY <1>1, <1>2 DEF Apportioned
<1>6. (w \cup M) \cap b = {}
  BY <1>1, <1>3 DEF Apportioned
<1>7. \A x \in w \cup b \cup Ends(f) : x \notin M
  BY <1>1 DEF Apportioned
<1>8. Apportioned(w \cup M, b, f, n + k)
  BY <1>4, <1>5, <1>6 DEF Apportioned
<1> QED
  BY <1>7, <1>8 DEF M

(* What the buffers hold. *)
Separate(q, r, u, v) ==
  /\ IsInjective(q) /\ IsInjective(r) /\ IsInjective(u) /\ IsInjective(v)
  /\ Range(q) \cap Range(r) = {} /\ Range(q) \cap Range(u) = {}
  /\ Range(q) \cap Range(v) = {} /\ Range(r) \cap Range(u) = {}
  /\ Range(r) \cap Range(v) = {} /\ Range(u) \cap Range(v) = {}

LEMMA FourBuffers ==
  ASSUME NEW S, NEW q \in Seq(S), NEW r \in Seq(S), NEW u \in Seq(S), NEW v \in Seq(S)
  PROVE  /\ Range(q \o r \o u \o v) = Range(q) \cup Range(r) \cup Range(u) \cup Range(v)
         /\ IsInjective(q \o r \o u \o v) <=> Separate(q, r, u, v)
<1>1. ASSUME NEW a \in Seq(S), NEW z \in Seq(S)
      PROVE  /\ a \o z \in Seq(S) /\ Range(a \o z) = Range(a) \cup Range(z)
             /\ IsInjective(a \o z) <=> IsInjective(a) /\ IsInjective(z) /\ Range(a) \cap Range(z) = {}
  BY ConcatProperties, RangeConcatenation, ConcatInjectivity
<1> DEFINE a == q \o r
<1>2. /\ a \in Seq(S) /\ Range(a) = Range(q) \cup Range(r)
      /\ IsInjective(a) <=> IsInjective(q) /\ IsInjective(r) /\ Range(q) \cap Range(r) = {}
  BY <1>1
<1> HIDE DEF a
<1> DEFINE b == a \o u
<1>3. /\ b \in Seq(S) /\ Range(b) = Range(a) \cup Range(u)
      /\ IsInjective(b) <=> IsInjective(a) /\ IsInjective(u) /\ Range(a) \cap Range(u) = {}
  BY <1>1, <1>2
<1> HIDE DEF b
<1>4. /\ b \o v \in Seq(S) /\ Range(b \o v) = Range(b) \cup Range(v)
      /\ IsInjective(b \o v) <=> IsInjective(b) /\ IsInjective(v) /\ Range(b) \cap Range(v) = {}
  BY <1>1, <1>3
<1>5. q \o r \o u \o v = b \o v
  BY DEF a, b
<1> QED
  BY <1>2, <1>3, <1>4, <1>5 DEF Separate

LEMMA BufferedParts ==
  ASSUME Shape
  PROVE  /\ Range(Buffered) = Range(dataChan) \cup Range(bulkData)
                                \cup Range(request[Writer]) \cup Range(request[Closer])
         /\ IsInjective(Buffered) =>
              Separate(dataChan, bulkData, request[Writer], request[Closer])
<1>1. /\ dataChan \in Seq(RecordIds) /\ bulkData \in Seq(RecordIds)
      /\ request[Writer] \in Seq(RecordIds) /\ request[Closer] \in Seq(RecordIds)
  BY ThreadsDiffer DEF Shape, TypeOK
<1> QED
  BY <1>1, FourBuffers DEF Buffered

LEMMA BufferedPartsNext ==
  ASSUME Shape'
  PROVE  /\ Range(Buffered)' = Range(dataChan') \cup Range(bulkData')
                                \cup Range(request'[Writer]) \cup Range(request'[Closer])
         /\ Separate(dataChan', bulkData', request'[Writer], request'[Closer]) =>
              IsInjective(Buffered)'
<1>1. /\ dataChan' \in Seq(RecordIds) /\ bulkData' \in Seq(RecordIds)
      /\ request'[Writer] \in Seq(RecordIds) /\ request'[Closer] \in Seq(RecordIds)
  BY ThreadsDiffer DEF Shape, TypeOK
<1> QED
  BY <1>1, FourBuffers DEF Buffered

(* A sender loses records. *)
LEMMA SenderLoses ==
  ASSUME Apart, NEW s \in Senders, NEW M, M \subseteq Range(todo[s]),
         IsInjective(todo'[s]), Range(todo'[s]) = Range(todo[s]) \ M,
         \A u \in Senders : u # s => todo'[u] = todo[u]
  PROVE  Apart' /\ Waiting' = Waiting \ M /\ M \subseteq Waiting
<1>1. \A u \in Senders : Range(todo'[u]) = Range(todo[u]) \ M
  BY DEF Apart
<1>2. Apart'
  BY <1>1 DEF Apart
<1>3. Waiting' = UNION {Range(todo'[u]) : u \in Senders}
  BY DEF Waiting
<1>4. Waiting' = Waiting \ M
  BY <1>1, <1>3 DEF Waiting
<1> QED
  BY <1>2, <1>4 DEF Waiting

LEMMA SenderFates ==
  ASSUME Shape, Shape', Occupied, Apart, OneFate, NEW s \in Senders, SenderStep(s)
  PROVE  Apart' /\ OneFate'
<1>1. IsInjective(Buffered) /\ Apportioned(Waiting, Range(Buffered), fate, submitted)
  BY OneFateApportions
<1>2. ASSUME IsInjective(Buffered)', Apportioned(Waiting', Range(Buffered)', fate', submitted')
      PROVE  OneFate'
  BY <1>2 DEF Apportioned, Ends, OneFate
<1>3. /\ \A u \in Senders : u # s => todo'[u] = todo[u]
      /\ UNCHANGED <<bulkData, request, submitted>>
  BY SenderEffect
<1>4. /\ todo \in [Senders -> Seq(RecordIds)] /\ todo[s] \in Seq(RecordIds)
      /\ dataChan \in Seq(RecordIds) /\ Range(todo[s]) \subseteq RecordIds
      /\ fate \in [Outcomes -> SUBSET RecordIds]
  BY RangeOfSeq DEF Shape, TypeOK
<1>5. CASE Stays(s)
  <2>1. UNCHANGED <<todo, Buffered, fate>>
    BY <1>3, <1>5 DEF Stays, Buffered
  <2>2. UNCHANGED <<Apart, Waiting>>
    BY <2>1 DEF Apart, Waiting
  <2> QED
    BY <1>1, <1>2, <1>3, <2>1, <2>2
<1>6. CASE FirstLeaves(s)
  <2> DEFINE h == Head(todo[s])
  <2>1. /\ Range(todo[s]) = {h} \cup Range(todo'[s])
        /\ IsInjective(todo'[s]) /\ h \notin Range(todo'[s])
    BY <1>4, <1>6, TailRange DEF FirstLeaves, Apart
  <2>2. Apart' /\ Waiting' = Waiting \ {h} /\ h \in Waiting /\ h \in RecordIds
    BY <1>3, <1>4, <2>1, SenderLoses
  <2>3. h \notin Range(Buffered)
    BY <1>1, <2>2 DEF Apportioned
  <2> HIDE DEF h
  <2>4. CASE dataChan' = Append(dataChan, h) /\ UNCHANGED fate
    <3>1. Range(dataChan') = Range(dataChan) \cup {h} /\ h \notin Range(dataChan)
      BY <1>4, <2>2, <2>3, <2>4, AppendRange, BufferedParts
    <3>2. IsInjective(dataChan')
      BY <1>1, <1>4, <2>2, <2>4, <3>1, AppendInjectivity, BufferedParts DEF Separate
    <3>3. Range(Buffered)' = Range(Buffered) \cup {h}
      BY <1>3, <3>1, BufferedParts, BufferedPartsNext
    <3>4. IsInjective(Buffered)'
      <4>1. /\ h \notin Range(bulkData) /\ h \notin Range(request[Writer])
            /\ h \notin Range(request[Closer])
        BY <2>3, BufferedParts
      <4> QED
        BY <1>1, <1>3, <3>1, <3>2, <4>1, BufferedParts, BufferedPartsNext DEF Separate
    <3>5. Apportioned(Waiting', Range(Buffered)', fate', submitted')
      <4> DEFINE M == {h}
      <4>1. M \subseteq Waiting
        BY <2>2
      <4> HIDE DEF M
      <4>2. Apportioned(Waiting \ M, Range(Buffered) \cup M, fate, submitted)
        BY <1>1, <4>1, Buffering
      <4> QED
        BY <1>3, <2>2, <2>4, <3>3, <4>2 DEF M
    <3> QED
      BY <1>2, <2>2, <3>4, <3>5
  <2>5. CASE (\E o \in {"dropped", "exhausted"} : Settle(o, {h})) /\ UNCHANGED dataChan
    <3>1. PICK o \in {"dropped", "exhausted"} : Settle(o, {h})
      BY <2>5
    <3>2. o \in Outcomes /\ fate' = [fate EXCEPT ![o] = @ \cup {h}]
      BY <3>1 DEF Outcomes, Settle
    <3>3. Buffered' = Buffered
      BY <1>3, <2>5 DEF Buffered
    <3>4. Apportioned(Waiting \ {h}, Range(Buffered) \ {h}, fate', submitted)
      BY <1>1, <2>2, <3>2, Ending
    <3>5. Range(Buffered) \ {h} = Range(Buffered)
      BY <2>3
    <3> QED
      BY <1>1, <1>2, <1>3, <2>2, <3>3, <3>4, <3>5
  <2> QED
    BY <1>6, <2>4, <2>5 DEF FirstLeaves, h
<1>7. CASE AllLeave(s)
  <2> DEFINE M == Range(todo[s])
  <2>1. todo'[s] = <<>> /\ Range(todo'[s]) = M \ M /\ IsInjective(todo'[s])
    BY <1>7, EmptyRange DEF AllLeave
  <2>2. Apart' /\ Waiting' = Waiting \ M /\ M \subseteq Waiting
    BY <1>3, <2>1, SenderLoses
  <2>3. "abandoned" \in Outcomes /\ fate' = [fate EXCEPT !["abandoned"] = @ \cup M]
    BY <1>7 DEF AllLeave, Outcomes, Settle
  <2>4. Buffered' = Buffered
    BY <1>3, <1>7 DEF AllLeave, Buffered
  <2> HIDE DEF M
  <2>5. M \in SUBSET RecordIds
    BY <1>4 DEF M
  <2>6. Apportioned(Waiting \ M, Range(Buffered) \ M, fate', submitted)
    BY <1>1, <2>2, <2>3, <2>5, Ending
  <2>7. Range(Buffered) \ M = Range(Buffered)
    BY <1>1, <2>2 DEF Apportioned
  <2> QED
    BY <1>1, <1>2, <1>3, <2>2, <2>4, <2>6, <2>7
<1> QED
  BY <1>5, <1>6, <1>7, SenderEffect

LEMMA SendFates ==
  ASSUME Shape, Shape', Apart, OneFate, Occupied, NEW s \in Senders, Send(s)
  PROVE  Apart' /\ OneFate'
<1>1. IsInjective(Buffered) /\ Apportioned(Waiting, Range(Buffered), fate, submitted)
  BY OneFateApportions
<1>2. PICK n \in Nat \ {0} : /\ todo'[s] = [i \in 1..n |-> submitted + i]
                             /\ submitted' = submitted + n
  BY SendEffect
<1>3. /\ \A u \in Senders : u # s => todo'[u] = todo[u]
      /\ UNCHANGED <<intake, outgoing, fate>> /\ todo[s] = <<>>
  BY SendEffect DEF Occupied
<1> DEFINE new == (submitted + 1)..(submitted + n)
<1>4. submitted \in Nat
  BY SenderAssumption DEF Shape, TypeOK
<1>5. Range(todo'[s]) = new /\ IsInjective(todo'[s])
  BY <1>2, <1>4, CountedSequence
<1>6. /\ Apportioned(Waiting \cup new, Range(Buffered), fate, submitted + n)
      /\ \A x \in Waiting : x \notin new
  BY <1>1, <1>4, Submitting
<1> HIDE DEF new
<1>7. Waiting' = Waiting \cup new
  <2>1. Waiting' = UNION {Range(todo'[u]) : u \in Senders}
    BY DEF Waiting
  <2>2. Range(todo[s]) = {}
    BY <1>3, EmptyRange
  <2> QED
    BY <1>3, <1>5, <2>1, <2>2 DEF Waiting
<1>8. Apart'
  <2>1. \A u \in Senders : u # s => Range(todo'[u]) \cap new = {}
    BY <1>3, <1>6 DEF Waiting
  <2> QED
    BY <1>3, <1>5, <2>1 DEF Apart
<1>9. Buffered' = Buffered
  BY <1>3 DEF Buffered, outgoing
<1> QED
  BY <1>1, <1>2, <1>3, <1>6, <1>7, <1>8, <1>9 DEF Apportioned, Ends, OneFate

LEMMA ReceiveFates ==
  ASSUME Shape, Shape', Occupied, Apart, OneFate, Receive
  PROVE  Apart' /\ OneFate'
<1> DEFINE h == Head(dataChan)
<1>1. /\ IsInjective(Buffered) /\ Apportioned(Waiting, Range(Buffered), fate, submitted)
      /\ Separate(dataChan, bulkData, request[Writer], request[Closer])
  BY OneFateApportions, BufferedParts
<1>2. ASSUME IsInjective(Buffered)', Apportioned(Waiting', Range(Buffered)', fate', submitted')
      PROVE  OneFate'
  BY <1>2 DEF Apportioned, Ends, OneFate
<1>3. /\ dataChan \in Seq(RecordIds) /\ bulkData \in Seq(RecordIds) /\ dataChan # <<>>
      /\ dataChan' = Tail(dataChan) /\ UNCHANGED <<todo, submitted>>
      /\ request[Writer] = <<>>
  BY ReceiveEffect, ThreadsDiffer DEF Shape, TypeOK, Occupied
<1>4. UNCHANGED <<Apart, Waiting>>
  BY <1>3 DEF Apart, Waiting
<1>5. /\ Range(dataChan) = {h} \cup Range(dataChan') /\ h \in RecordIds
      /\ IsInjective(dataChan') /\ h \notin Range(dataChan')
  BY <1>1, <1>3, TailRange, HeadTailProperties DEF Separate
<1>6. h \in Range(Buffered) /\ h \notin Waiting
  BY <1>1, <1>5, BufferedParts DEF Apportioned
<1> HIDE DEF h
<1>7. h \notin Range(bulkData) /\ h \notin Range(request[Writer]) /\ h \notin Range(request[Closer])
  BY <1>1, <1>5 DEF Separate
<1>8. CASE Skips
  <2>1. /\ UNCHANGED <<bulkData, request>> /\ fate' = [fate EXCEPT !["skipped"] = @ \cup {h}]
        /\ "skipped" \in Outcomes
    BY <1>8 DEF Skips, Settle, h, Outcomes
  <2>2. Range(Buffered)' = Range(Buffered) \ {h}
    BY <1>5, <1>7, <2>1, BufferedParts, BufferedPartsNext
  <2>3. IsInjective(Buffered)'
    BY <1>1, <1>5, <2>1, BufferedPartsNext DEF Separate
  <2> DEFINE M == {h}
  <2>4. M \in SUBSET RecordIds /\ M \subseteq Waiting \cup Range(Buffered)
    BY <1>5, <1>6
  <2>5. fate' = [fate EXCEPT !["skipped"] = @ \cup M]
    BY <2>1
  <2> HIDE DEF M
  <2>6. Apportioned(Waiting \ M, Range(Buffered) \ M, fate', submitted)
    BY <1>1, <2>1, <2>4, <2>5, Ending
  <2>7. Waiting \ M = Waiting
    BY <1>6 DEF M
  <2> QED
    BY <1>2, <1>3, <1>4, <2>2, <2>3, <2>6, <2>7 DEF M
<1>9. ASSUME IsInjective(Buffered)', Range(Buffered)' = Range(Buffered), UNCHANGED fate
      PROVE  Apart' /\ OneFate'
  BY <1>1, <1>2, <1>3, <1>4, <1>9
<1>10. Range(Append(bulkData, h)) = Range(bulkData) \cup {h} /\ IsInjective(Append(bulkData, h))
  BY <1>1, <1>3, <1>5, <1>7, AppendRange, AppendInjectivity DEF Separate
<1>11. CASE Collects
  <2>1. bulkData' = Append(bulkData, h) /\ UNCHANGED <<request, fate>>
    BY <1>11 DEF Collects, h
  <2>2. Range(Buffered)' = Range(Buffered)
    BY <1>5, <1>10, <2>1, BufferedParts, BufferedPartsNext
  <2>3. Separate(dataChan', bulkData', request'[Writer], request'[Closer])
    BY <1>1, <1>5, <1>7, <1>10, <2>1 DEF Separate
  <2> QED
    BY <1>9, <2>1, <2>2, <2>3, BufferedPartsNext
<1>12. CASE Submits
  <2>1. /\ bulkData' = <<>> /\ request'[Writer] = Append(bulkData, h)
        /\ request'[Closer] = request[Closer] /\ UNCHANGED fate
    BY <1>12 DEF Submits, h
  <2>2. Range(Buffered)' = Range(Buffered)
    BY <1>3, <1>5, <1>10, <2>1, BufferedParts, BufferedPartsNext, EmptyRange
  <2>3. Separate(dataChan', bulkData', request'[Writer], request'[Closer])
    BY <1>1, <1>5, <1>7, <1>10, <2>1, EmptyRange DEF Separate
  <2> QED
    BY <1>9, <2>1, <2>2, <2>3, BufferedPartsNext
<1> QED
  BY <1>8, <1>11, <1>12, ReceiveEffect

LEMMA CloseWaitFates ==
  ASSUME Shape, Shape', Occupied, Apart, OneFate, CloseWait
  PROVE  Apart' /\ OneFate'
<1>1. /\ IsInjective(Buffered) /\ Apportioned(Waiting, Range(Buffered), fate, submitted)
      /\ Separate(dataChan, bulkData, request[Writer], request[Closer])
  BY OneFateApportions, BufferedParts
<1>2. /\ UNCHANGED <<todo, submitted, fate, dataChan>>
      /\ request'[Writer] = request[Writer] /\ bulkData' = <<>>
      /\ request'[Closer] = bulkData
      /\ request[Closer] = <<>>
  BY CloseWaitEffect, ThreadsDiffer DEF Occupied
<1>3. UNCHANGED <<Apart, Waiting>>
  BY <1>2 DEF Apart, Waiting
<1>4. Range(Buffered)' = Range(Buffered)
  BY <1>2, BufferedParts, BufferedPartsNext, EmptyRange
<1>5. Separate(dataChan', bulkData', request'[Writer], request'[Closer])
  BY <1>1, <1>2, EmptyRange DEF Separate
<1>6. IsInjective(Buffered)'
  BY <1>5, BufferedPartsNext
<1> QED
  BY <1>1, <1>2, <1>3, <1>4, <1>6 DEF Apportioned, Ends, OneFate

LEMMA AnswerFates ==
  ASSUME Shape, Shape', Apart, OneFate, NEW t \in Requesters, Answer(t)
  PROVE  Apart' /\ OneFate'
<1> DEFINE M == Range(request[t])
<1>1. /\ IsInjective(Buffered) /\ Apportioned(Waiting, Range(Buffered), fate, submitted)
      /\ Separate(dataChan, bulkData, request[Writer], request[Closer])
  BY OneFateApportions, BufferedParts
<1>2. /\ UNCHANGED <<todo, submitted, dataChan, bulkData>> /\ request'[t] = <<>>
      /\ \A u \in Requesters : u # t => request'[u] = request[u]
  BY AnswerEffect
<1>3. UNCHANGED <<Apart, Waiting>>
  BY <1>2 DEF Apart, Waiting
<1>4. t = Writer \/ t = Closer
  BY DEF Requesters
<1>5. /\ Range(Buffered)' = Range(Buffered) \ M
      /\ Separate(dataChan', bulkData', request'[Writer], request'[Closer])
  BY <1>1, <1>2, <1>4, ThreadsDiffer, EmptyRange, BufferedParts, BufferedPartsNext DEF Separate
<1>6. M \in SUBSET RecordIds /\ M \subseteq Waiting \cup Range(Buffered)
  BY <1>4, RangeOfSeq, BufferedParts DEF Shape, TypeOK
<1>7. PICK o \in Outcomes : fate' = [fate EXCEPT ![o] = @ \cup M]
  BY AnswerEffect DEF Settle, Outcomes
<1> HIDE DEF M
<1>8. Apportioned(Waiting \ M, Range(Buffered) \ M, fate', submitted)
  BY <1>1, <1>6, <1>7, Ending
<1>9. Waiting \ M = Waiting
  <2>1. M \subseteq Range(Buffered)
    BY <1>4, BufferedParts DEF M
  <2> QED
    BY <1>1, <2>1 DEF Apportioned
<1>10. IsInjective(Buffered)'
  BY <1>5, BufferedPartsNext
<1> QED
  BY <1>2, <1>3, <1>5, <1>8, <1>9, <1>10 DEF Apportioned, Ends, OneFate

LEMMA FatesKept == Shape /\ Shape' /\ Occupied /\ Apart /\ OneFate /\ [Next]_vars => Apart' /\ OneFate'
<1> SUFFICES ASSUME Shape, Shape', Occupied, Apart, OneFate, [Next]_vars
             PROVE  Apart' /\ OneFate'
  OBVIOUS
<1>1. ASSUME UNCHANGED <<todo, dataChan, bulkData, request, fate, submitted>>
      PROVE  Apart' /\ OneFate'
  BY <1>1 DEF Apart, OneFate, Waiting, Buffered
<1>2. CASE WriterExit \/ CloseStart
  BY <1>1, <1>2, WriterExitEffect, CloseStartEffect
<1>3. CASE UNCHANGED vars
  BY <1>1, <1>3 DEF vars
<1> QED
  BY <1>2, <1>3, SendFates, SenderFates, ReceiveFates, CloseWaitFates, AnswerFates DEF Next, Stopped
-----------------------------------------------------------------------------
(* The counters. *)

LEMMA FateSizes ==
  ASSUME Shape, NEW o \in Outcomes
  PROVE  IsFiniteSet(fate[o]) /\ Cardinality(fate[o]) \in Nat
<1>1. fate[o] \subseteq 1..MaxRecords /\ MaxRecords \in Nat
  BY SenderAssumption DEF Shape, TypeOK, RecordIds
<1>2. IsFiniteSet(1..MaxRecords)
  BY <1>1, FS_Interval
<1> QED
  BY <1>1, <1>2, FS_Subset, FS_CardinalityType

LEMMA Settling ==
  ASSUME Shape, NEW o \in Outcomes, NEW M, IsFiniteSet(M), M \cap fate[o] = {}, Settle(o, M)
  PROVE  /\ Cardinality(fate'[o]) = Cardinality(fate[o]) + Cardinality(M)
         /\ \A p \in Outcomes : p # o => fate'[p] = fate[p]
<1>1. fate'[o] = fate[o] \cup M /\ \A p \in Outcomes : p # o => fate'[p] = fate[p]
  BY DEF Settle, Shape, TypeOK
<1>2. Cardinality(fate[o] \cup M) = Cardinality(fate[o]) + Cardinality(M) - Cardinality({})
  <2>1. fate[o] \cap M = {}
    OBVIOUS
  <2> QED
    BY <2>1, FateSizes, FS_Union
<1>3. Cardinality({}) = 0 /\ Cardinality(M) \in Nat /\ Cardinality(fate[o]) \in Nat
  BY FS_EmptySet, FateSizes, FS_CardinalityType
<1> QED
  BY <1>1, <1>2, <1>3

(* What a sender does to its counter: nothing, load it, or store it. *)
CountsNothing(s) == /\ UNCHANGED <<reg, toChannelFailedCount>> /\ pc'[s] # "count"
                    /\ fate'["exhausted"] = fate["exhausted"]
Loads(s) == /\ UNCHANGED <<toChannelFailedCount, fate>>
            /\ reg'[s] = toChannelFailedCount
            /\ \A u \in Senders : u # s => reg'[u] = reg[u]
Stores(s) == /\ pc[s] = "count" /\ pc'[s] # "count" /\ UNCHANGED reg
             /\ toChannelFailedCount' = reg[s] + 1
             /\ todo[s] # <<>> /\ Settle("exhausted", {Head(todo[s])})

LEMMA SenderCounts ==
  ASSUME Shape, Occupied, NEW s \in Senders, SenderStep(s)
  PROVE  /\ CountsNothing(s) \/ Loads(s) \/ Stores(s)
         /\ fate'["acked"] = fate["acked"] /\ fate'["refused"] = fate["refused"]
<1>1. /\ fate \in [Outcomes -> SUBSET RecordIds] /\ reg \in [Senders -> Nat]
      /\ {"acked", "refused", "exhausted", "dropped", "abandoned"} \subseteq Outcomes
  BY DEF Shape, TypeOK, Outcomes
<1>2. \A l \in {"idle", "try", "sleep", "count"} : Goto(s, l) => pc'[s] = l
  BY SenderGoto
<1>3. ASSUME pc[s] # "idle", NextRecord(s)
      PROVE  pc'[s] # "count" /\ todo[s] # <<>>
  <2>1. Goto(s, IF todo'[s] = <<>> THEN "idle" ELSE "try") /\ todo[s] # <<>>
    BY <1>3, NextRecordTypes
  <2> HIDE DEF Goto
  <2>2. CASE todo'[s] = <<>>
    BY <1>2, <2>1, <2>2
  <2>3. CASE todo'[s] # <<>>
    BY <1>2, <2>1, <2>3
  <2> QED
    BY <2>2, <2>3
<1> HIDE DEF Goto
<1>4. CASE TimedOut(s)
  BY <1>1, <1>3, <1>4 DEF TimedOut, Trying, CountsNothing, Settle
<1>5. CASE Push(s)
  BY <1>1, <1>3, <1>5 DEF Push, Trying, CountsNothing
<1>6. CASE PushPanics(s)
  BY <1>1, <1>2, <1>6 DEF PushPanics, CountsNothing, Settle
<1>7. CASE Full(s)
  BY <1>1, <1>2, <1>7 DEF Full, CountsNothing
<1>8. CASE Wake(s)
  BY <1>1, <1>2, <1>8 DEF Wake, CountsNothing
<1>9. CASE Exhausted(s)
  BY <1>1, <1>9 DEF Exhausted, Loads
<1>10. CASE Count(s)
  BY <1>1, <1>3, <1>10 DEF Count, Stores, Settle
<1> QED
  BY <1>4, <1>5, <1>6, <1>7, <1>8, <1>9, <1>10 DEF SenderStep

LEMMA SenderCounters ==
  ASSUME Shape, Occupied, OneFate, CountersAgree, Counting, Lined,
         NEW s \in Senders, SenderStep(s)
  PROVE  CountersAgree' /\ Counting'
<1>1. /\ UNCHANGED <<successCount, failedCount, serial>>
      /\ fate'["acked"] = fate["acked"] /\ fate'["refused"] = fate["refused"]
      /\ \A u \in Senders : u # s => pc'[u] = pc[u]
  BY SenderEffect, SenderCounts
<1>2. CASE CountsNothing(s)
  BY <1>1, <1>2 DEF CountsNothing, CountersAgree, Counting
<1>3. CASE Loads(s)
  BY <1>1, <1>3 DEF Loads, CountersAgree, Counting
<1>4. CASE Stores(s)
  <2> DEFINE h == Head(todo[s])
             n == Cardinality(fate["exhausted"])
  <2>1. "exhausted" \in Outcomes /\ n \in Nat /\ reg \in [Senders -> Nat]
        /\ toChannelFailedCount \in Nat
    BY FateSizes DEF Outcomes, Shape, TypeOK
  <2>2. h \notin fate["exhausted"]
    <3>1. h \in Range(todo[s])
      BY <1>4, HeadInRange DEF Stores, Shape, TypeOK
    <3> QED
      BY <2>1, <3>1 DEF OneFate, Waiting
  <2>3. Cardinality(fate'["exhausted"]) = n + 1
    <3>1. IsFiniteSet({h}) /\ Cardinality({h}) = 1
      BY FS_Singleton
    <3> QED
      BY <1>4, <2>1, <2>2, <3>1, Settling DEF Stores
  <2>4. reg[s] <= n /\ (serial => reg[s] = toChannelFailedCount /\ toChannelFailedCount = n)
    BY <1>4 DEF Stores, Counting, CountersAgree
  <2>5. CountersAgree'
    BY <1>1, <1>4, <2>1, <2>3, <2>4 DEF Stores, CountersAgree
  <2>6. \A u \in Senders : pc'[u] = "count" => u # s /\ pc[u] = "count" /\ reg'[u] = reg[u]
    BY <1>1, <1>4 DEF Stores
  <2>7. \A u \in Senders : pc'[u] = "count" => reg'[u] <= Cardinality(fate'["exhausted"])
    BY <2>1, <2>3, <2>6 DEF Counting
  <2>8. serial => \A u \in Senders : pc'[u] # "count"
    BY <1>4, <2>6 DEF Stores, Lined
  <2> QED
    BY <1>1, <2>5, <2>7, <2>8 DEF Counting
<1> QED
  BY <1>2, <1>3, <1>4, SenderCounts

LEMMA AnswerCounters ==
  ASSUME Shape, OneFate, CountersAgree, Counting, NEW t \in Requesters, Answer(t)
  PROVE  CountersAgree' /\ Counting'
<1> DEFINE M == Range(request[t])
<1>1. /\ UNCHANGED <<reg, toChannelFailedCount, serial>>
      /\ \A u \in Senders : pc'[u] = pc[u]
  BY AnswerEffect, ThreadsDiffer
<1>2. request[t] \in Seq(RecordIds) /\ IsInjective(request[t]) /\ M \subseteq Range(Buffered)
  <2>1. t = Writer \/ t = Closer
    BY DEF Requesters
  <2> QED
    BY <2>1, BufferedParts DEF Shape, TypeOK, OneFate, Separate
<1>3. IsFiniteSet(M) /\ Cardinality(M) = Len(request[t]) /\ \A o \in Outcomes : M \cap fate[o] = {}
  BY <1>2, InjectiveCardinality DEF OneFate
<1>4. {"acked", "refused", "exhausted"} \subseteq Outcomes
  BY DEF Outcomes
<1> HIDE DEF M
<1>5. CASE /\ Settle("acked", M)
           /\ successCount' = successCount + Len(request[t]) /\ UNCHANGED failedCount
  <2>1. /\ Cardinality(fate'["acked"]) = Cardinality(fate["acked"]) + Cardinality(M)
        /\ fate'["refused"] = fate["refused"] /\ fate'["exhausted"] = fate["exhausted"]
    BY <1>3, <1>4, <1>5, Settling
  <2> QED
    BY <1>1, <1>3, <1>5, <2>1 DEF CountersAgree, Counting
<1>6. CASE /\ Settle("refused", M)
           /\ failedCount' = failedCount + Len(request[t]) /\ UNCHANGED successCount
  <2>1. /\ Cardinality(fate'["refused"]) = Cardinality(fate["refused"]) + Cardinality(M)
        /\ fate'["acked"] = fate["acked"] /\ fate'["exhausted"] = fate["exhausted"]
    BY <1>3, <1>4, <1>6, Settling
  <2> QED
    BY <1>1, <1>3, <1>6, <2>1 DEF CountersAgree, Counting
<1> QED
  BY <1>5, <1>6, AnswerEffect DEF M

LEMMA CountersKept ==
  Shape /\ Occupied /\ OneFate /\ CountersAgree /\ Counting /\ Lined /\ [Next]_vars
    => CountersAgree' /\ Counting'
<1> SUFFICES ASSUME Shape, Occupied, OneFate, CountersAgree, Counting, Lined, [Next]_vars
             PROVE  CountersAgree' /\ Counting'
  OBVIOUS
<1>1. ASSUME /\ UNCHANGED <<successCount, failedCount, toChannelFailedCount, reg>>
             /\ \A o \in {"acked", "refused", "exhausted"} : fate'[o] = fate[o]
             /\ serial' => serial
             /\ \A u \in Senders : pc'[u] = "count" => pc[u] = "count"
      PROVE  CountersAgree' /\ Counting'
  BY <1>1 DEF CountersAgree, Counting
<1>2. ASSUME NEW s \in Senders, Send(s)
      PROVE  CountersAgree' /\ Counting'
  <2>1. \A u \in Senders : pc'[u] = "count" => pc[u] = "count"
    BY <1>2, SendEffect
  <2>2. UNCHANGED <<counters, reg, fate>> /\ (serial' => serial)
    BY <1>2, SendEffect
  <2> QED
    BY <1>1, <2>1, <2>2
<1>3. CASE Receive
  <2>1. \A o \in {"acked", "refused", "exhausted"} : fate'[o] = fate[o]
    <3>1. CASE Skips
      BY <3>1 DEF Skips, Settle, Outcomes, Shape, TypeOK
    <3>2. CASE Collects \/ Submits
      BY <3>2 DEF Collects, Submits
    <3> QED
      BY <1>3, <3>1, <3>2, ReceiveEffect
  <2>2. UNCHANGED <<senderVars, counters, calls>> /\ \A u \in Senders : pc'[u] = pc[u]
    BY <1>3, ReceiveEffect, ThreadsDiffer
  <2> QED
    BY <1>1, <2>1, <2>2
<1>4. CASE WriterExit
  BY <1>1, <1>4, WriterExitEffect, ThreadsDiffer
<1>5. CASE CloseStart
  BY <1>1, <1>5, CloseStartEffect, ThreadsDiffer
<1>6. CASE CloseWait
  BY <1>1, <1>6, CloseWaitEffect, ThreadsDiffer
<1>7. CASE UNCHANGED vars
  BY <1>1, <1>7 DEF vars
<1> QED
  BY <1>2, <1>3, <1>4, <1>5, <1>6, <1>7, SenderCounters, AnswerCounters DEF Next, Stopped
-----------------------------------------------------------------------------
(* The order. *)

LEMMA Numbers ==
  Shape => /\ requested \in Seq(Nat) /\ bulkData \in Seq(Nat) /\ dataChan \in Seq(Nat)
           /\ \A s \in Senders : todo[s] \in Seq(Nat)
           /\ submitted \in Nat
<1>1. RecordIds \subseteq Nat /\ MaxRecords \in Nat
  BY SenderAssumption DEF RecordIds
<1>2. \A z \in Seq(RecordIds) : z \in Seq(Nat)
  BY SenderAssumption DEF RecordIds
<1> QED
  BY <1>1, <1>2 DEF Shape, TypeOK

(* r, b and q, one after the other, are in order. *)
Below(a, b) == \A x \in a, y \in b : x < y
Succession(r, b, q) ==
  /\ Increasing(r) /\ Increasing(b) /\ Increasing(q)
  /\ Below(Range(r), Range(b)) /\ Below(Range(r), Range(q)) /\ Below(Range(b), Range(q))

LEMMA SuccessionIncreases ==
  ASSUME NEW r \in Seq(Nat), NEW b \in Seq(Nat), NEW q \in Seq(Nat)
  PROVE  /\ Increasing(r \o (b \o q)) <=> Succession(r, b, q)
         /\ Range(r \o (b \o q)) = Range(r) \cup Range(b) \cup Range(q)
<1> DEFINE c == b \o q
<1>1. /\ c \in Seq(Nat) /\ Range(c) = Range(b) \cup Range(q)
      /\ Increasing(c) <=> Increasing(b) /\ Increasing(q) /\ Below(Range(b), Range(q))
  BY ConcatProperties, RangeConcatenation, ConcatIncreasing DEF Below
<1> HIDE DEF c
<1>2. /\ Range(r \o c) = Range(r) \cup Range(c)
      /\ Increasing(r \o c) <=> Increasing(r) /\ Increasing(c) /\ Below(Range(r), Range(c))
  BY <1>1, RangeConcatenation, ConcatIncreasing DEF Below
<1>3. Below(Range(r), Range(c)) <=> Below(Range(r), Range(b)) /\ Below(Range(r), Range(q))
  BY <1>1 DEF Below
<1> QED
  BY <1>1, <1>2, <1>3 DEF Succession, c

LEMMA AppendIncreasing ==
  ASSUME NEW q \in Seq(Nat), NEW h \in Nat, Increasing(q), Below(Range(q), {h})
  PROVE  /\ Append(q, h) \in Seq(Nat) /\ Increasing(Append(q, h))
         /\ Range(Append(q, h)) = Range(q) \cup {h}
<1>1. Append(q, h) = q \o <<h>>
  BY AppendProperties, AppendIsConcat
<1>2. \A x \in Range(q), y \in Range(<<h>>) : x < y
  BY SingletonIncreasing DEF Below
<1>3. Increasing(q \o <<h>>)
  BY <1>2, SingletonIncreasing, ConcatIncreasing
<1>4. Increasing(Append(q, h))
  BY <1>1, <1>3
<1>5. Append(q, h) \in Seq(Nat) /\ Range(Append(q, h)) = Range(q) \cup {h}
  BY AppendProperties, AppendRange
<1> QED
  BY <1>4, <1>5

LEMMA LinedParts ==
  ASSUME Shape
  PROVE  /\ Increasing(InLine) <=> Succession(requested, bulkData, dataChan)
         /\ Range(InLine) = Range(requested) \cup Range(bulkData) \cup Range(dataChan)
BY Numbers, SuccessionIncreases DEF InLine

LEMMA LinedPartsNext ==
  ASSUME Shape'
  PROVE  /\ Increasing(InLine)' <=> Succession(requested', bulkData', dataChan')
         /\ Range(InLine)' = Range(requested') \cup Range(bulkData') \cup Range(dataChan')
<1>1. requested' \in Seq(Nat) /\ bulkData' \in Seq(Nat) /\ dataChan' \in Seq(Nat)
  <2>1. \A z \in Seq(RecordIds) : z \in Seq(Nat)
    BY SenderAssumption DEF RecordIds
  <2> QED
    BY <2>1 DEF Shape, TypeOK
<1> QED
  BY <1>1, SuccessionIncreases DEF InLine

(* Everything submitted is a number up to submitted. *)
LEMMA WithinSubmitted ==
  ASSUME Shape, OneFate, Lined
  PROVE  /\ Range(InLine) \subseteq 1..submitted
         /\ \A s \in Senders : Range(todo[s]) \subseteq 1..submitted
<1>1. Waiting \cup Range(Buffered) \subseteq 1..submitted
  BY DEF OneFate
<1> QED
  BY <1>1, LinedParts, BufferedParts DEF Waiting, Lined

LEMMA SendLined ==
  ASSUME Shape, Shape', Occupied, OneFate, Lined, NEW s \in Senders, Send(s)
  PROVE  Lined'
<1>1. PICK n \in Nat \ {0} : /\ todo'[s] = [i \in 1..n |-> submitted + i]
                             /\ submitted' = submitted + n
  BY SendEffect
<1>2. /\ UNCHANGED <<dataChan, bulkData, requested>>
      /\ \A u \in Senders : u # s => todo'[u] = todo[u] /\ pc'[u] = pc[u]
      /\ submitted \in Nat
  BY SendEffect, Numbers DEF outgoing
<1>3. InLine' = InLine
  BY <1>2 DEF InLine
<1>4. Range(requested') \subseteq 1..submitted'
  BY <1>1, <1>2 DEF Lined
<1>5. Range(todo'[s]) = (submitted + 1)..(submitted + n) /\ Increasing(todo'[s])
  BY <1>1, <1>2, CountedSequence
<1>6. ASSUME serial'
      PROVE  /\ \A u, v \in Senders : pc'[u] # "idle" /\ pc'[v] # "idle" => u = v
             /\ Increasing(InLine)'
             /\ \A u \in Senders : /\ Increasing(todo'[u])
                                   /\ \A x \in Range(InLine)', y \in Range(todo'[u]) : x < y
  <2>1. serial /\ \A u \in Senders : pc[u] = "idle" /\ todo[u] = <<>>
    BY <1>6, SendEffect DEF SendersIdle, Occupied
  <2>2. \A u, v \in Senders : pc'[u] # "idle" /\ pc'[v] # "idle" => u = v
    BY <1>2, <2>1
  <2>3. \A x \in Range(InLine), y \in Range(todo'[s]) : x < y
    BY <1>2, <1>5, WithinSubmitted
  <2>4. \A u \in Senders : u # s => Increasing(todo'[u]) /\ Range(todo'[u]) = {}
    BY <1>2, <2>1, EmptyRange
  <2> QED
    BY <1>3, <1>5, <2>1, <2>2, <2>3, <2>4 DEF Lined
<1> QED
  BY <1>4, <1>6 DEF Lined

LEMMA SenderLined ==
  ASSUME Shape, Shape', Occupied, Lined, NEW s \in Senders, SenderStep(s)
  PROVE  Lined'
<1>1. /\ \A u \in Senders : u # s => todo'[u] = todo[u] /\ pc'[u] = pc[u]
      /\ UNCHANGED <<bulkData, requested, submitted, serial>>
      /\ Range(requested) \subseteq 1..submitted
  BY SenderEffect DEF Lined
<1> SUFFICES ASSUME serial
             PROVE  /\ \A u, v \in Senders : pc'[u] # "idle" /\ pc'[v] # "idle" => u = v
                    /\ Increasing(InLine)'
                    /\ \A u \in Senders :
                         /\ Increasing(todo'[u])
                         /\ \A x \in Range(InLine)', y \in Range(todo'[u]) : x < y
  BY <1>1 DEF Lined
<1>2. pc[s] # "idle"
  BY SenderEffect DEF Stays, FirstLeaves, AllLeave
<1>3. \A u \in Senders : u # s => pc'[u] = "idle" /\ todo[u] = <<>> /\ Range(todo'[u]) = {}
  BY <1>1, <1>2, EmptyRange DEF Lined, Occupied
<1>4. /\ Increasing(InLine) /\ Increasing(todo[s]) /\ todo[s] \in Seq(Nat)
      /\ \A x \in Range(InLine), y \in Range(todo[s]) : x < y
  BY Numbers DEF Lined
<1>5. ASSUME Increasing(InLine)', Increasing(todo'[s]),
             \A x \in Range(InLine)', y \in Range(todo'[s]) : x < y
      PROVE  /\ Increasing(InLine)'
             /\ \A u \in Senders :
                  /\ Increasing(todo'[u])
                  /\ \A x \in Range(InLine)', y \in Range(todo'[u]) : x < y
  BY <1>1, <1>3, <1>5, EmptyRange
<1>6. CASE Stays(s)
  <2>1. UNCHANGED <<todo, InLine>>
    BY <1>1, <1>6 DEF Stays, InLine
  <2> QED
    BY <1>3, <1>4, <1>5, <2>1
<1>7. CASE AllLeave(s)
  <2>1. UNCHANGED InLine /\ todo'[s] = <<>>
    BY <1>1, <1>7 DEF AllLeave, InLine
  <2> QED
    BY <1>3, <1>4, <1>5, <2>1, EmptyRange
<1>8. CASE FirstLeaves(s)
  <2> DEFINE h == Head(todo[s])
  <2>1. /\ todo'[s] = Tail(todo[s]) /\ Increasing(todo'[s])
        /\ \A y \in Range(todo'[s]) : h < y
        /\ h \in Range(todo[s]) /\ h \in Nat /\ Range(todo'[s]) \subseteq Range(todo[s])
    BY <1>4, <1>8, TailIncreasing, HeadInRange, TailRange, HeadTailProperties DEF FirstLeaves
  <2> HIDE DEF h
  <2>2. CASE UNCHANGED dataChan
    <3>1. UNCHANGED InLine
      BY <1>1, <2>2 DEF InLine
    <3> QED
      BY <1>3, <1>4, <1>5, <2>1, <3>1
  <2>3. CASE dataChan' = Append(dataChan, h)
    <3>1. Below(Range(InLine), {h}) /\ dataChan \in Seq(Nat)
      BY <1>4, <2>1, Numbers DEF Below
    <3>2. /\ Succession(requested, bulkData, dataChan)
          /\ Range(InLine) = Range(requested) \cup Range(bulkData) \cup Range(dataChan)
      BY <1>4, LinedParts
    <3>3. Increasing(dataChan') /\ Range(dataChan') = Range(dataChan) \cup {h}
      <4>1. Below(Range(dataChan), {h}) /\ Increasing(dataChan)
        BY <3>1, <3>2 DEF Below, Succession
      <4> QED
        BY <2>1, <2>3, <3>1, <4>1, AppendIncreasing
    <3>4. Succession(requested', bulkData', dataChan')
      BY <1>1, <3>1, <3>2, <3>3 DEF Succession, Below
    <3>5. Range(InLine)' = Range(InLine) \cup {h}
      BY <1>1, <3>2, <3>3, LinedPartsNext
    <3>6. \A x \in Range(InLine)', y \in Range(todo'[s]) : x < y
      BY <1>4, <2>1, <3>5
    <3> QED
      BY <1>3, <1>5, <2>1, <3>4, <3>6, LinedPartsNext
  <2> QED
    BY <1>8, <2>2, <2>3 DEF FirstLeaves, h
<1> QED
  BY <1>6, <1>7, <1>8, SenderEffect

(* The Writer and Close only move records along, or remove one. *)
LEMMA MoveLined ==
  ASSUME Shape, Shape', Lined,
         serial' = serial, UNCHANGED <<todo, submitted>>,
         \A s \in Senders : pc'[s] = pc[s],
         Range(requested') \subseteq Range(InLine) \cap (1..submitted),
         Succession(requested, bulkData, dataChan) => Succession(requested', bulkData', dataChan'),
         Range(InLine)' \subseteq Range(InLine)
  PROVE  Lined'
<1>1. Increasing(InLine) => Increasing(InLine)'
  BY LinedParts, LinedPartsNext
<1> QED
  BY <1>1 DEF Lined

LEMMA ReceiveLined ==
  ASSUME Shape, Shape', OneFate, Lined, Receive
  PROVE  Lined'
<1> DEFINE h == Head(dataChan)
<1>1. /\ dataChan # <<>> /\ dataChan' = Tail(dataChan) /\ UNCHANGED <<todo, submitted, serial>>
      /\ \A s \in Senders : pc'[s] = pc[s]
  BY ReceiveEffect, ThreadsDiffer
<1>2. /\ requested \in Seq(Nat) /\ bulkData \in Seq(Nat) /\ dataChan \in Seq(Nat) /\ h \in Nat
      /\ Range(dataChan) = {h} \cup Range(dataChan')
  BY <1>1, Numbers, TailRange, HeadTailProperties
<1>3. Increasing(dataChan) => Increasing(dataChan') /\ Below({h}, Range(dataChan'))
  BY <1>1, <1>2, TailIncreasing DEF Below
<1>4. Range(InLine) \subseteq 1..submitted
      /\ Range(InLine) = Range(requested) \cup Range(bulkData) \cup Range(dataChan)
      /\ Range(InLine)' = Range(requested') \cup Range(bulkData') \cup Range(dataChan')
  BY WithinSubmitted, LinedParts, LinedPartsNext
<1> HIDE DEF h
<1>5. Range(Append(bulkData, h)) = Range(bulkData) \cup {h}
  BY <1>2, AppendRange
<1>6. CASE Skips
  <2>1. UNCHANGED <<bulkData, requested>>
    BY <1>6 DEF Skips
  <2>2. Succession(requested, bulkData, dataChan) => Succession(requested', bulkData', dataChan')
    BY <1>2, <1>3, <2>1 DEF Succession, Below
  <2> QED
    BY <1>1, <1>2, <1>4, <2>1, <2>2, MoveLined
<1>7. ASSUME Succession(requested, bulkData, dataChan)
      PROVE  /\ Increasing(Append(bulkData, h))
             /\ Below(Range(requested), Range(Append(bulkData, h)))
             /\ Below(Range(Append(bulkData, h)), Range(dataChan'))
  <2>1. Below(Range(bulkData), {h}) /\ Increasing(bulkData)
    BY <1>2, <1>7 DEF Succession, Below
  <2>2. Increasing(Append(bulkData, h))
    BY <1>2, <2>1, AppendIncreasing
  <2> QED
    BY <1>2, <1>3, <1>5, <1>7, <2>2 DEF Succession, Below
<1>8. CASE Collects
  <2>1. bulkData' = Append(bulkData, h) /\ UNCHANGED requested
    BY <1>8 DEF Collects, h
  <2>2. Succession(requested, bulkData, dataChan) => Succession(requested', bulkData', dataChan')
    BY <1>2, <1>3, <1>7, <2>1 DEF Succession, Below
  <2> QED
    BY <1>1, <1>2, <1>4, <1>5, <2>1, <2>2, MoveLined
<1>9. CASE Submits
  <2>1. bulkData' = <<>> /\ requested' = requested \o Append(bulkData, h)
    BY <1>9 DEF Submits, h
  <2>2. Append(bulkData, h) \in Seq(Nat)
    BY <1>2, AppendProperties
  <2>3. Range(requested') = Range(requested) \cup Range(Append(bulkData, h))
    <3> DEFINE a == Append(bulkData, h)
    <3>1. requested \in Seq(Nat) /\ a \in Seq(Nat) /\ requested' = requested \o a
      BY <1>2, <2>1, <2>2
    <3> HIDE DEF a
    <3>2. Range(requested \o a) = Range(requested) \cup Range(a)
      BY <3>1, RangeConcatenation
    <3> QED
      BY <3>1, <3>2 DEF a
  <2>4. ASSUME Succession(requested, bulkData, dataChan)
        PROVE  Succession(requested', bulkData', dataChan')
    <3>1. Increasing(requested')
      BY <1>2, <1>7, <2>1, <2>2, <2>4, ConcatIncreasing DEF Succession, Below
    <3> QED
      BY <1>2, <1>3, <1>7, <2>1, <2>3, <2>4, <3>1, EmptyRange DEF Succession, Below
  <2> QED
    BY <1>1, <1>2, <1>4, <1>5, <2>1, <2>3, <2>4, EmptyRange, MoveLined
<1> QED
  BY <1>6, <1>8, <1>9, ReceiveEffect

LEMMA CloseWaitLined ==
  ASSUME Shape, Shape', OneFate, Lined, CloseWait
  PROVE  Lined'
<1>1. /\ UNCHANGED <<todo, submitted, serial, dataChan>> /\ bulkData' = <<>>
      /\ requested' = requested \o bulkData \/ (bulkData = <<>> /\ UNCHANGED requested)
      /\ \A s \in Senders : pc'[s] = pc[s]
  BY CloseWaitEffect, ThreadsDiffer
<1>2. Range(InLine) \subseteq 1..submitted
      /\ Range(InLine) = Range(requested) \cup Range(bulkData) \cup Range(dataChan)
      /\ Range(InLine)' = Range(requested') \cup Range(bulkData') \cup Range(dataChan')
  BY WithinSubmitted, LinedParts, LinedPartsNext
<1>3. /\ Range(requested') = Range(requested) \cup Range(bulkData)
      /\ Succession(requested, bulkData, dataChan) => Increasing(requested')
  <2>1. requested \in Seq(Nat) /\ bulkData \in Seq(Nat)
    BY Numbers
  <2>2. /\ Range(requested \o bulkData) = Range(requested) \cup Range(bulkData)
        /\ Succession(requested, bulkData, dataChan) => Increasing(requested \o bulkData)
    BY <2>1, RangeConcatenation, ConcatIncreasing DEF Succession, Below
  <2>3. CASE requested' = requested \o bulkData
    BY <2>2, <2>3
  <2>4. CASE bulkData = <<>> /\ UNCHANGED requested
    BY <2>4, EmptyRange DEF Succession
  <2> QED
    BY <1>1, <2>3, <2>4
<1>4. Succession(requested, bulkData, dataChan) => Succession(requested', bulkData', dataChan')
  BY <1>1, <1>3, EmptyRange DEF Succession, Below
<1> QED
  BY <1>1, <1>2, <1>3, <1>4, EmptyRange, MoveLined

LEMMA LinedKept == Shape /\ Shape' /\ Occupied /\ OneFate /\ Lined /\ [Next]_vars => Lined'
<1> SUFFICES ASSUME Shape, Shape', Occupied, OneFate, Lined, [Next]_vars
             PROVE  Lined'
  OBVIOUS
<1>1. ASSUME UNCHANGED <<todo, dataChan, bulkData, requested, submitted, serial>>,
             \A s \in Senders : pc'[s] = pc[s]
      PROVE  Lined'
  BY <1>1 DEF Lined, InLine
<1>2. CASE WriterExit
  BY <1>1, <1>2, WriterExitEffect, ThreadsDiffer
<1>3. CASE CloseStart
  BY <1>1, <1>3, CloseStartEffect, ThreadsDiffer
<1>4. CASE UNCHANGED vars
  BY <1>1, <1>4 DEF vars
<1>5. ASSUME NEW t \in Requesters, Answer(t)
      PROVE  Lined'
  BY <1>1, <1>5, AnswerEffect, ThreadsDiffer
<1> QED
  BY <1>2, <1>3, <1>4, <1>5, SendLined, SenderLined, ReceiveLined, CloseWaitLined DEF Next, Stopped
-----------------------------------------------------------------------------
(* The invariant holds. *)

LEMMA InitIInv == Init => IInv
<1> SUFFICES ASSUME Init
             PROVE  IInv
  OBVIOUS
<1>1. /\ <<>> \in Seq(RecordIds) /\ Len(<<>>) = 0 /\ Range(<<>>) = {} /\ IsInjective(<<>>)
      /\ Increasing(<<>>)
  BY EmptySeq, EmptyRange
<1>2. MaxRecords \in Nat /\ 0 \in 0..MaxRecords /\ 0 \in Attempts /\ 0 <= MaxChannelSize
  BY SenderAssumption, Sizes
<1>3. /\ pc \in [Threads -> Labels] /\ pc[Writer] = "receive" /\ pc[Closer] = "idle"
      /\ \A s \in Senders : pc[s] = "idle"
  BY ThreadsDiffer DEF Init, Labels
<1>4. Shape
  <2>1. /\ todo \in [Senders -> Seq(RecordIds)] /\ request \in [Requesters -> Seq(RecordIds)]
        /\ dataChan \in Seq(RecordIds) /\ Len(dataChan) <= MaxChannelSize
        /\ bulkData \in Seq(RecordIds) /\ requested \in Seq(RecordIds)
    BY <1>1, <1>2 DEF Init
  <2>2. /\ attempt \in [Senders -> Attempts] /\ expired \in [Senders -> BOOLEAN]
        /\ reg \in [Senders -> Nat] /\ fate \in [Outcomes -> SUBSET RecordIds]
        /\ {successCount, failedCount, toChannelFailedCount} \subseteq Nat
        /\ submitted \in 0..MaxRecords /\ serial \in BOOLEAN /\ chanClosed \in BOOLEAN
    <3>1. serial \in BOOLEAN /\ chanClosed \in BOOLEAN /\ expired \in [Senders -> BOOLEAN]
      BY DEF Init
    <3>2. fate \in [Outcomes -> SUBSET RecordIds]
      BY DEF Init
    <3>3. /\ attempt \in [Senders -> Attempts] /\ reg \in [Senders -> Nat]
          /\ {successCount, failedCount, toChannelFailedCount} \subseteq Nat
          /\ submitted \in 0..MaxRecords
      BY <1>2 DEF Init
    <3> QED
      BY <3>1, <3>2, <3>3
  <2> QED
    BY <1>3, <2>1, <2>2 DEF Shape, TypeOK
<1>5. Occupied
  BY <1>3, ThreadsDiffer DEF Init, Occupied, Requesters
<1>6. Closing
  BY <1>3 DEF Init, Closing
<1>7. Apart
  BY <1>1 DEF Init, Apart
<1>8. /\ Waiting = {} /\ Buffered = <<>> /\ \A o \in Outcomes : fate[o] = {}
  <2>1. request[Writer] = <<>> /\ request[Closer] = <<>>
    BY ThreadsDiffer DEF Init
  <2>2. <<>> \o <<>> \o <<>> \o <<>> = <<>>
    OBVIOUS
  <2>3. Buffered = <<>>
    BY <2>1, <2>2 DEF Init, Buffered
  <2> QED
    BY <1>1, <2>3 DEF Init, Waiting
<1>9. OneFate
  <2>1. 1..submitted = {}
    BY DEF Init
  <2>2. Waiting \cup Range(Buffered) \cup UNION {fate[o] : o \in Outcomes} = {}
    BY <1>1, <1>8
  <2> QED
    BY <1>1, <1>8, <2>1, <2>2 DEF OneFate
<1>10. CountersAgree /\ Counting
  <2>1. \A o \in {"acked", "refused", "exhausted"} : Cardinality(fate[o]) = 0
    BY <1>8, FS_EmptySet DEF Outcomes
  <2> QED
    BY <1>3, <2>1 DEF Init, CountersAgree, Counting
<1>11. BulkBounded
  BY <1>1, Sizes DEF Init, BulkBounded
<1>12. Lined
  <2>1. InLine = <<>>
    BY DEF Init, InLine
  <2> QED
    BY <1>1, <1>3, <2>1 DEF Init, Lined
<1> QED
  BY <1>4, <1>5, <1>6, <1>7, <1>9, <1>10, <1>11, <1>12 DEF IInv

LEMMA IInvKept == IInv /\ [Next]_vars => IInv'
<1> SUFFICES ASSUME IInv, [Next]_vars
             PROVE  IInv'
  OBVIOUS
<1>1. Shape'
  BY TypesKept DEF IInv
<1>2. Occupied' /\ Closing' /\ BulkBounded'
  BY OccupiedKept, ClosingKept, BulkKept DEF IInv
<1>3. Apart' /\ OneFate'
  BY <1>1, FatesKept DEF IInv
<1>4. CountersAgree' /\ Counting'
  BY CountersKept DEF IInv
<1>5. Lined'
  BY <1>1, LinedKept DEF IInv
<1> QED
  BY <1>1, <1>2, <1>3, <1>4, <1>5 DEF IInv

THEOREM Invariance == Spec => []IInv
BY InitIInv, IInvKept, PTL DEF Spec

(* Every variable keeps its type: the channel never holds more than it can *)
(* hold, whatever senders, Writer and Close do at the same time.           *)
THEOREM TypeCorrect == Spec => []TypeOK
<1>1. IInv => TypeOK
  BY DEF IInv, Shape
<1> QED
  BY <1>1, Invariance, PTL

(* Every record given to Send is in exactly one place - with its sender, in *)
(* the channel, in the partial bulk or in a request - or met exactly one    *)
(* end: none is lost silently, sent twice or counted under two outcomes.    *)
THEOREM RecordsHaveOneFate == Spec => []OneFate
<1>1. IInv => OneFate
  BY DEF IInv
<1> QED
  BY <1>1, Invariance, PTL

(* The counters of the status page agree with what became of the records,  *)
(* and the unlocked one never overstates.                                  *)
THEOREM CountersAreTrue == Spec => []CountersAgree
<1>1. IInv => CountersAgree
  BY DEF IInv
<1> QED
  BY <1>1, Invariance, PTL

(* Neither the partial bulk nor a request outgrows BulkSize. *)
THEOREM BulksAreBounded == Spec => []BulkBounded
<1>1. IInv => BulkBounded
  BY DEF IInv
<1> QED
  BY <1>1, Invariance, PTL

(* While calls of Send do not overlap, what was requested, what is         *)
(* collected and what is in the channel are in the order of submission.    *)
THEOREM SendsInOrder == Spec => []InOrder
<1>1. IInv => InOrder
  <2> SUFFICES ASSUME IInv, serial
               PROVE  LET q == requested \o bulkData \o dataChan
                      IN \A i \in 1..Len(q) - 1 : q[i] < q[i + 1]
    BY DEF InOrder
  <2> DEFINE q == requested \o bulkData \o dataChan
  <2>1. requested \in Seq(Nat) /\ bulkData \in Seq(Nat) /\ dataChan \in Seq(Nat)
    BY Numbers DEF IInv
  <2>2. Succession(requested, bulkData, dataChan)
    BY LinedParts DEF IInv, Lined
  <2> DEFINE c == requested \o bulkData
  <2>3. /\ c \in Seq(Nat) /\ Increasing(c) /\ Range(c) = Range(requested) \cup Range(bulkData)
    BY <2>1, <2>2, ConcatProperties, RangeConcatenation, ConcatIncreasing DEF Succession, Below
  <2>4. q = c \o dataChan
    OBVIOUS
  <2> HIDE DEF c
  <2>5. \A x \in Range(c), y \in Range(dataChan) : x < y
    BY <2>2, <2>3 DEF Succession, Below
  <2>6. q \in Seq(Nat) /\ Increasing(q)
    BY <2>1, <2>2, <2>3, <2>4, <2>5, ConcatProperties, ConcatIncreasing DEF Succession
  <2> HIDE DEF q
  <2>7. Len(q) \in Nat /\ DOMAIN q = 1..Len(q)
    BY <2>6, LenProperties
  <2>8. \A i \in 1..Len(q) - 1 : q[i] < q[i + 1]
    BY <2>6, <2>7 DEF Increasing
  <2> QED
    BY <2>8 DEF q
<1> QED
  BY <1>1, Invariance, PTL

(* Close takes the partial bulk only after the Writer ended with an empty  *)
(* channel, and returns only when nothing is left anywhere.                *)
THEOREM CloseDrains == Spec => []DrainedByClose
<1>1. IInv => DrainedByClose
  <2> SUFFICES ASSUME IInv
               PROVE  DrainedByClose
    OBVIOUS
  <2>1. pc[Closer] \in {"request", "done"} =>
          pc[Writer] = "done" /\ dataChan = <<>> /\ bulkData = <<>>
    BY DEF IInv, Closing
  <2>2. ASSUME pc[Closer] = "done"
        PROVE  Buffered = <<>>
    <3>1. request[Writer] = <<>> /\ request[Closer] = <<>>
      BY <2>1, <2>2, ThreadsDiffer DEF IInv, Occupied
    <3>2. <<>> \o <<>> \o <<>> \o <<>> = <<>>
      OBVIOUS
    <3> QED
      BY <2>1, <2>2, <3>1, <3>2 DEF Buffered
  <2> QED
    BY <2>1, <2>2 DEF DrainedByClose
<1> QED
  BY <1>1, Invariance, PTL
=============================================================================
