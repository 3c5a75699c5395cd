--------------------------- MODULE LogConsumerProof ---------------------------
(* Proofs about LogConsumer, for every set of adders, every size of the     *)
(* channel and of the files, and every number of records, dates, starts     *)
(* and faults.                                                              *)
EXTENDS LogConsumer, SequenceLemmas

USE DEF intake, writer, outside, disk

(* The parts of the inductive invariant. *)
Labels == {"idle", "want", "push", "receive", "open", "size", "write", "done", "wait", "none"}
Shape == TypeOK /\ pc \in [Threads -> Labels] /\ logIndex <= MaxRecords

(* The FileWriter has a record exactly between receiving and writing it, and *)
(* a file before it looks at its size; the file open has the current index. *)
Index == IF FileSize > 0 THEN logIndex ELSE 0
Working ==
  /\ pc[FileWriter] \in {"open", "size", "write"} <=> inHand # <<>>
  /\ pc[FileWriter] \in {"size", "write"} => current # NoFile
  /\ current # NoFile => current[1] <= date /\ current[2] = Index
  /\ FileSize <= 0 => logIndex = 0 /\ pc[FileWriter] # "write"
  /\ ~up => pc = AtRest /\ mutex = NoOne /\ ch = <<>>
  /\ up => starts # <<>>

(* The mutex and the phases of Close. *)
Locking ==
  /\ \A a \in Adders : pc[a] = "push" <=> mutex = a
  /\ pc[Closer] = "wait" <=> mutex = Closer
  /\ up => (chClosed <=> pc[Closer] \in {"wait", "done"})
  /\ pc[FileWriter] = "done" => chClosed /\ ch = <<>>
  /\ pc[Closer] = "done" => /\ sdkClose /\ pc[FileWriter] \in {"done", "none"}
                            /\ \A a \in Adders : pc[a] # "push"

Calling == {b \in Adders : pc[b] # "idle"}
Room == accepted + Cardinality(Calling) <= MaxRecords

(* The records that left the queue are those up to Handed. *)
Handed == accepted - Len(ch) - Len(inHand)
Queue ==
  /\ Handed \in Nat
  /\ \A i \in 1..Len(ch) : ch[i] = Handed + Len(inHand) + i
  /\ \A i \in 1..Len(inHand) : inHand[i] = Handed + i
  /\ \A i \in DOMAIN starts : starts[i] <= Handed

(* Each of them is in one place or lost. *)
Placed ==
  /\ \A r \in 1..Handed : r \in lost \/ \E n \in Names : r \in Range(files[n])
  /\ lost \subseteq 1..Handed
  /\ \A n \in Names : /\ Range(files[n]) \subseteq 1..Handed
                      /\ Range(files[n]) \cap lost = {}
                      /\ IsInjective(files[n])
  /\ \A n, m \in Names : n # m => Range(files[n]) \cap Range(files[m]) = {}

(* What the current start wrote is in no file after the current one. *)
Fresh(r) == \A i \in DOMAIN starts : starts[i] < r
Reached ==
  /\ \A n \in Names : \A r \in Range(files[n]) :
       Fresh(r) => n[2] <= Index /\ n[1] <= IF current = NoFile THEN date ELSE current[1]
  /\ pc[FileWriter] = "write" => \A r \in Range(files[current]) : ~Fresh(r)

Ordered ==
  \A n, m \in Names : \A i \in DOMAIN files[n], j \in DOMAIN files[m] :
    files[n][i] < files[m][j] /\ SameStart(files[n][i], files[m][j])
      => Before(<<n, i>>, <<m, j>>)

(* Each record taken passes one index at most. *)
Counted == logIndex <= Handed + IF pc[FileWriter] = "write" THEN 1 ELSE 0

(* In each start a file exceeds its limit by one record at most: the one     *)
(* written into it when this start gets to its index.                       *)
Cap(k) == FileSize - 1 + MaxRecordSize * k
Behind(n) == ~up \/ n[2] < logIndex \/ (n[2] = logIndex /\ pc[FileWriter] # "write")
Sized ==
  FileSize > 0 => \A n \in Names :
    bytes[n] <= IF Behind(n) THEN Cap(Len(starts)) ELSE Cap(Len(starts) - 1)

IInv == /\ Shape /\ Working /\ Locking /\ Room /\ Queue /\ Placed
        /\ Reached /\ Ordered /\ Counted /\ Sized
-----------------------------------------------------------------------------
(* Types. *)

LEMMA ThreadsDiffer ==
  /\ FileWriter \in Threads /\ Closer \in Threads /\ FileWriter # Closer
  /\ \A a \in Adders : a \in Threads /\ a # FileWriter /\ a # Closer
  /\ NoOne \notin Threads
BY LogConsumerAssumption DEF Threads

LEMMA ChannelHolds == ChannelSize \in Nat \ {0}
BY LogConsumerAssumption DEF ChannelSize

LEMMA GotoShape ==
  ASSUME pc \in [Threads -> Labels], NEW t \in Threads, NEW l \in Labels, Goto(t, l)
  PROVE  /\ pc' \in [Threads -> Labels] /\ pc'[t] = l
         /\ \A u \in Threads : u # t => pc'[u] = pc[u]
BY DEF Goto

LEMMA RestShape ==
  /\ AtRest \in [Threads -> Labels] /\ AtRest[FileWriter] = "receive" /\ AtRest[Closer] = "idle"
  /\ \A a \in Adders : AtRest[a] = "idle"
BY ThreadsDiffer DEF AtRest, Labels

(* After init failed, too, the others are where they begin. *)
LEMMA BootShape ==
  ASSUME Boot
  PROVE  /\ pc' \in [Threads -> Labels] /\ pc'[Closer] = "idle"
         /\ \A a \in Adders : pc'[a] = "idle"
         /\ \/ pc'[FileWriter] = "receive" /\ current' = Name(0)
            \/ pc'[FileWriter] = "none" /\ current' = NoFile
BY RestShape, ThreadsDiffer DEF Boot, Labels

LEMMA NameIsName ==
  ASSUME date \in 1..MaxDate, NEW i \in 0..MaxRecords
  PROVE  /\ Name(i) \in Names /\ Name(i) # NoFile
         /\ Name(i)[1] = date /\ Name(i)[2] = IF FileSize > 0 THEN i ELSE 0
BY LogConsumerAssumption DEF Name, Names, NoFile

LEMMA NamesDiffer ==
  /\ NoFile \notin Names
  /\ \A n \in Names : n[1] \in 1..MaxDate /\ n[2] \in 0..MaxRecords /\ n = <<n[1], n[2]>>
BY LogConsumerAssumption DEF NoFile, Names

LEMMA CallingSize ==
  ASSUME Room, Shape
  PROVE  /\ IsFiniteSet(Calling) /\ Cardinality(Calling) \in Nat
         /\ accepted <= MaxRecords /\ accepted \in Nat
<1>1. IsFiniteSet(Calling)
  BY LogConsumerAssumption, FS_Subset DEF Calling
<1>2. Cardinality(Calling) \in Nat
  BY <1>1, FS_CardinalityType
<1> QED
  BY <1>1, <1>2, LogConsumerAssumption DEF Room, Shape, TypeOK

(* Between receiving and writing there is one record, the next after those *)
(* handed over.                                                            *)
LEMMA OneInHand ==
  ASSUME Shape, Queue, inHand # <<>>
  PROVE  /\ Len(inHand) = 1 /\ inHand = <<Handed + 1>> /\ Range(inHand) = {Handed + 1}
         /\ Handed \in Nat /\ Handed + 1 <= accepted
<1>0. inHand \in Seq(Nat) /\ Len(inHand) <= 1
  BY DEF Shape, TypeOK
<1>1. Len(ch) \in Nat /\ accepted \in Nat
  BY LenProperties DEF Shape, TypeOK
<1>2. Len(inHand) \in Nat \ {0}
  BY <1>0, EmptySeq
<1>3. Len(inHand) = 1
  <2> DEFINE n == Len(inHand)
  <2>1. n \in Nat \ {0} /\ n <= 1
    BY <1>0, <1>2
  <2> HIDE DEF n
  <2>2. n = 1
    BY <2>1
  <2> QED
    BY <2>2 DEF n
<1>4. inHand[1] = Handed + 1 /\ Handed \in Nat /\ DOMAIN inHand = {1}
  BY <1>0, <1>3, LenProperties DEF Queue
<1>5. inHand = <<Handed + 1>> /\ Range(inHand) = {Handed + 1}
  BY <1>0, <1>3, <1>4 DEF Range
<1>6. Handed + 1 <= accepted
  BY <1>1, <1>3, <1>4 DEF Handed
<1> QED
  BY <1>3, <1>4, <1>5, <1>6

-----------------------------------------------------------------------------
(* What a step does to the records. *)
Still == UNCHANGED <<ch, inHand, accepted, lost, files, starts>>

Pushes == /\ Len(ch) < ChannelSize
          /\ ch' = Append(ch, accepted + 1) /\ accepted' = accepted + 1
          /\ UNCHANGED <<inHand, lost, files, starts>>

Takes == /\ ch # <<>> /\ inHand = <<>>
         /\ inHand' = <<Head(ch)>> /\ ch' = Tail(ch)
         /\ UNCHANGED <<accepted, lost, files, starts>>

Drops == /\ inHand # <<>> /\ inHand' = <<>>
         /\ lost' = lost \cup Range(inHand)
         /\ UNCHANGED <<ch, accepted, files, starts>>

Writes == /\ inHand # <<>> /\ inHand' = <<>> /\ current \in Names
          /\ files' = [files EXCEPT ![current] = files[current] \o inHand]
          /\ UNCHANGED <<ch, accepted, lost, starts>>

Crashes == /\ inHand' = <<>> /\ ch' = <<>>
           /\ lost' = lost \cup Range(inHand \o ch)
           /\ UNCHANGED <<accepted, files, starts>>

Boots == /\ ch = <<>> /\ inHand = <<>> /\ inHand' = <<>> /\ ch' = <<>>
         /\ starts' = Append(starts, accepted) /\ Len(starts) < MaxBoots
         /\ UNCHANGED <<accepted, lost, files>>

LEMMA DataMoves ==
  ASSUME Shape, Working, [Next]_vars
  PROVE  Still \/ Pushes \/ Takes \/ Drops \/ Writes \/ Crashes \/ Boots
<1>1. CASE Boot
  <2>1. pc[FileWriter] = "receive" /\ ch = <<>>
    BY <1>1, RestShape DEF Boot, Working
  <2>2. inHand = <<>>
    BY <2>1 DEF Working
  <2> QED
    BY <1>1, <2>1, <2>2 DEF Boot, Boots
<1>2. CASE Crash
  BY <1>2 DEF Crash, Crashes
<1>3. CASE DateChanges
  BY <1>3 DEF DateChanges, Still
<1>4. ASSUME NEW a \in Adders, Call(a) \/ Enter(a)
      PROVE  Still
  BY <1>4 DEF Call, Enter, Still
<1>5. ASSUME NEW a \in Adders, Push(a)
      PROVE  Pushes
  BY <1>5 DEF Push, Pushes
<1>6. CASE Receive
  BY <1>6 DEF Receive, At, Takes, Working
<1>7. CASE OpenFile
  <2>1. inHand # <<>>
    BY <1>7 DEF OpenFile, At, Working
  <2> QED
    BY <1>7, <2>1 DEF OpenFile, OpenElse, GiveUp, Still, Drops
<1>8. CASE Rotate
  <2>1. inHand # <<>>
    BY <1>8 DEF Rotate, At, Working
  <2> QED
    BY <1>8, <2>1 DEF Rotate, OpenElse, GiveUp, Still, Drops
<1>9. CASE Write
  <2>1. inHand # <<>> /\ current # NoFile
    BY <1>9 DEF Write, MayWrite, At, Working
  <2>2. current \in Names
    BY <2>1 DEF Shape, TypeOK
  <2> QED
    BY <1>9, <2>1, <2>2 DEF Write, Writes
<1>10. CASE StatFails \/ WriteFails
  <2>1. inHand # <<>>
    BY <1>10 DEF StatFails, WriteFails, MayWrite, At, Working
  <2> QED
    BY <1>10, <2>1 DEF StatFails, WriteFails, GiveUp, Drops
<1>11. CASE WriterExit \/ CloseCall \/ CloseEnter \/ CloseWait
  BY <1>11 DEF WriterExit, CloseCall, CloseEnter, CloseWait, Still
<1>12. CASE UNCHANGED vars
  BY <1>12 DEF vars, Still
<1> QED
  BY <1>1, <1>2, <1>3, <1>4, <1>5, <1>6, <1>7, <1>8, <1>9, <1>10, <1>11, <1>12
     DEF Next, FileStep, Stopped

LEMMA DataTypes ==
  ASSUME Shape, Working, [Next]_vars
  PROVE  /\ ch' \in Seq(Nat) /\ Len(ch') <= ChannelSize
         /\ inHand' \in Seq(Nat) /\ Len(inHand') <= 1
         /\ files' \in [Names -> Seq(Nat)]
         /\ accepted' \in Nat /\ lost' \subseteq Nat
         /\ starts' \in Seq(Nat) /\ Len(starts') <= MaxBoots
<1>1. /\ ch \in Seq(Nat) /\ inHand \in Seq(Nat) /\ files \in [Names -> Seq(Nat)]
      /\ starts \in Seq(Nat) /\ lost \subseteq Nat /\ accepted \in Nat
      /\ Len(ch) <= ChannelSize /\ Len(inHand) <= 1 /\ Len(starts) <= MaxBoots
  BY DEF Shape, TypeOK
<1>2. <<>> \in Seq(Nat) /\ Len(<<>>) = 0 /\ 0 <= ChannelSize
  BY EmptySeq, ChannelHolds
<1>3. CASE Still
  BY <1>1, <1>3 DEF Still
<1>4. CASE Pushes
  <2>1. accepted + 1 \in Nat /\ Len(ch) \in Nat /\ Len(ch) + 1 <= ChannelSize
    BY <1>1, <1>4, LenProperties, ChannelHolds DEF Pushes
  <2> QED
    BY <1>1, <1>4, <2>1, AppendProperties DEF Pushes
<1>5. CASE Takes
  <2>1. Head(ch) \in Nat /\ Tail(ch) \in Seq(Nat) /\ Len(Tail(ch)) = Len(ch) - 1 /\ Len(ch) \in Nat
    BY <1>1, <1>5, HeadTailProperties, LenProperties DEF Takes
  <2>2. inHand' \in Seq(Nat) /\ Len(inHand') <= 1
    <3>1. inHand' = <<Head(ch)>>
      BY <1>5 DEF Takes
    <3>2. inHand' \in Seq(Nat) /\ Len(inHand') = 1
      BY <2>1, <3>1
    <3> QED
      BY <3>2
  <2>3. ch' \in Seq(Nat) /\ Len(ch') <= ChannelSize
    <3>1. Len(Tail(ch)) <= ChannelSize
      BY <1>1, <2>1, ChannelHolds
    <3> QED
      BY <1>5, <2>1, <3>1 DEF Takes
  <2>4. /\ files' \in [Names -> Seq(Nat)] /\ accepted' \in Nat /\ lost' \subseteq Nat
        /\ starts' \in Seq(Nat) /\ Len(starts') <= MaxBoots
    BY <1>1, <1>5 DEF Takes
  <2> QED
    BY <2>2, <2>3, <2>4
<1>6. CASE Drops
  <2>1. Range(inHand) \subseteq Nat
    BY <1>1, RangeOfSeq
  <2>2. lost' \subseteq Nat
    BY <1>1, <1>6, <2>1 DEF Drops
  <2>3. inHand' \in Seq(Nat) /\ Len(inHand') <= 1
    BY <1>2, <1>6 DEF Drops
  <2> QED
    BY <1>1, <1>6, <2>2, <2>3 DEF Drops
<1>7. CASE Writes
  <2>1. files[current] \o inHand \in Seq(Nat)
    BY <1>1, <1>7, ConcatProperties DEF Writes
  <2>2. files' \in [Names -> Seq(Nat)]
    BY <1>1, <1>7, <2>1 DEF Writes
  <2>3. inHand' \in Seq(Nat) /\ Len(inHand') <= 1
    BY <1>2, <1>7 DEF Writes
  <2> QED
    BY <1>1, <1>7, <2>2, <2>3 DEF Writes
<1>8. CASE Crashes
  <2>1. inHand \o ch \in Seq(Nat)
    BY <1>1, ConcatProperties
  <2>2. Range(inHand \o ch) \subseteq Nat
    BY <2>1, RangeOfSeq
  <2>3. lost' \subseteq Nat /\ UNCHANGED <<accepted, files, starts>>
    BY <1>1, <1>8, <2>2 DEF Crashes
  <2>4. /\ ch' \in Seq(Nat) /\ Len(ch') <= ChannelSize
        /\ inHand' \in Seq(Nat) /\ Len(inHand') <= 1
    BY <1>2, <1>8 DEF Crashes
  <2> QED
    BY <1>1, <2>3, <2>4
<1>9. CASE Boots
  <2>1. /\ Append(starts, accepted) \in Seq(Nat) /\ Len(Append(starts, accepted)) = Len(starts) + 1
        /\ Len(starts) \in Nat
    BY <1>1, AppendProperties, LenProperties
  <2>2. Len(starts) + 1 <= MaxBoots
    BY <1>9, <2>1, LogConsumerAssumption DEF Boots
  <2> QED
    BY <1>1, <1>2, <1>9, <2>1, <2>2 DEF Boots
<1> QED
  BY <1>3, <1>4, <1>5, <1>6, <1>7, <1>8, <1>9, DataMoves

(* What a step does to the threads: one of them goes on, or all begin       *)
(* afresh.                                                                  *)
LEMMA ThreadMoves ==
  ASSUME Shape, Working, [Next]_vars
  PROVE  /\ pc' \in [Threads -> Labels]
         /\ \A a \in Adders : pc'[a] \in {"idle", "want", "push"}
         /\ pc'[FileWriter] \in {"receive", "open", "size", "write", "done", "none"}
         /\ pc'[Closer] \in {"idle", "want", "wait", "done"}
<1>1. /\ pc \in [Threads -> Labels]
      /\ \A a \in Adders : pc[a] \in {"idle", "want", "push"}
      /\ pc[FileWriter] \in {"receive", "open", "size", "write", "done", "none"}
      /\ pc[Closer] \in {"idle", "want", "wait", "done"}
  BY DEF Shape, TypeOK
<1>2. \A t \in Threads, l \in Labels : Goto(t, l) =>
        /\ pc' \in [Threads -> Labels] /\ pc'[t] = l
        /\ \A u \in Threads : u # t => pc'[u] = pc[u]
  BY <1>1, GotoShape
<1>3. Labels = {"idle", "want", "push", "receive", "open", "size", "write", "done", "wait", "none"}
  BY DEF Labels
<1> HIDE DEF Goto
<1>4. CASE Boot \/ Crash
  BY <1>4, RestShape, BootShape DEF Crash
<1>5. CASE UNCHANGED pc
  BY <1>1, <1>5
<1>6. ASSUME NEW a \in Adders, \E l \in {"idle", "want", "push"} : Goto(a, l)
      PROVE  /\ pc' \in [Threads -> Labels]
             /\ \A b \in Adders : pc'[b] \in {"idle", "want", "push"}
             /\ pc'[FileWriter] \in {"receive", "open", "size", "write", "done", "none"}
             /\ pc'[Closer] \in {"idle", "want", "wait", "done"}
  BY <1>1, <1>2, <1>3, <1>6, ThreadsDiffer
<1>7. CASE \E l \in {"receive", "open", "size", "write", "done", "none"} : Goto(FileWriter, l)
  BY <1>1, <1>2, <1>3, <1>7, ThreadsDiffer
<1>8. CASE \E l \in {"want", "wait", "done"} : Goto(Closer, l)
  BY <1>1, <1>2, <1>3, <1>8, ThreadsDiffer
<1>9. CASE DateChanges \/ Stopped \/ UNCHANGED vars
  BY <1>5, <1>9 DEF DateChanges, Stopped, vars
<1>10. ASSUME NEW a \in Adders, Call(a) \/ Enter(a) \/ Push(a)
       PROVE  \E l \in {"idle", "want", "push"} : Goto(a, l)
  BY <1>10 DEF Call, Enter, Push
<1>11. CASE FileStep
  BY <1>7, <1>11
     DEF FileStep, Receive, WriterExit, OpenFile, Rotate, OpenElse, GiveUp, Write, StatFails, WriteFails
<1>12. CASE CloseCall \/ CloseEnter \/ CloseWait
  BY <1>8, <1>12 DEF CloseCall, CloseEnter, CloseWait
<1> QED
  BY <1>4, <1>6, <1>9, <1>10, <1>11, <1>12 DEF Next

LEMMA TypesKept == IInv /\ [Next]_vars => Shape'
<1> SUFFICES ASSUME IInv, [Next]_vars
             PROVE  Shape'
  OBVIOUS
<1>1. Shape /\ Working
  BY DEF IInv
<1>2. /\ up' \in BOOLEAN /\ chClosed' \in BOOLEAN /\ sdkClose' \in BOOLEAN
      /\ mutex' \in Threads \cup {NoOne}
  <2>1. /\ up \in BOOLEAN /\ chClosed \in BOOLEAN /\ sdkClose \in BOOLEAN
        /\ mutex \in Threads \cup {NoOne}
    BY <1>1 DEF Shape, TypeOK
  <2> QED
    BY <2>1, ThreadsDiffer
       DEF Next, vars, Boot, Crash, DateChanges, Call, Enter, Push, FileStep, Receive, WriterExit,
           OpenFile, Rotate, Write, StatFails, WriteFails, CloseCall, CloseEnter, CloseWait, Stopped
<1>3. faults' \in 0..MaxFaults
  <2>1. faults \in 0..MaxFaults /\ MaxFaults \in Nat
    BY <1>1, LogConsumerAssumption DEF Shape, TypeOK
  <2>2. faults' = faults \/ Fault
    BY DEF Next, vars, Boot, Crash, DateChanges, Call, Enter, Push, FileStep, Receive, WriterExit,
           OpenFile, Rotate, OpenElse, GiveUp, Write, StatFails, WriteFails, CloseCall, CloseEnter,
           CloseWait, Stopped
  <2> QED
    BY <2>1, <2>2 DEF Fault
<1>4. date' \in 1..MaxDate
  <2>1. date \in 1..MaxDate /\ MaxDate \in Nat
    BY <1>1, LogConsumerAssumption DEF Shape, TypeOK
  <2>2. date' = date \/ (date < MaxDate /\ date' = date + 1)
    BY DEF Next, vars, Boot, Crash, DateChanges, Call, Enter, Push, FileStep, Receive, WriterExit,
           OpenFile, Rotate, Write, StatFails, WriteFails, CloseCall, CloseEnter, CloseWait, Stopped
  <2> QED
    BY <2>1, <2>2
<1>5. logIndex' \in Nat /\ logIndex' <= MaxRecords
  <2>1. logIndex \in Nat /\ logIndex <= MaxRecords /\ MaxRecords \in Nat
    BY <1>1, LogConsumerAssumption DEF Shape, TypeOK
  <2>2. CASE Rotate
    <3>1. logIndex' = logIndex + 1 /\ pc[FileWriter] = "size" /\ inHand # <<>>
      BY <1>1, <2>2 DEF Rotate, At, Working
    <3>2. Handed \in Nat /\ Handed + 1 <= accepted /\ accepted \in Nat /\ accepted <= MaxRecords
      BY <1>1, <3>1, OneInHand, CallingSize DEF IInv
    <3>3. logIndex <= Handed
      BY <3>1, <3>2 DEF IInv, Counted
    <3> HIDE DEF Handed
    <3> QED
      BY <2>1, <3>1, <3>2, <3>3
  <2>3. Rotate \/ UNCHANGED logIndex \/ logIndex' = 0
    BY DEF Next, vars, Boot, Crash, DateChanges, Call, Enter, Push, FileStep, Receive, WriterExit,
           OpenFile, Write, StatFails, WriteFails, CloseCall, CloseEnter, CloseWait, Stopped
  <2> QED
    BY <2>1, <2>2, <2>3
<1>6. current' \in Names \cup {NoFile}
  <2>1. /\ current \in Names \cup {NoFile} /\ date \in 1..MaxDate
        /\ logIndex \in 0..MaxRecords /\ logIndex' \in 0..MaxRecords
    BY <1>1, <1>5 DEF Shape, TypeOK
  <2>2. Name(logIndex) \in Names /\ Name(logIndex') \in Names /\ Name(0) \in Names
    BY <2>1, NameIsName, LogConsumerAssumption
  <2> HIDE DEF Name
  <2> QED
    BY <2>1, <2>2
       DEF Next, vars, Boot, Crash, DateChanges, Call, Enter, Push, FileStep, Receive, WriterExit,
           OpenFile, Rotate, OpenElse, Write, StatFails, WriteFails, CloseCall, CloseEnter, CloseWait, Stopped
<1>7. bytes' \in [Names -> Nat]
  <2>1. bytes \in [Names -> Nat] /\ MaxRecordSize \in Nat
    BY <1>1, LogConsumerAssumption DEF Shape, TypeOK
  <2>2. UNCHANGED bytes \/ Grow(0..MaxRecordSize)
    <3>1. Grow(1..MaxRecordSize) => Grow(0..MaxRecordSize)
      <4>1. \A size \in 1..MaxRecordSize : size \in 0..MaxRecordSize
        BY <2>1
      <4> QED
        BY <4>1 DEF Grow
    <3> QED
      BY <3>1
         DEF Next, vars, Boot, Crash, DateChanges, Call, Enter, Push, FileStep, Receive, WriterExit,
             OpenFile, StatFails, Rotate, Write, WriteFails, CloseCall, CloseEnter, CloseWait, Stopped
  <2> QED
    BY <2>1, <2>2 DEF Grow
<1> QED
  BY <1>1, <1>2, <1>3, <1>4, <1>5, <1>6, <1>7, DataTypes, ThreadMoves DEF Shape, TypeOK
-----------------------------------------------------------------------------
(* The threads. *)

(* A step of one thread leaves the others where they are. *)
LEMMA OneMoves ==
  ASSUME Shape, NEW t \in Threads, NEW l \in Labels, Goto(t, l)
  PROVE  /\ pc'[t] = l
         /\ \A a \in Adders : a # t => pc'[a] = pc[a]
         /\ FileWriter # t => pc'[FileWriter] = pc[FileWriter]
         /\ Closer # t => pc'[Closer] = pc[Closer]
BY GotoShape, ThreadsDiffer DEF Shape

LEMMA WorkingKept == Shape /\ Working /\ [Next]_vars => Working'
<1> SUFFICES ASSUME Shape, Working, [Next]_vars
             PROVE  Working'
  OBVIOUS
<1>1. /\ date \in Nat /\ logIndex \in Nat /\ FileSize \in Int /\ current \in Names \cup {NoFile}
      /\ date \in 1..MaxDate /\ logIndex \in 0..MaxRecords
      /\ \A i : Name(i)[1] = date /\ Name(i)[2] = IF FileSize > 0 THEN i ELSE 0
  BY LogConsumerAssumption DEF Shape, TypeOK, Name
<1>2. \A l \in Labels : Goto(FileWriter, l) => pc'[FileWriter] = l
  BY OneMoves, ThreadsDiffer
<1>3. \A a \in Adders, l \in Labels : Goto(a, l) => pc'[FileWriter] = pc[FileWriter]
  BY OneMoves, ThreadsDiffer
<1>4. \A l \in Labels : Goto(Closer, l) => pc'[FileWriter] = pc[FileWriter]
  BY OneMoves, ThreadsDiffer
<1>5. Labels = {"idle", "want", "push", "receive", "open", "size", "write", "done", "wait", "none"}
  BY DEF Labels
<1>n. Name(logIndex) # NoFile /\ Name(0) # NoFile
  BY <1>1, NameIsName, LogConsumerAssumption
<1> HIDE DEF Goto, Name
<1>6. CASE Boot
  <2>1. /\ pc'[FileWriter] \in {"receive", "none"} /\ inHand' = <<>> /\ up' = TRUE /\ logIndex' = 0
        /\ current' \in {Name(0), NoFile} /\ date' = date /\ starts' = Append(starts, accepted)
    BY <1>6, BootShape DEF Boot
  <2>2. starts' # <<>>
    <3>1. starts \in Seq(Nat) /\ accepted \in Nat
      BY DEF Shape, TypeOK
    <3> QED
      BY <2>1, <3>1, AppendProperties
  <2> QED
    BY <1>1, <2>1, <2>2 DEF Working, Index
<1>7. CASE Crash
  <2>1. /\ pc' = AtRest /\ pc'[FileWriter] = "receive" /\ inHand' = <<>> /\ up' = FALSE
        /\ ch' = <<>> /\ mutex' = NoOne /\ UNCHANGED <<current, logIndex, date>>
    BY <1>7, RestShape DEF Crash
  <2> QED
    BY <2>1 DEF Working, Index
<1>8. CASE DateChanges
  <2>1. /\ date' = date + 1
        /\ UNCHANGED <<pc, up, mutex, ch, inHand, current, logIndex, starts>>
    BY <1>8 DEF DateChanges
  <2>2. current # NoFile => current[1] \in Nat
    BY <1>1, NamesDiffer
  <2>3. current # NoFile => current[1] <= date'
    BY <1>1, <2>1, <2>2 DEF Working
  <2> QED
    BY <2>1, <2>3 DEF Working, Index
<1>9. ASSUME NEW a \in Adders, Call(a) \/ Enter(a) \/ Push(a)
      PROVE  Working'
  <2>1. pc'[FileWriter] = pc[FileWriter]
    BY <1>3, <1>5, <1>9 DEF Call, Enter, Push
  <2>2. up /\ UNCHANGED <<inHand, current, logIndex, date, up, starts>>
    BY <1>9 DEF Call, Enter, Push, At
  <2> QED
    BY <2>1, <2>2 DEF Working, Index
<1>10. CASE Receive
  <2>1. pc'[FileWriter] = "open" /\ inHand' # <<>> /\ up
    BY <1>2, <1>5, <1>10 DEF Receive, At
  <2> QED
    BY <1>10, <2>1 DEF Receive, Working, Index
<1>11. CASE WriterExit
  <2>1. pc'[FileWriter] = "done" /\ pc[FileWriter] = "receive" /\ up
    BY <1>2, <1>5, <1>11 DEF WriterExit, At
  <2> QED
    BY <1>11, <2>1 DEF WriterExit, Working, Index
<1>12. CASE OpenFile
  <2>1. /\ up /\ pc[FileWriter] = "open" /\ UNCHANGED <<logIndex, up, date, starts>>
        /\ \/ pc'[FileWriter] = "size" /\ current' = Name(logIndex) /\ UNCHANGED inHand
           \/ pc'[FileWriter] = "receive" /\ current' = NoFile /\ inHand' = <<>>
    BY <1>2, <1>5, <1>12 DEF OpenFile, OpenElse, GiveUp, At
  <2> QED
    BY <1>1, <1>n, <2>1 DEF Working, Index
<1>13. CASE Rotate
  <2>1. /\ up /\ pc[FileWriter] = "size" /\ UNCHANGED <<up, date, starts>> /\ FileSize > 0
        /\ logIndex' = logIndex + 1
        /\ \/ pc'[FileWriter] = "write" /\ current' = Name(logIndex') /\ UNCHANGED inHand
           \/ pc'[FileWriter] = "receive" /\ current' = NoFile /\ inHand' = <<>>
    BY <1>2, <1>5, <1>13 DEF Rotate, OpenElse, GiveUp, At, Full
  <2>2. Name(logIndex') # NoFile
    BY <1>1, LogConsumerAssumption DEF Name, NoFile
  <2> QED
    BY <1>1, <2>1, <2>2 DEF Working, Index
<1>14. CASE Write \/ StatFails \/ WriteFails
  <2>1. /\ up /\ UNCHANGED <<up, date, starts, current, logIndex>>
        /\ pc'[FileWriter] = "receive" /\ inHand' = <<>>
    BY <1>2, <1>5, <1>14 DEF Write, StatFails, WriteFails, GiveUp, MayWrite, At
  <2> QED
    BY <2>1 DEF Working, Index
<1>15. CASE CloseCall \/ CloseEnter
  <2>1. pc'[FileWriter] = pc[FileWriter] /\ up /\ UNCHANGED <<inHand, current, logIndex, date, up, starts>>
    BY <1>4, <1>5, <1>15 DEF CloseCall, CloseEnter, At
  <2> QED
    BY <2>1 DEF Working, Index
<1>16. CASE CloseWait
  <2>1. /\ pc'[FileWriter] = pc[FileWriter] /\ pc[FileWriter] \in {"done", "none"}
        /\ up /\ current' = NoFile /\ UNCHANGED <<inHand, logIndex, date, up, starts>>
    BY <1>4, <1>5, <1>16 DEF CloseWait, At
  <2> QED
    BY <2>1 DEF Working, Index
<1>17. CASE UNCHANGED vars
  BY <1>17 DEF vars, Working, Index
<1> QED
  BY <1>6, <1>7, <1>8, <1>9, <1>10, <1>11, <1>12, <1>13, <1>14, <1>15, <1>16, <1>17
     DEF Next, FileStep, Stopped

LEMMA LockingKept == Shape /\ Working /\ Locking /\ [Next]_vars => Locking'
<1> SUFFICES ASSUME Shape, Working, Locking, [Next]_vars
             PROVE  Locking'
  OBVIOUS
<1>2. \A l \in Labels : Goto(FileWriter, l) =>
        /\ pc'[FileWriter] = l /\ pc'[Closer] = pc[Closer] /\ \A a \in Adders : pc'[a] = pc[a]
  BY OneMoves, ThreadsDiffer
<1>3. \A a \in Adders, l \in Labels : Goto(a, l) =>
        /\ pc'[FileWriter] = pc[FileWriter] /\ pc'[Closer] = pc[Closer] /\ pc'[a] = l
        /\ \A b \in Adders : b # a => pc'[b] = pc[b]
  BY OneMoves, ThreadsDiffer
<1>4. \A l \in Labels : Goto(Closer, l) =>
        /\ pc'[FileWriter] = pc[FileWriter] /\ pc'[Closer] = l /\ \A a \in Adders : pc'[a] = pc[a]
  BY OneMoves, ThreadsDiffer
<1>5. Labels = {"idle", "want", "push", "receive", "open", "size", "write", "done", "wait", "none"}
  BY DEF Labels
<1> HIDE DEF Goto
<1>6. CASE Boot \/ Crash
  <2>1. /\ pc'[FileWriter] # "done" /\ pc'[Closer] = "idle"
        /\ \A a \in Adders : pc'[a] = "idle"
        /\ mutex' = NoOne /\ (up' => chClosed' = FALSE)
    BY <1>6, RestShape, BootShape DEF Boot, Crash
  <2> QED
    BY <2>1, ThreadsDiffer DEF Locking
<1>7. CASE DateChanges
  BY <1>7 DEF DateChanges, Locking
<1>8. ASSUME NEW a \in Adders, Call(a)
      PROVE  Locking'
  <2>1. /\ pc'[FileWriter] = pc[FileWriter] /\ pc'[Closer] = pc[Closer] /\ pc'[a] = "want"
        /\ pc[a] = "idle" /\ \A b \in Adders : b # a => pc'[b] = pc[b]
        /\ UNCHANGED <<intake, up>>
    BY <1>3, <1>5, <1>8 DEF Call, At
  <2> QED
    BY <2>1 DEF Locking
<1>9. ASSUME NEW a \in Adders, Enter(a)
      PROVE  Locking'
  <2>1. /\ pc'[FileWriter] = pc[FileWriter] /\ pc'[Closer] = pc[Closer] /\ mutex = NoOne
        /\ pc[a] = "want" /\ \A b \in Adders : b # a => pc'[b] = pc[b]
        /\ UNCHANGED <<ch, chClosed, sdkClose, up>>
        /\ \/ pc'[a] = "idle" /\ mutex' = NoOne
           \/ ~sdkClose /\ pc'[a] = "push" /\ mutex' = a
    BY <1>3, <1>5, <1>9 DEF Enter, At
  <2> QED
    BY <2>1, ThreadsDiffer DEF Locking
<1>10. ASSUME NEW a \in Adders, Push(a)
       PROVE  Locking'
  <2>1. /\ pc'[FileWriter] = pc[FileWriter] /\ pc'[Closer] = pc[Closer] /\ mutex' = NoOne
        /\ up /\ pc[a] = "push" /\ pc'[a] = "idle" /\ \A b \in Adders : b # a => pc'[b] = pc[b]
        /\ UNCHANGED <<chClosed, sdkClose, up>>
    BY <1>3, <1>5, <1>10 DEF Push, At
  <2>2. ~chClosed
    BY <2>1, ThreadsDiffer DEF Locking
  <2> QED
    BY <2>1, <2>2, ThreadsDiffer DEF Locking
<1>11. CASE Receive \/ OpenFile \/ StatFails \/ Rotate \/ Write \/ WriteFails
  <2>1. /\ pc[FileWriter] \notin {"done", "none"} /\ pc'[FileWriter] # "done"
        /\ pc'[Closer] = pc[Closer]
        /\ \A a \in Adders : pc'[a] = pc[a]
        /\ UNCHANGED <<mutex, chClosed, sdkClose, up>>
    BY <1>2, <1>5, <1>11
       DEF Receive, OpenFile, Rotate, OpenElse, GiveUp, Write, StatFails, WriteFails, MayWrite, At
  <2> QED
    BY <2>1 DEF Locking
<1>12. CASE WriterExit
  <2>1. /\ pc[FileWriter] = "receive" /\ pc'[Closer] = pc[Closer] /\ \A a \in Adders : pc'[a] = pc[a]
        /\ UNCHANGED <<intake, up>> /\ ch = <<>> /\ chClosed
    BY <1>2, <1>5, <1>12 DEF WriterExit, At
  <2> QED
    BY <2>1 DEF Locking
<1>13. CASE CloseCall
  <2>1. /\ pc'[FileWriter] = pc[FileWriter] /\ \A a \in Adders : pc'[a] = pc[a]
        /\ pc[Closer] = "idle" /\ pc'[Closer] = "want" /\ UNCHANGED <<intake, up>>
    BY <1>4, <1>5, <1>13 DEF CloseCall, At
  <2> QED
    BY <2>1 DEF Locking
<1>14. CASE CloseEnter
  <2>1. /\ pc'[FileWriter] = pc[FileWriter] /\ \A a \in Adders : pc'[a] = pc[a]
        /\ pc[Closer] = "want" /\ pc'[Closer] = "wait" /\ UNCHANGED <<ch, sdkClose, up>>
        /\ mutex = NoOne /\ mutex' = Closer /\ chClosed' = TRUE
    BY <1>4, <1>5, <1>14 DEF CloseEnter, At
  <2> QED
    BY <2>1, ThreadsDiffer DEF Locking
<1>15. CASE CloseWait
  <2>1. /\ pc'[FileWriter] = pc[FileWriter] /\ \A a \in Adders : pc'[a] = pc[a] /\ up
        /\ pc[Closer] = "wait" /\ pc'[Closer] = "done" /\ UNCHANGED <<ch, chClosed, up>>
        /\ pc[FileWriter] \in {"done", "none"} /\ mutex' = NoOne /\ sdkClose'
    BY <1>4, <1>5, <1>15 DEF CloseWait, At
  <2> QED
    BY <2>1, ThreadsDiffer DEF Locking
<1>16. CASE UNCHANGED vars
  BY <1>16 DEF vars, Locking
<1> QED
  BY <1>6, <1>7, <1>8, <1>9, <1>10, <1>11, <1>12, <1>13, <1>14, <1>15, <1>16
     DEF Next, FileStep, Stopped

LEMMA RoomKept == Shape /\ Room /\ [Next]_vars => Room'
<1> SUFFICES ASSUME Shape, Room, [Next]_vars
             PROVE  Room'
  OBVIOUS
<1>1. /\ IsFiniteSet(Calling) /\ Cardinality(Calling) \in Nat
      /\ accepted <= MaxRecords /\ accepted \in Nat /\ MaxRecords \in Nat
      /\ accepted + Cardinality(Calling) <= MaxRecords
  BY CallingSize, LogConsumerAssumption DEF Room
<1>2. ASSUME Calling' \subseteq Calling, UNCHANGED accepted
      PROVE  Room'
  <2>1. Cardinality(Calling') <= Cardinality(Calling) /\ Cardinality(Calling') \in Nat
    BY <1>1, <1>2, FS_Subset, FS_CardinalityType
  <2> QED
    BY <1>1, <1>2, <2>1 DEF Room
<1>3. \A a \in Adders, l \in Labels : Goto(a, l) =>
        pc'[a] = l /\ \A b \in Adders : b # a => pc'[b] = pc[b]
  BY OneMoves, ThreadsDiffer
<1>4. \A t \in {FileWriter, Closer}, l \in Labels : Goto(t, l) => \A a \in Adders : pc'[a] = pc[a]
  BY OneMoves, ThreadsDiffer
<1>5. Labels = {"idle", "want", "push", "receive", "open", "size", "write", "done", "wait", "none"}
  BY DEF Labels
<1> HIDE DEF Goto
<1>6. ASSUME NEW a \in Adders, Call(a)
      PROVE  Room'
  <2>1. Calling' = Calling \cup {a} /\ a \notin Calling
    BY <1>3, <1>5, <1>6 DEF Call, At, Calling
  <2>2. Cardinality(Calling') = Cardinality(Calling) + 1
    BY <1>1, <2>1, FS_AddElement
  <2>3. accepted + Cardinality(Calling) < MaxRecords /\ UNCHANGED accepted
    BY <1>6 DEF Call, Calling
  <2> QED
    BY <1>1, <2>2, <2>3 DEF Room
<1>7. ASSUME NEW a \in Adders, Enter(a)
      PROVE  Room'
  <2>1. Calling' \subseteq Calling /\ UNCHANGED accepted
    BY <1>3, <1>5, <1>7 DEF Enter, At, Calling
  <2> QED
    BY <1>2, <2>1
<1>8. ASSUME NEW a \in Adders, Push(a)
      PROVE  Room'
  <2>1. Calling' = Calling \ {a} /\ a \in Calling
    BY <1>3, <1>5, <1>8 DEF Push, At, Calling
  <2>2. Cardinality(Calling') = Cardinality(Calling) - 1
    BY <1>1, <2>1, FS_RemoveElement
  <2>3. accepted' = accepted + 1
    BY <1>8 DEF Push
  <2> QED
    BY <1>1, <2>2, <2>3 DEF Room
<1>9. CASE Boot \/ Crash
  <2>1. Calling' = {} /\ UNCHANGED accepted
    BY <1>9, RestShape, BootShape DEF Boot, Crash, Calling
  <2> QED
    BY <1>2, <2>1
<1>10. CASE FileStep
  <2>1. \E l \in Labels : Goto(FileWriter, l)
    BY <1>5, <1>10
       DEF FileStep, Receive, WriterExit, OpenFile, Rotate, OpenElse, GiveUp, Write, StatFails, WriteFails
  <2>2. UNCHANGED accepted
    BY <1>10 DEF FileStep, Receive, WriterExit, OpenFile, Rotate, Write, StatFails, WriteFails
  <2> QED
    BY <1>2, <1>4, <2>1, <2>2 DEF Calling
<1>11. CASE CloseCall \/ CloseEnter \/ CloseWait
  <2>1. (\E l \in Labels : Goto(Closer, l)) /\ UNCHANGED accepted
    BY <1>5, <1>11 DEF CloseCall, CloseEnter, CloseWait
  <2> QED
    BY <1>2, <1>4, <2>1 DEF Calling
<1>12. CASE DateChanges \/ Stopped \/ UNCHANGED vars
  <2>1. UNCHANGED <<pc, accepted>>
    BY <1>12 DEF DateChanges, Stopped, vars
  <2> QED
    BY <1>2, <2>1 DEF Calling
<1> QED
  BY <1>6, <1>7, <1>8, <1>9, <1>10, <1>11, <1>12 DEF Next
-----------------------------------------------------------------------------
(* The queue and the places of the records. *)

LEMMA Amounts ==
  Shape => /\ Len(ch) \in Nat /\ Len(inHand) \in Nat /\ accepted \in Nat
           /\ Handed = accepted - Len(ch) - Len(inHand)
           /\ Handed' = accepted' - Len(ch') - Len(inHand')
<1> SUFFICES ASSUME Shape
             PROVE  /\ Len(ch) \in Nat /\ Len(inHand) \in Nat /\ accepted \in Nat
  BY DEF Handed
<1> QED
  BY LenProperties DEF Shape, TypeOK

(* How far the handing over gets in a step. *)
LEMMA HandedMoves ==
  ASSUME Shape, Queue
  PROVE  /\ Still \/ Pushes \/ Takes \/ Boots => Handed' = Handed
         /\ Drops \/ Writes => Handed' = Handed + 1
         /\ Crashes => Handed' = accepted' /\ accepted' = accepted /\ Handed <= accepted
<1>1. Len(ch) \in Nat /\ Len(inHand) \in Nat /\ accepted \in Nat /\ Len(<<>>) = 0
  BY Amounts
<1>2. ch \in Seq(Nat) /\ inHand \in Seq(Nat)
  BY DEF Shape, TypeOK
<1>3. Still \/ Boots => Handed' = Handed
  BY DEF Still, Boots, Handed
<1>4. ASSUME Pushes
      PROVE  Handed' = Handed
  <2>1. Len(ch') = Len(ch) + 1
    BY <1>1, <1>2, <1>4, AppendProperties DEF Pushes
  <2> QED
    BY <1>1, <1>4, <2>1 DEF Pushes, Handed
<1>5. ASSUME Takes
      PROVE  Handed' = Handed
  <2>1. Len(ch') = Len(ch) - 1
    BY <1>2, <1>5, HeadTailProperties DEF Takes
  <2>2. Len(inHand) = 0 /\ Len(inHand') = 1
    BY <1>1, <1>5 DEF Takes
  <2> QED
    BY <1>1, <1>5, <2>1, <2>2 DEF Takes, Handed
<1>6. ASSUME Drops \/ Writes
      PROVE  Handed' = Handed + 1
  <2>1. /\ Len(inHand) = 1 /\ Len(inHand') = 0 /\ UNCHANGED <<ch, accepted>>
    BY <1>1, <1>6, OneInHand DEF Drops, Writes
  <2> QED
    BY <1>1, <2>1 DEF Handed
<1>7. ASSUME Crashes
      PROVE  Handed' = accepted' /\ accepted' = accepted /\ Handed <= accepted
  <2>1. Len(ch') = 0 /\ Len(inHand') = 0 /\ accepted' = accepted
    BY <1>1, <1>7 DEF Crashes
  <2> QED
    BY <1>1, <2>1 DEF Handed
<1> QED
  BY <1>3, <1>4, <1>5, <1>6, <1>7

LEMMA QueueKept == Shape /\ Working /\ Queue /\ [Next]_vars => Queue'
<1> SUFFICES ASSUME Shape, Working, Queue, [Next]_vars
             PROVE  Queue'
  OBVIOUS
<1>1. Len(ch) \in Nat /\ Len(inHand) \in Nat /\ accepted \in Nat /\ Len(<<>>) = 0 /\ Handed \in Nat
  BY Amounts DEF Queue
<1>2. ch \in Seq(Nat) /\ inHand \in Seq(Nat) /\ starts \in Seq(Nat)
  BY DEF Shape, TypeOK
<1>3. Handed = accepted - Len(ch) - Len(inHand)
  BY DEF Handed
<1>4. \A i \in DOMAIN starts : starts[i] \in Nat /\ starts[i] <= Handed
  BY <1>2 DEF Queue
<1>5. CASE Still
  BY <1>5 DEF Still, Queue, Handed
<1>6. CASE Pushes
  <2>1. Handed' = Handed /\ inHand' = inHand /\ starts' = starts
    BY <1>6, HandedMoves DEF Pushes
  <2>2. Len(ch') = Len(ch) + 1 /\ \A i \in 1..Len(ch) : ch'[i] = ch[i]
    BY <1>1, <1>2, <1>6, AppendProperties DEF Pushes
  <2>3. ch'[Len(ch) + 1] = accepted + 1
    BY <1>1, <1>2, <1>6, AppendProperties DEF Pushes
  <2>4. \A i \in 1..Len(ch') : ch'[i] = Handed + Len(inHand) + i
    <3> SUFFICES ASSUME NEW i \in 1..Len(ch')
                 PROVE  ch'[i] = Handed + Len(inHand) + i
      OBVIOUS
    <3>1. CASE i = Len(ch) + 1
      BY <1>1, <1>3, <2>3, <3>1
    <3>2. CASE i # Len(ch) + 1
      <4>1. i \in 1..Len(ch)
        BY <1>1, <2>2, <3>2
      <4> QED
        BY <2>2, <4>1 DEF Queue
    <3> QED
      BY <3>1, <3>2
  <2> QED
    BY <2>1, <2>4 DEF Queue
<1>7. CASE Takes
  <2>1. Handed' = Handed /\ starts' = starts
    BY <1>7, HandedMoves DEF Takes
  <2>2. /\ Len(ch') = Len(ch) - 1 /\ Head(ch) = ch[1] /\ 1 \in 1..Len(ch)
        /\ \A i \in 1..Len(ch') : ch'[i] = ch[i + 1] /\ i + 1 \in 1..Len(ch)
    <3>1. Len(ch) \in Nat \ {0}
      BY <1>2, <1>7, EmptySeq DEF Takes
    <3>2. Len(ch') = Len(ch) - 1 /\ \A i \in 1..Len(ch') : ch'[i] = ch[i + 1]
      BY <1>2, <1>7, HeadTailProperties DEF Takes
    <3>3. \A i \in 1..Len(ch') : i + 1 \in 1..Len(ch)
      BY <3>1, <3>2
    <3>4. Head(ch) = ch[1]
      BY <1>2, <1>7, HeadInRange DEF Takes
    <3> QED
      BY <3>1, <3>2, <3>3, <3>4
  <2>3. Len(inHand) = 0 /\ Len(inHand') = 1 /\ inHand'[1] = Head(ch)
    BY <1>1, <1>7 DEF Takes
  <2>4. \A i \in 1..Len(ch) : ch[i] = Handed + i
    BY <1>1, <2>3 DEF Queue
  <2>5. \A i \in 1..Len(ch') : ch'[i] = Handed + Len(inHand') + i
    <3> SUFFICES ASSUME NEW i \in 1..Len(ch')
                 PROVE  ch'[i] = Handed + 1 + i
      BY <2>3
    <3>1. ch'[i] = Handed + (i + 1)
      BY <2>2, <2>4
    <3>2. i \in Nat
      BY <1>1, <2>2
    <3> QED
      BY <1>1, <3>1, <3>2
  <2>6. \A i \in 1..Len(inHand') : inHand'[i] = Handed + i
    BY <2>2, <2>3, <2>4
  <2> QED
    BY <1>1, <2>1, <2>5, <2>6 DEF Queue
<1>8. CASE Drops \/ Writes
  <2>1. /\ Handed' = Handed + 1 /\ UNCHANGED <<ch, starts>> /\ inHand' = <<>>
        /\ Len(inHand') = 0 /\ Len(inHand) = 1
    BY <1>1, <1>8, HandedMoves, OneInHand DEF Drops, Writes
  <2>2. \A i \in 1..Len(ch') : ch'[i] = Handed' + Len(inHand') + i
    BY <1>1, <2>1 DEF Queue
  <2>3. \A i \in DOMAIN starts' : starts'[i] <= Handed'
    BY <1>1, <1>4, <2>1
  <2>4. Handed' \in Nat /\ \A i \in 1..Len(inHand') : inHand'[i] = Handed' + i
    BY <1>1, <2>1
  <2> QED
    BY <2>2, <2>3, <2>4 DEF Queue
<1>9. CASE Crashes
  <2>1. /\ Handed' = accepted /\ Handed <= accepted /\ UNCHANGED starts
        /\ Len(ch') = 0 /\ Len(inHand') = 0
    BY <1>1, <1>9, HandedMoves DEF Crashes
  <2>2. \A i \in DOMAIN starts' : starts'[i] <= Handed'
    BY <1>1, <1>4, <2>1
  <2> QED
    BY <1>1, <2>1, <2>2 DEF Queue
<1>10. CASE Boots
  <2>1. /\ Handed' = Handed /\ Handed = accepted /\ Len(ch') = 0 /\ Len(inHand') = 0
    BY <1>1, <1>3, <1>10, HandedMoves DEF Boots
  <2>2. \A i \in DOMAIN starts' : starts'[i] <= Handed'
    <3> SUFFICES ASSUME NEW i \in DOMAIN starts'
                 PROVE  starts'[i] <= Handed'
      OBVIOUS
    <3>1. /\ Len(starts) \in Nat /\ starts' = Append(starts, accepted)
          /\ DOMAIN starts' = 1..(Len(starts) + 1) /\ DOMAIN starts = 1..Len(starts)
      BY <1>1, <1>2, <1>10, AppendProperties, LenProperties DEF Boots
    <3>2. CASE i = Len(starts) + 1
      BY <1>1, <1>2, <2>1, <3>1, <3>2, AppendProperties
    <3>3. CASE i # Len(starts) + 1
      <4>1. i \in DOMAIN starts
        BY <3>1, <3>3
      <4>2. starts'[i] = starts[i]
        BY <1>1, <1>2, <3>1, <4>1, AppendProperties
      <4> QED
        BY <1>4, <2>1, <4>1, <4>2
    <3> QED
      BY <3>2, <3>3
  <2> QED
    BY <1>1, <2>1, <2>2 DEF Queue
<1> QED
  BY <1>5, <1>6, <1>7, <1>8, <1>9, <1>10, DataMoves

(* What a write leaves in the files. *)
LEMMA WriteFile ==
  ASSUME Shape, Queue, Writes
  PROVE  /\ current \in Names /\ files[current] \in Seq(Nat) /\ Len(files[current]) \in Nat
         /\ files'[current] \in Seq(Nat) /\ Len(files'[current]) = Len(files[current]) + 1
         /\ \A i \in 1..Len(files[current]) : files'[current][i] = files[current][i]
         /\ files'[current][Len(files[current]) + 1] = Handed + 1
         /\ Range(files'[current]) = Range(files[current]) \cup {Handed + 1}
         /\ \A n \in Names : n # current => files'[n] = files[n]
<1> DEFINE f == files[current]
           e == Handed + 1
<1>1. current \in Names /\ files \in [Names -> Seq(Nat)] /\ f \in Seq(Nat) /\ Len(f) \in Nat
  BY LenProperties DEF Writes, Shape, TypeOK
<1>2. inHand = <<e>> /\ e \in Nat
  BY OneInHand DEF Writes
<1>3. files'[current] = f \o <<e>> /\ \A n \in Names : n # current => files'[n] = files[n]
  BY <1>1, <1>2 DEF Writes
<1> HIDE DEF f, e
<1>4. files'[current] = Append(f, e)
  <2>1. Append(f, e) = f \o <<e>>
    BY <1>1, <1>2, AppendIsConcat
  <2> QED
    BY <1>3, <2>1
<1>5. /\ files'[current] \in Seq(Nat) /\ Len(files'[current]) = Len(f) + 1
      /\ \A i \in 1..Len(f) : files'[current][i] = f[i]
      /\ files'[current][Len(f) + 1] = e
      /\ Range(files'[current]) = Range(f) \cup {e}
  <2>1. /\ Append(f, e) \in Seq(Nat) /\ Len(Append(f, e)) = Len(f) + 1
        /\ \A i \in 1..Len(f) : Append(f, e)[i] = f[i]
        /\ Append(f, e)[Len(f) + 1] = e
    BY <1>1, <1>2, AppendProperties
  <2>2. Range(Append(f, e)) = Range(f) \cup {e}
    BY <1>1, <1>2, AppendRange
  <2> QED
    BY <1>4, <2>1, <2>2
<1> QED
  BY <1>1, <1>3, <1>5 DEF f, e

LEMMA PendingRange ==
  ASSUME Shape, Queue
  PROVE  Range(inHand \o ch) = (Handed + 1)..accepted
<1>1. /\ Len(ch) \in Nat /\ Len(inHand) \in Nat /\ accepted \in Nat /\ Handed \in Nat
      /\ Handed = accepted - Len(ch) - Len(inHand)
  BY Amounts DEF Queue
<1>2. ch \in Seq(Nat) /\ inHand \in Seq(Nat)
  BY DEF Shape, TypeOK
<1>3. Range(inHand \o ch) = Range(inHand) \cup Range(ch)
  BY <1>2, RangeConcatenation
<1>4. DOMAIN ch = 1..Len(ch) /\ DOMAIN inHand = 1..Len(inHand)
  BY <1>2, LenProperties
<1> DEFINE n == Len(inHand)
           m == Len(ch)
           h == Handed
<1>5. Range(ch) = {h + n + i : i \in 1..m} /\ Range(inHand) = {h + i : i \in 1..n}
  BY <1>4 DEF Range, Queue
<1>6. n \in Nat /\ m \in Nat /\ h \in Nat /\ accepted = h + n + m
  BY <1>1
<1> HIDE DEF n, m, h
<1>7. {h + n + i : i \in 1..m} = (h + n + 1)..accepted
  <2>1. ASSUME NEW x \in (h + n + 1)..accepted
        PROVE  x \in {h + n + i : i \in 1..m}
    <3>1. x - (h + n) \in 1..m /\ h + n + (x - (h + n)) = x
      BY <1>6
    <3> QED
      BY <3>1
  <2>2. ASSUME NEW i \in 1..m
        PROVE  h + n + i \in (h + n + 1)..accepted
    BY <1>6
  <2> QED
    BY <2>1, <2>2
<1>8. {h + i : i \in 1..n} = (h + 1)..(h + n)
  <2>1. ASSUME NEW x \in (h + 1)..(h + n)
        PROVE  x \in {h + i : i \in 1..n}
    <3>1. x - h \in 1..n /\ h + (x - h) = x
      BY <1>6
    <3> QED
      BY <3>1
  <2>2. ASSUME NEW i \in 1..n
        PROVE  h + i \in (h + 1)..(h + n)
    BY <1>6
  <2> QED
    BY <2>1, <2>2
<1>9. ((h + 1)..(h + n)) \cup ((h + n + 1)..accepted) = (h + 1)..accepted
  BY <1>6
<1> QED
  BY <1>3, <1>5, <1>7, <1>8, <1>9 DEF h

LEMMA PlacedKept == Shape /\ Working /\ Queue /\ Placed /\ [Next]_vars => Placed'
<1> SUFFICES ASSUME Shape, Working, Queue, Placed, [Next]_vars
             PROVE  Placed'
  OBVIOUS
<1>1. Handed \in Nat
  BY DEF Queue
<1>2. CASE Still \/ Pushes \/ Takes \/ Boots
  <2>1. Handed' = Handed /\ UNCHANGED <<lost, files>>
    BY <1>2, HandedMoves DEF Still, Pushes, Takes, Boots
  <2> QED
    BY <2>1 DEF Placed
<1>3. CASE Drops
  <2>1. Handed' = Handed + 1 /\ lost' = lost \cup {Handed + 1} /\ UNCHANGED files
    BY <1>3, HandedMoves, OneInHand DEF Drops
  <2> DEFINE e == Handed + 1
  <2>2. 1..e = (1..Handed) \cup {e} /\ e \notin 1..Handed
    BY <1>1
  <2> HIDE DEF e
  <2>3. Handed' = e /\ lost' = lost \cup {e} /\ UNCHANGED files
    BY <2>1 DEF e
  <2>4. \A r \in 1..e : r \in lost' \/ \E n \in Names : r \in Range(files'[n])
    BY <2>2, <2>3 DEF Placed
  <2>5. \A n \in Names : Range(files'[n]) \subseteq 1..e /\ Range(files'[n]) \cap lost' = {}
    BY <2>2, <2>3 DEF Placed
  <2>6. lost' \subseteq 1..e
    BY <2>2, <2>3 DEF Placed
  <2> QED
    BY <2>3, <2>4, <2>5, <2>6 DEF Placed
<1>4. CASE Writes
  <2> DEFINE e == Handed + 1
  <2>1. /\ Handed' = e /\ UNCHANGED lost
        /\ Range(files'[current]) = Range(files[current]) \cup {e}
        /\ \A n \in Names : n # current => Range(files'[n]) = Range(files[n])
    <3>1. Handed' = e /\ UNCHANGED lost
      BY <1>4, HandedMoves DEF Writes
    <3> QED
      BY <1>4, <3>1, WriteFile
  <2>2. 1..e = (1..Handed) \cup {e} /\ e \notin 1..Handed
    BY <1>1
  <2>3. IsInjective(files'[current])
    <3>1. DOMAIN files'[current] = 1..(Len(files[current]) + 1)
          /\ DOMAIN files[current] = 1..Len(files[current])
      BY <1>4, WriteFile, LenProperties
    <3>2. \A i \in DOMAIN files[current] : files[current][i] \in 1..Handed
      BY <1>4 DEF Placed, Range, Writes
    <3>3. \A i, j \in DOMAIN files[current] : files[current][i] = files[current][j] => i = j
      BY <1>4 DEF Placed, IsInjective, Writes
    <3> SUFFICES ASSUME NEW i \in DOMAIN files'[current], NEW j \in DOMAIN files'[current],
                        files'[current][i] = files'[current][j]
                 PROVE  i = j
      BY DEF IsInjective
    <3>4. Len(files[current]) \in Nat
      BY <1>4, WriteFile
    <3>5. \A k \in DOMAIN files'[current] :
            k = Len(files[current]) + 1 \/ k \in DOMAIN files[current]
      BY <3>1, <3>4
    <3>6. \A k \in DOMAIN files[current] : files'[current][k] \in 1..Handed
                                           /\ files'[current][k] = files[current][k]
      BY <1>4, <3>1, <3>2, WriteFile
    <3>7. files'[current][Len(files[current]) + 1] = e
      BY <1>4, WriteFile
    <3> HIDE DEF e
    <3> QED
      BY <2>2, <3>3, <3>5, <3>6, <3>7
  <2>4. \A n \in Names : IsInjective(files'[n])
    BY <1>4, <2>3, WriteFile DEF Placed
  <2>5. current \in Names
    BY <1>4 DEF Writes
  <2> HIDE DEF e
  <2>6. \A r \in 1..e : r \in lost \/ \E n \in Names : r \in Range(files'[n])
    BY <2>1, <2>2, <2>5 DEF Placed
  <2>7. lost \subseteq 1..e
    BY <2>2 DEF Placed
  <2>8. \A n \in Names : Range(files'[n]) \subseteq 1..e /\ Range(files'[n]) \cap lost = {}
    <3> TAKE n \in Names
    <3>1. Range(files[n]) \subseteq 1..Handed /\ Range(files[n]) \cap lost = {} /\ lost \subseteq 1..Handed
      BY DEF Placed
    <3>2. Range(files'[n]) = Range(files[n]) \/ Range(files'[n]) = Range(files[n]) \cup {e}
      BY <2>1
    <3> QED
      BY <2>2, <3>1, <3>2
  <2>9. \A n, m \in Names : n # m => Range(files'[n]) \cap Range(files'[m]) = {}
    <3> SUFFICES ASSUME NEW n \in Names, NEW m \in Names, n # m
                 PROVE  Range(files'[n]) \cap Range(files'[m]) = {}
      OBVIOUS
    <3>1. /\ Range(files[n]) \subseteq 1..Handed /\ Range(files[m]) \subseteq 1..Handed
          /\ Range(files[n]) \cap Range(files[m]) = {}
      BY DEF Placed
    <3>2. CASE n # current /\ m # current
      BY <2>1, <3>1, <3>2
    <3>3. CASE n = current
      BY <2>1, <2>2, <3>1, <3>3
    <3>4. CASE m = current
      BY <2>1, <2>2, <3>1, <3>4
    <3> QED
      BY <3>2, <3>3, <3>4
  <2> QED
    BY <2>1, <2>4, <2>6, <2>7, <2>8, <2>9 DEF Placed
<1>5. CASE Crashes
  <2> DEFINE M == (Handed + 1)..accepted
  <2>1. /\ Handed' = accepted /\ lost' = lost \cup M /\ UNCHANGED files /\ Handed <= accepted
    BY <1>5, HandedMoves, PendingRange DEF Crashes
  <2>2. 1..accepted = (1..Handed) \cup M /\ (1..Handed) \cap M = {}
    <3>1. accepted \in Nat
      BY Amounts
    <3> QED
      BY <1>1, <2>1, <3>1
  <2> HIDE DEF M
  <2> QED
    BY <2>1, <2>2 DEF Placed
<1> QED
  BY <1>2, <1>3, <1>4, <1>5, DataMoves
-----------------------------------------------------------------------------
(* The order across the files. *)

LEMMA PendingIsFresh ==
  ASSUME Shape, Queue, NEW r \in Int, r > Handed
  PROVE  Fresh(r)
<1>1. \A i \in DOMAIN starts : starts[i] \in Nat
  <2>1. starts \in Seq(Nat)
    BY DEF Shape, TypeOK
  <2> QED
    BY <2>1
<1> QED
  BY <1>1 DEF Queue, Fresh

(* A start splits no pair of records that it finds together. *)
LEMMA StartsOnlyAdded ==
  ASSUME Shape, Working, [Next]_vars
  PROVE  \/ starts' = starts
         \/ /\ Boots
            /\ \A i \in DOMAIN starts : i \in DOMAIN starts' /\ starts'[i] = starts[i]
<1>1. ASSUME Boots
      PROVE  \A i \in DOMAIN starts : i \in DOMAIN starts' /\ starts'[i] = starts[i]
  <2>1. starts \in Seq(Nat) /\ accepted \in Nat /\ starts' = Append(starts, accepted)
    BY <1>1 DEF Boots, Shape, TypeOK
  <2>2. /\ Len(starts) \in Nat /\ DOMAIN starts = 1..Len(starts)
        /\ starts' \in Seq(Nat) /\ Len(starts') = Len(starts) + 1
        /\ \A i \in 1..Len(starts) : starts'[i] = starts[i]
    BY <2>1, AppendProperties, LenProperties
  <2>3. DOMAIN starts' = 1..(Len(starts) + 1)
    BY <2>2, LenProperties
  <2> QED
    BY <2>2, <2>3
<1> QED
  BY <1>1, DataMoves DEF Still, Pushes, Takes, Drops, Writes, Crashes

LEMMA OrderedKept ==
  Shape /\ Working /\ Queue /\ Placed /\ Reached /\ Ordered /\ [Next]_vars => Ordered'
<1> SUFFICES ASSUME Shape, Working, Queue, Placed, Reached, Ordered, [Next]_vars
             PROVE  Ordered'
  OBVIOUS
<1>1. ASSUME NEW r, NEW s, SameStart(r, s)'
      PROVE  SameStart(r, s)
  BY <1>1, StartsOnlyAdded DEF SameStart
<1>2. CASE UNCHANGED files
  BY <1>1, <1>2 DEF Ordered
<1>3. CASE Writes
  <2> DEFINE e == Handed + 1
             k == Len(files[current]) + 1
  <2>1. /\ e \in Nat /\ Fresh(e) /\ k \in Nat
        /\ \A n \in Names : \A i \in DOMAIN files[n] : files[n][i] \in Nat /\ files[n][i] < e
    <3>1. Handed \in Nat
      BY DEF Queue
    <3>2. \A n \in Names : \A i \in DOMAIN files[n] : files[n][i] \in 1..Handed
      BY DEF Placed, Range
    <3>3. e \in Nat /\ e > Handed
      BY <3>1
    <3>4. k \in Nat
      BY <1>3, WriteFile
    <3> QED
      BY <3>1, <3>2, <3>3, <3>4, PendingIsFresh
  <2>2. /\ DOMAIN files[current] = 1..(k - 1) /\ DOMAIN files'[current] = 1..k
        /\ \A i \in 1..(k - 1) : files'[current][i] = files[current][i]
        /\ files'[current][k] = e
        /\ current \in Names /\ current # NoFile
        /\ \A n \in Names : n # current => files'[n] = files[n]
    BY <1>3, WriteFile, LenProperties, NamesDiffer
  <2> HIDE DEF e, k
  <2> SUFFICES ASSUME NEW n \in Names, NEW m \in Names,
                      NEW i \in DOMAIN files'[n], NEW j \in DOMAIN files'[m],
                      files'[n][i] < files'[m][j], SameStart(files[n][i], files[m][j])'
               PROVE  Before(<<n, i>>, <<m, j>>)
    BY DEF Ordered, Before
  <2>3. SameStart(files'[n][i], files'[m][j])
    BY <1>3 DEF SameStart, Writes
  <2>4. \/ i \in DOMAIN files[n] /\ files'[n][i] = files[n][i]
        \/ n = current /\ i = k /\ files'[n][i] = e
    BY <2>1, <2>2
  <2>5. \/ j \in DOMAIN files[m] /\ files'[m][j] = files[m][j]
        \/ m = current /\ j = k /\ files'[m][j] = e
    BY <2>1, <2>2
  <2>6. i \in DOMAIN files[n] /\ files'[n][i] = files[n][i]
    BY <2>1, <2>4, <2>5
  <2>7. CASE j \in DOMAIN files[m] /\ files'[m][j] = files[m][j]
    BY <2>3, <2>6, <2>7 DEF Ordered
  <2>8. CASE m = current /\ j = k /\ files'[m][j] = e
    <3>1. Fresh(files[n][i])
      BY <2>1, <2>3, <2>6, <2>8 DEF SameStart, Fresh
    <3>2. n[2] <= current[2] /\ n[1] <= current[1]
      <4>1. files[n][i] \in Range(files[n])
        BY <2>6 DEF Range
      <4> QED
        BY <2>2, <3>1, <4>1 DEF Reached, Working
    <3>3. /\ n[1] \in Nat /\ n[2] \in Nat /\ current[1] \in Nat /\ current[2] \in Nat
          /\ n = <<n[1], n[2]>> /\ current = <<current[1], current[2]>>
      BY <2>2, NamesDiffer
    <3>4. CASE n = current
      <4>1. i \in 1..(k - 1)
        BY <2>2, <2>6, <3>4
      <4>2. i < k
        BY <2>1, <4>1
      <4> QED
        BY <2>8, <3>4, <4>2 DEF Before
    <3>5. CASE n # current
      <4>1. n[1] < current[1] \/ (n[1] = current[1] /\ n[2] < current[2])
        BY <3>2, <3>3, <3>5
      <4> QED
        BY <2>8, <4>1 DEF Before
    <3> QED
      BY <3>4, <3>5
  <2> QED
    BY <2>5, <2>7, <2>8
<1> QED
  BY <1>2, <1>3, DataMoves DEF Still, Pushes, Takes, Drops, Crashes, Boots

(* The date of the file that is open, or of the next one, and the index     *)
(* never go back but at a start.                                            *)
Latest == IF current = NoFile THEN date ELSE current[1]

LEMMA PositionMoves ==
  ASSUME Shape, Working, [Next]_vars
  PROVE  /\ Latest \in Nat /\ Index \in Nat
         /\ Boot \/ (Latest' \in Nat /\ Index' \in Nat /\ Latest <= Latest' /\ Index <= Index')
<1>1. /\ date \in Nat /\ logIndex \in Nat /\ FileSize \in Int /\ current \in Names \cup {NoFile}
      /\ \A i : Name(i)[1] = date
      /\ current # NoFile => current[1] \in Nat /\ current[1] <= date
  BY LogConsumerAssumption, NamesDiffer DEF Shape, TypeOK, Name, Working
<1>2. Latest \in Nat /\ Latest <= date /\ Index \in Nat
  BY <1>1 DEF Latest, Index
<1>3. CASE UNCHANGED <<current, date, logIndex>>
  BY <1>2, <1>3 DEF Latest, Index
<1>4. CASE DateChanges
  <2>1. date' = date + 1 /\ UNCHANGED <<current, logIndex>>
    BY <1>4 DEF DateChanges
  <2> QED
    BY <1>1, <2>1 DEF Latest, Index
<1>5. ASSUME UNCHANGED date, logIndex' \in {logIndex, logIndex + 1},
             current' = NoFile \/ (\E i : current' = Name(i))
      PROVE  Latest' \in Nat /\ Index' \in Nat /\ Latest <= Latest' /\ Index <= Index'
  <2>1. Latest' = date
    BY <1>1, <1>5 DEF Latest
  <2>2. Index' \in Nat /\ Index <= Index'
    BY <1>1, <1>5 DEF Index
  <2> QED
    BY <1>1, <1>2, <2>1, <2>2
<1>6. CASE Rotate
  <2>1. /\ UNCHANGED date /\ logIndex' = logIndex + 1
        /\ current' = NoFile \/ current' = Name(logIndex')
    BY <1>6 DEF Rotate, OpenElse
  <2> QED
    BY <1>2, <1>5, <2>1
<1>7. CASE OpenFile
  <2>1. UNCHANGED <<date, logIndex>> /\ (current' = NoFile \/ current' = Name(logIndex))
    BY <1>7 DEF OpenFile, OpenElse
  <2> QED
    BY <1>2, <1>5, <2>1
<1>8. CASE CloseWait
  BY <1>2, <1>5, <1>8 DEF CloseWait
<1> QED
  BY <1>2, <1>3, <1>4, <1>6, <1>7, <1>8
     DEF Next, vars, Crash, Call, Enter, Push, FileStep, Receive, WriterExit,
         Write, StatFails, WriteFails, CloseCall, CloseEnter, Stopped

(* The FileWriter is about to write without a look at the size only after it *)
(* rotated, and then nobody else disturbs the file.                         *)
LEMMA WriteIsNext ==
  ASSUME Shape, Working, [Next]_vars, pc'[FileWriter] = "write"
  PROVE  \/ Rotate /\ current' = Name(logIndex') /\ UNCHANGED <<files, starts>>
         \/ pc[FileWriter] = "write" /\ UNCHANGED <<current, files, starts>>
<1>1. \A l \in Labels : Goto(FileWriter, l) => pc'[FileWriter] = l
  BY OneMoves, ThreadsDiffer
<1>2. \A t \in Adders \cup {Closer}, l \in Labels : Goto(t, l) => pc'[FileWriter] = pc[FileWriter]
  BY OneMoves, ThreadsDiffer
<1>3. Labels = {"idle", "want", "push", "receive", "open", "size", "write", "done", "wait", "none"}
  BY DEF Labels
<1> HIDE DEF Goto
<1>4. CASE Boot \/ Crash
  BY <1>4, RestShape, BootShape DEF Crash
<1>5. ASSUME NEW a \in Adders, Call(a) \/ Enter(a) \/ Push(a)
      PROVE  pc[FileWriter] = "write" /\ UNCHANGED <<current, files, starts>>
  <2>1. \E l \in Labels : Goto(a, l)
    BY <1>3, <1>5 DEF Call, Enter, Push
  <2> QED
    BY <1>2, <1>5, <2>1 DEF Call, Enter, Push
<1>6. CASE CloseCall \/ CloseEnter
  <2>1. \E l \in Labels : Goto(Closer, l)
    BY <1>3, <1>6 DEF CloseCall, CloseEnter
  <2> QED
    BY <1>2, <1>6, <2>1 DEF CloseCall, CloseEnter
<1>7. ~CloseWait
  <2>1. CloseWait => pc[FileWriter] \in {"done", "none"} /\ Goto(Closer, "done")
    BY DEF CloseWait
  <2> QED
    BY <1>2, <1>3, <2>1
<1>8. CASE Rotate
  <2>1. \/ current' = Name(logIndex')
        \/ Goto(FileWriter, "receive")
    BY <1>8 DEF Rotate, OpenElse, GiveUp
  <2> QED
    BY <1>1, <1>3, <1>8, <2>1 DEF Rotate
<1>9. ~(Receive \/ WriterExit \/ OpenFile \/ StatFails \/ Write \/ WriteFails)
  <2>1. Receive \/ WriterExit \/ OpenFile \/ StatFails \/ Write \/ WriteFails
          => \E l \in {"open", "done", "size", "receive"} : Goto(FileWriter, l)
    BY DEF Receive, WriterExit, OpenFile, OpenElse, GiveUp, Write, StatFails, WriteFails
  <2> QED
    BY <1>1, <1>3, <2>1
<1>10. CASE DateChanges \/ Stopped \/ UNCHANGED vars
  BY <1>10 DEF DateChanges, Stopped, vars
<1> QED
  BY <1>4, <1>5, <1>6, <1>7, <1>8, <1>9, <1>10 DEF Next, FileStep

LEMMA ReachedKept ==
  Shape /\ Shape' /\ Working /\ Working' /\ Queue /\ Placed /\ Reached /\ [Next]_vars
    => Reached'
<1> SUFFICES ASSUME Shape, Shape', Working, Working', Queue, Placed, Reached, [Next]_vars
             PROVE  Reached'
  OBVIOUS
<1>1. \A n \in Names : \A r \in Range(files[n]) : Fresh(r) => n[2] <= Index /\ n[1] <= Latest
  BY DEF Reached, Latest
<1>2. \A n \in Names : n[1] \in Nat /\ n[2] \in Nat
  BY NamesDiffer
<1>3. ASSUME NEW n \in Names, NEW r \in Range(files'[n]), Fresh(r)'
      PROVE  n[2] <= Index' /\ n[1] <= Latest'
  <2>1. CASE Boot
    <3>1. Boots /\ UNCHANGED files
      <4>1. pc[FileWriter] = "receive" /\ ch = <<>>
        BY <2>1, RestShape DEF Boot, Working
      <4>2. inHand = <<>>
        BY <4>1 DEF Working
      <4> QED
        BY <2>1, <4>1, <4>2 DEF Boot, Boots
    <3>2. Handed = accepted /\ accepted \in Nat
      <4>1. Len(ch) = 0 /\ Len(inHand) = 0 /\ accepted \in Nat
        BY <3>1, Amounts DEF Boots
      <4> QED
        BY <4>1 DEF Handed
    <3>3. r \in 1..accepted
      BY <3>1, <3>2 DEF Placed
    <3>4. \E i \in DOMAIN starts' : starts'[i] = accepted
      <4>1. starts \in Seq(Nat) /\ accepted \in Nat /\ starts' = Append(starts, accepted)
        BY <3>1 DEF Boots, Shape, TypeOK
      <4>2. /\ Len(starts) \in Nat /\ starts' \in Seq(Nat) /\ Len(starts') = Len(starts) + 1
            /\ starts'[Len(starts) + 1] = accepted
        BY <4>1, AppendProperties, LenProperties
      <4>3. Len(starts) + 1 \in DOMAIN starts'
        BY <4>2, LenProperties
      <4> QED
        BY <4>2, <4>3
    <3>5. accepted < r
      BY <1>3, <3>4 DEF Fresh
    <3> QED
      BY <3>2, <3>3, <3>5
  <2>2. CASE ~Boot
    <3>1. /\ Latest \in Nat /\ Index \in Nat /\ Latest' \in Nat /\ Index' \in Nat
          /\ Latest <= Latest' /\ Index <= Index'
      BY <2>2, PositionMoves
    <3>2. Fresh(r)
      BY <1>3, StartsOnlyAdded DEF Fresh
    <3>3. n[2] <= Index /\ n[1] <= Latest
      <4>1. CASE r \in Range(files[n])
        BY <1>1, <3>2, <4>1
      <4>2. CASE r \notin Range(files[n])
        <5>1. Writes
          BY <1>3, <4>2, DataMoves DEF Still, Pushes, Takes, Drops, Crashes, Boots
        <5>2. n = current /\ current # NoFile
          BY <1>3, <4>2, <5>1, WriteFile, NamesDiffer
        <5>3. n[2] = Index /\ n[1] = Latest
          BY <5>2 DEF Working, Latest
        <5> QED
          BY <3>1, <5>3
      <4> QED
        BY <4>1, <4>2
    <3> QED
      BY <1>2, <3>1, <3>3
  <2> QED
    BY <2>1, <2>2
<1>4. ASSUME pc'[FileWriter] = "write", NEW r \in Range(files'[current'])
      PROVE  ~Fresh(r)'
  <2>1. CASE Rotate /\ current' = Name(logIndex') /\ UNCHANGED <<files, starts>>
    <3>1. /\ FileSize > 0 /\ logIndex' = logIndex + 1 /\ logIndex \in Nat
          /\ current'[2] = logIndex + 1 /\ Index = logIndex
      BY <2>1 DEF Rotate, Full, Name, Index, Shape, TypeOK
    <3>2. current' \in Names
      BY <1>4 DEF Shape, TypeOK, Working
    <3>3. Fresh(r) => logIndex + 1 <= logIndex
      BY <1>1, <1>4, <2>1, <3>1, <3>2
    <3>4. ~Fresh(r)
      BY <3>1, <3>3
    <3> QED
      BY <2>1, <3>4 DEF Fresh
  <2>2. CASE pc[FileWriter] = "write" /\ UNCHANGED <<current, files, starts>>
    BY <1>4, <2>2 DEF Reached, Fresh
  <2> QED
    BY <1>4, <2>1, <2>2, WriteIsNext
<1>5. \A r : Fresh(r)' <=> \A i \in DOMAIN starts' : starts'[i] < r
  BY DEF Fresh
<1> QED
  BY <1>3, <1>4, <1>5 DEF Reached, Latest, Fresh
-----------------------------------------------------------------------------
(* The indexes passed and the sizes of the files. *)

(* Only Rotate passes an index, and only Boot begins again.                 *)
LEMMA IndexMoves ==
  ASSUME [Next]_vars
  PROVE  \/ Boot /\ logIndex' = 0
         \/ Rotate /\ logIndex' = logIndex + 1
         \/ UNCHANGED logIndex
BY DEF Next, vars, Boot, Crash, DateChanges, Call, Enter, Push, FileStep, Receive, WriterExit,
       OpenFile, StatFails, Rotate, Write, WriteFails, CloseCall, CloseEnter, CloseWait, Stopped

(* Who stops being about to write has written, failed or crashed. *)
LEMMA WriteEnds ==
  ASSUME Shape, Working, [Next]_vars, pc[FileWriter] = "write", pc'[FileWriter] # "write"
  PROVE  Drops \/ Writes \/ Crashes
<1>1. \A t \in Adders \cup {Closer}, l \in Labels : Goto(t, l) => pc'[FileWriter] = pc[FileWriter]
  BY OneMoves, ThreadsDiffer
<1>2. Labels = {"idle", "want", "push", "receive", "open", "size", "write", "done", "wait", "none"}
  BY DEF Labels
<1>3. up /\ inHand # <<>> /\ current \in Names
  BY RestShape DEF Working, Shape, TypeOK
<1> HIDE DEF Goto
<1>4. ASSUME NEW a \in Adders
      PROVE  ~(Call(a) \/ Enter(a) \/ Push(a))
  <2>1. Call(a) \/ Enter(a) \/ Push(a) => \E l \in Labels : Goto(a, l)
    BY <1>2 DEF Call, Enter, Push
  <2> QED
    BY <1>1, <2>1
<1>5. ~(CloseCall \/ CloseEnter \/ CloseWait)
  <2>1. CloseCall \/ CloseEnter \/ CloseWait => \E l \in Labels : Goto(Closer, l)
    BY <1>2 DEF CloseCall, CloseEnter, CloseWait
  <2> QED
    BY <1>1, <2>1
<1>6. ~(Boot \/ DateChanges \/ Stopped \/ UNCHANGED vars)
  BY <1>3 DEF Boot, DateChanges, Stopped, vars
<1>7. ~(Receive \/ WriterExit \/ OpenFile \/ StatFails \/ Rotate)
  BY DEF Receive, WriterExit, OpenFile, StatFails, Rotate, At
<1>8. Write => Writes
  BY <1>3 DEF Write, Writes
<1>9. WriteFails => Drops
  BY <1>3 DEF WriteFails, GiveUp, Drops
<1>10. Crash => Crashes
  BY DEF Crash, Crashes
<1> QED
  BY <1>4, <1>5, <1>6, <1>7, <1>8, <1>9, <1>10 DEF Next, FileStep

LEMMA CountedKept ==
  Shape /\ Working /\ Queue /\ Counted /\ [Next]_vars => Counted'
<1> SUFFICES ASSUME Shape, Working, Queue, Counted, [Next]_vars
             PROVE  Counted'
  OBVIOUS
<1>1. Handed \in Nat /\ accepted \in Nat /\ logIndex \in Nat
  BY DEF Queue, Shape, TypeOK
<1>2. /\ Still \/ Pushes \/ Takes \/ Boots => Handed' = Handed
      /\ Drops \/ Writes => Handed' = Handed + 1
      /\ Crashes => Handed' = accepted /\ Handed <= accepted
      /\ inHand # <<>> => Handed + 1 <= accepted
  BY HandedMoves, OneInHand
<1>3. logIndex <= Handed + IF pc[FileWriter] = "write" THEN 1 ELSE 0
  BY DEF Counted
<1> HIDE DEF Handed
<1>4. Handed' \in Nat /\ Handed <= Handed'
  BY <1>1, <1>2, DataMoves
<1> DEFINE w(l) == IF l = "write" THEN 1 ELSE 0
<1>n. /\ w(pc[FileWriter]) \in 0..1 /\ w(pc'[FileWriter]) \in 0..1
      /\ Counted' <=> logIndex' <= Handed' + w(pc'[FileWriter])
  BY DEF Counted
<1>5. CASE logIndex' = 0
  <2> HIDE DEF w
  <2> QED
    BY <1>4, <1>5, <1>n
<1>6. CASE Rotate /\ logIndex' = logIndex + 1
  <2>1. pc[FileWriter] = "size" /\ inHand # <<>>
    BY <1>6 DEF Rotate, At, Working
  <2>2. Goto(FileWriter, "write") \/ Drops
    BY <1>6, <2>1 DEF Rotate, OpenElse, GiveUp, Drops
  <2>3. pc'[FileWriter] = "write" \/ Handed' = Handed + 1
    BY <1>2, <2>2, OneMoves, ThreadsDiffer DEF Labels
  <2>4. logIndex <= Handed
    BY <1>1, <1>3, <2>1
  <2>6. logIndex + 1 <= Handed' + 1
    <3>1. PICK h \in Nat, g \in Nat, i \in Nat : h = Handed /\ g = Handed' /\ i = logIndex
      BY <1>1, <1>4
    <3>2. i <= h /\ h <= g
      BY <1>4, <2>4, <3>1
    <3>3. i + 1 <= g + 1
      BY <3>2
    <3> QED
      BY <3>1, <3>3
  <2>5. logIndex + 1 <= Handed' + w(pc'[FileWriter])
    <3>1. CASE Handed' = Handed + 1
      <4> HIDE DEF w
      <4> QED
        BY <1>1, <1>n, <2>4, <3>1
    <3>2. CASE pc'[FileWriter] = "write"
      <4>1. w(pc'[FileWriter]) = 1
        BY <3>2
      <4> QED
        BY <2>6, <4>1
    <3> QED
      BY <2>3, <3>1, <3>2
  <2> QED
    BY <1>6, <1>n, <2>5
<1>7. CASE UNCHANGED logIndex
  <2>1. CASE pc[FileWriter] = "write" /\ pc'[FileWriter] # "write"
    <3>1. inHand # <<>>
      BY <2>1 DEF Working
    <3>2. Handed + 1 <= Handed'
      BY <1>1, <1>2, <2>1, <3>1, WriteEnds
    <3>3. logIndex' <= Handed + 1
      BY <1>1, <1>3, <1>7
    <3> HIDE DEF w
    <3> QED
      BY <1>1, <1>4, <1>7, <1>n, <3>2, <3>3
  <2>2. CASE pc[FileWriter] = "write" => pc'[FileWriter] = "write"
    <3>1. w(pc[FileWriter]) <= w(pc'[FileWriter]) /\ logIndex <= Handed + w(pc[FileWriter])
      BY <1>3, <2>2
    <3> HIDE DEF w
    <3> QED
      BY <1>1, <1>4, <1>7, <1>n, <3>1
  <2> QED
    BY <2>1, <2>2
<1> QED
  BY <1>5, <1>6, <1>7, IndexMoves

LEMMA CapGrows ==
  /\ \A k \in Int : Cap(k) \in Int /\ Cap(k) = Cap(k - 1) + MaxRecordSize
  /\ \A k \in Nat \ {0} : FileSize - 1 + MaxRecordSize <= Cap(k)
  /\ MaxRecordSize \in Nat /\ FileSize \in Int
<1>1. MaxRecordSize \in Nat /\ FileSize \in Int
  BY LogConsumerAssumption
<1>2. \A k \in Int : Cap(k) \in Int /\ Cap(k) = Cap(k - 1) + MaxRecordSize
  BY <1>1 DEF Cap
<1>3. ASSUME NEW k \in Nat \ {0}
      PROVE  FileSize - 1 + MaxRecordSize <= Cap(k)
  <2>1. PICK j : j = k - 1
    OBVIOUS
  <2>2. j \in Nat /\ MaxRecordSize * k = MaxRecordSize * j + MaxRecordSize
    BY <1>1, <2>1
  <2>3. MaxRecordSize * j \in Nat
    BY <1>1, <2>2
  <2> QED
    BY <1>1, <2>2, <2>3 DEF Cap
<1> QED
  BY <1>1, <1>2, <1>3

LEMMA SizedKept ==
  Shape /\ Working /\ Sized /\ [Next]_vars => Sized'
<1> SUFFICES ASSUME Shape, Working, Sized, [Next]_vars, FileSize > 0, NEW n \in Names
             PROVE  bytes'[n] <= IF Behind(n)' THEN Cap(Len(starts')) ELSE Cap(Len(starts') - 1)
  BY DEF Sized, Behind, Cap
<1> DEFINE k == Len(starts)
<1>1. /\ k \in Nat /\ (up => k >= 1) /\ logIndex \in Nat /\ n[2] \in Nat
      /\ bytes \in [Names -> Nat] /\ bytes[n] \in Nat
  <2>1. starts \in Seq(Nat) /\ logIndex \in Nat /\ bytes \in [Names -> Nat]
    BY DEF Shape, TypeOK
  <2>2. up => Len(starts) # 0
    BY <2>1, EmptySeq DEF Working
  <2>3. n[2] \in Nat
    BY NamesDiffer
  <2> QED
    BY <2>1, <2>2, <2>3, LenProperties
<1>2. /\ Cap(k) \in Int /\ Cap(k - 1) \in Int /\ Cap(k) = Cap(k - 1) + MaxRecordSize
      /\ up => FileSize - 1 + MaxRecordSize <= Cap(k)
      /\ MaxRecordSize \in Nat /\ FileSize \in Int
      /\ Cap(k + 1) \in Int /\ Cap(k) <= Cap(k + 1)
  <2>0. PICK j \in Int : j = k + 1 /\ j - 1 = k
    <3>1. k + 1 \in Int /\ (k + 1) - 1 = k
      BY <1>1
    <3> QED
      BY <3>1
  <2>1. Cap(k + 1) = Cap(k) + MaxRecordSize /\ Cap(k + 1) \in Int
    <3>1. Cap(j) = Cap(j - 1) + MaxRecordSize /\ Cap(j) \in Int
      BY CapGrows
    <3> HIDE DEF k, Cap
    <3> QED
      BY <2>0, <3>1
  <2>2. Cap(k) \in Int /\ Cap(k - 1) \in Int /\ Cap(k) = Cap(k - 1) + MaxRecordSize
    BY <1>1, CapGrows
  <2>3. up => FileSize - 1 + MaxRecordSize <= Cap(k)
    BY <1>1, CapGrows
  <2> HIDE DEF k, Cap
  <2> QED
    BY <2>1, <2>2, <2>3, CapGrows
<1>3. bytes[n] <= IF Behind(n) THEN Cap(k) ELSE Cap(k - 1)
  BY DEF Sized
<1>4. ASSUME UNCHANGED <<bytes, starts>>, Behind(n) => Behind(n)'
      PROVE  bytes'[n] <= IF Behind(n)' THEN Cap(Len(starts')) ELSE Cap(Len(starts') - 1)
  <2>1. Len(starts') = k /\ bytes'[n] = bytes[n]
    BY <1>4
  <2> HIDE DEF k, Cap, Behind
  <2> QED
    BY <1>1, <1>2, <1>3, <1>4, <2>1
<1>5. CASE Boot
  <2>1. Behind(n) /\ bytes' = bytes /\ starts' = Append(starts, accepted)
    BY <1>5 DEF Boot, Behind
  <2>2. Len(starts') = k + 1 /\ (k + 1) - 1 = k
    BY <1>1, <2>1, AppendProperties DEF Shape, TypeOK
  <2> HIDE DEF k, Cap, Behind
  <2> QED
    BY <1>1, <1>2, <1>3, <2>1, <2>2
<1>6. CASE Write \/ WriteFails
  <2>1. /\ up /\ pc[FileWriter] \in {"size", "write"} /\ MayWrite
        /\ UNCHANGED <<up, logIndex, starts>> /\ Goto(FileWriter, "receive")
        /\ Grow(1..MaxRecordSize) \/ Grow(0..MaxRecordSize)
    BY <1>6 DEF Write, WriteFails, GiveUp, MayWrite, At
  <2>2. pc'[FileWriter] = "receive"
    BY <2>1, OneMoves, ThreadsDiffer DEF Labels
  <2>3. PICK size \in 0..MaxRecordSize : bytes' = [bytes EXCEPT ![current] = @ + size]
    BY <1>2, <2>1 DEF Grow
  <2>4. Behind(n) => Behind(n)'
    BY <2>1, <2>2 DEF Behind
  <2>5. CASE n # current
    <3>1. bytes'[n] = bytes[n] /\ Len(starts') = k
      BY <1>1, <2>1, <2>3, <2>5
    <3> HIDE DEF k, Cap, Behind
    <3> QED
      BY <1>1, <1>2, <1>3, <2>4, <3>1
  <2>6. CASE n = current
    <3>1. bytes'[n] = bytes[n] + size /\ Len(starts') = k /\ size \in Nat /\ size <= MaxRecordSize
      BY <1>1, <1>2, <2>1, <2>3, <2>6
    <3>2. n[2] = logIndex
      BY <2>1, <2>6 DEF Working, Index
    <3>3. Behind(n)'
      BY <2>1, <2>2, <3>2 DEF Behind
    <3>4. bytes[n] + MaxRecordSize <= Cap(k)
      <4>1. CASE pc[FileWriter] = "write"
        <5>1. ~Behind(n)
          BY <1>1, <2>1, <3>2, <4>1 DEF Behind
        <5> HIDE DEF k, Cap, Behind
        <5> QED
          BY <1>1, <1>2, <1>3, <5>1
      <4>2. CASE pc[FileWriter] = "size"
        <5>1. bytes[n] < FileSize
          BY <1>1, <1>2, <2>1, <2>6, <4>2 DEF MayWrite, At, Full
        <5> HIDE DEF k, Cap
        <5> QED
          BY <1>1, <1>2, <2>1, <5>1
      <4> QED
        BY <2>1, <4>1, <4>2
    <3> HIDE DEF k, Cap, Behind
    <3> QED
      BY <1>1, <1>2, <3>1, <3>3, <3>4
  <2> QED
    BY <2>5, <2>6
<1>7. CASE ~(Boot \/ Write \/ WriteFails)
  <2>1. UNCHANGED <<bytes, starts>> /\ (UNCHANGED up \/ up' = FALSE)
    BY <1>7
       DEF Next, vars, Crash, DateChanges, Call, Enter, Push, FileStep, Receive, WriterExit,
           OpenFile, StatFails, Rotate, CloseCall, CloseEnter, CloseWait, Stopped
  <2>2. CASE Rotate
    <3>1. logIndex' = logIndex + 1 /\ UNCHANGED up
      BY <2>2 DEF Rotate
    <3>2. Behind(n) => Behind(n)'
      BY <1>1, <3>1 DEF Behind
    <3> QED
      BY <1>4, <2>1, <3>2
  <2>3. CASE ~Rotate
    <3>1. UNCHANGED logIndex
      BY <1>7, <2>3, IndexMoves
    <3>2. pc'[FileWriter] = "write" => pc[FileWriter] = "write"
      BY <2>3, WriteIsNext
    <3>3. Behind(n) => Behind(n)'
      BY <2>1, <3>1, <3>2 DEF Behind
    <3> QED
      BY <1>4, <2>1, <3>3
  <2> QED
    BY <2>2, <2>3
<1> QED
  BY <1>5, <1>6, <1>7
-----------------------------------------------------------------------------
(* The invariant. *)

LEMMA IInvInit == Init => IInv
<1> SUFFICES ASSUME Init
             PROVE  IInv
  OBVIOUS
<1>1. /\ {MaxRecords, MaxBoots, MaxFaults} \subseteq Nat /\ MaxDate \in Nat \ {0}
      /\ ChannelSize \in Nat \ {0} /\ FileSize \in Int
  BY LogConsumerAssumption, ChannelHolds
<1>2. /\ <<>> \in Seq(Nat) /\ Len(<<>>) = 0 /\ DOMAIN <<>> = {}
      /\ Range(<<>>) = {} /\ IsInjective(<<>>)
  BY EmptySeq, EmptyRange
<1>3. /\ pc \in [Threads -> Labels] /\ pc[FileWriter] = "receive" /\ pc[Closer] = "idle"
      /\ \A a \in Adders : pc[a] = "idle"
  BY RestShape DEF Init
<1>4. Shape
  <2>1. date \in 1..MaxDate /\ faults \in 0..MaxFaults /\ logIndex \in Nat /\ logIndex <= MaxRecords
    BY <1>1 DEF Init
  <2>2. files \in [Names -> Seq(Nat)]
    BY <1>2 DEF Init
  <2>3. Len(ch) <= ChannelSize /\ Len(inHand) <= 1 /\ Len(starts) <= MaxBoots
    BY <1>1, <1>2 DEF Init
  <2> QED
    BY <1>2, <1>3, <2>1, <2>2, <2>3 DEF Init, Shape, TypeOK
<1>5. Working
  BY <1>3 DEF Init, Working
<1>6. Locking
  BY <1>3, ThreadsDiffer DEF Init, Locking
<1>7. Room
  <2>1. Calling = {}
    BY <1>3 DEF Calling
  <2> QED
    BY <1>1, <2>1, FS_EmptySet DEF Init, Room
<1>8. Handed = 0
  <2>1. accepted = 0 /\ Len(ch) = 0 /\ Len(inHand) = 0
    BY <1>2 DEF Init
  <2> QED
    BY <2>1 DEF Handed
<1>9. Queue
  BY <1>2, <1>8 DEF Init, Queue
<1>10. \A n \in Names : files[n] = <<>>
  BY DEF Init
<1>11. Placed
  BY <1>2, <1>8, <1>10 DEF Init, Placed
<1>12. Reached
  BY <1>2, <1>3, <1>10 DEF Reached
<1>13. Ordered
  BY <1>2, <1>10 DEF Ordered
<1>14. Counted
  BY <1>3, <1>8 DEF Init, Counted
<1>15. Sized
  <2> SUFFICES ASSUME FileSize > 0, NEW n \in Names
               PROVE  Behind(n) /\ bytes[n] <= Cap(Len(starts))
    BY DEF Sized
  <2>1. ~up /\ bytes[n] = 0 /\ Len(starts) = 0 /\ MaxRecordSize * 0 = 0
    BY <1>2, CapGrows DEF Init
  <2>2. Cap(0) = FileSize - 1
    BY <1>1, <2>1 DEF Cap
  <2> QED
    BY <1>1, <2>1, <2>2 DEF Behind
<1> QED
  BY <1>4, <1>5, <1>6, <1>7, <1>9, <1>11, <1>12, <1>13, <1>14, <1>15 DEF IInv

LEMMA IInvKept == IInv /\ [Next]_vars => IInv'
BY TypesKept, WorkingKept, LockingKept, RoomKept, QueueKept, PlacedKept, ReachedKept,
   OrderedKept, CountedKept, SizedKept DEF IInv

(* The inductive invariant holds in every state the consumer reaches. *)
THEOREM Invariance == Spec => []IInv
<1>1. Init => IInv
  BY IInvInit
<1>2. IInv /\ [Next]_vars => IInv'
  BY IInvKept
<1> QED
  BY <1>1, <1>2, PTL DEF Spec

(* Every variable has its type, and the channel never holds more than its   *)
(* size.                                                                    *)
THEOREM TypeCorrect == Spec => []TypeOK
<1>1. IInv => TypeOK
  BY DEF IInv, Shape
<1> QED
  BY <1>1, Invariance, PTL

(* Add and Close may run at any time, and still no Add sends on the channel *)
(* that Close has closed.                                                   *)
THEOREM NoSendAfterClose == Spec => []NeverSendsOnClosed
<1>1. IInv => NeverSendsOnClosed
  <2> SUFFICES ASSUME IInv, NEW a \in Adders, At(a, "push")
               PROVE  ~chClosed
    BY DEF NeverSendsOnClosed
  <2>1. up /\ mutex = a /\ pc[a] = "push"
    BY DEF IInv, Locking, At
  <2>2. pc[Closer] # "wait" /\ pc[Closer] # "done"
    BY <2>1, ThreadsDiffer DEF IInv, Locking
  <2> QED
    BY <2>1, <2>2 DEF IInv, Locking
<1> QED
  BY <1>1, Invariance, PTL

(* Because the size is looked at before the write, a file exceeds its limit *)
(* in bytes, but by less than one record for every start of the program.    *)
THEOREM FilesStayBounded == Spec => []FilesBounded
<1>1. IInv => FilesBounded
  <2> SUFFICES ASSUME IInv, FileSize > 0, NEW n \in Names
               PROVE  bytes[n] <= Cap(Len(starts))
    BY DEF FilesBounded, Cap
  <2>1. bytes[n] \in Nat /\ Len(starts) \in Nat
    <3>1. starts \in Seq(Nat) /\ bytes \in [Names -> Nat]
      BY DEF IInv, Shape, TypeOK
    <3> QED
      BY <3>1, LenProperties
  <2>2. bytes[n] <= IF Behind(n) THEN Cap(Len(starts)) ELSE Cap(Len(starts) - 1)
    BY DEF IInv, Sized
  <2>3. /\ Cap(Len(starts)) \in Int /\ Cap(Len(starts) - 1) \in Int
        /\ Cap(Len(starts)) = Cap(Len(starts) - 1) + MaxRecordSize /\ MaxRecordSize \in Nat
    BY <2>1, CapGrows
  <2> HIDE DEF Cap
  <2> QED
    BY <2>1, <2>2, <2>3
<1> QED
  BY <1>1, Invariance, PTL

LEMMA WhatIsOnDisk ==
  ASSUME Shape, NEW r
  PROVE  \A p : p \in OnDisk(r) <=>
           \E n \in Names : \E i \in DOMAIN files[n] : p = <<n, i>> /\ files[n][i] = r
BY DEF OnDisk

(* The files, in the order of their dates and indexes, give the records of  *)
(* one start in the order in which Add accepted them.                       *)
THEOREM FilesInOrder == Spec => []OrderAcrossFiles
<1>1. IInv => OrderAcrossFiles
  <2> SUFFICES ASSUME IInv, NEW r \in 1..accepted, NEW s \in 1..accepted,
                      r < s, SameStart(r, s), NEW p \in OnDisk(r), NEW q \in OnDisk(s)
               PROVE  Before(p, q)
    BY DEF OrderAcrossFiles
  <2>1. Shape /\ Ordered
    BY DEF IInv
  <2>2. PICK n \in Names : \E i \in DOMAIN files[n] : p = <<n, i>> /\ files[n][i] = r
    BY <2>1, WhatIsOnDisk
  <2>3. PICK i \in DOMAIN files[n] : p = <<n, i>> /\ files[n][i] = r
    BY <2>2
  <2>4. PICK m \in Names : \E j \in DOMAIN files[m] : q = <<m, j>> /\ files[m][j] = s
    BY <2>1, WhatIsOnDisk
  <2>5. PICK j \in DOMAIN files[m] : q = <<m, j>> /\ files[m][j] = s
    BY <2>4
  <2> HIDE DEF Before, SameStart
  <2> QED
    BY <2>1, <2>3, <2>5 DEF Ordered
<1> QED
  BY <1>1, Invariance, PTL

(* Of the records handed over, those not lost are in one place of one file. *)
LEMMA OnePlace ==
  ASSUME IInv, NEW r \in 1..accepted
  PROVE  /\ r \in lost => OnDisk(r) = {} /\ r <= Handed
         /\ r > Handed => OnDisk(r) = {} /\ r \notin lost
         /\ r <= Handed /\ r \notin lost => \E p : OnDisk(r) = {p}
<1>1. Shape /\ Queue /\ Placed
  BY DEF IInv
<1>2. /\ Handed \in Nat /\ accepted \in Nat /\ r \in Nat /\ r >= 1
      /\ \A x \in 1..Handed : x <= Handed
  BY <1>1 DEF Queue, Shape, TypeOK
<1>3. \A p : p \in OnDisk(r) <=>
        \E n \in Names : \E i \in DOMAIN files[n] : p = <<n, i>> /\ files[n][i] = r
  BY <1>1, WhatIsOnDisk
<1> HIDE DEF OnDisk, Handed
<1>4. \A p \in OnDisk(r) : r \in 1..Handed /\ r \notin lost
  <2> SUFFICES ASSUME NEW p \in OnDisk(r)
               PROVE  r \in 1..Handed /\ r \notin lost
    OBVIOUS
  <2>1. PICK n \in Names : \E i \in DOMAIN files[n] : files[n][i] = r
    BY <1>3
  <2>2. r \in Range(files[n])
    BY <2>1 DEF Range
  <2> QED
    BY <1>1, <2>2 DEF Placed
<1>5. lost \subseteq 1..Handed
  BY <1>1 DEF Placed
<1>6. ASSUME r <= Handed, r \notin lost
      PROVE  \E p : OnDisk(r) = {p}
  <2>1. r \in 1..Handed
    BY <1>2, <1>6
  <2>2. PICK n \in Names : r \in Range(files[n])
    BY <1>1, <1>6, <2>1 DEF Placed
  <2>3. PICK i \in DOMAIN files[n] : files[n][i] = r
    BY <2>2 DEF Range
  <2>4. ASSUME NEW m \in Names, NEW j \in DOMAIN files[m], files[m][j] = r
        PROVE  m = n /\ j = i
    <3>1. r \in Range(files[m])
      BY <2>4 DEF Range
    <3>2. m = n
      BY <1>1, <2>2, <3>1 DEF Placed
    <3>3. IsInjective(files[n])
      BY <1>1 DEF Placed
    <3> QED
      BY <2>3, <2>4, <3>2, <3>3 DEF IsInjective
  <2>5. OnDisk(r) = {<<n, i>>}
    BY <1>3, <2>3, <2>4
  <2> QED
    BY <2>5
<1>7. ASSUME r > Handed
      PROVE  r \notin 1..Handed
  BY <1>2, <1>7
<1> QED
  BY <1>2, <1>4, <1>5, <1>6, <1>7

LEMMA PendingInOrder ==
  ASSUME Shape, Queue, NEW i \in 1..Len(Pending)
  PROVE  Pending[i] = accepted - Len(Pending) + i
<1>1. /\ Len(ch) \in Nat /\ Len(inHand) \in Nat /\ accepted \in Nat /\ Handed \in Nat
      /\ Handed = accepted - Len(ch) - Len(inHand)
  BY Amounts DEF Queue
<1>2. ch \in Seq(Nat) /\ inHand \in Seq(Nat)
  BY DEF Shape, TypeOK
<1>3. Len(Pending) = Len(inHand) + Len(ch)
  BY <1>2, ConcatProperties DEF Pending
<1>4. i \in Nat /\ accepted - Len(Pending) = Handed
  BY <1>1, <1>3
<1>5. CASE i <= Len(inHand)
  <2>1. i \in 1..Len(inHand)
    BY <1>1, <1>3, <1>5
  <2>2. Pending[i] = inHand[i]
    BY <1>2, <2>1, ConcatProperties DEF Pending
  <2> QED
    BY <1>4, <2>1, <2>2 DEF Queue
<1>6. CASE i > Len(inHand)
  <2>1. i - Len(inHand) \in 1..Len(ch)
    BY <1>1, <1>3, <1>6
  <2>2. Pending[i] = ch[i - Len(inHand)]
    BY <1>1, <1>2, <1>3, <1>6, ConcatProperties DEF Pending
  <2>3. ch[i - Len(inHand)] = Handed + Len(inHand) + (i - Len(inHand))
    BY <2>1 DEF Queue
  <2>4. Handed + Len(inHand) + (i - Len(inHand)) = Handed + i
    BY <1>1, <1>4
  <2> QED
    BY <1>4, <2>2, <2>3, <2>4
<1> QED
  BY <1>1, <1>4, <1>5, <1>6

(* A record that Add accepted waits in its turn, or is in one place of one  *)
(* file, or was given up after an error or in a crash, and only one of      *)
(* these; and when Close has returned none waits, but in a start whose init *)
(* failed, where nothing that was accepted ever leaves the channel.         *)
THEOREM RecordsAccounted == Spec => []Accounted
<1>1. IInv => Accounted
  <2> SUFFICES ASSUME IInv
               PROVE  Accounted
    OBVIOUS
  <2>1. Shape /\ Queue /\ Working /\ Locking
    BY DEF IInv
  <2>2. Handed \in Nat /\ accepted \in Nat
    BY <2>1, Amounts DEF Queue
  <2>3. ASSUME NEW r \in 1..accepted
        PROVE  Cardinality(OnDisk(r)) + (IF r \in lost THEN 1 ELSE 0)
                 + (IF r \in Range(Pending) THEN 1 ELSE 0) = 1
    <3>1. r \in Range(Pending) <=> r > Handed
      <4>1. Range(Pending) = (Handed + 1)..accepted
        BY <2>1, PendingRange DEF Pending
      <4> HIDE DEF Handed, Pending
      <4> QED
        BY <2>2, <4>1
    <3>2. Cardinality({}) = 0
      BY FS_EmptySet
    <3>3. CASE r \in lost
      <4>1. OnDisk(r) = {} /\ r <= Handed
        BY <3>3, OnePlace
      <4>2. ~(r > Handed)
        BY <2>2, <4>1
      <4>3. Cardinality(OnDisk(r)) = 0 /\ r \notin Range(Pending)
        BY <3>1, <3>2, <4>1, <4>2
      <4> QED
        BY <3>3, <4>3
    <3>4. CASE r > Handed
      <4>1. Cardinality(OnDisk(r)) = 0 /\ r \notin lost /\ r \in Range(Pending)
        BY <3>1, <3>2, <3>4, OnePlace
      <4> QED
        BY <4>1
    <3>5. CASE r <= Handed /\ r \notin lost
      <4>1. PICK p : OnDisk(r) = {p}
        BY <3>5, OnePlace
      <4>2. Cardinality(OnDisk(r)) = 1
        BY <4>1, FS_Singleton
      <4>3. r \notin Range(Pending)
        BY <2>2, <3>1, <3>5
      <4> QED
        BY <3>5, <4>2, <4>3
    <3> QED
      BY <2>2, <3>3, <3>4, <3>5
  <2>4. \A i \in 1..Len(Pending) : Pending[i] = accepted - Len(Pending) + i
    BY <2>1, PendingInOrder
  <2>5. up /\ pc[Closer] = "done" /\ pc[FileWriter] # "none" => Pending = <<>>
    <3> SUFFICES ASSUME up, pc[Closer] = "done", pc[FileWriter] # "none"
                 PROVE  Pending = <<>>
      OBVIOUS
    <3>1. ch = <<>> /\ inHand = <<>>
      BY <2>1 DEF Locking, Working
    <3> QED
      BY <3>1 DEF Pending
  <2> QED
    BY <2>3, <2>4, <2>5 DEF Accounted
<1> QED
  BY <1>1, Invariance, PTL
=============================================================================
