---------------------------- MODULE LifecycleProof ----------------------------
(* Proofs about Lifecycle and the DebugLogger in it, for every set of      *)
(* indexes, every size of the logger's channel and files, and every number *)
(* of records, dates and failures.                                         *)
EXTENDS Lifecycle, SequenceLemmas

USE DEF startVars, processVars, loggerVars, disk

(* The parts of the invariant that are about the logger. *)
Holding == flusher \in {"open", "rotate", "write"}

(* What was accepted is written, in hand or in the channel, in this order. *)
InHand == IF Holding THEN 1 ELSE 0
Conveyed ==
  /\ Len(writes) + InHand + Len(ch) = accepted
  /\ \A i \in 1..Len(writes) : writes[i].record = i
  /\ Holding => record = Len(writes) + 1
  /\ \A i \in 1..Len(ch) : ch[i] = Len(writes) + InHand + i

(* No record went to a file that comes after the open one. *)
Followed ==
  /\ \A i \in 1..Len(writes) - 1 : NotAfter(writes[i].file, writes[i + 1].file)
  /\ \A i \in 1..Len(writes) : NotAfter(writes[i].file, fd)

(* The files after the open one are as they were at the start, so the one  *)
(* a rotation opens has what was left in it, and any other has been looked *)
(* at before the write.                                                    *)
Cap(f) == Higher(old[f], FileSize - 1)
Sized ==
  /\ \A f \in Files : f.index > index => sizes[f] = old[f]
  /\ FileSize > 0 => /\ \A f \in Files : sizes[f] <= Cap(f) + MaxLine
                     /\ flusher = "write" => sizes[fd] <= Cap(fd)

(* The channel is forgotten after the goroutine, and that ends when nothing *)
(* can come any more.                                                      *)
Finished ==
  /\ flusher = "done" => ch = <<>> /\ chState # "open"
  /\ chState = "nil" => flusher = "done"

LoggerInv == LoggerTypeOK /\ Conveyed /\ Followed /\ Sized /\ Finished

(* Those that are about starting and stopping. *)
Labels == {"fork", "await", "failed", "return", "clocks", "serve", "gone", "cancel",
           "closeConsumer", "closeLog", "closeLogger", "waitLogger", "linger"}
Phases == {"off", "open", "ready", "failed", "watch", "leave", "done"}
Places == {"off", "loop", "files", "log", "done"}

Shape ==
  /\ main \in Labels
  /\ indexes \subseteq AllIndexes
  /\ watchers \in [AllIndexes -> Phases]
  /\ clocks \in [Clocks -> Places]
  /\ isSuccess \in Seq({"ok", "error"})
  /\ isSuccessClosed \in BOOLEAN /\ cancelled \in BOOLEAN /\ signalled \in BOOLEAN
  /\ answered \in Nat
  /\ outcome \in {"running", "returned", "panicked", "died", "exited"}
  /\ faults \in 0..MaxFaults

(* Each goroutine that got past its answer has given one. *)
Answered == {x \in indexes : watchers[x] \in {"watch", "leave", "done"}}
Counted ==
  /\ Len(isSuccess) + answered = Cardinality(Answered)
  /\ \A x \in AllIndexes : watchers[x] # "off" => x \in indexes /\ main # "fork"

(* Whatever stops the program has a reason behind it. *)
Reason == signalled \/ faults > 0 \/ indexes = {}
Caused ==
  /\ cancelled \/ main \in DOMAIN Following => Reason
  /\ \A i \in DOMAIN isSuccess : isSuccess[i] = "error" => Reason
  /\ \A x \in AllIndexes : watchers[x] \in {"failed", "leave", "done"} => Reason

IInv == Shape /\ Counted /\ StartsTogether /\ Caused /\ LoggerInv
-----------------------------------------------------------------------------
(* The logger. *)

LoggerMove == AddSends \/ FlushStep \/ DayChanges \/ ClosesChannel \/ ForgetsChannel
              \/ UNCHANGED loggerVars

(* Whatever the program does, the logger makes one of its own steps or none. *)
LEMMA LoggerMoves == [Next]_vars => LoggerMove
BY DEF Next, vars, MainStep, Fork, Await, CloseIsSuccess, StartClocks, Return, ContextDone, CleanUp,
       Signal, WatcherStep, Opens, Answers, SeesDone, Leaves, OpenFails, WatchFails, Collect,
       ClockSeesDone, Tick, FilesDone, LogTests, AddRefused, Logs, AddPanics, LoggerStep,
       DateChanges, Dies, FlushFails, Stopped, LoggerMove

File(d, i) == [day : 0..d, index : 0..i]
Entry(n, d, i) == [record : 1..n, file : File(d, i), whole : BOOLEAN]

LEMMA EntriesGrow ==
  ASSUME NEW n \in Nat, NEW d \in Nat, NEW i \in Nat,
         NEW m \in Nat, NEW e \in Nat, NEW j \in Nat, n <= m, d <= e, i <= j
  PROVE  /\ 1..n \subseteq 1..m /\ 0..n \subseteq 0..m
         /\ File(d, i) \subseteq File(e, j) /\ Entry(n, d, i) \subseteq Entry(m, e, j)
<1>1. 1..n \subseteq 1..m /\ 0..n \subseteq 0..m /\ 0..d \subseteq 0..e /\ 0..i \subseteq 0..j
  OBVIOUS
<1>2. File(d, i) \subseteq File(e, j)
  BY <1>1 DEF File
<1> QED
  BY <1>1, <1>2 DEF Entry

LEMMA LoggerTypes ==
  LoggerTypeOK =>
    /\ ch \in Seq(1..accepted) /\ Len(ch) \in Nat /\ Len(ch) <= ChannelSize
    /\ accepted \in Nat /\ record \in 0..accepted
    /\ index \in Nat /\ index \in 0..MaxIndex
    /\ day \in Nat /\ day \in 0..MaxDay /\ fd \in File(day, index)
    /\ writes \in Seq(Entry(accepted, day, index)) /\ Len(writes) \in Nat
    /\ DOMAIN writes = 1..Len(writes)
    /\ FileSize \in Nat /\ ChannelSize \in Nat \ {0} /\ MaxLine \in Nat \ {0}
    /\ MaxDay \in Nat /\ MaxIndex \in Nat
<1> SUFFICES ASSUME LoggerTypeOK
             PROVE  /\ Len(ch) \in Nat /\ Len(writes) \in Nat /\ DOMAIN writes = 1..Len(writes)
                    /\ index \in Nat /\ day \in Nat
  BY DebugLoggerAssumption DEF LoggerTypeOK, File, Entry
<1>1. Len(ch) \in Nat
  <2>1. ch \in Seq(1..accepted)
    BY DEF LoggerTypeOK
  <2> QED
    BY <2>1, LenProperties
<1>2. Len(writes) \in Nat /\ DOMAIN writes = 1..Len(writes)
  <2>1. writes \in Seq(Entry(accepted, day, index))
    BY DEF LoggerTypeOK, Entry, File
  <2> HIDE DEF Entry
  <2> QED
    BY <2>1, LenProperties
<1> QED
  BY <1>1, <1>2, DebugLoggerAssumption DEF LoggerTypeOK

(* A file of which something is written, and the one that is open. *)
LEMMA FileTypes ==
  ASSUME LoggerTypeOK
  PROVE  /\ \A i \in DOMAIN writes :
              /\ writes[i].file \in File(day, index)
              /\ writes[i].file.day \in 0..day /\ writes[i].file.index \in 0..index
         /\ fd.day \in 0..day /\ fd.index \in 0..index /\ fd \in Files
<1>1. writes \in Seq(Entry(accepted, day, index)) /\ DOMAIN writes = 1..Len(writes)
      /\ fd \in File(day, index)
  BY LoggerTypes
<1>2. \A i \in 1..Len(writes) : writes[i] \in Entry(accepted, day, index)
  BY <1>1, ElementOfSeq
<1>3. \A i \in DOMAIN writes : writes[i].file \in File(day, index)
  BY <1>1, <1>2 DEF Entry
<1>4. \A f \in File(day, index) : f.day \in 0..day /\ f.index \in 0..index
  BY DEF File
<1>5. 0..day \subseteq 0..MaxDay /\ 0..index \subseteq 0..MaxIndex
  BY LoggerTypes
<1>6. fd \in Files
  BY <1>1, <1>5 DEF File, Files
<1> QED
  BY <1>1, <1>3, <1>4, <1>6

(* A write: one entry more, and some bytes more in the open file. *)
LEMMA WriteIs ==
  ASSUME LoggerTypeOK, Conveyed, Writes
  PROVE  \E e \in Entry(accepted, day, index), n \in 0..MaxLine :
           /\ writes' = Append(writes, e) /\ e.record = record /\ e.file = fd
           /\ sizes' = [sizes EXCEPT ![fd] = sizes[fd] + n]
           /\ flusher = "write" /\ flusher' = "receive"
           /\ UNCHANGED <<ch, chState, record, fd, index, day, accepted, old>>
<1>1. PICK whole \in BOOLEAN, n \in 0..MaxLine :
        /\ writes' = Append(writes, [record |-> record, file |-> fd, whole |-> whole])
        /\ sizes' = [sizes EXCEPT ![fd] = sizes[fd] + n]
  BY DEF Writes
<1>2. /\ flusher = "write" /\ flusher' = "receive"
      /\ UNCHANGED <<ch, chState, record, fd, index, day, accepted, old>>
  BY DEF Writes
<1> DEFINE e == [record |-> record, file |-> fd, whole |-> whole]
<1>3. e \in Entry(accepted, day, index)
  <2>1. accepted \in Nat /\ record \in 0..accepted /\ fd \in File(day, index) /\ Len(writes) \in Nat
    BY LoggerTypes
  <2>2. record = Len(writes) + 1
    BY <1>2 DEF Conveyed, Holding
  <2>3. record \in 1..accepted
    BY <2>1, <2>2
  <2> QED
    BY <2>1, <2>3 DEF Entry
<1>4. e.record = record /\ e.file = fd
  OBVIOUS
<1> HIDE DEF e
<1>5. writes' = Append(writes, e)
  BY <1>1 DEF e
<1> QED
  BY <1>1, <1>2, <1>3, <1>4, <1>5

LEMMA DiskTypes ==
  ASSUME LoggerTypeOK, Conveyed, LoggerMove
  PROVE  /\ sizes' \in [Files -> Nat] /\ old' \in [Files -> Nat]
         /\ index' \in 0..MaxIndex /\ UNCHANGED old
<1>1. /\ sizes \in [Files -> Nat] /\ old \in [Files -> Nat]
      /\ index \in 0..MaxIndex /\ MaxIndex \in Nat /\ MaxLine \in Nat
  BY LoggerTypes DEF LoggerTypeOK
<1>2. CASE Writes
  <2>1. PICK n \in 0..MaxLine : /\ sizes' = [sizes EXCEPT ![fd] = sizes[fd] + n]
                               /\ UNCHANGED <<index, old>>
    BY <1>2, WriteIs
  <2>2. fd \in Files
    BY FileTypes
  <2>3. sizes[fd] + n \in Nat
    BY <1>1, <2>2
  <2> QED
    BY <1>1, <2>1, <2>3
<1>3. CASE Rotates
  <2>1. index < MaxIndex /\ index' = index + 1 /\ UNCHANGED <<sizes, old>>
    BY <1>3 DEF Rotates
  <2>2. index' \in 0..MaxIndex
    BY <1>1, <2>1
  <2> QED
    BY <1>1, <2>1, <2>2
<1>4. CASE ~Writes /\ ~Rotates
  <2>1. UNCHANGED <<sizes, old, index>>
    BY <1>4 DEF LoggerMove, AddSends, DayChanges, ClosesChannel, ForgetsChannel,
                FlushStep, FlushReceives, FlushEnds, OpensFile, KeepsFile
  <2> QED
    BY <1>1, <2>1
<1> QED
  BY <1>2, <1>3, <1>4

LEMMA LoggerTypesKept ==
  LoggerTypeOK /\ Conveyed /\ LoggerMove => LoggerTypeOK'
<1> SUFFICES ASSUME LoggerTypeOK, Conveyed, LoggerMove
             PROVE  LoggerTypeOK'
  OBVIOUS
<1>1. /\ ch \in Seq(1..accepted) /\ Len(ch) \in Nat /\ Len(ch) <= ChannelSize
      /\ accepted \in Nat /\ record \in 0..accepted
      /\ index \in Nat /\ day \in Nat /\ day \in 0..MaxDay /\ fd \in File(day, index)
      /\ writes \in Seq(Entry(accepted, day, index))
      /\ ChannelSize \in Nat \ {0} /\ MaxDay \in Nat
      /\ chState \in {"open", "closed", "nil"}
      /\ flusher \in {"receive", "open", "rotate", "write", "done"}
  BY LoggerTypes DEF LoggerTypeOK
<1>g. \A m, e, j \in Nat : accepted <= m /\ day <= e /\ index <= j =>
        /\ 1..accepted \subseteq 1..m /\ 0..accepted \subseteq 0..m
        /\ File(day, index) \subseteq File(e, j)
        /\ Entry(accepted, day, index) \subseteq Entry(m, e, j)
  <2>1. accepted \in Nat /\ day \in Nat /\ index \in Nat
    BY <1>1
  <2> QED
    BY <2>1, EntriesGrow
<1>h. accepted <= accepted /\ day <= day /\ index <= index
  BY <1>1
<1>2. ASSUME /\ ch' \in Seq(1..accepted') /\ Len(ch') <= ChannelSize
             /\ chState' \in {"open", "closed", "nil"}
             /\ flusher' \in {"receive", "open", "rotate", "write", "done"}
             /\ accepted' \in Nat /\ record' \in 0..accepted'
             /\ index' \in Nat /\ day' \in 0..MaxDay /\ fd' \in File(day', index')
             /\ writes' \in Seq(Entry(accepted', day', index'))
      PROVE  LoggerTypeOK'
  BY <1>2, DiskTypes DEF LoggerTypeOK, File, Entry
<1>3. CASE AddSends
  <2> DEFINE n == accepted + 1
  <2>1. /\ accepted' = n /\ ch' = Append(ch, n) /\ Len(ch) < ChannelSize
        /\ UNCHANGED <<chState, flusher, record, fd, index, day, writes>>
    BY <1>3 DEF AddSends
  <2>2. n \in Nat /\ n \in 1..n /\ accepted <= n
    BY <1>1
  <2> HIDE DEF n
  <2>3. /\ 1..accepted \subseteq 1..n /\ 0..accepted \subseteq 0..n
        /\ Entry(accepted, day, index) \subseteq Entry(n, day, index)
    BY <1>1, <1>g, <1>h, <2>2
  <2>4. ch \in Seq(1..n) /\ writes \in Seq(Entry(n, day, index))
    BY <1>1, <2>3, SeqMonotonic
  <2>5. ch' \in Seq(1..n) /\ Len(ch') = Len(ch) + 1
    BY <2>1, <2>2, <2>4, AppendProperties
  <2>6. Len(ch') <= ChannelSize
    BY <1>1, <2>1, <2>5
  <2>7. writes' \in Seq(Entry(accepted', day', index')) /\ fd' \in File(day', index')
    BY <1>1, <2>1, <2>4
  <2> HIDE DEF Entry, File
  <2>8. record' \in 0..accepted' /\ accepted' \in Nat /\ ch' \in Seq(1..accepted')
    BY <1>1, <2>1, <2>2, <2>3, <2>5
  <2> QED
    BY <1>1, <1>2, <2>1, <2>6, <2>7, <2>8
<1>4. CASE DayChanges
  <2> DEFINE d == day + 1
  <2>1. /\ day' = d /\ day < MaxDay
        /\ UNCHANGED <<ch, chState, flusher, record, fd, index, accepted, writes>>
    BY <1>4 DEF DayChanges
  <2>2. d \in Nat /\ day <= d /\ d \in 0..MaxDay
    BY <1>1, <2>1
  <2> HIDE DEF d
  <2>3. /\ File(day, index) \subseteq File(d, index)
        /\ Entry(accepted, day, index) \subseteq Entry(accepted, d, index)
    BY <1>1, <1>g, <1>h, <2>2
  <2>4. writes \in Seq(Entry(accepted, d, index))
    BY <1>1, <2>3, SeqMonotonic
  <2>5. writes' \in Seq(Entry(accepted', day', index')) /\ fd' \in File(day', index')
    BY <1>1, <2>1, <2>3, <2>4
  <2> HIDE DEF Entry, File
  <2> QED
    BY <1>1, <1>2, <2>1, <2>2, <2>5
<1>5. CASE FlushReceives
  <2>1. /\ ch # <<>> /\ record' = Head(ch) /\ ch' = Tail(ch) /\ flusher' = "open"
        /\ UNCHANGED <<chState, fd, index, day, accepted, writes>>
    BY <1>5 DEF FlushReceives
  <2>2. /\ Head(ch) \in 1..accepted /\ Tail(ch) \in Seq(1..accepted) /\ Len(Tail(ch)) = Len(ch) - 1
    BY <1>1, <2>1, HeadTailProperties
  <2>3. Len(ch') <= ChannelSize /\ record' \in 0..accepted'
    BY <1>1, <2>1, <2>2
  <2>4. writes' \in Seq(Entry(accepted', day', index')) /\ fd' \in File(day', index')
    BY <1>1, <2>1
  <2> HIDE DEF Entry, File
  <2> QED
    BY <1>1, <1>2, <2>1, <2>2, <2>3, <2>4
<1>6. CASE OpensFile
  <2>1. /\ fd' = FileName(day, index) /\ flusher' = "rotate"
        /\ UNCHANGED <<ch, chState, record, index, day, accepted, writes>>
    BY <1>6 DEF OpensFile
  <2>2. fd' \in File(day', index')
    BY <1>1, <2>1 DEF FileName, File
  <2>3. writes' \in Seq(Entry(accepted', day', index'))
    BY <1>1, <2>1
  <2> HIDE DEF Entry, File
  <2> QED
    BY <1>1, <1>2, <2>1, <2>2, <2>3
<1>7. CASE Rotates
  <2> DEFINE j == index + 1
  <2>1. /\ index' = j /\ fd' = FileName(day, j) /\ flusher' = "write"
        /\ UNCHANGED <<ch, chState, record, day, accepted, writes>>
    BY <1>7 DEF Rotates
  <2>2. j \in Nat /\ index <= j
    BY <1>1
  <2> HIDE DEF j
  <2>3. Entry(accepted, day, index) \subseteq Entry(accepted, day, j)
    BY <1>1, <1>g, <1>h, <2>2
  <2>4. writes \in Seq(Entry(accepted, day, j))
    BY <1>1, <2>3, SeqMonotonic
  <2>5. writes' \in Seq(Entry(accepted', day', index'))
    BY <2>1, <2>4
  <2>6. fd' \in File(day', index')
    BY <1>1, <2>1, <2>2 DEF FileName, File
  <2> HIDE DEF Entry, File
  <2> QED
    BY <1>1, <1>2, <2>1, <2>2, <2>5, <2>6
<1>8. CASE Writes
  <2>1. PICK e \in Entry(accepted, day, index) :
          /\ writes' = Append(writes, e) /\ flusher' = "receive"
          /\ UNCHANGED <<ch, chState, record, fd, index, day, accepted>>
    BY <1>8, WriteIs
  <2>4. Append(writes, e) \in Seq(Entry(accepted, day, index))
    BY <1>1, <2>1, AppendProperties
  <2>5. writes' \in Seq(Entry(accepted', day', index')) /\ fd' \in File(day', index')
    BY <1>1, <2>1, <2>4
  <2> HIDE DEF Entry, File
  <2> QED
    BY <1>1, <1>2, <2>1, <2>5
<1>9. CASE FlushEnds \/ KeepsFile \/ ClosesChannel \/ ForgetsChannel
  <2>1. /\ UNCHANGED <<ch, record, fd, index, day, accepted, writes>>
        /\ chState' \in {chState, "closed", "nil"} /\ flusher' \in {flusher, "done", "write"}
    BY <1>9 DEF FlushEnds, KeepsFile, ClosesChannel, ForgetsChannel
  <2>2. writes' \in Seq(Entry(accepted', day', index')) /\ fd' \in File(day', index')
    BY <1>1, <2>1
  <2> HIDE DEF Entry, File
  <2> QED
    BY <1>1, <1>2, <2>1, <2>2
<1>10. CASE UNCHANGED loggerVars
  BY <1>10 DEF LoggerTypeOK
<1> QED
  BY <1>3, <1>4, <1>5, <1>6, <1>7, <1>8, <1>9, <1>10 DEF LoggerMove, FlushStep

LEMMA ConveyedKept ==
  LoggerTypeOK /\ Conveyed /\ LoggerMove => Conveyed'
<1> SUFFICES ASSUME LoggerTypeOK, Conveyed, LoggerMove
             PROVE  Conveyed'
  OBVIOUS
<1>1. /\ Len(ch) \in Nat /\ accepted \in Nat /\ Len(writes) \in Nat
      /\ Len(writes) + InHand + Len(ch) = accepted
      /\ \A i \in 1..Len(writes) : writes[i].record = i
      /\ Holding => record = Len(writes) + 1
      /\ \A i \in 1..Len(ch) : ch[i] = Len(writes) + InHand + i
      /\ InHand \in {0, 1}
  BY LoggerTypes DEF Conveyed, InHand
<1>2. /\ ch \in Seq(1..accepted) /\ writes \in Seq(Entry(accepted, day, index))
  BY LoggerTypes
<1>3. ASSUME UNCHANGED <<ch, record, accepted, writes>>, Holding' = Holding
      PROVE  Conveyed'
  BY <1>3 DEF Conveyed, InHand
<1>4. CASE AddSends
  <2>1. /\ accepted' = accepted + 1 /\ ch' = Append(ch, accepted + 1)
        /\ UNCHANGED <<flusher, record, writes>>
    BY <1>4 DEF AddSends
  <2>2. /\ Len(ch') = Len(ch) + 1 /\ \A i \in 1..Len(ch) : ch'[i] = ch[i]
        /\ ch'[Len(ch) + 1] = accepted + 1
    <3>1. ch \in Seq(Nat) /\ accepted + 1 \in Nat
      BY <1>1, <1>2, SeqMonotonic
    <3> QED
      BY <2>1, <3>1, AppendProperties
  <2>3. InHand' = InHand /\ Holding' = Holding
    BY <2>1 DEF InHand, Holding
  <2> DEFINE k == Len(ch)
             w == Len(writes)
             h == InHand
  <2>4. \A i \in 1..Len(ch') : ch'[i] = w + h + i
    <3>1. ASSUME NEW i \in 1..Len(ch')
          PROVE  i = k + 1 \/ i \in 1..k
      BY <1>1, <2>2
    <3>2. ch'[k + 1] = w + h + (k + 1)
      BY <1>1, <2>2
    <3> QED
      BY <1>1, <2>2, <3>1, <3>2
  <2>5. w + h + Len(ch') = accepted'
    BY <1>1, <2>1, <2>2
  <2> QED
    BY <1>1, <2>1, <2>3, <2>4, <2>5 DEF Conveyed
<1>5. CASE FlushReceives
  <2>1. /\ ch # <<>> /\ record' = Head(ch) /\ ch' = Tail(ch) /\ flusher = "receive" /\ flusher' = "open"
        /\ UNCHANGED <<accepted, writes>>
    BY <1>5 DEF FlushReceives
  <2>2. InHand = 0 /\ InHand' = 1 /\ Holding'
    BY <2>1 DEF InHand, Holding
  <2>3. /\ Len(ch) \in Nat \ {0} /\ Len(ch') = Len(ch) - 1 /\ record' = ch[1]
        /\ \A i \in 1..Len(ch') : ch'[i] = ch[i + 1]
    BY <1>2, <2>1, EmptySeq, HeadTailProperties, HeadInRange
  <2> DEFINE w == Len(writes)
  <2>4. record' = w + 1
    <3>1. 1 \in 1..Len(ch)
      BY <2>3
    <3>2. ch[1] = w + 0 + 1
      BY <1>1, <2>2, <3>1
    <3> QED
      BY <1>1, <2>3, <3>2
  <2>5. \A i \in 1..Len(ch') : ch'[i] = w + 1 + i
    <3> SUFFICES ASSUME NEW i \in 1..Len(ch')
                 PROVE  ch'[i] = w + 1 + i
      OBVIOUS
    <3>1. i + 1 \in 1..Len(ch) /\ i \in Nat
      BY <2>3
    <3>2. ch[i + 1] = w + 0 + (i + 1)
      BY <1>1, <2>2, <3>1
    <3>3. ch'[i] = ch[i + 1]
      BY <2>3
    <3> QED
      BY <1>1, <3>1, <3>2, <3>3
  <2>6. w + 1 + Len(ch') = accepted
    <3>1. w + 0 + Len(ch) = accepted /\ w \in Nat /\ accepted \in Nat
      BY <1>1, <2>2
    <3>2. Len(ch) \in Nat \ {0} /\ Len(ch') = Len(ch) - 1
      BY <2>3
    <3> HIDE DEF w
    <3> QED
      BY <3>1, <3>2
  <2> QED
    BY <1>1, <2>1, <2>2, <2>4, <2>5, <2>6 DEF Conveyed
<1>6. CASE Writes
  <2> DEFINE w == Len(writes)
  <2>1. PICK e \in Entry(accepted, day, index) :
          /\ writes' = Append(writes, e) /\ e.record = record
          /\ flusher = "write" /\ flusher' = "receive" /\ UNCHANGED <<ch, accepted>>
    BY <1>6, WriteIs
  <2>2. InHand = 1 /\ InHand' = 0 /\ ~Holding' /\ record = w + 1
    BY <1>1, <2>1 DEF InHand, Holding
  <2>3. e.record = w + 1
    BY <2>1, <2>2
  <2>5. /\ Len(writes') = w + 1 /\ \A i \in 1..w : writes'[i] = writes[i]
        /\ writes'[w + 1] = e
    BY <1>2, <2>1, AppendProperties
  <2>6. \A i \in 1..Len(writes') : writes'[i].record = i
    <3>1. ASSUME NEW i \in 1..Len(writes')
          PROVE  i = w + 1 \/ i \in 1..w
      BY <1>1, <2>5
    <3> QED
      BY <1>1, <2>3, <2>5, <3>1
  <2>7. \A i \in 1..Len(ch) : ch[i] = w + 1 + 0 + i
    <3> SUFFICES ASSUME NEW i \in 1..Len(ch)
                 PROVE  ch[i] = w + 1 + 0 + i
      OBVIOUS
    <3>1. ch[i] = w + 1 + i
      BY <1>1, <2>2
    <3> QED
      BY <1>1, <3>1
  <2>8. w + 1 + 0 + Len(ch) = accepted
    BY <1>1, <2>2
  <2> QED
    BY <2>1, <2>2, <2>5, <2>6, <2>7, <2>8 DEF Conveyed
<1>7. CASE OpensFile \/ Rotates \/ KeepsFile \/ DayChanges \/ FlushEnds \/ ClosesChannel
           \/ ForgetsChannel \/ UNCHANGED loggerVars
  <2>1. UNCHANGED <<ch, record, accepted, writes>> /\ Holding' = Holding
    BY <1>7 DEF OpensFile, Rotates, KeepsFile, DayChanges, FlushEnds, ClosesChannel,
                ForgetsChannel, Holding
  <2> QED
    BY <1>3, <2>1
<1> QED
  BY <1>4, <1>5, <1>6, <1>7 DEF LoggerMove, FlushStep

LEMMA FinishedKept == LoggerTypeOK /\ Finished /\ LoggerMove => Finished'
BY DEF LoggerTypeOK, Finished, LoggerMove, AddSends, DayChanges, ClosesChannel, ForgetsChannel,
       FlushStep, FlushReceives, FlushEnds, OpensFile, Rotates, KeepsFile, Writes

(* A write, seen from the list of what is written. *)
LEMMA WriteAdds ==
  ASSUME LoggerTypeOK, Conveyed, Writes
  PROVE  LET w == Len(writes)
         IN  /\ w \in Nat /\ Len(writes') = w + 1
             /\ DOMAIN writes = 1..w /\ DOMAIN writes' = 1..(w + 1)
             /\ \A i \in 1..w : writes'[i] = writes[i]
             /\ writes'[w + 1].file = fd
             /\ flusher = "write" /\ flusher' = "receive" /\ fd' = fd
<1> DEFINE w == Len(writes)
<1>1. writes \in Seq(Entry(accepted, day, index)) /\ w \in Nat
  BY LoggerTypes
<1>2. PICK e \in Entry(accepted, day, index) :
        /\ writes' = Append(writes, e) /\ e.file = fd
        /\ flusher = "write" /\ flusher' = "receive" /\ fd' = fd
  BY WriteIs
<1>4. /\ writes' \in Seq(Entry(accepted, day, index)) /\ Len(writes') = w + 1
      /\ \A i \in 1..w : writes'[i] = writes[i]
      /\ writes'[w + 1] = e
  BY <1>1, <1>2, AppendProperties
<1>5. DOMAIN writes = 1..w /\ DOMAIN writes' = 1..Len(writes')
  BY <1>1, <1>4, LenProperties
<1> QED
  BY <1>1, <1>2, <1>4, <1>5

LEMMA FollowedKept == LoggerTypeOK /\ Conveyed /\ Followed /\ LoggerMove => Followed'
<1> SUFFICES ASSUME LoggerTypeOK, Conveyed, Followed, LoggerMove
             PROVE  Followed'
  OBVIOUS
<1>1. /\ Len(writes) \in Nat /\ DOMAIN writes = 1..Len(writes)
      /\ index \in Nat /\ day \in Nat
  BY LoggerTypes
<1>2. CASE UNCHANGED <<writes, fd>>
  BY <1>2 DEF Followed
<1>3. CASE OpensFile \/ Rotates
  <2>1. /\ UNCHANGED writes
        /\ fd'.day = day /\ (fd'.index = index \/ fd'.index = index + 1)
    BY <1>3 DEF OpensFile, Rotates, FileName
  <2>2. \A i \in 1..Len(writes) : NotAfter(writes[i].file, fd')
    <3> SUFFICES ASSUME NEW i \in 1..Len(writes)
                 PROVE  writes[i].file.day <= fd'.day /\ writes[i].file.index <= fd'.index
      BY DEF NotAfter
    <3>1. writes[i].file.day \in 0..day /\ writes[i].file.index \in 0..index
      BY <1>1, FileTypes
    <3> QED
      BY <1>1, <2>1, <3>1
  <2> QED
    BY <2>1, <2>2 DEF Followed
<1>4. CASE Writes
  <2> DEFINE w == Len(writes)
  <2>1. /\ w \in Nat /\ Len(writes') = w + 1
        /\ \A i \in 1..w : writes'[i] = writes[i]
        /\ writes'[w + 1].file = fd /\ fd' = fd
    BY <1>4, WriteAdds
  <2>2. NotAfter(fd, fd)
    <3>1. fd.day \in 0..day /\ fd.index \in 0..index
      BY FileTypes
    <3> QED
      BY <1>1, <3>1 DEF NotAfter
  <2>3. /\ \A i \in 1..w - 1 : NotAfter(writes[i].file, writes[i + 1].file)
        /\ \A i \in 1..w : NotAfter(writes[i].file, fd)
    BY DEF Followed
  <2> HIDE DEF w
  <2>4. \A i \in 1..Len(writes') : NotAfter(writes'[i].file, fd')
    <3>1. \A i \in 1..(w + 1) : i = w + 1 \/ i \in 1..w
      BY <2>1
    <3> QED
      BY <2>1, <2>2, <2>3, <3>1
  <2>5. \A i \in 1..Len(writes') - 1 : NotAfter(writes'[i].file, writes'[i + 1].file)
    <3> SUFFICES ASSUME NEW i \in 1..w
                 PROVE  NotAfter(writes'[i].file, writes'[i + 1].file)
      BY <2>1
    <3>1. i = w \/ (i \in 1..w - 1 /\ i + 1 \in 1..w)
      BY <2>1
    <3> QED
      BY <2>1, <2>3, <3>1
  <2> QED
    BY <2>4, <2>5 DEF Followed
<1> QED
  BY <1>2, <1>3, <1>4
     DEF LoggerMove, AddSends, DayChanges, ClosesChannel, ForgetsChannel,
         FlushStep, FlushReceives, FlushEnds, KeepsFile

LEMMA CapTypes ==
  ASSUME LoggerTypeOK, NEW f \in Files
  PROVE  /\ sizes[f] \in Nat /\ old[f] \in Nat /\ Cap(f) \in Int
         /\ old[f] <= Cap(f) /\ FileSize - 1 <= Cap(f)
         /\ f.index \in Nat
<1>1. sizes[f] \in Nat /\ old[f] \in Nat /\ FileSize \in Nat
  BY LoggerTypes DEF LoggerTypeOK
<1>2. Cap(f) \in Int /\ old[f] <= Cap(f) /\ FileSize - 1 <= Cap(f)
  BY <1>1 DEF Cap, Higher
<1>3. f.index \in Nat
  BY DEF Files
<1> QED
  BY <1>1, <1>2, <1>3

LEMMA SizedKept == LoggerTypeOK /\ Conveyed /\ Sized /\ LoggerMove => Sized'
<1> SUFFICES ASSUME LoggerTypeOK, Conveyed, Sized, LoggerMove
             PROVE  Sized'
  OBVIOUS
<1>1. /\ FileSize \in Nat /\ MaxLine \in Nat /\ index \in Nat /\ fd \in Files
      /\ fd.index \in 0..index
      /\ sizes \in [Files -> Nat]
  BY LoggerTypes, FileTypes DEF LoggerTypeOK
<1>2. /\ \A f \in Files : f.index > index => sizes[f] = old[f]
      /\ FileSize > 0 => /\ \A f \in Files : sizes[f] <= Cap(f) + MaxLine
                         /\ flusher = "write" => sizes[fd] <= Cap(fd)
  BY DEF Sized
<1>3. \A f \in Files : /\ sizes[f] \in Nat /\ old[f] \in Nat /\ Cap(f) \in Int
                       /\ old[f] <= Cap(f) /\ FileSize - 1 <= Cap(f) /\ f.index \in Nat
  BY CapTypes
<1>4. UNCHANGED old
  BY DiskTypes
<1>5. ASSUME /\ \A f \in Files : f.index > index' => sizes'[f] = old[f]
             /\ FileSize > 0 => /\ \A f \in Files : sizes'[f] <= Cap(f) + MaxLine
                                /\ flusher' = "write" => sizes'[fd'] <= Cap(fd')
      PROVE  Sized'
  BY <1>4, <1>5 DEF Sized, Cap
<1> HIDE DEF Cap
<1>6. CASE Writes
  <2>1. PICK n \in 0..MaxLine : /\ sizes' = [sizes EXCEPT ![fd] = sizes[fd] + n]
                               /\ flusher = "write" /\ flusher' = "receive" /\ index' = index
    BY <1>6, WriteIs
  <2>2. sizes'[fd] = sizes[fd] + n /\ \A f \in Files : f # fd => sizes'[f] = sizes[f]
    BY <1>1, <2>1
  <2>3. \A f \in Files : f.index > index' => sizes'[f] = old[f]
    <3>1. ~(fd.index > index)
      BY <1>1
    <3> QED
      BY <1>2, <2>1, <2>2, <3>1
  <2>4. FileSize > 0 => sizes[fd] + n <= Cap(fd) + MaxLine
    <3>1. sizes[fd] \in Nat /\ Cap(fd) \in Int
      BY <1>1, <1>3
    <3>2. FileSize > 0 => sizes[fd] <= Cap(fd)
      BY <1>2, <2>1
    <3> QED
      BY <1>1, <3>1, <3>2
  <2>5. flusher' # "write"
    BY <2>1
  <2> QED
    BY <1>2, <1>5, <2>2, <2>3, <2>4, <2>5
<1>7. CASE Rotates
  <2>1. UNCHANGED sizes /\ index' = index + 1 /\ fd' = FileName(day, index + 1)
    BY <1>7 DEF Rotates
  <2>2. fd' \in Files /\ fd'.index = index + 1
    <3>1. index + 1 \in 0..MaxIndex /\ day \in 0..MaxDay
      BY <2>1, LoggerTypes, DiskTypes
    <3> QED
      BY <2>1, <3>1 DEF FileName, Files
  <2> DEFINE g == fd'
  <2>3. g \in Files /\ g.index > index
    BY <1>1, <2>2
  <2> HIDE DEF g
  <2>4. sizes[g] <= Cap(g)
    BY <1>2, <1>3, <2>3
  <2>5. \A f \in Files : f.index > index' => f.index > index
    <3>1. \A i \in Nat : i > index + 1 => i > index
      BY <1>1
    <3> QED
      BY <1>3, <2>1, <3>1
  <2> QED
    BY <1>2, <1>5, <2>1, <2>4, <2>5 DEF g
<1>8. CASE KeepsFile
  <2>1. UNCHANGED <<sizes, index, fd>> /\ ~Full
    BY <1>8 DEF KeepsFile
  <2>2. FileSize > 0 => sizes[fd] <= Cap(fd)
    <3>1. /\ sizes[fd] \in Nat /\ Cap(fd) \in Int /\ FileSize - 1 <= Cap(fd)
          /\ FileSize > 0 => ~(sizes[fd] >= FileSize)
      BY <1>1, <1>3, <2>1 DEF Full
    <3> QED
      BY <1>1, <3>1
  <2> QED
    BY <1>2, <1>5, <2>1, <2>2
<1>9. CASE ~Writes /\ ~Rotates /\ ~KeepsFile
  <2>1. /\ UNCHANGED <<sizes, index>>
        /\ flusher' = "write" => flusher = "write" /\ UNCHANGED fd
    BY <1>9 DEF LoggerMove, AddSends, DayChanges, ClosesChannel, ForgetsChannel,
                FlushStep, FlushReceives, FlushEnds, OpensFile
  <2> QED
    BY <1>2, <1>5, <2>1
<1> QED
  BY <1>6, <1>7, <1>8, <1>9

LEMMA LoggerInvKept == LoggerInv /\ [Next]_vars => LoggerInv'
BY LoggerMoves, LoggerTypesKept, ConveyedKept, FollowedKept, SizedKept, FinishedKept DEF LoggerInv
-----------------------------------------------------------------------------
(* Starting and stopping. *)

LEMMA Follows ==
  /\ DOMAIN Following = {"cancel", "closeConsumer", "closeLog", "closeLogger",
                         "waitLogger", "linger"}
  /\ \A l \in DOMAIN Following : Following[l] \in DOMAIN Following \cup {"gone"}
BY DEF Following

(* The goroutine of an index only moves on. *)
WatcherGoes(x, from, to) ==
  watchers[x] \in from /\ \E l \in to : watchers' = [watchers EXCEPT ![x] = l]

LEMMA WatcherShape ==
  ASSUME Shape, NEW x \in AllIndexes, NEW l, watchers' = [watchers EXCEPT ![x] = l]
  PROVE  watchers'[x] = l /\ \A y \in AllIndexes : y # x => watchers'[y] = watchers[y]
BY DEF Shape

LEMMA MainMoves ==
  ASSUME Shape, [Next]_vars
  PROVE  \/ UNCHANGED main
         \/ main = "fork" /\ main' = "await"
         \/ main = "await" /\ main' \in {"await", "failed", "clocks"}
         \/ main = "failed" /\ main' = "return"
         \/ main = "clocks" /\ main' = "serve"
         \/ main = "serve" /\ main' = "cancel" /\ (signalled' \/ cancelled)
         \/ main \in DOMAIN Following /\ main' \in DOMAIN Following \cup {"gone"}
<1>1. CASE CleanUp
  BY <1>1, Follows DEF CleanUp
<1>2. CASE Signal \/ ContextDone
  BY <1>2 DEF Signal, ContextDone, At
<1>3. CASE Fork \/ Await \/ CloseIsSuccess \/ StartClocks \/ Return
  BY <1>3 DEF Fork, Await, CloseIsSuccess, StartClocks, Return, At
<1> QED
  BY <1>1, <1>2, <1>3
     DEF Next, vars, MainStep, WatcherStep, Opens, Answers, SeesDone, Leaves, OpenFails, WatchFails,
         Collect, ClockSeesDone, Tick, FilesDone, LogTests, Logs, LoggerStep, DateChanges, Dies, Stopped

(* What a step does to the goroutines of the indexes and their answers. *)
LEMMA WatcherMoves ==
  ASSUME Shape, [Next]_vars
  PROVE  \/ UNCHANGED <<watchers, isSuccess, answered>>
         \/ Fork
         \/ Await
         \/ /\ UNCHANGED <<isSuccess, answered>>
            /\ \E x \in AllIndexes :
                 \/ WatcherGoes(x, {"open"}, {"ready"})
                 \/ WatcherGoes(x, {"open"}, {"failed"}) /\ faults' = faults + 1
                 \/ WatcherGoes(x, {"watch"}, {"leave"}) /\ (cancelled \/ faults' = faults + 1)
                 \/ WatcherGoes(x, {"leave"}, {"done"})
         \/ /\ UNCHANGED answered
            /\ \E x \in AllIndexes :
                 \/ WatcherGoes(x, {"ready"}, {"watch"}) /\ isSuccess' = Append(isSuccess, "ok")
                 \/ WatcherGoes(x, {"failed"}, {"leave"}) /\ isSuccess' = Append(isSuccess, "error")
<1>1. ASSUME NEW x \in AllIndexes, Answers(x), ~UNCHANGED <<watchers, isSuccess, answered>>
      PROVE  /\ UNCHANGED answered
             /\ \/ WatcherGoes(x, {"ready"}, {"watch"}) /\ isSuccess' = Append(isSuccess, "ok")
                \/ WatcherGoes(x, {"failed"}, {"leave"}) /\ isSuccess' = Append(isSuccess, "error")
  <2>1. /\ watchers[x] \in {"ready", "failed"} /\ UNCHANGED answered
        /\ isSuccess' = Append(isSuccess, IF watchers[x] = "ready" THEN "ok" ELSE "error")
        /\ watchers' = [watchers EXCEPT ![x] = IF watchers[x] = "ready" THEN "watch" ELSE "leave"]
    BY <1>1 DEF Answers, WatcherAt
  <2> QED
    BY <2>1 DEF WatcherGoes
<1>2. ASSUME NEW x \in AllIndexes, Opens(x) \/ SeesDone(x) \/ Leaves(x) \/ OpenFails(x) \/ WatchFails(x)
      PROVE  /\ UNCHANGED <<isSuccess, answered>>
             /\ \/ WatcherGoes(x, {"open"}, {"ready"})
                \/ WatcherGoes(x, {"open"}, {"failed"}) /\ faults' = faults + 1
                \/ WatcherGoes(x, {"watch"}, {"leave"}) /\ (cancelled \/ faults' = faults + 1)
                \/ WatcherGoes(x, {"leave"}, {"done"})
  BY <1>2 DEF Opens, SeesDone, Leaves, OpenFails, WatchFails, WatcherAt, Fails, WatcherGoes
<1> QED
  BY <1>1, <1>2
     DEF Next, vars, MainStep, WatcherStep, CloseIsSuccess, StartClocks, Return, ContextDone, CleanUp,
         Signal, Collect, ClockSeesDone, Tick, FilesDone, LogTests, Logs, LoggerStep, DateChanges,
         Dies, Stopped

LEMMA ShapeKept == Shape /\ [Next]_vars => Shape'
<1> SUFFICES ASSUME Shape, [Next]_vars
             PROVE  Shape'
  OBVIOUS
<1>1. main' \in Labels
  BY MainMoves, Follows DEF Shape, Labels
<1>2. UNCHANGED indexes
  BY DEF Next, vars, MainStep, Fork, Await, CloseIsSuccess, StartClocks, Return, ContextDone, CleanUp,
       Signal, WatcherStep, Opens, Answers, SeesDone, Leaves, OpenFails, WatchFails, Collect,
       ClockSeesDone, Tick, FilesDone, LogTests, Logs, LoggerStep, DateChanges, Dies, Stopped
<1>3. /\ watchers' \in [AllIndexes -> Phases]
      /\ isSuccess' \in Seq({"ok", "error"}) /\ answered' \in Nat
  <2>1. /\ watchers \in [AllIndexes -> Phases]
        /\ isSuccess \in Seq({"ok", "error"}) /\ answered \in Nat
    BY DEF Shape
  <2>2. Phases = {"off", "open", "ready", "failed", "watch", "leave", "done"}
    BY DEF Phases
  <2>3. CASE Fork
    BY <2>1, <2>2, <2>3 DEF Fork
  <2>4. CASE Await
    <3>1. Tail(isSuccess) \in Seq({"ok", "error"})
      BY <2>1, <2>4, HeadTailProperties DEF Await
    <3> QED
      BY <2>1, <2>4, <3>1 DEF Await
  <2>5. /\ Append(isSuccess, "ok") \in Seq({"ok", "error"})
        /\ Append(isSuccess, "error") \in Seq({"ok", "error"})
    BY <2>1, AppendProperties
  <2>6. ASSUME NEW x \in AllIndexes, NEW l \in Phases, watchers' = [watchers EXCEPT ![x] = l]
        PROVE  watchers' \in [AllIndexes -> Phases]
    BY <2>1, <2>6
  <2>7. CASE UNCHANGED <<watchers, isSuccess, answered>>
    BY <2>1, <2>7
  <2>8. ASSUME NEW x \in AllIndexes, NEW from, NEW to \in SUBSET Phases, WatcherGoes(x, from, to)
        PROVE  watchers' \in [AllIndexes -> Phases]
    BY <2>6, <2>8 DEF WatcherGoes
  <2> QED
    BY <2>1, <2>2, <2>3, <2>4, <2>5, <2>7, <2>8, WatcherMoves
<1>4. /\ isSuccessClosed' \in BOOLEAN /\ cancelled' \in BOOLEAN /\ signalled' \in BOOLEAN
      /\ outcome' \in {"running", "returned", "panicked", "died", "exited"}
  <2>1. /\ isSuccessClosed \in BOOLEAN /\ cancelled \in BOOLEAN /\ signalled \in BOOLEAN
        /\ outcome \in {"running", "returned", "panicked", "died", "exited"}
    BY DEF Shape
  <2> QED
    BY <2>1 DEF Next, vars, MainStep, Fork, Await, CloseIsSuccess, StartClocks, Return, ContextDone,
       CleanUp, Signal, WatcherStep, Opens, Answers, SeesDone, Leaves, OpenFails, WatchFails, Collect,
       ClockSeesDone, Tick, FilesDone, LogTests, Logs, LoggerStep, DateChanges, Dies, Stopped,
       Ends, Fails
<1>5. faults' \in 0..MaxFaults
  <2>1. faults \in 0..MaxFaults /\ MaxFaults \in Nat
    BY LifecycleAssumption DEF Shape
  <2>2. faults' = faults \/ (faults < MaxFaults /\ faults' = faults + 1)
    BY DEF Next, vars, MainStep, Fork, Await, CloseIsSuccess, StartClocks, Return, ContextDone,
       CleanUp, Signal, WatcherStep, Opens, Answers, SeesDone, Leaves, OpenFails, WatchFails, Collect,
       ClockSeesDone, Tick, FilesDone, LogTests, Logs, LoggerStep, DateChanges, Dies, Stopped,
       Ends, Fails
  <2> QED
    BY <2>1, <2>2
<1>6. clocks' \in [Clocks -> Places]
  <2>1. clocks \in [Clocks -> Places]
    BY DEF Shape
  <2>2. ASSUME NEW c \in Clocks, NEW l \in Places, ClockGoes(c, l)
        PROVE  clocks' \in [Clocks -> Places]
    BY <2>1, <2>2 DEF ClockGoes
  <2>3. /\ Places = {"off", "loop", "files", "log", "done"} /\ "obsolete" \in Clocks
    BY DEF Places, Clocks
  <2>4. CASE StartClocks
    <3>1. \/ clocks' = [c \in Clocks |-> "loop"]
          \/ clocks' = [clocks EXCEPT !["sync"] = "loop"]
          \/ UNCHANGED clocks
      BY <2>4 DEF StartClocks
    <3> QED
      BY <2>1, <2>3, <3>1
  <2> HIDE DEF ClockGoes
  <2>5. StartClocks \/ UNCHANGED clocks \/ \E c \in Clocks, l \in Places : ClockGoes(c, l)
    BY <2>3 DEF Next, vars, MainStep, Fork, Await, CloseIsSuccess, Return, ContextDone,
       CleanUp, Signal, WatcherStep, Opens, Answers, SeesDone, Leaves, OpenFails, WatchFails, Collect,
       ClockSeesDone, Tick, FilesDone, LogTests, Logs, LoggerStep, DateChanges, Dies, Stopped
  <2> QED
    BY <2>1, <2>2, <2>4, <2>5
<1> QED
  BY <1>1, <1>2, <1>3, <1>4, <1>5, <1>6 DEF Shape

LEMMA IndexesStay == [Next]_vars => UNCHANGED indexes
BY DEF Next, vars, MainStep, Fork, Await, CloseIsSuccess, StartClocks, Return, ContextDone, CleanUp,
       Signal, WatcherStep, Opens, Answers, SeesDone, Leaves, OpenFails, WatchFails, Collect,
       ClockSeesDone, Tick, FilesDone, LogTests, Logs, LoggerStep, DateChanges, Dies, Stopped

LEMMA AnsweredSize ==
  Shape => /\ IsFiniteSet(indexes) /\ Cardinality(indexes) \in Nat
           /\ IsFiniteSet(Answered) /\ Cardinality(Answered) \in Nat
           /\ Cardinality(Answered) <= Cardinality(indexes)
           /\ Cardinality(Answered) = Cardinality(indexes) => Answered = indexes
<1> SUFFICES ASSUME Shape
             PROVE  /\ IsFiniteSet(indexes) /\ Cardinality(indexes) \in Nat
                    /\ IsFiniteSet(Answered) /\ Cardinality(Answered) \in Nat
                    /\ Cardinality(Answered) <= Cardinality(indexes)
                    /\ Cardinality(Answered) = Cardinality(indexes) => Answered = indexes
  OBVIOUS
<1>1. IsFiniteSet(indexes)
  BY LifecycleAssumption, FS_Subset DEF Shape
<1>2. Answered \in SUBSET indexes
  BY DEF Answered
<1>3. /\ IsFiniteSet(Answered) /\ Cardinality(Answered) <= Cardinality(indexes)
      /\ Cardinality(Answered) = Cardinality(indexes) => Answered = indexes
  BY <1>1, <1>2, FS_Subset
<1> QED
  BY <1>1, <1>3, FS_CardinalityType

LEMMA CountedKept == Shape /\ Counted /\ [Next]_vars => Counted'
<1> SUFFICES ASSUME Shape, Counted, [Next]_vars
             PROVE  Counted'
  OBVIOUS
<1>1. /\ isSuccess \in Seq({"ok", "error"}) /\ Len(isSuccess) \in Nat /\ answered \in Nat
      /\ watchers \in [AllIndexes -> Phases] /\ indexes \subseteq AllIndexes
  BY LenProperties DEF Shape
<1>2. UNCHANGED indexes
  BY IndexesStay
<1>3. main' = "fork" => main = "fork"
  BY MainMoves, Follows
<1>4. /\ IsFiniteSet(Answered) /\ Cardinality(Answered) \in Nat
      /\ Len(isSuccess) + answered = Cardinality(Answered)
      /\ \A x \in AllIndexes : watchers[x] # "off" => x \in indexes /\ main # "fork"
  BY AnsweredSize DEF Counted
<1>5. CASE UNCHANGED <<watchers, isSuccess, answered>>
  <2>1. Answered' = Answered
    BY <1>2, <1>5 DEF Answered
  <2> QED
    BY <1>2, <1>3, <1>4, <1>5, <2>1 DEF Counted
<1>6. CASE Fork
  <2>1. /\ main = "fork" /\ main' = "await" /\ UNCHANGED <<isSuccess, answered>>
        /\ \A x \in AllIndexes : watchers'[x] = IF x \in indexes THEN "open" ELSE "off"
    BY <1>6 DEF Fork, At
  <2>2. Answered = {} /\ Answered' = {}
    BY <1>1, <1>2, <1>4, <2>1 DEF Answered
  <2> QED
    BY <1>2, <1>4, <2>1, <2>2 DEF Counted
<1>7. CASE Await
  <2>1. /\ UNCHANGED watchers /\ answered' = answered + 1
        /\ isSuccess # <<>> /\ isSuccess' = Tail(isSuccess)
    BY <1>7 DEF Await
  <2>2. Len(isSuccess') = Len(isSuccess) - 1
    BY <1>1, <2>1, HeadTailProperties
  <2>3. Answered' = Answered
    BY <1>2, <2>1 DEF Answered
  <2>4. Len(isSuccess') + answered' = Cardinality(Answered')
    <3> HIDE DEF Answered
    <3>1. Len(isSuccess') + answered' = Len(isSuccess) + answered
      BY <1>1, <2>1, <2>2
    <3> QED
      BY <1>4, <2>3, <3>1
  <2> QED
    BY <1>2, <1>3, <1>4, <2>1, <2>4 DEF Counted
<1>8. ASSUME NEW x \in AllIndexes, UNCHANGED <<isSuccess, answered>>,
             \/ WatcherGoes(x, {"open"}, {"ready"}) \/ WatcherGoes(x, {"open"}, {"failed"})
             \/ WatcherGoes(x, {"watch"}, {"leave"}) \/ WatcherGoes(x, {"leave"}, {"done"})
      PROVE  Counted'
  <2>1. /\ \A y \in AllIndexes : y # x => watchers'[y] = watchers[y]
        /\ \/ watchers[x] = "open" /\ watchers'[x] \in {"ready", "failed"}
           \/ watchers[x] = "watch" /\ watchers'[x] = "leave"
           \/ watchers[x] = "leave" /\ watchers'[x] = "done"
    BY <1>8, WatcherShape DEF WatcherGoes
  <2>2. Answered' = Answered
    BY <1>1, <1>2, <2>1 DEF Answered
  <2>3. \A y \in AllIndexes : watchers'[y] # "off" => y \in indexes' /\ main' # "fork"
    BY <1>2, <1>3, <1>4, <2>1
  <2> QED
    BY <1>4, <1>8, <2>2, <2>3 DEF Counted
<1>9. ASSUME NEW x \in AllIndexes, NEW a \in {"ok", "error"}, UNCHANGED answered,
             isSuccess' = Append(isSuccess, a),
             WatcherGoes(x, {"ready"}, {"watch"}) \/ WatcherGoes(x, {"failed"}, {"leave"})
      PROVE  Counted'
  <2>1. /\ \A y \in AllIndexes : y # x => watchers'[y] = watchers[y]
        /\ watchers[x] \in {"ready", "failed"} /\ watchers'[x] \in {"watch", "leave"}
    BY <1>9, WatcherShape DEF WatcherGoes
  <2>2. x \in indexes /\ x \notin Answered /\ Answered' = Answered \cup {x}
    BY <1>1, <1>2, <1>4, <2>1 DEF Answered
  <2>3. Len(isSuccess') = Len(isSuccess) + 1
    BY <1>1, <1>9, AppendProperties
  <2>4. Cardinality(Answered') = Cardinality(Answered) + 1
    BY <1>4, <2>2, FS_AddElement
  <2>5. Len(isSuccess') + answered' = Cardinality(Answered')
    <3>1. Len(isSuccess') + answered = Len(isSuccess) + answered + 1
      BY <1>1, <2>3
    <3> QED
      BY <1>4, <1>9, <2>4, <3>1
  <2>6. \A y \in AllIndexes : watchers'[y] # "off" => y \in indexes' /\ main' # "fork"
    BY <1>2, <1>3, <1>4, <2>1
  <2> QED
    BY <2>5, <2>6 DEF Counted
<1> QED
  BY <1>5, <1>6, <1>7, <1>8, <1>9, WatcherMoves

LEMMA StartsKept == Shape /\ Counted /\ StartsTogether /\ [Next]_vars => StartsTogether'
<1> SUFFICES ASSUME Shape, Counted, StartsTogether, [Next]_vars, Up', NEW x \in indexes
             PROVE  watchers'[x] \in {"watch", "leave", "done"}
  BY IndexesStay DEF StartsTogether
<1>1. x \in AllIndexes
  BY DEF Shape
<1>2. CASE Up
  <2>1. watchers[x] \in {"watch", "leave", "done"}
    BY <1>2 DEF StartsTogether
  <2>2. ~Fork /\ (Await => UNCHANGED watchers)
    BY <1>2, Follows DEF Up, Fork, Await, At
  <2>3. ASSUME NEW y \in AllIndexes, NEW from, NEW to, WatcherGoes(y, from, to),
               y = x => to \subseteq {"watch", "leave", "done"}
        PROVE  watchers'[x] \in {"watch", "leave", "done"}
    BY <1>1, <2>1, <2>3, WatcherShape DEF WatcherGoes
  <2>4. ASSUME NEW to, WatcherGoes(x, {"open"}, to)
        PROVE  FALSE
    BY <2>1, <2>4 DEF WatcherGoes
  <2> QED
    BY <2>1, <2>2, <2>3, <2>4, WatcherMoves
<1>3. CASE ~Up
  <2>1. main = "await" /\ main' = "clocks"
    BY <1>3, MainMoves, Follows DEF Up
  <2>2. answered = Cardinality(indexes) /\ UNCHANGED watchers
    <3>1. ~CleanUp
      BY <2>1, Follows DEF CleanUp
    <3>2. CloseIsSuccess => answered = Cardinality(indexes) /\ UNCHANGED watchers
      BY <2>1 DEF CloseIsSuccess, At
    <3>3. CloseIsSuccess
      BY <2>1, <3>1
         DEF Next, vars, MainStep, Fork, Await, StartClocks, Return, ContextDone,
             Signal, WatcherStep, Opens, Answers, SeesDone, Leaves, OpenFails, WatchFails, Collect,
             ClockSeesDone, Tick, FilesDone, LogTests, Logs, LoggerStep, DateChanges, Dies, Stopped, At
    <3> QED
      BY <3>2, <3>3
  <2>3. Len(isSuccess) \in Nat /\ answered \in Nat
    BY LenProperties DEF Shape
  <2>4. Cardinality(Answered) = Cardinality(indexes)
    <3>1. /\ Cardinality(Answered) \in Nat /\ Cardinality(indexes) \in Nat
          /\ Cardinality(Answered) <= Cardinality(indexes)
          /\ Len(isSuccess) + answered = Cardinality(Answered)
      BY AnsweredSize DEF Counted
    <3> QED
      BY <2>2, <2>3, <3>1
  <2>5. Answered = indexes
    BY <2>4, AnsweredSize
  <2> QED
    BY <2>2, <2>5 DEF Answered
<1> QED
  BY <1>2, <1>3

LEMMA ReasonKept == Shape /\ [Next]_vars => (Reason => Reason') /\ (faults' = faults + 1 => Reason')
<1> SUFFICES ASSUME Shape, [Next]_vars
             PROVE  (Reason => Reason') /\ (faults' = faults + 1 => Reason')
  OBVIOUS
<1>1. faults \in Nat
  BY LifecycleAssumption DEF Shape
<1>2. faults' = faults \/ faults' = faults + 1
  BY DEF Next, vars, MainStep, Fork, Await, CloseIsSuccess, StartClocks, Return, ContextDone,
     CleanUp, Signal, WatcherStep, Opens, Answers, SeesDone, Leaves, OpenFails, WatchFails, Collect,
     ClockSeesDone, Tick, FilesDone, LogTests, Logs, LoggerStep, DateChanges, Dies, Stopped,
     Ends, Fails
<1>3. signalled => signalled'
  BY DEF Next, vars, MainStep, Fork, Await, CloseIsSuccess, StartClocks, Return, ContextDone,
     CleanUp, Signal, WatcherStep, Opens, Answers, SeesDone, Leaves, OpenFails, WatchFails, Collect,
     ClockSeesDone, Tick, FilesDone, LogTests, Logs, LoggerStep, DateChanges, Dies, Stopped,
     Ends, Fails
<1> QED
  BY <1>1, <1>2, <1>3, IndexesStay DEF Reason

(* Who cancels: the first error, a goroutine that fails or leaves, the one  *)
(* that waits for all of them, and the exit.                               *)
LEMMA WhoCancels ==
  ASSUME Shape, [Next]_vars
  PROVE  \/ cancelled' = cancelled
         \/ Await /\ Head(isSuccess) = "error"
         \/ faults' = faults + 1
         \/ \E x \in AllIndexes : watchers[x] = "leave"
         \/ Collect
         \/ main = "cancel"
<1>1. cancelled \in BOOLEAN
  BY DEF Shape
<1>2. CASE Await
  BY <1>1, <1>2 DEF Await
<1>3. CASE CleanUp
  BY <1>1, <1>3 DEF CleanUp
<1> QED
  BY <1>2, <1>3
     DEF Next, vars, MainStep, Fork, CloseIsSuccess, StartClocks, Return, ContextDone, Signal,
         WatcherStep, Opens, Answers, SeesDone, Leaves, OpenFails, WatchFails, ClockSeesDone, Tick,
         FilesDone, LogTests, Logs, LoggerStep, DateChanges, Dies, Stopped, Fails, WatcherAt

LEMMA CausedKept == Shape /\ Counted /\ Caused /\ [Next]_vars => Caused'
<1> SUFFICES ASSUME Shape, Counted, Caused, [Next]_vars
             PROVE  Caused'
  OBVIOUS
<1>1. /\ Reason => Reason'
      /\ faults' = faults + 1 => Reason'
  BY ReasonKept
<1>2. /\ isSuccess \in Seq({"ok", "error"}) /\ watchers \in [AllIndexes -> Phases]
      /\ indexes \subseteq AllIndexes
  BY DEF Shape
<1>3. /\ cancelled \/ main \in DOMAIN Following => Reason
      /\ \A i \in DOMAIN isSuccess : isSuccess[i] = "error" => Reason
      /\ \A x \in AllIndexes : watchers[x] \in {"failed", "leave", "done"} => Reason
  BY DEF Caused
<1> HIDE DEF Reason
<1>4. cancelled' => Reason'
  <2>1. CASE Await /\ Head(isSuccess) = "error"
    <3>1. Head(isSuccess) = isSuccess[1] /\ 1 \in DOMAIN isSuccess
      BY <1>2, <2>1, HeadInRange DEF Await
    <3> QED
      BY <1>1, <1>3, <2>1, <3>1
  <2>2. CASE Collect
    <3>1. main # "fork" /\ \A x \in indexes : watchers[x] = "done"
      BY <2>2 DEF Collect, NobodyWatches
    <3>2. indexes = {} => Reason
      BY DEF Reason
    <3> QED
      BY <1>1, <1>2, <1>3, <3>1, <3>2
  <2>3. main = "cancel" => Reason
    BY <1>3, Follows
  <2> QED
    BY <1>1, <1>3, <2>1, <2>2, <2>3, WhoCancels
<1>5. main' \in DOMAIN Following => Reason'
  <2>1. signalled' => Reason'
    BY DEF Reason
  <2> QED
    BY <1>1, <1>3, <2>1, MainMoves, Follows
<1>6. \A x \in AllIndexes : watchers'[x] \in {"failed", "leave", "done"} => Reason'
  <2> SUFFICES ASSUME NEW x \in AllIndexes, watchers'[x] \in {"failed", "leave", "done"}
               PROVE  Reason'
    OBVIOUS
  <2>1. CASE watchers[x] \in {"failed", "leave", "done"}
    BY <1>1, <1>3, <2>1
  <2>2. CASE watchers[x] \notin {"failed", "leave", "done"}
    <3>1. ~Fork /\ ~UNCHANGED watchers
      BY <2>2 DEF Fork
    <3>2. ASSUME NEW y \in AllIndexes, NEW from, NEW to, WatcherGoes(y, from, to)
          PROVE  /\ watchers[x] \in from /\ watchers'[x] \in to /\ y = x
      BY <2>2, <3>2, WatcherShape DEF WatcherGoes
    <3> QED
      BY <1>1, <1>3, <2>2, <3>1, <3>2, WatcherMoves DEF Await
  <2> QED
    BY <2>1, <2>2
<1>7. \A i \in DOMAIN isSuccess' : isSuccess'[i] = "error" => Reason'
  <2> SUFFICES ASSUME NEW i \in DOMAIN isSuccess', isSuccess'[i] = "error"
               PROVE  Reason'
    OBVIOUS
  <2>1. CASE UNCHANGED isSuccess
    BY <1>1, <1>3, <2>1
  <2>2. CASE Await
    <3>1. isSuccess # <<>> /\ isSuccess' = Tail(isSuccess)
      BY <2>2 DEF Await
    <3>2. isSuccess'[i] \in Range(isSuccess)
      <4>1. Range(isSuccess) = {Head(isSuccess)} \cup Range(isSuccess')
        BY <1>2, <3>1, TailRange
      <4> QED
        BY <4>1 DEF Range
    <3> QED
      BY <1>1, <1>3, <3>2 DEF Range
  <2>3. ASSUME NEW a \in {"ok", "error"}, isSuccess' = Append(isSuccess, a), a = "error" => Reason
        PROVE  Reason'
    <3>1. Range(isSuccess') = Range(isSuccess) \cup {a}
      BY <1>2, <2>3, AppendRange
    <3>2. isSuccess'[i] \in Range(isSuccess')
      BY DEF Range
    <3>3. a = "error" \/ \E j \in DOMAIN isSuccess : isSuccess[j] = "error"
      BY <3>1, <3>2 DEF Range
    <3> QED
      BY <1>1, <1>3, <2>3, <3>3
  <2>4. \A x \in AllIndexes : WatcherGoes(x, {"failed"}, {"leave"}) => Reason
    BY <1>3 DEF WatcherGoes
  <2> QED
    BY <2>1, <2>2, <2>3, <2>4, WatcherMoves DEF Fork
<1> QED
  BY <1>4, <1>5, <1>6, <1>7 DEF Caused
-----------------------------------------------------------------------------
(* The invariant. *)

LEMMA LoggerInvInit == LoggerInit => LoggerInv
<1> SUFFICES ASSUME LoggerInit
             PROVE  LoggerInv
  OBVIOUS
<1>1. /\ <<>> \in Seq(1..accepted) /\ <<>> \in Seq(Entry(accepted, day, index))
      /\ Len(<<>>) = 0 /\ DOMAIN <<>> = {}
  BY EmptySeq
<1>2. /\ ChannelSize \in Nat \ {0} /\ FileSize \in Nat /\ MaxDay \in Nat /\ MaxIndex \in Nat
      /\ MaxLine \in Nat /\ Leftovers \subseteq [Files -> Nat]
  BY DebugLoggerAssumption
<1>3. LoggerTypeOK
  <2>1. fd \in File(day, index)
    BY DEF LoggerInit, FileName, File
  <2>2. Len(ch) <= ChannelSize
    BY <1>1, <1>2 DEF LoggerInit
  <2>3. sizes \in [Files -> Nat] /\ old \in [Files -> Nat]
    BY <1>2 DEF LoggerInit
  <2>4. 0 \in 0..MaxDay /\ 0 \in 0..MaxIndex
    BY <1>2
  <2> QED
    BY <1>1, <1>2, <2>1, <2>2, <2>3, <2>4 DEF LoggerInit, LoggerTypeOK, Entry, File
<1>4. Conveyed
  BY <1>1 DEF LoggerInit, Conveyed, Holding, InHand
<1>5. Followed
  BY <1>1 DEF LoggerInit, Followed
<1>6. Sized
  <2>1. \A f \in Files : /\ sizes[f] = old[f] /\ old[f] \in Nat
                         /\ old[f] <= Cap(f) /\ Cap(f) \in Int
    BY <1>3, CapTypes DEF LoggerInit
  <2> HIDE DEF Cap
  <2>2. \A f \in Files : sizes[f] <= Cap(f) + MaxLine
    BY <1>2, <2>1
  <2>3. flusher # "write"
    BY DEF LoggerInit
  <2> QED
    BY <2>1, <2>2, <2>3 DEF Sized
<1>7. Finished
  BY DEF LoggerInit, Finished
<1> QED
  BY <1>3, <1>4, <1>5, <1>6, <1>7 DEF LoggerInv

LEMMA IInvInit == Init => IInv
<1> SUFFICES ASSUME Init
             PROVE  IInv
  OBVIOUS
<1>1. /\ <<>> \in Seq({"ok", "error"}) /\ Len(<<>>) = 0 /\ DOMAIN <<>> = {}
  BY EmptySeq
<1>2. Shape
  <2>1. faults \in 0..MaxFaults
    BY LifecycleAssumption DEF Init
  <2>2. watchers \in [AllIndexes -> Phases] /\ clocks \in [Clocks -> Places]
    BY DEF Init, Phases, Places
  <2> QED
    BY <1>1, <2>1, <2>2 DEF Init, Shape, Labels
<1>3. Counted
  <2>1. \A x \in AllIndexes : watchers[x] = "off"
    BY DEF Init
  <2>2. Answered = {}
    BY <1>2, <2>1 DEF Answered, Shape
  <2> QED
    BY <1>1, <2>1, <2>2, FS_EmptySet DEF Init, Counted
<1>4. StartsTogether
  BY Follows DEF Init, StartsTogether, Up
<1>5. Caused
  BY <1>1, Follows DEF Init, Caused
<1>6. LoggerInv
  BY LoggerInvInit DEF Init
<1> QED
  BY <1>2, <1>3, <1>4, <1>5, <1>6 DEF IInv

LEMMA IInvKept == IInv /\ [Next]_vars => IInv'
BY ShapeKept, CountedKept, StartsKept, CausedKept, LoggerInvKept DEF IInv

(* The inductive invariant holds in every state the program reaches. *)
THEOREM Invariance == Spec => []IInv
<1>1. Init => IInv
  BY IInvInit
<1>2. IInv /\ [Next]_vars => IInv'
  BY IInvKept
<1> QED
  BY <1>1, <1>2, PTL DEF Spec

(* Every variable has its type; the goroutines of the indexes never give   *)
(* more answers than InitWatcher's channel has room for.                   *)
THEOREM TypeCorrect == Spec => []TypeOK
<1>1. IInv => TypeOK
  <2> SUFFICES ASSUME IInv
               PROVE  TypeOK
    OBVIOUS
  <2>1. Shape /\ Counted /\ LoggerTypeOK
    BY DEF IInv, LoggerInv
  <2>2. Len(isSuccess) + answered <= Cardinality(indexes) /\ answered \in 0..Cardinality(indexes)
    <3>1. Len(isSuccess) \in Nat /\ answered \in Nat
      BY <2>1, LenProperties DEF Shape
    <3>2. /\ Cardinality(Answered) \in Nat /\ Cardinality(indexes) \in Nat
          /\ Cardinality(Answered) <= Cardinality(indexes)
          /\ Len(isSuccess) + answered = Cardinality(Answered)
      BY <2>1, AnsweredSize DEF Counted
    <3> QED
      BY <3>1, <3>2
  <2>3. main \in {"fork", "await", "failed", "return", "clocks", "serve", "gone"} \cup DOMAIN Following
    BY <2>1, Follows DEF Shape, Labels
  <2> QED
    BY <2>1, <2>2, <2>3 DEF TypeOK, Shape, Phases, Places
<1> QED
  BY <1>1, Invariance, PTL

(* Once InitWatcher lets the program come up, the goroutine of every index  *)
(* has given its answer and watches, or has watched; so none is left that   *)
(* could send on the closed channel.                                        *)
THEOREM AllStartTogether == Spec => []StartsTogether
<1>1. IInv => StartsTogether
  BY DEF IInv
<1> QED
  BY <1>1, Invariance, PTL

(* The context is cancelled, and the exit begins, only after a signal, a    *)
(* failure, or with nothing to watch: no goroutine stops the others alone.  *)
THEOREM NoStopWithoutReason == Spec => []StopsForAReason
<1>1. IInv => StopsForAReason
  BY DEF IInv, Caused, Reason, StopsForAReason
<1> QED
  BY <1>1, Invariance, PTL

(* The elements of what is written, in hand and in the channel. *)
LEMMA WholeLog ==
  ASSUME LoggerTypeOK, Conveyed
  PROVE  [i \in DOMAIN writes |-> writes[i].record] \o Held \o ch = [i \in 1..accepted |-> i]
<1> DEFINE a == [i \in DOMAIN writes |-> writes[i].record]
           b == [i \in 1..accepted |-> i]
           w == Len(writes)
<1>1. /\ Len(ch) \in Nat /\ accepted \in Nat /\ w \in Nat /\ InHand \in {0, 1}
      /\ w + InHand + Len(ch) = accepted /\ record \in Nat
      /\ DOMAIN writes = 1..w
      /\ \A i \in 1..w : writes[i].record = i
      /\ Holding => record = w + 1
      /\ \A i \in 1..Len(ch) : ch[i] = w + InHand + i
  BY LoggerTypes DEF Conveyed, InHand
<1>2. ch \in Seq(Nat)
  <2>1. ch \in Seq(1..accepted)
    BY LoggerTypes
  <2>2. 1..accepted \subseteq Nat
    BY <1>1
  <2> QED
    BY <2>1, <2>2, SeqMonotonic
<1>3. a = [i \in 1..w |-> i]
  BY <1>1
<1> HIDE DEF a, w
<1>4. a \in Seq(Nat) /\ Len(a) = w /\ \A i \in 1..w : a[i] = i
  BY <1>1, <1>3
<1>5. b \in Seq(Nat) /\ Len(b) = accepted /\ \A i \in 1..accepted : b[i] = i
  BY <1>1
<1> HIDE DEF b
<1>6. /\ Held \in Seq(Nat) /\ Len(Held) = InHand
      /\ \A i \in 1..InHand : Held[i] = w + i
  <2>1. CASE Holding
    <3>1. Held = <<record>> /\ InHand = 1
      BY <2>1 DEF Held, InHand, Holding
    <3>2. <<record>> \in Seq(Nat) /\ Len(<<record>>) = 1 /\ <<record>>[1] = w + 1
      BY <1>1, <2>1
    <3>3. \A i \in 1..1 : i = 1
      OBVIOUS
    <3> QED
      BY <3>1, <3>2, <3>3
  <2>2. CASE ~Holding
    <3>1. Held = <<>> /\ InHand = 0
      BY <2>2 DEF Held, InHand, Holding
    <3> QED
      BY <3>1, EmptySeq
  <2> QED
    BY <2>1, <2>2
<1> DEFINE c == a \o Held
           d == c \o ch
           h == InHand
           k == Len(ch)
<1>7. /\ c \in Seq(Nat) /\ Len(c) = w + h
      /\ \A i \in 1..(w + h) : c[i] = IF i <= w THEN a[i] ELSE Held[i - w]
  BY <1>4, <1>6, ConcatProperties
<1> HIDE DEF c
<1>8. /\ d \in Seq(Nat) /\ Len(d) = w + h + k
      /\ \A i \in 1..(w + h + k) : d[i] = IF i <= w + h THEN c[i] ELSE ch[i - (w + h)]
  <2>1. /\ d \in Seq(Nat) /\ Len(d) = Len(c) + k
        /\ \A i \in 1..(Len(c) + k) : d[i] = IF i <= Len(c) THEN c[i] ELSE ch[i - Len(c)]
    <3>1. c \in Seq(Nat)
      BY <1>7
    <3> QED
      BY <1>2, <3>1, ConcatProperties
  <2>2. Len(c) = w + h
    BY <1>7
  <2> HIDE DEF d
  <2> QED
    BY <2>1, <2>2
<1> HIDE DEF d
<1>9. \A i \in 1..(w + h) : c[i] = i
  <2> SUFFICES ASSUME NEW i \in 1..(w + h)
               PROVE  c[i] = i
    OBVIOUS
  <2>1. CASE i <= w
    <3>1. i \in 1..w
      BY <1>1, <2>1
    <3> QED
      BY <1>4, <1>7, <2>1, <3>1
  <2>2. CASE ~(i <= w)
    <3>1. i - w \in 1..h /\ w + (i - w) = i
      BY <1>1, <2>2
    <3>2. c[i] = Held[i - w] /\ Held[i - w] = w + (i - w)
      BY <1>6, <1>7, <2>2, <3>1
    <3> QED
      BY <3>1, <3>2
  <2> QED
    BY <2>1, <2>2
<1>10. \A i \in 1..Len(d) : d[i] = b[i]
  <2> SUFFICES ASSUME NEW i \in 1..(w + h + k)
               PROVE  d[i] = i
    BY <1>1, <1>5, <1>8
  <2>1. CASE i <= w + h
    <3>1. i \in 1..(w + h)
      BY <1>1, <2>1
    <3> QED
      BY <1>8, <1>9, <2>1, <3>1
  <2>2. CASE ~(i <= w + h)
    <3>1. i - (w + h) \in 1..k /\ w + h + (i - (w + h)) = i
      <4>1. w \in Nat /\ h \in Nat /\ k \in Nat
        BY <1>1
      <4> HIDE DEF h, k
      <4> QED
        BY <2>2, <4>1
    <3>2. d[i] = ch[i - (w + h)] /\ ch[i - (w + h)] = w + h + (i - (w + h))
      BY <1>1, <1>8, <2>2, <3>1
    <3> QED
      BY <3>1, <3>2
  <2> QED
    BY <2>1, <2>2
<1>11. Len(d) = Len(b)
  BY <1>1, <1>5, <1>8
<1>12. d = b
  BY <1>5, <1>8, <1>10, <1>11, SeqEqual
<1> QED
  BY <1>12 DEF a, b, c, d

(* What GlobalLogger accepted is written, in hand or in the channel, in    *)
(* order and once, so that only a write that fails can lose a record; the  *)
(* files follow date and index; a line may exceed the limit of its file,   *)
(* or what that had at the start, by its end; and Close returns only when  *)
(* nothing is left to write.                                               *)
THEOREM LogInOrder == Spec => []LoggedInOrder
<1>1. IInv => LoggedInOrder
  <2> SUFFICES ASSUME IInv
               PROVE  LoggedInOrder
    OBVIOUS
  <2>1. LoggerTypeOK /\ Conveyed /\ Followed /\ Sized /\ Finished
    BY DEF IInv, LoggerInv
  <2>2. [i \in DOMAIN writes |-> writes[i].record] \o Held \o ch = [i \in 1..accepted |-> i]
    BY <2>1, WholeLog
  <2>3. chState = "nil" => Len(writes) = accepted
    <3> SUFFICES ASSUME chState = "nil"
                 PROVE  Len(writes) = accepted
      OBVIOUS
    <3>1. flusher = "done" /\ Len(ch) = 0 /\ Len(writes) \in Nat
      BY <2>1, LoggerTypes DEF Finished
    <3>2. InHand = 0
      BY <3>1 DEF InHand, Holding
    <3> QED
      BY <2>1, <3>1, <3>2 DEF Conveyed
  <2>4. \A i \in 1..Len(writes) - 1 : NotAfter(writes[i].file, writes[i + 1].file)
    BY <2>1 DEF Followed
  <2>5. FileSize > 0 => \A f \in Files : sizes[f] <= Higher(old[f], FileSize - 1) + MaxLine
    BY <2>1 DEF Sized, Cap
  <2> QED
    BY <2>2, <2>3, <2>4, <2>5 DEF LoggedInOrder
<1> QED
  BY <1>1, Invariance, PTL
=============================================================================
