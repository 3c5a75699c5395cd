--------------------------- MODULE FileWatchProof ---------------------------
(* Proofs about FileWatch, for every set of files and readers, every limit *)
(* and every way the logs are written.                                     *)
EXTENDS FileWatch, SequenceLemmas

USE DEF memory, history
-----------------------------------------------------------------------------
(* How far a read gets.  AfterTokens chooses the end of the n-th line by   *)
(* its rank; that there is one follows from counting, without induction.   *)

LEMMA RankExists ==
  ASSUME NEW S \in SUBSET Int, IsFiniteSet(S), NEW n \in 1..Cardinality(S)
  PROVE  \E e \in S : Cardinality({x \in S : x <= e}) = n
<1> DEFINE below(e) == {x \in S : x <= e}
           rank == [e \in S |-> Cardinality(below(e))]
           max == Cardinality(S)
           ranks == {rank[e] : e \in S}
<1>1. ASSUME NEW e \in S
      PROVE  /\ IsFiniteSet(below(e))
             /\ Cardinality(below(e)) \in 1..max
  <2>1. below(e) \in SUBSET S /\ e \in below(e)
    OBVIOUS
  <2>2. IsFiniteSet(below(e)) /\ Cardinality(below(e)) <= max
    BY <2>1, FS_Subset
  <2>3. Cardinality(below(e)) \in Nat /\ Cardinality(below(e)) # 0
    BY <2>1, <2>2, FS_CardinalityType, FS_EmptySet
  <2>4. max \in Nat
    BY FS_CardinalityType
  <2> QED
    BY <2>2, <2>3, <2>4
<1>2. ASSUME NEW d \in S, NEW e \in S, d < e
      PROVE  Cardinality(below(d)) # Cardinality(below(e))
  <2>1. below(d) \in SUBSET below(e) /\ e \in below(e) /\ e \notin below(d)
    <3>1. d \in Int /\ e \in Int
      OBVIOUS
    <3>2. \A x \in S : x <= d => x <= e
      BY <1>2, <3>1
    <3>3. ~(e <= d) /\ e <= e
      BY <1>2, <3>1
    <3> QED
      BY <3>2, <3>3
  <2>2. below(d) # below(e)
    BY <2>1
  <2> QED
    BY <1>1, <2>1, <2>2, FS_Subset
<1>3. rank \in Injection(S, ranks) /\ rank \in Surjection(S, ranks)
  <2>1. rank \in [S -> ranks]
    OBVIOUS
  <2>2. ASSUME NEW d \in S, NEW e \in S, rank[d] = rank[e]
        PROVE  d = e
    <3>1. d < e \/ e < d \/ d = e
      OBVIOUS
    <3> QED
      BY <1>2, <2>2, <3>1
  <2>3. IsInjective(rank)
    BY <2>2 DEF IsInjective
  <2> QED
    BY <2>1, <2>3 DEF Injection, Surjection
<1>4. IsFiniteSet(ranks) /\ Cardinality(ranks) = max
  BY <1>3, FS_Surjection
<1>5. max \in Nat /\ IsFiniteSet(1..max) /\ Cardinality(1..max) = max
  BY FS_CardinalityType, FS_Interval
<1>6. ranks \in SUBSET (1..max)
  BY <1>1
<1>7. ranks = 1..max
  BY <1>4, <1>5, <1>6, FS_Subset
<1>8. PICK e \in S : rank[e] = n
  BY <1>7
<1> QED
  BY <1>8

(* What a scan that starts at o may arrive at: nowhere, an end of a line,  *)
(* or, at the last token, one past the end of a file that ends in a line   *)
(* half written.                                                           *)
LEMMA AfterTokensFacts ==
  ASSUME NEW f, f.size \in Nat, f.ends \in SUBSET (1..f.size), NEW o \in Nat,
         NEW n \in Int, n <= Cardinality(TokenEnds(f, o))
  PROVE  LET e == AfterTokens(f, o, n)
         IN  /\ e = o \/ (e \in TokenEnds(f, o) /\ e > o)
             /\ n < Cardinality(TokenEnds(f, o)) => e = o \/ e \in f.ends
<1> DEFINE T == TokenEnds(f, o)
           e == AfterTokens(f, o, n)
<1>1. CASE n <= 0
  BY <1>1 DEF AfterTokens
<1>2. CASE n > 0
  <2>1. T \in SUBSET (1..(f.size + 1)) /\ T \in SUBSET Int /\ \A x \in T : x > o
    BY DEF TokenEnds
  <2>2. IsFiniteSet(T)
    <3>1. f.size + 1 \in Int
      OBVIOUS
    <3>2. IsFiniteSet(1..(f.size + 1))
      BY <3>1, FS_Interval
    <3> QED
      BY <2>1, <3>2, FS_Subset
  <2>3. n \in 1..Cardinality(T)
    BY <1>2, <2>2, FS_CardinalityType
  <2>4. \E x \in T : Cardinality({y \in T : y <= x}) = n
    BY <2>1, <2>2, <2>3, RankExists
  <2>5. e \in T /\ Cardinality({y \in T : y <= e}) = n
    <3>1. e = CHOOSE x \in TokenEnds(f, o) :
                Cardinality({y \in TokenEnds(f, o) : y <= x}) = n
      <4>1. ~(n <= 0)
        BY <1>2
      <4> QED
        BY <4>1, Zenon DEF AfterTokens
    <3> QED
      BY <2>4, <3>1, Zenon
  <2>6. ASSUME e \notin f.ends
        PROVE  n = Cardinality(T)
    <3>1. e = f.size + 1
      BY <2>5, <2>6 DEF TokenEnds
    <3>2. {y \in T : y <= e} = T
      BY <2>1, <3>1
    <3> QED
      BY <2>5, <3>2
  <2> QED
    BY <2>1, <2>5, <2>6, FS_CardinalityType, <2>2
<1> QED
  BY <1>1, <1>2

(* The two kinds of readers.  One that was started for an event never goes *)
(* past the last whole line, the other does unless the file ends in one.   *)
LEMMA OffsetFacts ==
  ASSUME NEW f, f.size \in Nat, f.ends \in SUBSET (1..f.size), NEW o \in Nat
  PROVE  /\ EventOffset(f, o) = o \/ (EventOffset(f, o) \in f.ends /\ EventOffset(f, o) > o)
         /\ \/ ObsoleteOffset(f, o) = o
            \/ ObsoleteOffset(f, o) \in f.ends \cup {f.size + 1} /\ ObsoleteOffset(f, o) > o
         /\ ObsoleteMaxReadCount <= 0 \/ f.size \in f.ends \cup {0} =>
              ObsoleteOffset(f, o) \in f.ends \cup {o}
<1> DEFINE T == TokenEnds(f, o)
           n == Cardinality(T)
<1>1. T \in SUBSET (1..(f.size + 1)) /\ T \in SUBSET (f.ends \cup {f.size + 1})
  BY DEF TokenEnds
<1>2. n \in Nat
  <2>1. f.size + 1 \in Int
    OBVIOUS
  <2>2. IsFiniteSet(1..(f.size + 1))
    BY <2>1, FS_Interval
  <2> QED
    BY <1>1, <2>2, FS_Subset, FS_CardinalityType
<1>3. \A m \in Int : TokensRead(f, o, m) \in Int /\ TokensRead(f, o, m) <= n
                     /\ (m <= 0 => TokensRead(f, o, m) <= 0)
  BY <1>2 DEF TokensRead
<1>4. MaxReadCount \in Int /\ ObsoleteMaxReadCount \in Int
  BY FileWatchAssumption DEF MaxReadCount
<1>5. EventOffset(f, o) = o \/ (EventOffset(f, o) \in f.ends /\ EventOffset(f, o) > o)
  <2> DEFINE m == TokensRead(f, o, MaxReadCount) - 1
  <2>1. m \in Int /\ m < n /\ m <= n
    BY <1>2, <1>3, <1>4
  <2> HIDE DEF m
  <2>2. AfterTokens(f, o, m) = o \/ (AfterTokens(f, o, m) \in f.ends /\ AfterTokens(f, o, m) > o)
    BY <2>1, AfterTokensFacts
  <2> QED
    BY <2>2 DEF EventOffset, m
<1> DEFINE k == TokensRead(f, o, ObsoleteMaxReadCount)
<1>6. k \in Int /\ k <= n
  BY <1>3, <1>4
<1>7. ObsoleteOffset(f, o) = AfterTokens(f, o, k)
  BY DEF ObsoleteOffset
<1> HIDE DEF k
<1>8. ObsoleteOffset(f, o) = o \/ (ObsoleteOffset(f, o) \in T /\ ObsoleteOffset(f, o) > o)
  BY <1>6, <1>7, AfterTokensFacts
<1>9. ASSUME ObsoleteMaxReadCount <= 0
      PROVE  ObsoleteOffset(f, o) = o
  <2>1. k <= 0
    BY <1>3, <1>4, <1>9 DEF k
  <2> QED
    BY <1>7, <2>1 DEF AfterTokens
<1>10. ASSUME f.size \in f.ends \cup {0}
       PROVE  T \in SUBSET f.ends
  BY <1>10 DEF TokenEnds
<1> QED
  BY <1>1, <1>5, <1>8, <1>9, <1>10
-----------------------------------------------------------------------------
(* Types.  TypeOK is inductive together with: the lines of a file end      *)
(* inside it, a goroutine that runs has a file, and a process that runs    *)
(* was started.                                                            *)

FileType == [there : BOOLEAN, gen : 0..(MaxGeneration + 1),
             size : 0..MaxSize, ends : SUBSET (0..MaxSize)]
EventType == [op : EventOps, path : Paths]
ReaderType == [pc : ReaderLabels, path : Paths \cup {""},
               kind : {"", "event", "old"}, held : MaybeOffset \cup {Live},
               off : Offsets, new : Offsets, gen : Nat, to : Offsets]
ClockType == [pc : {"idle", "walk", "merge", "save", "write", "pick", "check"},
              keys : SUBSET Paths, walked : SUBSET Paths, todo : SUBSET Paths]
Batches(n) == Seq([gen : Nat, boot : 1..n, from : Offsets, to : Offsets])

FilesSane == /\ files \in [Paths -> FileType]
             /\ \A p \in Paths : files[p].ends \subseteq 1..files[p].size
ReadersSane == /\ readers \in [Readers -> ReaderType]
               /\ \A r \in Readers : readers[r].pc # "idle" => readers[r].path \in Paths
RestSane == /\ disk \in [Paths -> MaybeOffset]
            /\ events \in Seq(EventType)
            /\ phase \in {"down", "boot", "up"}
            /\ states \in [Paths -> MaybeOffset]
            /\ lock \in {"free", "sync", "clock", "main"}
            /\ claims \subseteq Paths
            /\ clock \in ClockType
HistorySane == /\ boots \in 0..MaxBoots
               /\ faults \in 0..MaxFaults
               /\ panicked \in BOOLEAN
               /\ sent \in [Paths -> Batches(boots)]
               /\ phase # "down" => boots # 0

Shape == FilesSane /\ ReadersSane /\ RestSane /\ HistorySane

LEMMA ShapeIsTyped == Shape /\ Quiet => TypeOK
BY DEF Shape, FilesSane, ReadersSane, RestSane, HistorySane, TypeOK, FilesOK, MemoryOK,
       HistoryOK, FileType, EventType, ReaderType, ClockType, Batches

LEMMA Bounds ==
  /\ MaxSize \in Nat /\ MaxGeneration \in Nat /\ MaxBoots \in Nat /\ MaxFaults \in Nat
  /\ 0 \in Offsets /\ NoState \in MaybeOffset /\ Offsets \subseteq MaybeOffset
  /\ Offsets \subseteq Nat /\ NoState \notin Offsets /\ Live \notin MaybeOffset
<1>1. MaxSize \in Nat /\ MaxGeneration \in Nat /\ MaxBoots \in Nat /\ MaxFaults \in Nat
  BY FileWatchAssumption
<1> QED
  BY <1>1 DEF Offsets, MaybeOffset, NoState, Live

LEMMA Blanks ==
  /\ NoReader \in ReaderType /\ NoReader.pc = "idle"
  /\ NoClock \in ClockType
  /\ NoStates \in [Paths -> MaybeOffset]
<1>1. NoReader \in ReaderType /\ NoReader.pc = "idle"
  BY Bounds DEF NoReader, ReaderType, ReaderLabels
<1>2. NoClock \in ClockType
  BY DEF NoClock, ClockType
<1> QED
  BY <1>1, <1>2, Bounds DEF NoStates

LEMMA OneReaderSane ==
  ASSUME ReadersSane, NEW r \in Readers, NEW d \in ReaderType,
         d.pc = "idle" \/ d.path \in Paths, readers' = [readers EXCEPT ![r] = d]
  PROVE  ReadersSane'
BY DEF ReadersSane

LEMMA DetachSane ==
  ASSUME ReadersSane, states \in [Paths -> MaybeOffset], NEW gone, Detach(gone)
  PROVE  ReadersSane'
<1>1. ASSUME NEW r \in Readers
      PROVE  readers'[r] \in ReaderType /\ (readers'[r].pc # "idle" => readers'[r].path \in Paths)
  <2>1. readers[r] \in ReaderType /\ (readers[r].pc # "idle" => readers[r].path \in Paths)
    BY DEF ReadersSane
  <2>2. CASE readers'[r] = readers[r]
    BY <2>1, <2>2
  <2>3. CASE readers'[r] # readers[r]
    <3>1. readers'[r] = [readers[r] EXCEPT !.held = states[readers[r].path]] /\ Unread(readers[r])
      BY <2>3 DEF Detach
    <3>2. readers[r].path \in Paths
      BY <2>1, <3>1 DEF Unread
    <3>3. states[readers[r].path] \in MaybeOffset
      BY <3>2
    <3> QED
      BY <2>1, <3>1, <3>2, <3>3 DEF ReaderType
  <2> QED
    BY <2>2, <2>3
<1>2. readers' \in [Readers -> ReaderType]
  <2>1. readers' = [r \in Readers |-> readers'[r]]
    BY DEF Detach
  <2> QED
    BY <1>1, <2>1
<1> QED
  BY <1>1, <1>2 DEF ReadersSane

LEMMA DieSane ==
  ASSUME Shape, Die, faults' \in 0..MaxFaults, panicked' \in BOOLEAN
  PROVE  Shape'
<1>1. FilesSane'
  BY DEF Shape, FilesSane, Die
<1>2. ReadersSane'
  BY Blanks DEF ReadersSane, Die
<1>3. RestSane'
  BY Blanks DEF Shape, RestSane, Die
<1>4. HistorySane'
  BY DEF Shape, HistorySane, Die
<1> QED
  BY <1>1, <1>2, <1>3, <1>4 DEF Shape

LEMMA PanicSane == Shape /\ Panic => Shape'
BY DieSane DEF Panic, Shape, HistorySane

(* The programs that write the logs. *)
LEMMA NotifySane ==
  ASSUME Shape, NEW p \in Paths, NEW op \in EventOps, Notify(Event(op, p))
  PROVE  events' \in Seq(EventType)
<1>1. Event(op, p) \in EventType
  BY DEF Event, EventType
<1>2. events \in Seq(EventType)
  BY DEF Shape, RestSane
<1> QED
  BY <1>1, <1>2 DEF Notify

LEMMA EmptyFileSane ==
  ASSUME NEW g \in 0..(MaxGeneration + 1)
  PROVE  \A f \in {[NewFile EXCEPT !.gen = g], [NewFile EXCEPT !.there = FALSE, !.gen = g]} :
           f \in FileType /\ f.ends = {}
<1>1. 0 \in 0..MaxSize /\ {} \in SUBSET (0..MaxSize)
  BY Bounds
<1> QED
  BY <1>1 DEF NewFile, FileType

LEMMA WorldSane ==
  ASSUME Shape, NEW p \in Paths, Write(p) \/ Remove(p) \/ Truncate(p) \/ Create(p)
  PROVE  Shape'
<1>1. Outside
  BY DEF Write, Remove, Truncate, Create
<1>2. events' \in Seq(EventType)
  BY NotifySane DEF Write, Remove, Truncate, Create, EventOps
<1>3. ReadersSane' /\ RestSane' /\ HistorySane'
  BY <1>1, <1>2 DEF Shape, ReadersSane, RestSane, HistorySane, Outside
<1> DEFINE f == files'[p]
<1>4. files' = [files EXCEPT ![p] = f] /\ f \in FileType /\ f.ends \subseteq 1..f.size
  <2>0. files \in [Paths -> FileType] /\ files[p].ends \subseteq 1..files[p].size
    BY DEF Shape, FilesSane
  <2>1. CASE Write(p)
    <3>1. PICK c \in Chunks :
            /\ files[p].size + c.size <= MaxSize
            /\ files' = [files EXCEPT ![p].size = files[p].size + c.size,
                           ![p].ends = IF c.line THEN @ \cup {files[p].size + c.size} ELSE @]
      BY <2>1 DEF Write
    <3> DEFINE size == files[p].size + c.size
    <3>2. c.size \in Nat \ {0}
      BY FileWatchAssumption
    <3>3. f = [files[p] EXCEPT !.size = size,
                 !.ends = IF c.line THEN files[p].ends \cup {size} ELSE files[p].ends]
          /\ files' = [files EXCEPT ![p] = f]
      BY <2>0, <3>1
    <3>4. files[p] \in FileType /\ files[p].size \in Nat
      BY <2>0, Bounds DEF FileType
    <3>5. size \in 1..MaxSize /\ files[p].size < size
      BY <3>1, <3>2, <3>4, Bounds
    <3>6. 1..files[p].size \subseteq 1..size
      BY <3>4, <3>5
    <3> HIDE DEF size, f
    <3>7. f.size = size /\ f.ends \subseteq files[p].ends \cup {size}
      BY <3>3, <3>4 DEF FileType
    <3>8. f.ends \subseteq 1..size
      BY <2>0, <3>5, <3>6, <3>7
    <3>9. 1..size \subseteq 0..MaxSize
      BY <3>5, Bounds
    <3>10. f = [there |-> files[p].there, gen |-> files[p].gen, size |-> size,
                ends |-> f.ends]
      BY <3>3, <3>4 DEF FileType
    <3>11. size \in 0..MaxSize /\ f.ends \in SUBSET (0..MaxSize)
      BY <3>5, <3>8, <3>9
    <3>12. f \in FileType
      BY <3>4, <3>10, <3>11 DEF FileType
    <3> QED
      BY <3>3, <3>7, <3>8, <3>12
  <2>2. CASE Remove(p)
    <3>1. f = [NewFile EXCEPT !.there = FALSE, !.gen = files[p].gen]
          /\ files' = [files EXCEPT ![p] = f]
      BY <2>0, <2>2 DEF Remove
    <3>2. files[p].gen \in 0..(MaxGeneration + 1)
      BY <2>0 DEF FileType
    <3> QED
      BY <3>1, <3>2, EmptyFileSane
  <2>3. CASE Truncate(p) \/ Create(p)
    <3>1. f = [NewFile EXCEPT !.gen = files[p].gen + 1] /\ files' = [files EXCEPT ![p] = f]
      BY <2>0, <2>3 DEF Truncate, Create
    <3>2. files[p].gen < MaxGeneration /\ files[p].gen \in Nat
      BY <2>0, <2>3, Bounds DEF Truncate, Create, FileType
    <3>3. files[p].gen + 1 \in 0..(MaxGeneration + 1)
      BY <3>2, Bounds
    <3> QED
      BY <3>1, <3>3, EmptyFileSane
  <2> QED
    BY <2>1, <2>2, <2>3
<1> HIDE DEF f
<1>5. FilesSane'
  BY <1>4 DEF FilesSane, Shape
<1> QED
  BY <1>3, <1>5 DEF Shape

LEMMA BootSane == Shape /\ Boot => Shape'
<1> SUFFICES ASSUME Shape, Boot
             PROVE  Shape'
  OBVIOUS
<1>1. FilesSane' /\ ReadersSane'
  BY DEF Shape, FilesSane, ReadersSane, Boot
<1>2. RestSane'
  BY DEF Shape, RestSane, Boot, LoadDiskFile
<1>3. HistorySane'
  <2>0. boots \in Nat /\ boots' = boots + 1 /\ boots' \in 0..MaxBoots /\ boots' # 0
    BY Bounds DEF Boot, Shape, HistorySane
  <2>1. 1..boots \subseteq 1..boots'
    BY <2>0
  <2> DEFINE old == [gen : Nat, boot : 1..boots, from : Offsets, to : Offsets]
             new == [gen : Nat, boot : 1..boots', from : Offsets, to : Offsets]
  <2>2. old \subseteq new
    BY <2>1
  <2> HIDE DEF old, new
  <2>3. Seq(old) \subseteq Seq(new)
    BY <2>2
  <2>4. Batches(boots) = Seq(old) /\ Batches(boots)' = Seq(new)
    BY DEF Batches, old, new
  <2>5. sent' \in [Paths -> Batches(boots)']
    BY <2>3, <2>4 DEF Boot, Shape, HistorySane
  <2> QED
    BY <2>0, <2>5 DEF Boot, Shape, HistorySane
<1> QED
  BY <1>1, <1>2, <1>3 DEF Shape

(* The goroutine that handles file events. *)
LEMMA StartedSane ==
  ASSUME NEW p \in Paths, NEW kind \in {"event", "old"}
  PROVE  Started(p, kind) \in ReaderType /\ Started(p, kind).path = p
BY Blanks DEF Started, NoReader, ReaderType, ReaderLabels

LEMMA HandlingSane ==
  ASSUME Shape, NEW op, Handling(op)
  PROVE  events' \in Seq(EventType) /\ Head(events).path \in Paths
<1>1. events \in Seq(EventType) /\ events # <<>>
  BY DEF Handling, Shape, RestSane
<1>2. Head(events) \in EventType /\ Tail(events) \in Seq(EventType)
  BY <1>1
<1> QED
  BY <1>2 DEF Handling, EventType

LEMMA HandleSane == Shape /\ Handle => Shape'
<1> SUFFICES ASSUME Shape, Handle
             PROVE  Shape'
  OBVIOUS
<1> DEFINE p == Head(events).path
<1>1. events' \in Seq(EventType) /\ p \in Paths
  BY HandlingSane DEF Handle, HandleWrite, HandleCreate, HandleRemove
<1>2. FilesSane'
  BY DEF Shape, FilesSane, Handle, HandleWrite, HandleCreate, HandleRemove
<1>3. HistorySane'
  BY DEF Shape, HistorySane, Handle, HandleWrite, HandleCreate, HandleRemove
<1>4. states \in [Paths -> MaybeOffset] /\ ReadersSane
  BY DEF Shape, RestSane
<1>5. states' \in [Paths -> MaybeOffset]
  BY <1>1, <1>4, Bounds DEF Handle, HandleWrite, HandleCreate, HandleRemove
<1>6. ReadersSane'
  <2>1. CASE HandleWrite
    <3>1. PICK r \in Readers : readers' = [readers EXCEPT ![r] = Started(p, "event")]
      BY <2>1 DEF HandleWrite
    <3> QED
      BY <1>1, <1>4, <3>1, StartedSane, OneReaderSane
  <2>2. CASE HandleCreate \/ HandleRemove
    <3>1. CASE readers' = readers
      BY <1>4, <3>1 DEF ReadersSane
    <3>2. CASE Detach({p})
      BY <1>4, <3>2, DetachSane
    <3> QED
      BY <2>2, <3>1, <3>2 DEF HandleCreate, HandleRemove
  <2> QED
    BY <2>1, <2>2 DEF Handle
<1>7. RestSane'
  BY <1>1, <1>5 DEF Shape, RestSane, Handle, HandleWrite, HandleCreate, HandleRemove
<1> QED
  BY <1>2, <1>3, <1>6, <1>7 DEF Shape

(* A reader goroutine. *)
LEMMA ScanFacts ==
  ASSUME Shape, NEW r \in Readers, Scan(r), NEW d, d = readers[r], files[d.path].there,
         NEW new, new = (IF d.kind = "event" THEN EventOffset(files[d.path], d.off)
                         ELSE ObsoleteOffset(files[d.path], d.off))
  PROVE  /\ d \in ReaderType /\ d.path \in Paths
         /\ new \in Offsets /\ files[d.path].size \in Offsets
         /\ new = d.off \/ (new \in files[d.path].ends \cup {files[d.path].size + 1} /\ new > d.off)
         /\ files[d.path].gen \in Nat
<1> DEFINE f == files[d.path]
<1>1. d \in ReaderType /\ d.path \in Paths
  BY DEF Shape, ReadersSane, Scan, ReaderAt
<1>2. f \in FileType /\ f.ends \in SUBSET (1..f.size)
  BY <1>1 DEF Shape, FilesSane
<1>3. /\ f.size \in 0..MaxSize /\ f.gen \in 0..(MaxGeneration + 1)
      /\ d.off \in Offsets
  BY <1>1, <1>2 DEF FileType, ReaderType
<1> HIDE DEF f
<1>4. f.size \in Nat /\ f.size <= MaxSize /\ d.off \in Nat /\ f.gen \in Nat
  <2>1. d.off \in Nat
    BY <1>3, Bounds
  <2>2. MaxSize \in Nat /\ MaxGeneration \in Nat
    BY Bounds
  <2> QED
    BY <1>3, <2>1, <2>2
<1>5. new = d.off \/ (new \in f.ends \cup {f.size + 1} /\ new > d.off)
  BY <1>2, <1>4, OffsetFacts DEF f
<1>6. \A e \in f.ends \cup {f.size + 1} : e \in Offsets
  BY <1>2, <1>4, Bounds DEF Offsets
<1>7. f.size \in Offsets
  BY <1>4, Bounds DEF Offsets
<1> QED
  BY <1>1, <1>3, <1>4, <1>5, <1>6, <1>7 DEF f

LEMMA ReaderSane == ASSUME Shape, NEW r \in Readers, ReaderStep(r) PROVE Shape'
<1> DEFINE d == readers[r]
<1>0. readers \in [Readers -> ReaderType] /\ d \in ReaderType /\ ReadersSane
      /\ (d.pc # "idle" => d.path \in Paths)
  BY DEF Shape, ReadersSane
<1>1. ASSUME NEW l \in ReaderLabels, readers' = [readers EXCEPT ![r].pc = l], d.pc # "idle"
      PROVE  ReadersSane'
  <2>1. readers' = [readers EXCEPT ![r] = [d EXCEPT !.pc = l]]
    BY <1>0, <1>1
  <2>2. [d EXCEPT !.pc = l] \in ReaderType /\ [d EXCEPT !.pc = l].path \in Paths
    BY <1>0, <1>1 DEF ReaderType
  <2> QED
    BY <1>0, <2>1, <2>2, OneReaderSane
<1>2. ASSUME readers' = [readers EXCEPT ![r] = NoReader]
      PROVE  ReadersSane'
  BY <1>0, <1>2, Blanks, OneReaderSane
<1>3. ASSUME UNCHANGED <<files, disk, events, phase, states, lock, clock, history>>,
             claims' \subseteq Paths, ReadersSane'
      PROVE  Shape'
  BY <1>3 DEF Shape, FilesSane, RestSane, HistorySane
<1>4. claims \subseteq Paths
  BY DEF Shape, RestSane
<1>5. CASE Acquire(r)
  <2>1. ReadersSane'
    BY <1>1, <1>5 DEF Acquire, ReaderAt, ReaderLabels
  <2> QED
    BY <1>3, <1>4, <1>5, <2>1 DEF Acquire
<1>6. CASE Claim(r)
  <2>1. ReadersSane'
    BY <1>1, <1>2, <1>6 DEF Claim, ReaderAt, ReaderLabels
  <2>2. claims' \subseteq Paths
    BY <1>0, <1>4, <1>6 DEF Claim, ReaderAt
  <2> QED
    BY <1>3, <1>6, <2>1, <2>2 DEF Claim
<1>7. CASE Load(r)
  <2> DEFINE known == IF d.held = Live THEN states[d.path] ELSE d.held
             new == [d EXCEPT !.pc = "scan", !.held = Live, !.off = known]
  <2>1. known \in MaybeOffset
    BY <1>0, <1>7, Bounds DEF Load, ReaderAt, Shape, RestSane, ReaderType
  <2>2. CASE Panic
    BY <2>2, PanicSane
  <2>3. CASE /\ known # NoState
             /\ readers' = [readers EXCEPT ![r] = new]
             /\ UNCHANGED <<files, disk, events, phase, states, lock, claims, clock, history>>
    <3>1. known \in Offsets
      BY <2>1, <2>3 DEF MaybeOffset
    <3>2. new \in ReaderType /\ new.path \in Paths
      BY <1>0, <1>7, <3>1 DEF Load, ReaderAt, ReaderType, ReaderLabels
    <3>3. ReadersSane'
      BY <1>0, <2>3, <3>2, OneReaderSane
    <3> QED
      BY <1>3, <1>4, <2>3, <3>3
  <2> QED
    BY <1>7, <2>2, <2>3 DEF Load
<1>8. CASE Scan(r)
  <2> DEFINE f == files[d.path]
             new == IF d.kind = "event" THEN EventOffset(f, d.off) ELSE ObsoleteOffset(f, d.off)
             after == [d EXCEPT !.pc = IF new > d.off THEN "send" ELSE "update",
                                !.new = new, !.gen = f.gen,
                                !.to = IF new > f.size THEN f.size ELSE new]
  <2>1. ReadersSane'
    <3>1. CASE readers' = [readers EXCEPT ![r].pc = "leave"]
      BY <1>1, <1>8, <3>1 DEF Scan, ReaderAt, ReaderLabels
    <3>2. CASE f.there /\ readers' = [readers EXCEPT ![r] = after]
      <4>1. d.path \in Paths /\ new \in Offsets /\ f.size \in Offsets /\ f.gen \in Nat
        BY <1>8, <3>2, ScanFacts
      <4> HIDE DEF new, f
      <4>2. after \in ReaderType /\ after.path \in Paths
        BY <1>0, <4>1 DEF ReaderType, ReaderLabels
      <4> QED
        BY <1>0, <3>2, <4>2, OneReaderSane
    <3> QED
      BY <1>8, <3>1, <3>2 DEF Scan
  <2>2. faults' \in 0..MaxFaults
    BY <1>8, Bounds DEF Scan, Fault, Shape, HistorySane
  <2>3. FilesSane' /\ RestSane'
    BY <1>8 DEF Scan, Shape, FilesSane, RestSane
  <2>4. HistorySane'
    BY <1>8, <2>2 DEF Scan, Shape, HistorySane
  <2> QED
    BY <2>1, <2>3, <2>4 DEF Shape
<1>9. CASE Send(r)
  <2>1. ReadersSane'
    BY <1>1, <1>9 DEF Send, ReaderAt, ReaderLabels
  <2>2. FilesSane' /\ RestSane'
    BY <1>9 DEF Send, Shape, FilesSane, RestSane
  <2> DEFINE b == [gen |-> d.gen, boot |-> boots, from |-> d.off, to |-> d.to]
  <2>3. boots \in Nat /\ boots # 0
    BY <1>9, Bounds DEF Send, ReaderAt, Shape, HistorySane
  <2>4. b \in [gen : Nat, boot : 1..boots, from : Offsets, to : Offsets]
    <3>1. boots \in 1..boots
      BY <2>3
    <3>2. d.gen \in Nat /\ d.off \in Offsets /\ d.to \in Offsets
      BY <1>0 DEF ReaderType
    <3> QED
      BY <3>1, <3>2
  <2>5. sent \in [Paths -> Batches(boots)] /\ sent' = [sent EXCEPT ![d.path] = Append(sent[d.path], b)]
    BY <1>9 DEF Send, Shape, HistorySane
  <2> HIDE DEF b
  <2>6. Append(sent[d.path], b) \in Batches(boots)
    <3>1. sent[d.path] \in Batches(boots)
      BY <1>0, <1>9, <2>5 DEF Send, ReaderAt
    <3> QED
      BY <2>4, <3>1 DEF Batches
  <2>7. sent' \in [Paths -> Batches(boots)]
    BY <2>5, <2>6
  <2>8. HistorySane'
    BY <1>9, <2>7 DEF Send, Shape, HistorySane, Batches
  <2> QED
    BY <2>1, <2>2, <2>8 DEF Shape
<1>10. CASE Update(r)
  <2>1. CASE Panic
    BY <2>1, PanicSane
  <2>2. CASE ~Panic
    <3>1. /\ states' = [states EXCEPT ![d.path] = d.new]
          /\ readers' = [readers EXCEPT ![r].pc = "leave"]
          /\ UNCHANGED <<files, disk, events, phase, lock, claims, clock, history>>
      BY <1>10, <2>2 DEF Update
    <3>2. states' \in [Paths -> MaybeOffset]
      BY <1>0, <3>1, Bounds DEF Shape, RestSane, ReaderType
    <3>3. ReadersSane'
      BY <1>1, <1>10, <3>1 DEF Update, ReaderAt, ReaderLabels
    <3>4. FilesSane' /\ RestSane' /\ HistorySane'
      BY <3>1, <3>2 DEF Shape, FilesSane, RestSane, HistorySane
    <3> QED
      BY <3>3, <3>4 DEF Shape
  <2> QED
    BY <2>1, <2>2
<1>11. CASE Leave(r)
  <2>1. ReadersSane'
    BY <1>2, <1>11 DEF Leave
  <2>2. claims' \subseteq Paths
    BY <1>4, <1>11 DEF Leave
  <2> QED
    BY <1>3, <1>11, <2>1, <2>2 DEF Leave
<1> QED
  BY <1>5, <1>6, <1>7, <1>8, <1>9, <1>10, <1>11 DEF ReaderStep

(* The clocks. *)
LEMMA ScanSane == Shape /\ ScanStep => Shape'
<1> SUFFICES ASSUME Shape, ScanStep
             PROVE  Shape'
  OBVIOUS
<1>0. clock \in ClockType /\ states \in [Paths -> MaybeOffset] /\ ReadersSane
  BY DEF Shape, RestSane
<1>1. CASE ScanKeys
  <2>1. clock' \in ClockType
    BY <1>1 DEF ScanKeys, Known, NoClock, ClockType
  <2> QED
    BY <1>1, <2>1 DEF ScanKeys, Shape, FilesSane, ReadersSane, RestSane, HistorySane
<1>2. CASE ScanWalk
  <2>1. clock' \in ClockType
    BY <1>0, <1>2 DEF ScanWalk, There, ClockType
  <2>2. faults' \in 0..MaxFaults
    BY <1>2, Bounds DEF ScanWalk, Fault, Shape, HistorySane
  <2> QED
    BY <1>2, <2>1, <2>2 DEF ScanWalk, Shape, FilesSane, ReadersSane, RestSane, HistorySane
<1>3. CASE ScanMerge
  <2>1. CASE Panic
    BY <2>1, PanicSane
  <2>2. CASE ~Panic
    <3>1. /\ states' = [p \in Paths |-> Merged(p)]
          /\ \E gone : Detach(gone)
          /\ clock' = [NoClock EXCEPT !.pc = "save"]
          /\ UNCHANGED <<files, disk, events, phase, lock, claims, history>>
      BY <1>3, <2>2 DEF ScanMerge
    <3>2. \A p \in Paths : Merged(p) \in MaybeOffset
      BY <1>0, Bounds DEF Merged
    <3>3. states' \in [Paths -> MaybeOffset]
      BY <3>1, <3>2
    <3>4. clock' \in ClockType
      BY <3>1 DEF NoClock, ClockType
    <3>5. ReadersSane'
      BY <1>0, <3>1, DetachSane
    <3>6. FilesSane' /\ RestSane' /\ HistorySane'
      BY <3>1, <3>3, <3>4 DEF Shape, FilesSane, RestSane, HistorySane
    <3> QED
      BY <3>5, <3>6 DEF Shape
  <2> QED
    BY <2>1, <2>2
<1>4. CASE ClockSaveOpen
  <2>1. clock' \in ClockType
    BY <1>0, <1>4 DEF ClockSaveOpen, ClockType
  <2> QED
    BY <1>4, <2>1, Blanks
    DEF ClockSaveOpen, SaveOpen, Shape, FilesSane, ReadersSane, RestSane, HistorySane
<1>5. CASE ClockSaveWrite
  <2>1. clock' \in ClockType
    BY <1>0, <1>5, Blanks DEF ClockSaveWrite, ClockType
  <2>2. phase # "down" /\ phase' \in {"boot", "up"}
    BY <1>5 DEF ClockSaveWrite, ClockAt
  <2> QED
    BY <1>5, <2>1, <2>2
    DEF ClockSaveWrite, SaveWrite, Shape, FilesSane, ReadersSane, RestSane, HistorySane
<1> QED
  BY <1>1, <1>2, <1>3, <1>4, <1>5 DEF ScanStep

LEMMA SaveSane ==
  ASSUME Shape, UNCHANGED <<phase, clock>>,
         NEW who \in {"sync", "main"}, SaveOpen(who) \/ SaveWrite(who)
  PROVE  Shape'
BY Blanks DEF SaveOpen, SaveWrite, Shape, FilesSane, ReadersSane, RestSane, HistorySane

(* A save that fails changes nothing but the lock, or Run gives up.        *)
FailedSave ==
  /\ UNCHANGED <<files, disk, events, phase, states, claims, readers, boots, panicked, sent>>
  /\ lock' = "free" /\ Fault /\ phase = "up"
  /\ clock' \in {clock, [clock EXCEPT !.pc = "pick"]}

GivesUp == Die /\ Fault /\ UNCHANGED panicked

LEMMA SavesThatFail == ClockSaveFails \/ SyncFails => FailedSave \/ GivesUp
BY DEF ClockSaveFails, SyncFails, SaveFails, FailedSave, GivesUp

LEMMA FaultSane == Shape /\ Fault => faults' \in 0..MaxFaults
BY Bounds DEF Fault, Shape, HistorySane

LEMMA FailedSaveSane == Shape /\ FailedSave => Shape'
<1> SUFFICES ASSUME Shape, FailedSave
             PROVE  Shape'
  OBVIOUS
<1>1. clock' \in ClockType
  BY DEF FailedSave, ClockType, Shape, RestSane
<1>2. faults' \in 0..MaxFaults
  BY FaultSane DEF FailedSave
<1> QED
  BY <1>1, <1>2 DEF FailedSave, Shape, FilesSane, ReadersSane, RestSane, HistorySane

LEMMA GivesUpSane == Shape /\ GivesUp => Shape'
<1>1. Shape /\ GivesUp => faults' \in 0..MaxFaults /\ panicked' \in BOOLEAN
  BY FaultSane DEF GivesUp, Shape, HistorySane
<1> QED
  BY <1>1, DieSane DEF GivesUp

LEMMA PickSane == Shape /\ Pick => Shape'
<1> SUFFICES ASSUME Shape, Pick
             PROVE  Shape'
  OBVIOUS
<1>1. clock' \in ClockType
  <2>1. PICK old \in SUBSET Known :
          clock' = IF old = {} THEN NoClock ELSE [NoClock EXCEPT !.pc = "check", !.todo = old]
    BY DEF Pick
  <2>2. [NoClock EXCEPT !.pc = "check", !.todo = old] \in ClockType
    BY DEF Known, NoClock, ClockType
  <2> QED
    BY <2>1, <2>2, Blanks
<1> QED
  BY <1>1 DEF Pick, Shape, FilesSane, ReadersSane, RestSane, HistorySane

LEMMA CheckSane == ASSUME Shape, NEW p \in Paths, Check(p) PROVE Shape'
<1> DEFINE next == IF clock.todo = {p} THEN NoClock ELSE [clock EXCEPT !.todo = @ \ {p}]
<1>1. next \in ClockType
  BY Blanks DEF Shape, RestSane, ClockType
<1> HIDE DEF next
<1>2. CASE Panic
  BY <1>2, PanicSane
<1>3. CASE /\ clock' = next
           /\ UNCHANGED <<files, disk, events, phase, states, lock, claims, history>>
           /\ ReadersSane'
  BY <1>1, <1>3 DEF Shape, FilesSane, RestSane, HistorySane
<1>4. CASE ~Panic
  <2>1. /\ clock' = next
        /\ UNCHANGED <<files, disk, events, phase, states, lock, claims, history>>
    BY <1>4 DEF Check, next
  <2>2. CASE UNCHANGED readers
    BY <1>3, <2>1, <2>2 DEF ReadersSane, Shape
  <2>3. CASE ~UNCHANGED readers
    <3>1. PICK r \in Readers : readers' = [readers EXCEPT ![r] = Started(p, "old")]
      BY <1>4, <2>3 DEF Check
    <3>2. ReadersSane'
      BY <3>1, StartedSane, OneReaderSane DEF Shape
    <3> QED
      BY <1>3, <2>1, <3>2
  <2> QED
    BY <2>2, <2>3
<1> QED
  BY <1>2, <1>4

LEMMA ShapeKept == Shape /\ [Next]_vars => Shape'
<1> SUFFICES ASSUME Shape, [Next]_vars
             PROVE  Shape'
  OBVIOUS
<1>1. CASE UNCHANGED vars
  BY <1>1 DEF vars, Shape, FilesSane, ReadersSane, RestSane, HistorySane
<1>2. SyncOpen \/ SyncWrite => Shape'
  <2>1. SyncOpen => UNCHANGED <<phase, clock>> /\ SaveOpen("sync")
    BY DEF SyncOpen, SaveOpen
  <2>2. SyncWrite => UNCHANGED <<phase, clock>> /\ SaveWrite("sync")
    BY DEF SyncWrite
  <2>3. "sync" \in {"sync", "main"}
    OBVIOUS
  <2> QED
    BY <2>1, <2>2, <2>3, SaveSane
<1>3. ClockSaveFails \/ SyncFails => Shape'
  BY SavesThatFail, FailedSaveSane, GivesUpSane
<1> QED
  BY <1>1, <1>2, <1>3, WorldSane, BootSane, HandleSane, ReaderSane, ScanSane, PickSane, CheckSane
  DEF Next

(* Before the program watches, only the scan runs: the other goroutines    *)
(* need the phase "up", and every end of the process takes all along.      *)
LEMMA DieIsQuiet == Die => Quiet'
<1> SUFFICES ASSUME Die
             PROVE  Quiet'
  OBVIOUS
<1>1. \A r \in Readers : readers'[r].pc = "idle"
  BY Blanks DEF Die
<1>2. clock'.pc = "idle"
  BY DEF Die, NoClock
<1> QED
  BY <1>1, <1>2 DEF Die, Quiet, NoStates

LEMMA StillQuiet ==
  ASSUME Quiet, UNCHANGED <<events, phase, states, lock, claims, readers>>,
         phase # "up" => clock'.pc \in {"idle", "walk", "merge", "save", "write"},
         phase = "down" => clock'.pc = "idle"
  PROVE  Quiet'
BY DEF Quiet

LEMMA ScanIsQuiet == ASSUME Shape, Quiet, ScanStep PROVE Quiet'
<1>0. clock \in ClockType /\ phase # "down"
  BY DEF Shape, RestSane, ScanStep, ScanKeys, ScanWalk, ScanMerge, ClockSaveOpen,
     ClockSaveWrite, ClockAt
<1>1. CASE ScanKeys
  BY <1>0, <1>1, StillQuiet DEF ScanKeys, NoClock
<1>2. CASE ScanWalk
  <2>1. clock'.pc = "merge"
    BY <1>0, <1>2 DEF ScanWalk, ClockType
  <2> QED
    BY <1>0, <1>2, <2>1, StillQuiet DEF ScanWalk
<1>3. CASE ScanMerge
  <2>1. CASE Panic
    BY <2>1, DieIsQuiet DEF Panic
  <2>2. CASE ~Panic
    <3>1. clock'.pc = "save" /\ UNCHANGED <<events, phase, lock, claims>>
      BY <1>3, <2>2 DEF ScanMerge, NoClock
    <3>2. \A r \in Readers : readers[r].pc = "idle" => readers'[r] = readers[r]
      BY <1>3, <2>2 DEF ScanMerge, Detach, Unread
    <3> QED
      BY <1>0, <3>1, <3>2 DEF Quiet
  <2> QED
    BY <2>1, <2>2
<1>4. CASE ClockSaveOpen
  <2>1. clock'.pc = "write" /\ lock' = "clock"
    BY <1>0, <1>4 DEF ClockSaveOpen, SaveOpen, ClockType
  <2> QED
    BY <1>0, <1>4, <2>1 DEF ClockSaveOpen, SaveOpen, Quiet
<1>5. CASE ClockSaveWrite
  <2>1. phase' = "up"
    BY <1>5 DEF ClockSaveWrite
  <2> QED
    BY <2>1 DEF Quiet
<1> QED
  BY <1>1, <1>2, <1>3, <1>4, <1>5 DEF ScanStep

LEMMA QuietKept == Shape /\ Quiet /\ [Next]_vars => Quiet'
<1> SUFFICES ASSUME Shape, Quiet, [Next]_vars
             PROVE  Quiet'
  OBVIOUS
<1>1. CASE phase' = "up"
  BY <1>1 DEF Quiet
<1>2. CASE Die
  BY <1>2, DieIsQuiet
<1>3. CASE UNCHANGED vars
  BY <1>3, StillQuiet DEF vars, Quiet
<1>4. ASSUME NEW p \in Paths, Write(p) \/ Remove(p) \/ Truncate(p) \/ Create(p)
      PROVE  Quiet'
  <2>1. Outside /\ (phase # "up" => UNCHANGED events)
    BY <1>4 DEF Write, Remove, Truncate, Create, Notify
  <2> QED
    BY <1>1, <2>1 DEF Outside, Quiet
<1>5. CASE Boot
  <2>1. Boot
    BY <1>5
  <2> QED
    BY <2>1 DEF Boot, Quiet
<1>6. Handle => phase' = "up"
  BY DEF Handle, HandleWrite, HandleCreate, HandleRemove, Handling
<1>7. ASSUME NEW r \in Readers, ReaderStep(r)
      PROVE  Die \/ phase' = "up"
  BY <1>7 DEF ReaderStep, Acquire, Claim, Load, Scan, Send, Update, Leave, ReaderAt, Panic
<1>8. SyncOpen \/ SyncWrite \/ ClockSaveFails \/ SyncFails => Die \/ phase' = "up"
  BY DEF SyncOpen, SyncWrite, SaveOpen, ClockSaveFails, SyncFails, SaveFails
<1>9. ASSUME Pick \/ \E p \in Paths : Check(p)
      PROVE  Die \/ phase' = "up"
  <2>1. clock.pc \in {"pick", "check"}
    BY <1>9 DEF Pick, Check, ClockAt
  <2>2. phase = "up"
    BY <2>1 DEF Quiet
  <2> QED
    BY <1>9, <2>2 DEF Pick, Check, Panic
<1> QED
  BY <1>1, <1>2, <1>3, <1>4, <1>5, <1>6, <1>7, <1>8, <1>9, ScanIsQuiet DEF Next

LEMMA InitQuiet == Init => Quiet
<1> SUFFICES ASSUME Init
             PROVE  Quiet
  OBVIOUS
<1>1. \A r \in Readers : readers[r].pc = "idle"
  BY Blanks DEF Init
<1>2. clock.pc = "idle"
  BY DEF Init, NoClock
<1> QED
  BY <1>1, <1>2 DEF Init, Quiet, NoStates

LEMMA InitShape == Init => Shape
<1> SUFFICES ASSUME Init
             PROVE  Shape
  OBVIOUS
<1>1. FilesSane
  <2>1. PICK S \in SUBSET Paths : files = [p \in Paths |-> IF p \in S THEN NewFile ELSE NoFile]
    BY DEF Init
  <2>2. 0 \in 0..MaxSize /\ {0, 1} \subseteq 0..(MaxGeneration + 1) /\ {} \in SUBSET (0..MaxSize)
    BY Bounds
  <2>3. NewFile \in FileType /\ NoFile \in FileType /\ NewFile.ends = {} /\ NoFile.ends = {}
    BY <2>2 DEF NewFile, NoFile, FileType
  <2> QED
    BY <2>1, <2>3 DEF FilesSane
<1>2. ReadersSane
  BY Blanks DEF Init, ReadersSane
<1>3. RestSane
  BY Blanks DEF Init, RestSane
<1>4. HistorySane
  <2>1. <<>> \in Batches(boots)
    BY DEF Batches
  <2>2. sent \in [Paths -> Batches(boots)]
    BY <2>1 DEF Init
  <2>3. 0 \in 0..MaxBoots /\ 0 \in 0..MaxFaults
    BY Bounds
  <2> QED
    BY <2>2, <2>3 DEF Init, HistorySane
<1> QED
  BY <1>1, <1>2, <1>3, <1>4 DEF Shape

(* Every reachable state is well typed: in particular no offset, in memory *)
(* or saved, is more than one unit past the end of the largest file.  And  *)
(* before the program watches nothing of it runs but the scan.             *)
THEOREM TypeCorrect == Spec => []TypeOK
<1>1. Init => Shape /\ Quiet
  BY InitShape, InitQuiet
<1>2. Shape /\ Quiet /\ [Next]_vars => (Shape /\ Quiet)'
  BY ShapeKept, QuietKept
<1> QED
  BY <1>1, <1>2, ShapeIsTyped, PTL DEF Spec
-----------------------------------------------------------------------------
(* processingMap.                                                          *)

AtWork == {"load", "scan", "send", "update", "leave"}

(* A step that no reader comes to work or leaves in. *)
LEMMA SameWork ==
  ASSUME OneReaderPerFile, claims' = claims,
         \A r \in Readers :
           /\ readers'[r].pc \in AtWork <=> readers[r].pc \in AtWork
           /\ readers[r].pc \in AtWork => readers'[r].path = readers[r].path
  PROVE  OneReaderPerFile'
<1>1. Working' = Working /\ \A r \in Working : readers'[r].path = readers[r].path
  BY DEF Working, AtWork
<1> QED
  BY <1>1 DEF OneReaderPerFile

(* A step of r that moves it inside its work, or outside of it. *)
LEMMA OwnMove ==
  ASSUME Shape, OneReaderPerFile, claims' = claims, NEW r \in Readers, NEW d,
         readers' = [readers EXCEPT ![r] = d],
         d.pc \in AtWork <=> readers[r].pc \in AtWork,
         readers[r].pc \in AtWork => d.path = readers[r].path
  PROVE  OneReaderPerFile'
<1>1. readers \in [Readers -> ReaderType]
  BY DEF Shape, ReadersSane
<1>2. ASSUME NEW s \in Readers
      PROVE  (readers'[s].pc \in AtWork <=> readers[s].pc \in AtWork)
             /\ (readers[s].pc \in AtWork => readers'[s].path = readers[s].path)
  BY <1>1, <1>2
<1> QED
  BY <1>2, SameWork

LEMMA DetachKeepsWork ==
  ASSUME Shape, OneReaderPerFile, claims' = claims, NEW gone, Detach(gone)
  PROVE  OneReaderPerFile'
<1>1. ASSUME NEW r \in Readers
      PROVE  readers'[r].pc = readers[r].pc /\ readers'[r].path = readers[r].path
  <2>1. readers[r] \in ReaderType
    BY DEF Shape, ReadersSane
  <2>2. readers'[r] \in {readers[r], [readers[r] EXCEPT !.held = states[readers[r].path]]}
    BY DEF Detach
  <2> QED
    BY <2>1, <2>2 DEF ReaderType
<1> QED
  BY <1>1, SameWork

LEMMA DieEndsWork == Die => OneReaderPerFile'
<1> SUFFICES ASSUME Die
             PROVE  OneReaderPerFile'
  OBVIOUS
<1>1. claims' = {} /\ Working' = {}
  BY DEF Die, Working, NoReader
<1> QED
  BY <1>1 DEF OneReaderPerFile

LEMMA ReaderKeepsOne ==
  ASSUME Shape, OneReaderPerFile, NEW r \in Readers, ReaderStep(r)
  PROVE  OneReaderPerFile'
<1>0. readers \in [Readers -> ReaderType] /\ readers[r] \in ReaderType
  BY DEF Shape, ReadersSane
<1>1. ASSUME NEW l, readers' = [readers EXCEPT ![r].pc = l], claims' = claims,
             l \in AtWork <=> readers[r].pc \in AtWork
      PROVE  OneReaderPerFile'
  <2>1. readers' = [readers EXCEPT ![r] = [readers[r] EXCEPT !.pc = l]]
    BY <1>0, <1>1
  <2>2. [readers[r] EXCEPT !.pc = l].pc = l /\ [readers[r] EXCEPT !.pc = l].path = readers[r].path
    BY <1>0 DEF ReaderType
  <2> QED
    BY <1>1, <2>1, <2>2, OwnMove
<1>2. CASE Acquire(r)
  BY <1>1, <1>2 DEF Acquire, ReaderAt, AtWork
<1>3. CASE Claim(r)
  <2>1. CASE readers' = [readers EXCEPT ![r] = NoReader] /\ UNCHANGED claims
    BY <1>3, <2>1, OwnMove DEF Claim, ReaderAt, NoReader, AtWork
  <2>2. CASE /\ readers[r].path \notin claims
             /\ claims' = claims \cup {readers[r].path}
             /\ readers' = [readers EXCEPT ![r].pc = "load"]
    <3>1. \A s \in Readers : s # r => readers'[s] = readers[s]
      BY <1>0, <2>2
    <3>2. readers'[r].pc = "load" /\ readers'[r].path = readers[r].path
      BY <1>0, <2>2 DEF ReaderType
    <3>3. r \notin Working
      BY <1>3 DEF Claim, ReaderAt, Working
    <3>4. Working' = Working \cup {r}
      BY <3>1, <3>2 DEF Working
    <3>5. \A s \in Working : readers'[s].path = readers[s].path /\ s # r
      BY <3>1, <3>3 DEF Working
    <3>6. \A s \in Working : readers[s].path # readers[r].path
      BY <2>2 DEF OneReaderPerFile
    <3> QED
      BY <2>2, <3>2, <3>4, <3>5, <3>6 DEF OneReaderPerFile
  <2> QED
    BY <1>3, <2>1, <2>2 DEF Claim
<1>4. CASE Panic
  BY <1>4, DieEndsWork DEF Panic
<1>5. CASE Load(r) /\ ~Panic
  <2>1. PICK known : readers' = [readers EXCEPT ![r] =
                       [readers[r] EXCEPT !.pc = "scan", !.held = Live, !.off = known]]
    BY <1>5 DEF Load
  <2> DEFINE d == [readers[r] EXCEPT !.pc = "scan", !.held = Live, !.off = known]
  <2>2. d.pc = "scan" /\ d.path = readers[r].path
    BY <1>0 DEF ReaderType
  <2>3. readers' = [readers EXCEPT ![r] = d] /\ claims' = claims /\ readers[r].pc = "load"
    BY <1>5, <2>1 DEF Load, ReaderAt
  <2> HIDE DEF d
  <2> QED
    BY <2>2, <2>3, OwnMove DEF AtWork
<1>6. CASE Scan(r)
  <2>0. claims' = claims /\ readers[r].pc = "scan"
    BY <1>6 DEF Scan, ReaderAt
  <2>1. CASE readers' = [readers EXCEPT ![r].pc = "leave"]
    BY <1>1, <2>0, <2>1 DEF AtWork
  <2>2. CASE ~(readers' = [readers EXCEPT ![r].pc = "leave"])
    <3> DEFINE b == readers[r]
               f == files[b.path]
               new == IF b.kind = "event" THEN EventOffset(f, b.off) ELSE ObsoleteOffset(f, b.off)
               d == [b EXCEPT !.pc = IF new > b.off THEN "send" ELSE "update",
                              !.new = new, !.gen = f.gen,
                              !.to = IF new > f.size THEN f.size ELSE new]
    <3>1. readers' = [readers EXCEPT ![r] = d]
      BY <1>6, <2>2 DEF Scan
    <3> HIDE DEF new
    <3>2. d.pc \in {"send", "update"} /\ d.path = readers[r].path
      BY <1>0 DEF ReaderType
    <3>3. readers' = [readers EXCEPT ![r] = d]
      BY <3>1
    <3> HIDE DEF d
    <3> QED
      BY <2>0, <3>2, <3>3, OwnMove DEF AtWork
  <2> QED
    BY <2>1, <2>2
<1>7. CASE Send(r)
  BY <1>1, <1>7 DEF Send, ReaderAt, AtWork
<1>8. CASE Update(r) /\ ~Panic
  BY <1>1, <1>8 DEF Update, ReaderAt, AtWork
<1>9. CASE Leave(r)
  <2>1. readers' = [readers EXCEPT ![r] = NoReader] /\ claims' = claims \ {readers[r].path}
        /\ r \in Working
    BY <1>9 DEF Leave, ReaderAt, Working
  <2>2. \A s \in Readers : s # r => readers'[s] = readers[s]
    BY <1>0, <2>1
  <2>3. readers'[r].pc = "idle"
    BY <1>0, <2>1, Blanks
  <2>4. Working' = Working \ {r} /\ \A s \in Working' : readers'[s].path = readers[s].path
    BY <2>2, <2>3 DEF Working
  <2>5. \A s \in Working : s # r => readers[s].path # readers[r].path
    BY <2>1 DEF OneReaderPerFile
  <2> QED
    BY <2>1, <2>4, <2>5 DEF OneReaderPerFile
<1> QED
  BY <1>2, <1>3, <1>4, <1>5, <1>6, <1>7, <1>8, <1>9 DEF ReaderStep

LEMMA OneReaderKept == Shape /\ OneReaderPerFile /\ [Next]_vars => OneReaderPerFile'
<1> SUFFICES ASSUME Shape, OneReaderPerFile, [Next]_vars
             PROVE  OneReaderPerFile'
  OBVIOUS
<1>1. CASE readers' = readers /\ claims' = claims
  BY <1>1, SameWork
<1>2. ASSUME NEW p, NEW kind, NEW r \in Readers, readers[r].pc = "idle",
             readers' = [readers EXCEPT ![r] = Started(p, kind)], claims' = claims
      PROVE  OneReaderPerFile'
  <2>1. Started(p, kind).pc = "queued"
    BY DEF Started, NoReader
  <2> QED
    BY <1>2, <2>1, OwnMove DEF AtWork
<1>3. CASE Panic
  BY <1>3, DieEndsWork DEF Panic
<1>4. CASE \E p \in Paths : Write(p) \/ Remove(p) \/ Truncate(p) \/ Create(p)
  BY <1>1, <1>4 DEF Write, Remove, Truncate, Create, Outside
<1>5. CASE Boot
  BY <1>1, <1>5 DEF Boot
<1>6. CASE HandleWrite
  BY <1>2, <1>6 DEF HandleWrite
<1>7. CASE HandleCreate \/ HandleRemove
  BY <1>1, <1>7, DetachKeepsWork DEF HandleCreate, HandleRemove
<1>8. CASE ScanStep
  BY <1>1, <1>3, <1>8, DetachKeepsWork
  DEF ScanStep, ScanKeys, ScanWalk, ScanMerge, ClockSaveOpen, ClockSaveWrite,
      SaveOpen, SaveWrite
<1>9. CASE SyncOpen \/ SyncWrite \/ Pick
  BY <1>1, <1>9 DEF SyncOpen, SyncWrite, SaveOpen, SaveWrite, Pick
<1>10. ASSUME NEW p \in Paths, Check(p)
       PROVE  OneReaderPerFile'
  BY <1>1, <1>2, <1>3, <1>10 DEF Check
<1>11. CASE UNCHANGED vars
  BY <1>1, <1>11 DEF vars
<1>12. CASE ClockSaveFails \/ SyncFails
  BY <1>1, <1>12, SavesThatFail, DieEndsWork DEF FailedSave, GivesUp
<1> QED
  BY <1>4, <1>5, <1>6, <1>7, <1>8, <1>9, <1>10, <1>11, <1>12, ReaderKeepsOne DEF Next, Handle

LEMMA InitOneReader == Init => OneReaderPerFile
<1> SUFFICES ASSUME Init
             PROVE  OneReaderPerFile
  OBVIOUS
<1>1. claims = {} /\ Working = {}
  BY DEF Init, Working, NoReader
<1> QED
  BY <1>1 DEF OneReaderPerFile

(* No file is read by two goroutines at a time, however files and states   *)
(* come and go, and no path stays claimed after its reader left.           *)
THEOREM OneReaderAtATime == Spec => []OneReaderPerFile
<1>1. Spec => []Shape
  BY InitShape, ShapeKept, PTL DEF Spec
<1> QED
  BY <1>1, InitOneReader, OneReaderKept, PTL DEF Spec
-----------------------------------------------------------------------------
(* No line is skipped and none is cut in two, as long as files stay and a  *)
(* reader never gets past the beginning of a line: because every line is   *)
(* written at once, or because only events start readers that read.        *)
Whole == (\A c \in Chunks : c.line) \/ ObsoleteMaxReadCount <= 0

(* Every offset anybody holds is one the consumer was given all before, at *)
(* the end of a line: in the map, on disk, and in the hands of a reader.   *)
Rests(o, p) == o \in files[p].ends \cup {0, NoState} /\ Covered(o, p)

Restful(d) ==
  /\ d.pc # "idle" /\ d.held # Live => Rests(d.held, d.path)
  /\ d.pc \in {"scan", "send", "update"} => Rests(d.off, d.path)
  /\ d.pc = "send" => /\ d.gen = 1 /\ d.to = d.new
                      /\ d.new \in files[d.path].ends /\ d.off < d.new
  /\ d.pc = "update" => Rests(d.new, d.path)

Fixed == \A p \in Paths : files[p].there /\ files[p].gen = 1
WholeFiles ==
  ObsoleteMaxReadCount <= 0 \/ \A p \in Paths : files[p].size \in files[p].ends \cup {0}
OffsetsRest == \A p \in Paths : Rests(states[p], p) /\ Rests(disk[p], p)
ReadersRest == \A r \in Readers : Restful(readers[r])
SentWhole ==
  \A p \in Paths : \A i \in DOMAIN sent[p] :
    /\ sent[p][i].gen = 1
    /\ sent[p][i].from \in files[p].ends \cup {0} /\ sent[p][i].to \in files[p].ends

Rested == Fixed /\ WholeFiles /\ OffsetsRest /\ ReadersRest /\ SentWhole

(* What a step that keeps the files may do to them and to what was sent.   *)
Growth ==
  \A p \in Paths :
    /\ files[p].ends \subseteq files'[p].ends
    /\ files'[p].gen = files[p].gen /\ files'[p].there = files[p].there
    /\ \A i \in DOMAIN sent[p] : i \in DOMAIN sent'[p] /\ sent'[p][i] = sent[p][i]

LEMMA RestsAtStart ==
  ASSUME NEW p
  PROVE  Rests(0, p) /\ Rests(NoState, p)
BY DEF Rests, Covered, NoState

LEMMA RestsKept ==
  ASSUME Shape, Growth, NEW p \in Paths, NEW o, Rests(o, p)
  PROVE  Rests(o, p)'
<1>1. o \in files[p].ends \cup {0, NoState} /\ o \in files'[p].ends \cup {0, NoState}
  BY DEF Rests, Growth
<1>2. files[p].ends \subseteq 1..files[p].size /\ files[p].size \in Nat
  BY Bounds DEF Shape, FilesSane, FileType
<1>3. ASSUME NEW x \in 0..(MaxSize - 1), x < o
      PROVE  x < files[p].size
  <2>1. o # NoState /\ o # 0
    BY <1>3, Bounds DEF NoState
  <2>2. o \in 1..files[p].size
    BY <1>1, <1>2, <2>1
  <2> QED
    BY <1>2, <1>3, <2>2, Bounds
<1>4. ASSUME NEW x \in 0..(MaxSize - 1), x < o
      PROVE  HandedOver(p, x)'
  <2>1. HandedOver(p, x)
    BY <1>3, <1>4 DEF Rests, Covered
  <2> QED
    BY <2>1 DEF HandedOver, Growth
<1> QED
  BY <1>1, <1>4 DEF Rests, Covered

LEMMA RestfulKept ==
  ASSUME Shape, Growth, NEW d, d.pc = "idle" \/ d.path \in Paths, Restful(d)
  PROVE  Restful(d)'
<1>1. CASE d.pc = "idle"
  BY <1>1 DEF Restful
<1>2. CASE d.path \in Paths
  <2>1. \A o : Rests(o, d.path) => Rests(o, d.path)'
    BY <1>2, RestsKept
  <2>2. files[d.path].ends \subseteq files'[d.path].ends
    BY <1>2 DEF Growth
  <2> QED
    BY <2>1, <2>2 DEF Restful
<1> QED
  BY <1>1, <1>2

LEMMA SentWholeKept ==
  ASSUME Growth, SentWhole, sent' = sent
  PROVE  SentWhole'
BY DEF Growth, SentWhole

(* Where an offset in the map or on disk may come from. *)
LEMMA OffsetsRestKept ==
  ASSUME Shape, Growth, OffsetsRest, ReadersRest,
         \A p \in Paths : \/ states'[p] \in {states[p], disk[p], 0, NoState}
                          \/ \E r \in Readers : /\ readers[r].pc = "update"
                                                /\ readers[r].path = p
                                                /\ states'[p] = readers[r].new,
         \A p \in Paths : disk'[p] \in {disk[p], states[p], NoState}
  PROVE  OffsetsRest'
<1>1. ASSUME NEW p \in Paths, NEW o,
             o \in {states[p], disk[p], 0, NoState}
             \/ \E r \in Readers : /\ readers[r].pc = "update"
                                   /\ readers[r].path = p /\ o = readers[r].new
      PROVE  Rests(o, p)'
  <2>1. Rests(o, p)
    BY <1>1, RestsAtStart DEF OffsetsRest, ReadersRest, Restful
  <2> QED
    BY <2>1, RestsKept
<1>2. ASSUME NEW p \in Paths
      PROVE  (Rests(states[p], p) /\ Rests(disk[p], p))'
  <2>1. PICK o, q : o = states'[p] /\ q = disk'[p]
    OBVIOUS
  <2>2. Rests(o, p)' /\ Rests(q, p)'
    BY <1>1, <2>1
  <2> QED
    BY <2>1, <2>2 DEF Rests
<1> QED
  BY <1>2 DEF OffsetsRest

LEMMA StillFiles ==
  ASSUME Fixed, WholeFiles, SentWhole, UNCHANGED <<files, sent>>
  PROVE  Growth /\ Fixed' /\ WholeFiles' /\ SentWhole'
BY DEF Growth, Fixed, WholeFiles, SentWhole

LEMMA ReadersRestKept ==
  ASSUME Shape, Growth, ReadersRest,
         \A r \in Readers : readers'[r] = readers[r] \/ Restful(readers[r])'
  PROVE  ReadersRest'
<1>1. ASSUME NEW r \in Readers, readers'[r] = readers[r]
      PROVE  Restful(readers[r])'
  <2>1. PICK d : d = readers[r]
    OBVIOUS
  <2>2. Restful(d) /\ (d.pc = "idle" \/ d.path \in Paths)
    BY <2>1 DEF ReadersRest, Shape, ReadersSane
  <2>3. Restful(d)'
    BY <2>2, RestfulKept
  <2> QED
    BY <1>1, <2>1, <2>3 DEF Restful, Rests
<1> QED
  BY <1>1 DEF ReadersRest

LEMMA OneReaderRests ==
  ASSUME Shape, Growth, ReadersRest, NEW r \in Readers, NEW d,
         readers' = [readers EXCEPT ![r] = d], Restful(d)'
  PROVE  ReadersRest'
<1>1. readers \in [Readers -> ReaderType]
  BY DEF Shape, ReadersSane
<1>2. readers'[r] = d /\ \A s \in Readers : s # r => readers'[s] = readers[s]
  BY <1>1
<1>3. Restful(readers[r])'
  BY <1>2 DEF Restful, Rests
<1> QED
  BY <1>2, <1>3, ReadersRestKept

LEMMA FreshReaderRests ==
  ASSUME Shape, Growth, ReadersRest, NEW r \in Readers, NEW d,
         readers' = [readers EXCEPT ![r] = d],
         d = NoReader \/ \E p, kind : d = Started(p, kind)
  PROVE  ReadersRest'
<1>0. /\ NoReader.pc = "idle" /\ NoReader.held = Live
      /\ \A p, kind : Started(p, kind).pc = "queued" /\ Started(p, kind).held = Live
  BY DEF NoReader, Started
<1>1. d.pc \in {"idle", "queued"} /\ d.held = Live
  BY <1>0
<1>2. Restful(d)'
  BY <1>1 DEF Restful
<1> QED
  BY <1>2, OneReaderRests

LEMMA DetachRests ==
  ASSUME Shape, Growth, ReadersRest, OffsetsRest, NEW gone, Detach(gone)
  PROVE  ReadersRest'
<1>1. ASSUME NEW r \in Readers, readers'[r] # readers[r]
      PROVE  Restful(readers[r])'
  <2>1. PICK d : d = [readers[r] EXCEPT !.held = states[readers[r].path]] /\ readers'[r] = d
    BY <1>1 DEF Detach
  <2>2. readers[r] \in ReaderType /\ Unread(readers[r])
    BY <1>1 DEF Detach, Shape, ReadersSane
  <2>3. /\ d.pc \in {"queued", "claim", "load"}
        /\ d.held = states[d.path] /\ d.path = readers[r].path
    BY <2>1, <2>2 DEF Unread, ReaderType
  <2>4. d.path \in Paths
    BY <2>2, <2>3 DEF Unread, Shape, ReadersSane
  <2>5. Rests(d.held, d.path)
    BY <2>3, <2>4 DEF OffsetsRest
  <2>6. Restful(d)
    BY <2>3, <2>5 DEF Restful
  <2>7. Restful(d)'
    BY <2>4, <2>6, RestfulKept
  <2> QED
    BY <2>1, <2>7 DEF Restful, Rests
<1> QED
  BY <1>1, ReadersRestKept

(* The end of a process leaves the offsets on disk. *)
LEMMA DieRests == ASSUME Shape, Rested, Die PROVE Rested'
<1>1. Growth /\ Fixed' /\ WholeFiles' /\ SentWhole'
  BY StillFiles DEF Rested, Die
<1>2. OffsetsRest'
  <2>1. states' = NoStates /\ disk' = disk
    BY DEF Die
  <2>2. \A p \in Paths : states'[p] = NoState /\ disk'[p] = disk[p]
    BY <2>1 DEF NoStates
  <2> QED
    BY <1>1, <2>2, OffsetsRestKept DEF Rested
<1>3. ReadersRest'
  <2>1. \A r \in Readers : readers'[r].pc = "idle"
    BY Blanks DEF Die
  <2> QED
    BY <2>1 DEF ReadersRest, Restful
<1> QED
  BY <1>1, <1>2, <1>3 DEF Rested

LEMMA WriteRests ==
  ASSUME ~FilesMove, Whole, Shape, Rested, NEW p \in Paths, Write(p)
  PROVE  Rested'
<1> DEFINE f == files[p]
<1>0. files \in [Paths -> FileType] /\ f \in FileType
  BY DEF Shape, FilesSane
<1>1. PICK c \in Chunks :
        files' = [files EXCEPT ![p] = [f EXCEPT !.size = f.size + c.size,
                    !.ends = IF c.line THEN f.ends \cup {f.size + c.size} ELSE f.ends]]
  BY <1>0 DEF Write
<1>2. UNCHANGED <<disk, states, readers, sent>>
  BY DEF Write, Outside
<1> DEFINE g == files'[p]
<1>3. /\ g.size = f.size + c.size /\ g.there = f.there /\ g.gen = f.gen
      /\ g.ends = IF c.line THEN f.ends \cup {f.size + c.size} ELSE f.ends
  BY <1>0, <1>1 DEF FileType
<1>4. \A q \in Paths : q # p => files'[q] = files[q]
  BY <1>0, <1>1
<1>5. Growth
  BY <1>2, <1>3, <1>4 DEF Growth
<1>6. Fixed'
  BY <1>5 DEF Growth, Fixed, Rested
<1>7. WholeFiles'
  <2>1. CASE ObsoleteMaxReadCount <= 0
    BY <2>1 DEF WholeFiles
  <2>2. CASE ~(ObsoleteMaxReadCount <= 0)
    <3>1. c.line
      BY <2>2 DEF Whole
    <3>2. g.size \in g.ends
      BY <1>3, <3>1
    <3> QED
      BY <1>4, <2>2, <3>2 DEF WholeFiles, Rested
  <2> QED
    BY <2>1, <2>2
<1>8. SentWhole' /\ OffsetsRest'
  BY <1>2, <1>5, SentWholeKept, OffsetsRestKept DEF Rested
<1>9. ReadersRest'
  BY <1>2, <1>5, ReadersRestKept DEF Rested
<1> QED
  BY <1>6, <1>7, <1>8, <1>9 DEF Rested

LEMMA HandleRests == ASSUME Shape, Rested, Handle PROVE Rested'
<1>1. Growth /\ Fixed' /\ WholeFiles' /\ SentWhole'
  BY StillFiles DEF Rested, Handle, HandleWrite, HandleCreate, HandleRemove
<1>2. OffsetsRest'
  <2>1. states \in [Paths -> MaybeOffset] /\ disk' = disk
    BY DEF Shape, RestSane, Handle, HandleWrite, HandleCreate, HandleRemove
  <2>2. \A p \in Paths : states'[p] \in {states[p], 0, NoState}
    BY <2>1 DEF Handle, HandleWrite, HandleCreate, HandleRemove
  <2> QED
    BY <1>1, <2>1, <2>2, OffsetsRestKept DEF Rested
<1>3. ReadersRest'
  <2>1. CASE HandleWrite
    <3>1. PICK r \in Readers : \E p, kind : readers' = [readers EXCEPT ![r] = Started(p, kind)]
      BY <2>1 DEF HandleWrite
    <3> QED
      BY <1>1, <3>1, FreshReaderRests DEF Rested
  <2>2. CASE readers' = readers
    BY <1>1, <2>2, ReadersRestKept DEF Rested
  <2>3. ASSUME NEW gone, Detach(gone)
        PROVE  ReadersRest'
    BY <1>1, <2>3, DetachRests DEF Rested
  <2> QED
    BY <2>1, <2>2, <2>3 DEF Handle, HandleCreate, HandleRemove
<1> QED
  BY <1>1, <1>2, <1>3 DEF Rested

(* A scan arrives at the end of a line, or stays where it was. *)
LEMMA ScanRests ==
  ASSUME Shape, Rested, NEW r \in Readers, Scan(r), NEW d, d = readers[r],
         NEW new, new = (IF d.kind = "event" THEN EventOffset(files[d.path], d.off)
                         ELSE ObsoleteOffset(files[d.path], d.off))
  PROVE  /\ new \in files[d.path].ends \cup {d.off}
         /\ new > d.off => new \in files[d.path].ends /\ ~(new > files[d.path].size)
         /\ ~(new > d.off) => new = d.off
<1> DEFINE f == files[d.path]
<1>1. d \in ReaderType /\ d.path \in Paths
  BY DEF Shape, ReadersSane, Scan, ReaderAt
<1>2. f \in FileType /\ f.ends \in SUBSET (1..f.size)
  BY <1>1 DEF Shape, FilesSane
<1>3. f.size \in Nat /\ d.off \in Nat
  <2>1. f.size \in 0..MaxSize /\ d.off \in Offsets
    BY <1>1, <1>2 DEF FileType, ReaderType
  <2>2. d.off \in Nat
    BY <2>1, Bounds
  <2>3. MaxSize \in Nat
    BY Bounds
  <2> HIDE DEF f
  <2>4. f.size \in Nat
    BY <2>1, <2>3
  <2> QED
    BY <2>2, <2>4 DEF f
<1>4. ObsoleteMaxReadCount <= 0 \/ f.size \in f.ends \cup {0}
  BY <1>1 DEF Rested, WholeFiles
<1> HIDE DEF f
<1>5. new \in f.ends \cup {d.off} /\ (new = d.off \/ new > d.off)
  BY <1>2, <1>3, <1>4, OffsetFacts DEF f
<1>6. ~(d.off > d.off) /\ \A e \in f.ends : ~(e > f.size)
  BY <1>2, <1>3
<1> QED
  BY <1>5, <1>6 DEF f

LEMMA SendRests == ASSUME Shape, Shape', Rested, NEW r \in Readers, Send(r) PROVE Rested'
<1>1. PICK d : d = readers[r]
  OBVIOUS
<1> DEFINE p == d.path
           b == [gen |-> d.gen, boot |-> boots, from |-> d.off, to |-> d.to]
<1>2. readers \in [Readers -> ReaderType] /\ d \in ReaderType /\ p \in Paths /\ d.pc = "send"
  BY <1>1 DEF Shape, ReadersSane, Send, ReaderAt
<1>3. /\ Rests(d.off, p) /\ d.gen = 1 /\ d.to = d.new
      /\ d.new \in files[p].ends /\ d.off < d.new
      /\ d.held # Live => Rests(d.held, p)
  BY <1>1, <1>2 DEF Rested, ReadersRest, Restful
<1>4. UNCHANGED <<files, disk, states>>
      /\ readers' = [readers EXCEPT ![r] = [d EXCEPT !.pc = "update"]]
      /\ sent' = [sent EXCEPT ![p] = Append(sent[p], b)]
  BY <1>1, <1>2 DEF Send
<1>5. sent \in [Paths -> Batches(boots)] /\ b.gen = 1 /\ b.from = d.off /\ b.to = d.new
  BY <1>3 DEF Shape, HistorySane
<1> HIDE DEF b
<1>6. /\ \A q \in Paths : q # p => sent'[q] = sent[q]
      /\ sent'[p] = Append(sent[p], b)
  BY <1>2, <1>4, <1>5
<1>7. /\ DOMAIN sent[p] = 1..Len(sent[p]) /\ Len(sent[p]) \in Nat
      /\ DOMAIN sent'[p] = 1..(Len(sent[p]) + 1)
      /\ sent'[p][Len(sent[p]) + 1] = b
      /\ \A i \in 1..Len(sent[p]) : sent'[p][i] = sent[p][i]
  <2>1. PICK S : sent[p] \in Seq(S) /\ b \in S
    <3>1. PICK S : sent[p] \in Seq(S)
      BY <1>2, <1>5 DEF Batches
    <3>2. Seq(S) \subseteq Seq(S \cup {b})
      OBVIOUS
    <3> QED
      BY <3>1, <3>2
  <2> QED
    BY <1>6, <2>1, AppendProperties, LenProperties
<1>8. Growth
  BY <1>4, <1>6, <1>7 DEF Growth
<1>9. Fixed' /\ WholeFiles'
  BY <1>4 DEF Rested, Fixed, WholeFiles
<1>10. OffsetsRest'
  BY <1>4, <1>8, OffsetsRestKept DEF Rested
<1>11. SentWhole'
  <2>1. b.gen = 1 /\ b.from \in files[p].ends \cup {0} /\ b.to \in files[p].ends
    <3>1. d.off # NoState
      BY <1>2, Bounds DEF ReaderType
    <3> QED
      BY <1>3, <1>5, <3>1 DEF Rests
  <2>2. \A i \in DOMAIN sent'[p] : i \in DOMAIN sent[p] \/ i = Len(sent[p]) + 1
    BY <1>7
  <2> QED
    BY <1>4, <1>6, <1>7, <2>1, <2>2 DEF SentWhole, Rested
<1>12. Rests(d.new, p)'
  <2>1. ASSUME NEW x \in 0..(MaxSize - 1), x < d.new, x < files[p].size
        PROVE  HandedOver(p, x)'
    <3>1. CASE x < d.off
      <4>1. Rests(d.off, p)'
        BY <1>2, <1>3, <1>8, RestsKept
      <4> QED
        BY <1>4, <2>1, <3>1, <4>1 DEF Rests, Covered
    <3>2. CASE ~(x < d.off)
      <4>1. d.off <= x
        <5>0. MaxSize \in Nat
          BY Bounds
        <5>1. x \in Int
          BY <2>1, <5>0
        <5>2. d.off \in Offsets
          BY <1>2 DEF ReaderType
        <5>3. d.off \in Nat
          BY <5>2, Bounds
        <5> QED
          BY <3>2, <5>1, <5>3
      <4>2. Len(sent[p]) + 1 \in DOMAIN sent'[p]
        BY <1>7
      <4>3. files'[p].gen = 1
        BY <1>2, <1>9 DEF Fixed
      <4> QED
        BY <1>5, <1>7, <2>1, <4>1, <4>2, <4>3 DEF HandedOver
    <3> QED
      BY <3>1, <3>2
  <2> QED
    BY <1>3, <1>4, <2>1 DEF Rests, Covered
<1>13. ReadersRest'
  <2>1. PICK e : e = [d EXCEPT !.pc = "update"]
    OBVIOUS
  <2>2. e.pc = "update" /\ e.path = p /\ e.held = d.held /\ e.off = d.off /\ e.new = d.new
    BY <1>2, <2>1 DEF ReaderType
  <2>3. Rests(d.off, p)' /\ (d.held # Live => Rests(d.held, p)')
    BY <1>2, <1>3, <1>8, RestsKept
  <2>4. Restful(e)'
    BY <1>12, <2>2, <2>3 DEF Restful
  <2> QED
    BY <1>4, <1>8, <2>1, <2>4, OneReaderRests DEF Rested
<1> QED
  BY <1>9, <1>10, <1>11, <1>13 DEF Rested

LEMMA ReaderRests == ASSUME Shape, Shape', Rested, NEW r \in Readers, ReaderStep(r) PROVE Rested'
<1>1. PICK d : d = readers[r]
  OBVIOUS
<1>2. readers \in [Readers -> ReaderType] /\ d \in ReaderType
      /\ (d.pc # "idle" => d.path \in Paths) /\ Restful(d)
  BY <1>1 DEF Shape, ReadersSane, Rested, ReadersRest
<1>3. ASSUME UNCHANGED <<files, sent, disk, states>>, NEW e, Restful(e),
             e.pc = "idle" \/ e.path \in Paths, readers' = [readers EXCEPT ![r] = e]
      PROVE  Rested'
  <2>1. Growth /\ Fixed' /\ WholeFiles' /\ SentWhole'
    BY <1>3, StillFiles DEF Rested
  <2>2. OffsetsRest'
    BY <1>3, <2>1, OffsetsRestKept DEF Rested
  <2>3. ReadersRest'
    BY <1>3, <2>1, RestfulKept, OneReaderRests DEF Rested
  <2> QED
    BY <2>1, <2>2, <2>3 DEF Rested
<1>4. NoReader.pc = "idle" /\ Restful(NoReader)
  BY Blanks DEF Restful
<1>5. ASSUME UNCHANGED <<files, sent, disk, states>>, NEW l \in {"claim", "load", "leave"},
             d.pc # "idle", readers' = [readers EXCEPT ![r].pc = l]
      PROVE  Rested'
  <2>1. PICK e : e = [d EXCEPT !.pc = l]
    OBVIOUS
  <2>2. readers' = [readers EXCEPT ![r] = e]
    BY <1>1, <1>2, <1>5, <2>1
  <2>3. e.pc = l /\ e.path = d.path /\ e.held = d.held
    BY <1>2, <2>1 DEF ReaderType
  <2>4. Restful(e)
    BY <1>2, <1>5, <2>3 DEF Restful
  <2> QED
    BY <1>2, <1>3, <1>5, <2>2, <2>3, <2>4
<1>6. CASE Acquire(r)
  BY <1>1, <1>5, <1>6 DEF Acquire, ReaderAt
<1>7. CASE Claim(r)
  BY <1>1, <1>3, <1>4, <1>5, <1>7 DEF Claim, ReaderAt
<1>8. CASE Panic
  BY <1>8, DieRests DEF Panic
<1>9. CASE Load(r) /\ ~Panic
  <2>1. PICK known : known = IF d.held = Live THEN states[d.path] ELSE d.held
    OBVIOUS
  <2>2. PICK e : e = [d EXCEPT !.pc = "scan", !.held = Live, !.off = known]
    OBVIOUS
  <2>3. /\ d.pc = "load" /\ readers' = [readers EXCEPT ![r] = e]
        /\ UNCHANGED <<files, sent, disk, states>>
    BY <1>1, <1>9, <2>1, <2>2 DEF Load, ReaderAt
  <2>4. Rests(known, d.path)
    BY <1>2, <2>1, <2>3 DEF Rested, OffsetsRest, Restful
  <2>5. e.pc = "scan" /\ e.path = d.path /\ e.held = Live /\ e.off = known
    BY <1>2, <2>2 DEF ReaderType
  <2>6. Restful(e)
    BY <2>4, <2>5 DEF Restful
  <2> QED
    BY <1>2, <1>3, <2>3, <2>5, <2>6
<1>10. CASE Scan(r)
  <2> DEFINE f == files[d.path]
  <2>0. d.pc = "scan" /\ UNCHANGED <<files, sent, disk, states>>
    BY <1>1, <1>10 DEF Scan, ReaderAt
  <2>1. CASE readers' = [readers EXCEPT ![r].pc = "leave"]
    BY <1>5, <2>0, <2>1
  <2>2. CASE ~(readers' = [readers EXCEPT ![r].pc = "leave"])
    <3>1. PICK new : new = IF d.kind = "event" THEN EventOffset(f, d.off)
                           ELSE ObsoleteOffset(f, d.off)
      OBVIOUS
    <3>2. PICK e : e = [d EXCEPT !.pc = IF new > d.off THEN "send" ELSE "update",
                                 !.new = new, !.gen = f.gen,
                                 !.to = IF new > f.size THEN f.size ELSE new]
      OBVIOUS
    <3>3. readers' = [readers EXCEPT ![r] = e]
      BY <1>1, <1>10, <2>2, <3>1, <3>2 DEF Scan
    <3>4. /\ new > d.off => new \in f.ends /\ ~(new > f.size)
          /\ ~(new > d.off) => new = d.off
      BY <1>1, <1>10, <3>1, ScanRests
    <3>5. Rests(d.off, d.path) /\ f.gen = 1 /\ (d.held # Live => Rests(d.held, d.path))
      BY <1>2, <2>0 DEF Restful, Rested, Fixed
    <3> HIDE DEF f
    <3>6. /\ e.path = d.path /\ e.held = d.held /\ e.off = d.off /\ e.new = new
          /\ e.gen = f.gen
      BY <1>2, <3>2 DEF ReaderType
    <3>7. CASE new > d.off
      <4>1. e.pc = "send" /\ e.to = new
        BY <1>2, <3>2, <3>4, <3>7 DEF ReaderType
      <4>2. d.off < new
        BY <3>7
      <4>3. Restful(e)
        BY <3>4, <3>5, <3>6, <3>7, <4>1, <4>2 DEF Restful, f
      <4> QED
        BY <1>2, <1>3, <2>0, <3>3, <3>6, <4>3
    <3>8. CASE ~(new > d.off)
      <4>1. e.pc = "update"
        BY <1>2, <3>2, <3>8 DEF ReaderType
      <4>2. Restful(e)
        BY <3>4, <3>5, <3>6, <3>8, <4>1 DEF Restful
      <4> QED
        BY <1>2, <1>3, <2>0, <3>3, <3>6, <4>2
    <3> QED
      BY <3>7, <3>8
  <2> QED
    BY <2>1, <2>2
<1>11. CASE Send(r)
  BY <1>11, SendRests
<1>12. CASE Update(r) /\ ~Panic
  <2>1. /\ states' = [states EXCEPT ![d.path] = d.new] /\ d.pc = "update"
        /\ readers' = [readers EXCEPT ![r].pc = "leave"]
        /\ UNCHANGED <<files, sent, disk>>
    BY <1>1, <1>12 DEF Update, ReaderAt
  <2>2. Growth /\ Fixed' /\ WholeFiles' /\ SentWhole'
    BY <2>1, StillFiles DEF Rested
  <2>3. OffsetsRest'
    <3>1. states \in [Paths -> MaybeOffset]
      BY DEF Shape, RestSane
    <3>2. \A p \in Paths : states'[p] = states[p] \/ (p = readers[r].path /\ states'[p] = readers[r].new)
      BY <1>1, <2>1, <3>1
    <3> QED
      BY <1>1, <2>1, <2>2, <3>2, OffsetsRestKept DEF Rested
  <2>4. ReadersRest'
    <3>1. PICK e : e = [d EXCEPT !.pc = "leave"]
      OBVIOUS
    <3>2. readers' = [readers EXCEPT ![r] = e]
      BY <1>1, <1>2, <2>1, <3>1
    <3>3. e.pc = "leave" /\ e.path = d.path /\ e.held = d.held
      BY <1>2, <3>1 DEF ReaderType
    <3>4. Restful(e)
      BY <1>2, <2>1, <3>3 DEF Restful
    <3>5. Restful(e)'
      BY <1>2, <2>1, <2>2, <3>3, <3>4, RestfulKept
    <3> QED
      BY <2>2, <3>2, <3>5, OneReaderRests DEF Rested
  <2> QED
    BY <2>2, <2>3, <2>4 DEF Rested
<1>13. CASE Leave(r)
  BY <1>3, <1>4, <1>13 DEF Leave
<1> QED
  BY <1>6, <1>7, <1>8, <1>9, <1>10, <1>11, <1>12, <1>13 DEF ReaderStep

(* The clocks: what they save is what is in the map. *)
LEMMA ClocksRest ==
  ASSUME Shape, Rested,
         ScanStep \/ Pick \/ (\E p \in Paths : Check(p))
           \/ (\E who : SaveOpen(who) \/ SaveWrite(who))
  PROVE  Rested'
<1>1. CASE Panic
  BY <1>1, DieRests DEF Panic
<1>2. CASE ~Panic
  <2>1. UNCHANGED <<files, sent>>
    BY <1>2 DEF ScanStep, ScanKeys, ScanWalk, ScanMerge, ClockSaveOpen, ClockSaveWrite,
       SaveOpen, SaveWrite, Pick, Check
  <2>2. Growth /\ Fixed' /\ WholeFiles' /\ SentWhole'
    BY <2>1, StillFiles DEF Rested
  <2>3. OffsetsRest'
    <3>1. \A p \in Paths : disk'[p] \in {disk[p], states[p], NoState}
      <4>1. disk' \in {disk, states, NoStates}
        BY <1>2 DEF ScanStep, ScanKeys, ScanWalk, ScanMerge, ClockSaveOpen, ClockSaveWrite,
           SaveOpen, SaveWrite, Pick, Check
      <4> QED
        BY <4>1 DEF NoStates
    <3>2. \A p \in Paths : states'[p] \in {states[p], 0, NoState}
      <4>1. states' = states \/ states' = [p \in Paths |-> Merged(p)]
        BY <1>2 DEF ScanStep, ScanKeys, ScanWalk, ScanMerge, ClockSaveOpen, ClockSaveWrite,
           SaveOpen, SaveWrite, Pick, Check
      <4> QED
        BY <4>1 DEF Merged
    <3> QED
      BY <2>2, <3>1, <3>2, OffsetsRestKept DEF Rested
  <2>4. ReadersRest'
    <3>1. CASE readers' = readers
      BY <2>2, <3>1, ReadersRestKept DEF Rested
    <3>2. ASSUME NEW gone, Detach(gone)
          PROVE  ReadersRest'
      BY <2>2, <3>2, DetachRests DEF Rested
    <3>3. ASSUME NEW p, NEW kind, NEW r \in Readers,
                 readers' = [readers EXCEPT ![r] = Started(p, kind)]
          PROVE  ReadersRest'
      BY <2>2, <3>3, FreshReaderRests DEF Rested
    <3>4. ScanMerge => ReadersRest'
      BY <1>2, <3>2 DEF ScanMerge
    <3>5. ASSUME NEW p \in Paths, Check(p)
          PROVE  ReadersRest'
      BY <1>2, <3>1, <3>3, <3>5 DEF Check
    <3>6. ScanKeys \/ ScanWalk \/ ClockSaveOpen \/ ClockSaveWrite \/ Pick => readers' = readers
      BY DEF ScanKeys, ScanWalk, ClockSaveOpen, ClockSaveWrite, SaveOpen, SaveWrite, Pick
    <3>7. (\E who : SaveOpen(who) \/ SaveWrite(who)) => readers' = readers
      BY DEF SaveOpen, SaveWrite
    <3> QED
      BY <3>1, <3>4, <3>5, <3>6, <3>7 DEF ScanStep
  <2> QED
    BY <2>2, <2>3, <2>4 DEF Rested
<1> QED
  BY <1>1, <1>2

LEMMA FailedSaveRests == ASSUME Shape, Rested, FailedSave PROVE Rested'
<1>1. UNCHANGED <<files, sent, disk, readers, states>>
  BY DEF FailedSave
<1>2. Growth /\ Fixed' /\ WholeFiles' /\ SentWhole'
  BY <1>1, StillFiles DEF Rested
<1> QED
  BY <1>1, <1>2, OffsetsRestKept, ReadersRestKept DEF Rested

LEMMA RestedKept ==
  ASSUME ~FilesMove, Whole, Shape, Shape', Rested, [Next]_vars
  PROVE  Rested'
<1>1. ASSUME NEW p \in Paths, Write(p) \/ Remove(p) \/ Truncate(p) \/ Create(p)
      PROVE  Rested'
  BY <1>1, WriteRests DEF Remove, Truncate, Create
<1>2. ASSUME UNCHANGED <<files, sent, disk, readers>>,
             \A p \in Paths : states'[p] \in {states[p], disk[p]}
      PROVE  Rested'
  <2>1. Growth /\ Fixed' /\ WholeFiles' /\ SentWhole'
    BY <1>2, StillFiles DEF Rested
  <2> QED
    BY <1>2, <2>1, OffsetsRestKept, ReadersRestKept DEF Rested
<1>3. CASE Boot
  BY <1>2, <1>3 DEF Boot, LoadDiskFile
<1>4. CASE UNCHANGED vars
  BY <1>2, <1>4 DEF vars
<1>5. CASE SyncOpen \/ SyncWrite
  BY <1>5, ClocksRest DEF SyncOpen, SyncWrite
<1>6. CASE ClockSaveFails \/ SyncFails
  BY <1>6, SavesThatFail, FailedSaveRests, DieRests DEF GivesUp
<1> QED
  BY <1>1, <1>3, <1>4, <1>5, <1>6, HandleRests, ReaderRests, ClocksRest DEF Next

LEMMA InitRested == ~FilesMove /\ Init => Rested
<1> SUFFICES ASSUME ~FilesMove, Init
             PROVE  Rested
  OBVIOUS
<1>1. \A p \in Paths : files[p] = NewFile
  BY DEF Init
<1>2. \A p \in Paths : files[p].there /\ files[p].gen = 1 /\ files[p].size = 0
  BY <1>1 DEF NewFile
<1>3. \A p \in Paths : states[p] = NoState /\ disk[p] = NoState /\ sent[p] = <<>>
  BY DEF Init, NoStates
<1>4. \A r \in Readers : readers[r].pc = "idle"
  BY Blanks DEF Init
<1>5. OffsetsRest
  BY <1>3, RestsAtStart DEF OffsetsRest
<1>6. ReadersRest
  BY <1>4 DEF ReadersRest, Restful
<1>7. DOMAIN <<>> = {}
  OBVIOUS
<1>8. SentWhole
  BY <1>3, <1>7 DEF SentWhole
<1> QED
  BY <1>2, <1>5, <1>6, <1>8 DEF Rested, Fixed, WholeFiles

LEMMA RestedGives == Rested => NothingSkipped /\ WholeLines
BY DEF Rested, OffsetsRest, Rests, NothingSkipped, SentWhole, WholeLines

LEMMA RestedInvariant ==
  ASSUME ~FilesMove, Whole
  PROVE  Spec => [](Shape /\ Rested)
<1>1. Init => Shape /\ Rested
  BY InitShape, InitRested
<1>2. Shape /\ Rested /\ [Next]_vars => (Shape /\ Rested)'
  BY ShapeKept, RestedKept
<1> QED
  BY <1>1, <1>2, PTL DEF Spec

(* No offset, in memory or in the state file, ever gets past anything the  *)
(* consumer was not given, whatever fails: with files that are neither     *)
(* truncated nor removed, and lines that are written at once or read for   *)
(* events only.                                                            *)
THEOREM NothingIsSkipped ==
  ASSUME ~FilesMove, Whole
  PROVE  Spec => []NothingSkipped
BY RestedInvariant, RestedGives, PTL

(* With the same files, all that is handed over begins after a newline and *)
(* ends at one.                                                            *)
THEOREM OnlyWholeLines ==
  ASSUME ~FilesMove, Whole
  PROVE  Spec => []WholeLines
BY RestedInvariant, RestedGives, PTL
-----------------------------------------------------------------------------
(* Nothing is dereferenced that is gone, no offset goes back and the lines *)
(* of a file come in order, as long as files stay and the directories can  *)
(* be listed.  The reason is that the scan before the first event gives    *)
(* every file a state and nothing takes one away: the map has all files    *)
(* whenever it matters.  Reads and saves may fail.                         *)

(* FetchDirectory lists the files; after an error it lists none, and all   *)
(* states are deleted.                                                     *)
Lists == ScanWalk => clock'.walked = There
WalksSucceed == [][Lists]_vars

(* A run without faults has no failed walk.                                *)
LEMMA FaultlessWalks ==
  ASSUME MaxFaults = 0
  PROVE  Spec => WalksSucceed
<1>1. Shape /\ [Next]_vars => [Lists]_vars
  <2> SUFFICES ASSUME Shape, ScanWalk
               PROVE  clock'.walked = There
    BY DEF Lists
  <2>1. faults \in 0..0 /\ clock \in ClockType
    BY DEF Shape, RestSane, HistorySane
  <2>2. ~Fault
    BY <2>1 DEF Fault
  <2>3. clock' = [clock EXCEPT !.pc = "merge", !.walked = There]
    BY <2>2 DEF ScanWalk
  <2> QED
    BY <2>1, <2>3 DEF ClockType
<1> QED
  BY <1>1, InitShape, ShapeKept, PTL DEF Spec, WalksSucceed

Writes == \A i \in DOMAIN events : events[i].op = "write"
Resting == /\ phase # "up" => \A r \in Readers : readers[r].pc = "idle"
           /\ phase = "down" => clock.pc = "idle"
           /\ phase = "boot" => clock.pc \in {"idle", "walk", "merge", "save", "write"}
Knowing == /\ phase = "up" \/ clock.pc \in {"save", "write"} => Known = Paths
           /\ clock.pc \in {"walk", "merge"} => clock.keys = Known
           /\ clock.pc = "merge" => clock.walked = Paths
Attached == \A r \in Readers : readers[r].held = Live

Calm == Fixed /\ Writes /\ Resting /\ Knowing /\ Attached /\ ~panicked

LEMMA NoPanicLoad ==
  ASSUME Shape, Calm, NEW r \in Readers, phase = "up", readers[r].pc # "idle"
  PROVE  readers[r].held = Live /\ states[readers[r].path] # NoState
BY DEF Shape, ReadersSane, Calm, Attached, Knowing, Known

(* What the handlers, the readers and the clock do to map and readers.     *)
LEMMA HandleCalm ==
  ASSUME Shape, Calm, Handle
  PROVE  /\ HandleWrite
         /\ UNCHANGED states
         /\ \E p \in Paths, r \in Readers :
              /\ readers[r].pc = "idle"
              /\ readers' = [readers EXCEPT ![r] = Started(p, "event")]
         /\ Writes'
<1>1. events \in Seq(EventType) /\ events # <<>> /\ phase = "up" /\ events' = Tail(events)
  BY DEF Shape, RestSane, Handle, HandleWrite, HandleCreate, HandleRemove, Handling
<1>2. /\ Head(events) = events[1] /\ 1 \in DOMAIN events
      /\ \A i \in DOMAIN Tail(events) : i + 1 \in DOMAIN events /\ Tail(events)[i] = events[i + 1]
  BY <1>1, EmptySeq, LenProperties, HeadTailProperties
<1>3. Head(events).op = "write" /\ Writes'
  BY <1>1, <1>2 DEF Calm, Writes
<1>4. HandleWrite
  BY <1>3 DEF Handle, HandleCreate, HandleRemove, Handling
<1>5. Head(events).path \in Paths
  BY HandlingSane DEF Handle, HandleWrite, HandleCreate, HandleRemove
<1>6. UNCHANGED states
  <2>1. states[Head(events).path] # NoState /\ states \in [Paths -> MaybeOffset]
    BY <1>1, <1>5 DEF Calm, Knowing, Known, Shape, RestSane
  <2> QED
    BY <1>4, <2>1 DEF HandleWrite
<1> QED
  BY <1>3, <1>4, <1>5, <1>6 DEF HandleWrite

LEMMA MergeCalm ==
  ASSUME Shape, Calm, ScanMerge
  PROVE  /\ UNCHANGED <<readers, panicked>> /\ clock' = [NoClock EXCEPT !.pc = "save"]
         /\ \A p \in Paths : states'[p] # NoState /\ (p \in Known => states'[p] = states[p])
<1>1. clock.pc = "merge" /\ phase # "down" /\ clock.walked = Paths /\ clock.keys = Known
  BY DEF ScanMerge, ClockAt, Calm, Knowing
<1>2. Known \subseteq Paths
  BY DEF Known
<1>3. /\ states' = [p \in Paths |-> Merged(p)]
      /\ Detach((Paths \ Known) \cup (Known \ Paths))
      /\ clock' = [NoClock EXCEPT !.pc = "save"]
      /\ UNCHANGED panicked
  BY <1>1, <1>2 DEF ScanMerge
<1>4. \A p \in Paths : Merged(p) = IF p \in Known THEN states[p] ELSE 0
  BY <1>1, <1>2 DEF Merged
<1>5. \A p \in Known : states[p] # NoState
  BY DEF Known
<1>6. UNCHANGED readers
  <2>1. readers \in [Readers -> ReaderType]
    BY DEF Shape, ReadersSane
  <2>2. ASSUME NEW r \in Readers
        PROVE  ~(Unread(readers[r]) /\ readers[r].path \in (Paths \ Known) \cup (Known \ Paths))
    <3>1. CASE phase = "up"
      BY <1>2, <3>1 DEF Calm, Knowing
    <3>2. CASE phase # "up"
      BY <3>2 DEF Calm, Resting, Unread
    <3> QED
      BY <3>1, <3>2
  <2>3. readers' = [r \in Readers |-> readers[r]]
    BY <1>3, <2>2 DEF Detach
  <2> QED
    BY <2>1, <2>3
<1>7. 0 # NoState
  BY DEF NoState
<1> QED
  BY <1>3, <1>4, <1>5, <1>6, <1>7

LEMMA CheckCalm ==
  ASSUME Shape, Calm, NEW p \in Paths, Check(p)
  PROVE  /\ phase = "up" /\ UNCHANGED <<files, events, phase, states, history>>
         /\ clock'.pc \in {"idle", "check"}
         /\ \/ UNCHANGED readers
            \/ \E r \in Readers : /\ readers[r].pc = "idle"
                                  /\ readers' = [readers EXCEPT ![r] = Started(p, "old")]
<1>1. phase = "up" /\ clock.pc = "check" /\ clock \in ClockType
  BY DEF Check, ClockAt, Calm, Resting, Shape, RestSane
<1>2. states[p] # NoState
  BY <1>1 DEF Calm, Knowing, Known
<1>3. [clock EXCEPT !.todo = @ \ {p}].pc = "check" /\ NoClock.pc = "idle"
  BY <1>1 DEF ClockType, NoClock
<1> QED
  BY <1>1, <1>2, <1>3 DEF Check

LEMMA ReaderCalm ==
  ASSUME Shape, Calm, NEW r \in Readers, ReaderStep(r)
  PROVE  /\ phase = "up" /\ UNCHANGED <<files, events, phase, clock, boots, panicked>>
         /\ \E d : readers' = [readers EXCEPT ![r] = d] /\ d.held = Live
         /\ \/ UNCHANGED states
            \/ /\ readers[r].pc = "update"
               /\ states' = [states EXCEPT ![readers[r].path] = readers[r].new]
<1> DEFINE d == readers[r]
<1>0. readers \in [Readers -> ReaderType] /\ d \in ReaderType /\ d.held = Live
      /\ phase = "up" /\ d.pc # "idle" /\ states[d.path] # NoState
  BY NoPanicLoad DEF Shape, ReadersSane, Calm, Attached, ReaderStep, Acquire, Claim, Load,
     Scan, Send, Update, Leave, ReaderAt
<1>1. /\ UNCHANGED <<files, events, phase, clock, boots, panicked>>
      /\ \/ UNCHANGED states
         \/ d.pc = "update" /\ states' = [states EXCEPT ![d.path] = d.new]
  BY <1>0 DEF ReaderStep, Acquire, Claim, Load, Scan, Send, Update, Leave, ReaderAt
<1>2. ASSUME NEW l, readers' = [readers EXCEPT ![r].pc = l]
      PROVE  \E e : readers' = [readers EXCEPT ![r] = e] /\ e.held = Live
  <2>1. readers' = [readers EXCEPT ![r] = [d EXCEPT !.pc = l]]
    BY <1>0, <1>2
  <2>2. [d EXCEPT !.pc = l].held = Live
    BY <1>0 DEF ReaderType
  <2> QED
    BY <2>1, <2>2
<1>3. CASE readers' = [readers EXCEPT ![r] = NoReader]
  <2>1. NoReader.held = Live
    BY DEF NoReader
  <2> QED
    BY <1>0, <1>1, <1>3, <2>1
<1>4. CASE Acquire(r) \/ Claim(r) \/ Send(r) \/ Update(r) \/ Leave(r)
  <2>1. \/ \E l : readers' = [readers EXCEPT ![r].pc = l]
        \/ readers' = [readers EXCEPT ![r] = NoReader]
    BY <1>0, <1>4 DEF Acquire, Claim, Send, Update, Leave
  <2> QED
    BY <1>0, <1>1, <1>2, <1>3, <2>1
<1>5. CASE Load(r)
  <2>1. PICK e : e = [d EXCEPT !.pc = "scan", !.held = Live, !.off = states[d.path]]
    OBVIOUS
  <2>2. readers' = [readers EXCEPT ![r] = e]
    BY <1>0, <1>5, <2>1 DEF Load
  <2>3. e.held = Live
    BY <1>0, <2>1 DEF ReaderType
  <2> QED
    BY <1>0, <1>1, <2>2, <2>3
<1>6. CASE Scan(r)
  <2>1. CASE readers' = [readers EXCEPT ![r].pc = "leave"]
    BY <1>0, <1>1, <1>2, <2>1
  <2>2. CASE ~(readers' = [readers EXCEPT ![r].pc = "leave"])
    <3> DEFINE f == files[d.path]
    <3>1. PICK new : new = IF d.kind = "event" THEN EventOffset(f, d.off)
                           ELSE ObsoleteOffset(f, d.off)
      OBVIOUS
    <3>2. PICK e : e = [d EXCEPT !.pc = IF new > d.off THEN "send" ELSE "update",
                                 !.new = new, !.gen = f.gen,
                                 !.to = IF new > f.size THEN f.size ELSE new]
      OBVIOUS
    <3>3. readers' = [readers EXCEPT ![r] = e]
      BY <1>6, <2>2, <3>1, <3>2 DEF Scan
    <3>4. e.held = Live
      BY <1>0, <3>2 DEF ReaderType
    <3> QED
      BY <1>0, <1>1, <3>3, <3>4
  <2> QED
    BY <2>1, <2>2
<1> QED
  BY <1>4, <1>5, <1>6 DEF ReaderStep

LEMMA WriteCalm ==
  ASSUME Shape, Fixed, Writes, NEW p \in Paths, Write(p)
  PROVE  Fixed' /\ Writes' /\ UNCHANGED <<phase, states, readers, clock, panicked, sent, boots>>
<1>1. Fixed'
  <2>1. files \in [Paths -> FileType]
    BY DEF Shape, FilesSane
  <2>2. PICK size, ends : files' = [files EXCEPT ![p] = [files[p] EXCEPT !.size = size, !.ends = ends]]
    BY <2>1 DEF Write
  <2>3. files'[p].there = files[p].there /\ files'[p].gen = files[p].gen
    BY <2>1, <2>2 DEF FileType
  <2>4. \A q \in Paths : q # p => files'[q] = files[q]
    BY <2>1, <2>2
  <2> QED
    BY <2>3, <2>4 DEF Fixed
<1>2. Writes'
  <2>1. events \in Seq(EventType)
    BY DEF Shape, RestSane
  <2>2. PICK e : e = Event("write", p)
    OBVIOUS
  <2>3. e.op = "write" /\ e \in EventType
    BY <2>2 DEF Event, EventType, EventOps
  <2>4. events' \in {events, Append(events, e)}
    BY <2>2 DEF Write, Notify
  <2>5. \A i \in DOMAIN Append(events, e) :
          \/ i \in DOMAIN events /\ Append(events, e)[i] = events[i]
          \/ Append(events, e)[i] = e
    BY <2>1, <2>3, AppendProperties, LenProperties
  <2> QED
    BY <2>3, <2>4, <2>5 DEF Writes
<1> QED
  BY <1>1, <1>2 DEF Write, Outside

(* The end of a process takes its readers and its map along; a save, and   *)
(* one that fails, only touches the lock, the state file and the clock.    *)
LEMMA DieCalm == ASSUME Calm, Die, UNCHANGED panicked PROVE Calm'
<1>1. \A r \in Readers : readers'[r].pc = "idle" /\ readers'[r].held = Live
  BY DEF Die, NoReader
<1>2. phase' = "down" /\ clock'.pc = "idle" /\ events' = <<>> /\ UNCHANGED files
  BY DEF Die, NoClock
<1>3. DOMAIN <<>> = {}
  OBVIOUS
<1>4. Writes'
  BY <1>2, <1>3 DEF Writes
<1>5. Resting' /\ Knowing' /\ Attached'
  BY <1>1, <1>2 DEF Resting, Knowing, Attached
<1> QED
  BY <1>2, <1>4, <1>5 DEF Calm, Fixed

LEMMA FailedSaveCalm == ASSUME Shape, Calm, FailedSave PROVE Calm'
<1>1. clock'.pc \in {clock.pc, "pick"} /\ clock'.keys = clock.keys /\ clock'.walked = clock.walked
  BY DEF FailedSave, Shape, RestSane, ClockType
<1>2. phase = "up" /\ UNCHANGED <<files, events, phase, states, readers, panicked>>
  BY DEF FailedSave
<1> QED
  BY <1>1, <1>2 DEF Calm, Fixed, Writes, Resting, Knowing, Known, Attached

LEMMA CalmKept ==
  ASSUME ~FilesMove, Shape, Calm, [Next]_vars, [Lists]_vars
  PROVE  Calm'
<1>0. readers \in [Readers -> ReaderType] /\ states \in [Paths -> MaybeOffset]
      /\ clock \in ClockType
  BY DEF Shape, ReadersSane, RestSane
<1>1. ASSUME NEW p \in Paths, Write(p)
      PROVE  Calm'
  BY <1>1, WriteCalm DEF Calm, Resting, Knowing, Known, Attached
<1>2. ASSUME NEW p \in Paths
      PROVE  ~Remove(p) /\ ~Truncate(p) /\ ~Create(p)
  BY DEF Remove, Truncate, Create
<1>3. CASE Boot
  BY <1>3 DEF Boot, Calm, Fixed, Writes, Resting, Knowing, Known, Attached
<1>4. ASSUME NEW p, NEW kind, NEW r \in Readers,
             readers' = [readers EXCEPT ![r] = Started(p, kind)]
      PROVE  Attached'
  <2>1. Started(p, kind).held = Live
    BY DEF Started, NoReader
  <2> QED
    BY <1>0, <1>4, <2>1 DEF Calm, Attached
<1>5. CASE Handle
  <2>1. Attached' /\ Writes' /\ UNCHANGED states
    BY <1>4, <1>5, HandleCalm
  <2>2. phase = "up" /\ UNCHANGED <<files, phase, clock, panicked>>
    BY <1>5 DEF Handle, HandleWrite, HandleCreate, HandleRemove, Handling
  <2> QED
    BY <2>1, <2>2 DEF Calm, Fixed, Resting, Knowing, Known
<1>6. ASSUME NEW r \in Readers, ReaderStep(r)
      PROVE  Calm'
  <2>1. phase = "up" /\ UNCHANGED <<files, events, phase, clock, panicked>>
    BY <1>6, ReaderCalm
  <2>2. Attached'
    <3>1. PICK d : readers' = [readers EXCEPT ![r] = d] /\ d.held = Live
      BY <1>6, ReaderCalm
    <3> QED
      BY <1>0, <3>1 DEF Calm, Attached
  <2>3. Known = Paths /\ Known' = Paths
    <3>1. readers[r].new # NoState
      BY <1>0, Bounds DEF ReaderType
    <3>2. \A p \in Paths : states[p] # NoState
      BY <2>1 DEF Calm, Knowing, Known
    <3>3. \A p \in Paths : states'[p] # NoState
      BY <1>0, <1>6, <3>1, <3>2, ReaderCalm
    <3> QED
      BY <3>2, <3>3 DEF Known
  <2> QED
    BY <2>1, <2>2, <2>3 DEF Calm, Fixed, Writes, Resting, Knowing
<1>7. CASE ScanKeys
  <2>1. clock'.pc = "walk" /\ clock'.keys = Known /\ UNCHANGED <<states, phase>>
        /\ phase \in {"boot", "up"}
    BY <1>7 DEF ScanKeys, NoClock, ClockAt, Shape, RestSane
  <2>2. Known' = Known
    BY <2>1 DEF Known
  <2>3. Resting' /\ Knowing'
    BY <1>7, <2>1, <2>2 DEF Calm, Resting, Knowing, ScanKeys
  <2> QED
    BY <1>7, <2>3 DEF ScanKeys, Calm, Fixed, Writes, Attached
<1>8. CASE ScanWalk
  <2>0. clock.pc = "walk" /\ phase \in {"boot", "up"}
    BY <1>8 DEF ScanWalk, ClockAt, Shape, RestSane
  <2>1. There = Paths
    BY DEF There, Calm, Fixed
  <2>2. clock'.pc = "merge" /\ clock'.keys = clock.keys
    BY <1>0, <1>8 DEF ScanWalk, ClockType
  <2>3. clock'.walked = Paths
    <3>1. ~UNCHANGED vars
      BY <2>0, <2>2 DEF vars
    <3> QED
      BY <1>8, <2>1, <3>1 DEF Lists
  <2>4. UNCHANGED <<states, phase, readers>>
    BY <1>8 DEF ScanWalk
  <2>5. Known' = Known /\ Known = clock.keys
    BY <2>0, <2>4 DEF Calm, Knowing, Known
  <2>6. Resting' /\ Knowing'
    BY <2>0, <2>2, <2>3, <2>4, <2>5 DEF Calm, Resting, Knowing
  <2> QED
    BY <1>8, <2>6 DEF ScanWalk, Calm, Fixed, Writes, Attached
<1>9. CASE ScanMerge
  <2>1. UNCHANGED <<readers, panicked>> /\ clock'.pc = "save" /\ phase \in {"boot", "up"}
    BY <1>9, MergeCalm DEF NoClock, ScanMerge, ClockAt, Shape, RestSane
  <2>2. Known' = Paths
    BY <1>9, MergeCalm DEF Known
  <2>3. UNCHANGED <<files, events, phase>>
    <3>1. ~Panic
      BY <2>1 DEF Panic, Calm
    <3> QED
      BY <1>9, <3>1 DEF ScanMerge
  <2> QED
    BY <2>1, <2>2, <2>3 DEF Calm, Fixed, Writes, Resting, Knowing, Attached
<1>10. CASE ClockSaveOpen
  <2>1. clock'.pc = "write" /\ clock.pc = "save" /\ phase \in {"boot", "up"}
    BY <1>0, <1>10 DEF ClockSaveOpen, ClockAt, ClockType, Shape, RestSane
  <2>2. UNCHANGED <<files, events, phase, states, readers, panicked>>
    BY <1>10 DEF ClockSaveOpen, SaveOpen
  <2> QED
    BY <2>1, <2>2 DEF Calm, Fixed, Writes, Resting, Knowing, Known, Attached
<1>11. CASE ClockSaveWrite
  <2>1. /\ clock'.pc \in {"idle", "pick"} /\ clock.pc = "write" /\ phase' = "up"
    BY <1>0, <1>11 DEF ClockSaveWrite, ClockAt, ClockType, NoClock
  <2>2. UNCHANGED <<files, events, states, readers, panicked>>
    BY <1>11 DEF ClockSaveWrite, SaveWrite
  <2> QED
    BY <2>1, <2>2 DEF Calm, Fixed, Writes, Resting, Knowing, Known, Attached
<1>12. CASE SyncOpen \/ SyncWrite \/ UNCHANGED vars
  BY <1>12 DEF SyncOpen, SyncWrite, SaveOpen, SaveWrite, vars,
     Calm, Fixed, Writes, Resting, Knowing, Known, Attached
<1>13. CASE Pick
  <2>1. clock'.pc \in {"idle", "check"} /\ phase = "up"
    BY <1>13 DEF Pick, NoClock, ClockAt, Calm, Resting, Shape, RestSane
  <2>2. UNCHANGED <<files, events, phase, states, readers, panicked>>
    BY <1>13 DEF Pick
  <2> QED
    BY <2>1, <2>2 DEF Calm, Fixed, Writes, Resting, Knowing, Known, Attached
<1>14. ASSUME NEW p \in Paths, Check(p)
       PROVE  Calm'
  <2>1. /\ phase = "up" /\ UNCHANGED <<files, events, phase, states, panicked>>
        /\ clock'.pc \in {"idle", "check"}
    BY <1>14, CheckCalm
  <2>2. Attached'
    BY <1>4, <1>14, CheckCalm DEF Calm, Attached
  <2> QED
    BY <2>1, <2>2 DEF Calm, Fixed, Writes, Resting, Knowing, Known
<1>15. CASE ClockSaveFails \/ SyncFails
  BY <1>15, SavesThatFail, FailedSaveCalm, DieCalm DEF GivesUp
<1> QED
  BY <1>1, <1>2, <1>3, <1>5, <1>6, <1>7, <1>8, <1>9, <1>10, <1>11, <1>12, <1>13, <1>14, <1>15
  DEF Next, ScanStep

LEMMA InitCalm == ~FilesMove /\ Init => Calm
<1> SUFFICES ASSUME ~FilesMove, Init
             PROVE  Calm
  OBVIOUS
<1>1. \A p \in Paths : files[p] = NewFile
  BY DEF Init
<1>2. Fixed
  BY <1>1 DEF Fixed, NewFile
<1>3. \A r \in Readers : readers[r].pc = "idle" /\ readers[r].held = Live
  BY DEF Init, NoReader
<1>4. clock.pc = "idle" /\ phase = "down" /\ ~panicked
  BY DEF Init, NoClock
<1>5. Writes
  <2>1. DOMAIN <<>> = {}
    OBVIOUS
  <2> QED
    BY <2>1 DEF Init, Writes
<1> QED
  BY <1>2, <1>3, <1>4, <1>5 DEF Calm, Resting, Knowing, Attached

(* No reader and no clock dereferences a state that is gone, as long as    *)
(* files stay and every directory can be listed; opening, reading and      *)
(* saving may fail.                                                        *)
THEOREM NeverDereferencesNil ==
  ASSUME ~FilesMove
  PROVE  Spec /\ WalksSucceed => []NeverPanics
<1>1. Init => Shape /\ Calm
  BY InitShape, InitCalm
<1>2. Shape /\ Calm /\ [Next]_vars /\ [Lists]_vars => (Shape /\ Calm)'
  BY ShapeKept, CalmKept
<1>3. Calm => NeverPanics
  BY DEF Calm, NeverPanics
<1> QED
  BY <1>1, <1>2, <1>3, PTL DEF Spec, WalksSucceed

(* The reader of a file starts where the map says, which nobody else       *)
(* changes, and what this process handed over of the file ends before that *)
(* or, until the map is told, where the reader stopped.                    *)
Behind(p, o) ==
  \A i \in DOMAIN sent[p] : sent[p][i].boot = boots => sent[p][i].to <= o

Current(d) ==
  /\ d.pc \in {"scan", "send", "update"} => d.off = states[d.path]
  /\ d.pc \in {"send", "update"} => d.off <= d.new /\ d.to <= d.new
  /\ d.pc = "update" => Behind(d.path, d.new)

Updated(p) == \E r \in Readers : readers[r].pc = "update" /\ readers[r].path = p

Paced ==
  /\ \A r \in Readers : Current(readers[r])
  /\ phase = "up" => \A p \in Paths : Updated(p) \/ Behind(p, states[p])
  /\ phase = "boot" => \A p \in Paths : \A i \in DOMAIN sent[p] : sent[p][i].boot # boots
  /\ phase = "down" => Known = {}
  /\ LinesInOrder

LEMMA SameBehind ==
  ASSUME UNCHANGED <<sent, boots>>, NEW p, NEW o, Behind(p, o)
  PROVE  Behind(p, o)'
BY DEF Behind

(* A step that changes neither offsets nor what was sent, and no reader    *)
(* that has loaded its offset.                                             *)
LEMMA QuietPaced ==
  ASSUME Shape, Paced, UNCHANGED <<states, sent, boots, phase>>,
         \A r \in Readers :
           \/ readers'[r] = readers[r]
           \/ /\ readers[r].pc # "update"
              /\ readers'[r].pc \notin {"scan", "send", "update"}
  PROVE  Paced'
<1>1. ASSUME NEW r \in Readers
      PROVE  Current(readers[r])'
  <2>1. CASE readers'[r] = readers[r]
    BY <2>1, SameBehind DEF Paced, Current, Behind
  <2>2. CASE readers'[r].pc \notin {"scan", "send", "update"}
    BY <2>2 DEF Current
  <2> QED
    BY <2>1, <2>2
<1>2. ASSUME NEW p \in Paths, Updated(p)
      PROVE  Updated(p)'
  <2>1. PICK r \in Readers : readers[r].pc = "update" /\ readers[r].path = p
    BY <1>2 DEF Updated
  <2>2. readers'[r] = readers[r]
    BY <2>1
  <2> QED
    BY <2>1, <2>2 DEF Updated
<1>3. \A p \in Paths : Behind(p, states[p]) => Behind(p, states[p])'
  BY DEF Behind
<1>4. LinesInOrder => LinesInOrder'
  BY DEF LinesInOrder
<1>5. Known' = Known
  BY DEF Known
<1> QED
  BY <1>1, <1>2, <1>3, <1>4, <1>5 DEF Paced

(* Only one reader has loaded its offset of a file. *)
LEMMA OthersElsewhere ==
  ASSUME OneReaderPerFile, NEW r \in Readers, NEW s \in Readers, r # s,
         readers[r].pc \in AtWork, readers[s].pc \in AtWork
  PROVE  readers[s].path # readers[r].path
BY DEF OneReaderPerFile, Working, AtWork

(* A step of one reader that only it can see. *)
LEMMA OwnPaced ==
  ASSUME Shape, Paced, UNCHANGED <<states, sent, boots, phase>>, phase = "up",
         NEW r \in Readers, NEW d, readers' = [readers EXCEPT ![r] = d],
         readers[r].pc # "update", Current(d)
  PROVE  Paced'
<1>1. readers \in [Readers -> ReaderType]
  BY DEF Shape, ReadersSane
<1>2. readers'[r] = d /\ \A s \in Readers : s # r => readers'[s] = readers[s]
  BY <1>1
<1>3. Current(readers[r])'
  BY <1>2 DEF Current, Behind
<1>4. ASSUME NEW s \in Readers, s # r
      PROVE  Current(readers[s])'
  BY <1>2, <1>4 DEF Paced, Current, Behind
<1>5. ASSUME NEW p \in Paths, Updated(p)
      PROVE  Updated(p)'
  <2>1. PICK s \in Readers : readers[s].pc = "update" /\ readers[s].path = p
    BY <1>5 DEF Updated
  <2>2. readers'[s] = readers[s]
    BY <1>2, <2>1
  <2> QED
    BY <2>1, <2>2 DEF Updated
<1>6. \A p \in Paths : Behind(p, states[p]) => Behind(p, states[p])'
  BY DEF Behind
<1>7. LinesInOrder => LinesInOrder'
  BY DEF LinesInOrder
<1> QED
  BY <1>3, <1>4, <1>5, <1>6, <1>7 DEF Paced

LEMMA LoadPaced ==
  ASSUME Shape, Calm, Paced, NEW r \in Readers, Load(r)
  PROVE  Paced'
<1>1. PICK d : d = readers[r]
  OBVIOUS
<1>2. d \in ReaderType /\ phase = "up" /\ d.pc = "load" /\ d.held = Live
      /\ states[d.path] # NoState
  BY <1>1, NoPanicLoad DEF Shape, ReadersSane, Load, ReaderAt
<1>3. PICK e : e = [d EXCEPT !.pc = "scan", !.held = Live, !.off = states[d.path]]
  OBVIOUS
<1>4. readers' = [readers EXCEPT ![r] = e] /\ UNCHANGED <<states, sent, boots, phase>>
  BY <1>1, <1>2, <1>3 DEF Load
<1>5. e.pc = "scan" /\ e.path = d.path /\ e.off = states[d.path]
  BY <1>2, <1>3 DEF ReaderType
<1>6. Current(e)
  BY <1>5 DEF Current
<1> QED
  BY <1>1, <1>2, <1>4, <1>6, OwnPaced

LEMMA ScanPaced ==
  ASSUME Shape, OneReaderPerFile, Paced, NEW r \in Readers, Scan(r)
  PROVE  Paced'
<1>1. PICK d : d = readers[r]
  OBVIOUS
<1>2. d \in ReaderType /\ phase = "up" /\ d.pc = "scan" /\ Current(d) /\ d.path \in Paths
      /\ UNCHANGED <<states, sent, boots, phase>>
  BY <1>1 DEF Shape, ReadersSane, Scan, ReaderAt, Paced
<1>3. CASE readers' = [readers EXCEPT ![r].pc = "leave"]
  <2>1. PICK e : e = [d EXCEPT !.pc = "leave"]
    OBVIOUS
  <2>2. readers' = [readers EXCEPT ![r] = e] /\ e.pc = "leave"
    BY <1>1, <1>2, <1>3, <2>1 DEF ReaderType
  <2>3. Current(e)
    BY <2>2 DEF Current
  <2> QED
    BY <1>1, <1>2, <2>2, <2>3, OwnPaced
<1>4. CASE ~(readers' = [readers EXCEPT ![r].pc = "leave"])
  <2> DEFINE f == files[d.path]
  <2>1. PICK new : new = IF d.kind = "event" THEN EventOffset(f, d.off)
                         ELSE ObsoleteOffset(f, d.off)
    OBVIOUS
  <2>2. PICK e : e = [d EXCEPT !.pc = IF new > d.off THEN "send" ELSE "update",
                               !.new = new, !.gen = f.gen,
                               !.to = IF new > f.size THEN f.size ELSE new]
    OBVIOUS
  <2>3. readers' = [readers EXCEPT ![r] = e] /\ files[d.path].there
    BY <1>1, <1>4, <2>1, <2>2 DEF Scan
  <2>4. new \in Offsets /\ f.size \in Offsets /\ (new = d.off \/ new > d.off)
    BY <1>1, <2>1, <2>3, ScanFacts
  <2>5. d.off \in Nat /\ new \in Nat /\ f.size \in Nat
    <3>1. d.off \in Offsets
      BY <1>2 DEF ReaderType
    <3> QED
      BY <2>4, <3>1, Bounds
  <2> HIDE DEF f
  <2>6. /\ e.path = d.path /\ e.off = d.off /\ e.new = new
        /\ e.to = (IF new > f.size THEN f.size ELSE new)
        /\ e.pc = (IF new > d.off THEN "send" ELSE "update")
    BY <1>2, <2>2 DEF ReaderType
  <2>7. e.off <= e.new /\ e.to <= e.new /\ e.off = states[e.path]
    <3>1. e.off = states[e.path]
      BY <1>2, <2>6 DEF Current
    <3> QED
      BY <2>4, <2>5, <2>6, <3>1
  <2>8. e.pc = "update" => Behind(e.path, e.new)
    <3>1. ASSUME e.pc = "update"
          PROVE  e.new = states[e.path]
      BY <2>4, <2>5, <2>6, <2>7, <3>1
    <3>2. ~Updated(d.path)
      BY <1>1, <1>2, OthersElsewhere DEF Updated, AtWork
    <3>3. Behind(d.path, states[d.path])
      BY <1>2, <3>2 DEF Paced
    <3> QED
      BY <2>6, <3>1, <3>3
  <2>9. Current(e)
    BY <2>7, <2>8 DEF Current
  <2> QED
    BY <1>1, <1>2, <2>3, <2>9, OwnPaced
<1> QED
  BY <1>3, <1>4

LEMMA SendPaced ==
  ASSUME Shape, OneReaderPerFile, Paced, NEW r \in Readers, Send(r)
  PROVE  Paced'
<1>1. PICK d : d = readers[r]
  OBVIOUS
<1> DEFINE p == d.path
           b == [gen |-> d.gen, boot |-> boots, from |-> d.off, to |-> d.to]
<1>2. readers \in [Readers -> ReaderType] /\ d \in ReaderType /\ p \in Paths /\ d.pc = "send"
      /\ phase = "up" /\ Current(d)
  BY <1>1 DEF Shape, ReadersSane, Send, ReaderAt, Paced
<1>3. /\ d.off = states[p] /\ d.off <= d.new /\ d.to <= d.new
      /\ d.off \in Nat /\ d.new \in Nat /\ d.to \in Nat
  <2>1. d.off \in Offsets /\ d.new \in Offsets /\ d.to \in Offsets
    BY <1>2 DEF ReaderType
  <2> QED
    BY <1>2, <2>1, Bounds DEF Current
<1>4. UNCHANGED <<states, boots, phase>>
      /\ readers' = [readers EXCEPT ![r] = [d EXCEPT !.pc = "update"]]
      /\ sent' = [sent EXCEPT ![p] = Append(sent[p], b)]
  BY <1>1, <1>2 DEF Send
<1>5. sent \in [Paths -> Batches(boots)] /\ b.boot = boots /\ b.from = d.off /\ b.to = d.to
  BY DEF Shape, HistorySane
<1> HIDE DEF b
<1>6. /\ \A q \in Paths : q # p => sent'[q] = sent[q]
      /\ sent'[p] = Append(sent[p], b)
  BY <1>2, <1>4, <1>5
<1> DEFINE n == Len(sent[p])
<1>7. /\ DOMAIN sent[p] = 1..n /\ n \in Nat
      /\ DOMAIN sent'[p] = 1..(n + 1)
      /\ sent'[p][n + 1] = b
      /\ \A i \in 1..n : sent'[p][i] = sent[p][i]
  <2>1. PICK S : sent[p] \in Seq(S) /\ b \in S
    <3>1. PICK S : sent[p] \in Seq(S)
      BY <1>2, <1>5 DEF Batches
    <3>2. Seq(S) \subseteq Seq(S \cup {b})
      OBVIOUS
    <3> QED
      BY <3>1, <3>2
  <2> QED
    BY <1>6, <2>1, AppendProperties, LenProperties
<1> HIDE DEF n
<1>8. Behind(p, d.off) /\ \A i \in DOMAIN sent[p] : sent[p][i].to \in Nat
  <2>1. ~Updated(p)
    BY <1>1, <1>2, OthersElsewhere DEF Updated, AtWork
  <2>2. Behind(p, d.off)
    BY <1>2, <1>3, <2>1 DEF Paced
  <2>3. ASSUME NEW i \in DOMAIN sent[p]
        PROVE  sent[p][i].to \in Nat
    <3>1. PICK S : S = [gen : Nat, boot : 1..boots, from : Offsets, to : Offsets]
      OBVIOUS
    <3>2. sent[p] \in Seq(S)
      BY <1>2, <1>5, <3>1 DEF Batches
    <3>3. sent[p][i] \in S
      BY <3>2, ElementOfSeq, LenProperties
    <3>4. sent[p][i].to \in Offsets
      BY <3>1, <3>3
    <3> QED
      BY <3>4, Bounds
  <2> QED
    BY <2>2, <2>3
<1>9. Behind(p, d.new)'
  <2>1. ASSUME NEW i \in 1..n, sent[p][i].boot = boots
        PROVE  sent[p][i].to <= d.new
    <3>1. sent[p][i].to <= d.off /\ sent[p][i].to \in Nat
      BY <1>7, <1>8, <2>1 DEF Behind
    <3> QED
      BY <1>3, <3>1
  <2>2. \A i \in DOMAIN sent'[p] : i \in 1..n \/ i = n + 1
    BY <1>7
  <2> QED
    BY <1>3, <1>4, <1>5, <1>7, <2>1, <2>2 DEF Behind
<1>10. PICK e : e = [d EXCEPT !.pc = "update"]
  OBVIOUS
<1>11. e.pc = "update" /\ e.path = p /\ e.off = d.off /\ e.new = d.new /\ e.to = d.to
  BY <1>2, <1>10 DEF ReaderType
<1>12. readers'[r] = e /\ \A s \in Readers : s # r => readers'[s] = readers[s]
  BY <1>2, <1>4, <1>10
<1>13. Current(readers[r])'
  BY <1>3, <1>4, <1>9, <1>11, <1>12 DEF Current, Behind
<1>14. ASSUME NEW s \in Readers, s # r
       PROVE  Current(readers[s])'
  <2>1. Current(readers[s]) /\ readers'[s] = readers[s]
    BY <1>12, <1>14 DEF Paced
  <2>2. readers[s].pc = "update" => readers[s].path # p /\ readers[s].path \in Paths
    BY <1>1, <1>2, <1>14, OthersElsewhere DEF AtWork, Shape, ReadersSane
  <2>3. readers[s].pc = "update" => Behind(readers[s].path, readers[s].new)'
    BY <1>4, <1>6, <2>1, <2>2 DEF Behind, Current
  <2> QED
    BY <1>4, <2>1, <2>3 DEF Current
<1>15. ASSUME NEW q \in Paths
       PROVE  (Updated(q) \/ Behind(q, states[q]))'
  <2>1. CASE q = p
    BY <1>11, <1>12, <2>1 DEF Updated
  <2>2. CASE q # p
    <3>1. Updated(q) \/ Behind(q, states[q])
      BY <1>2 DEF Paced
    <3>2. ASSUME Updated(q)
          PROVE  Updated(q)'
      <4>1. PICK s \in Readers : readers[s].pc = "update" /\ readers[s].path = q
        BY <3>2 DEF Updated
      <4>2. readers'[s] = readers[s]
        BY <1>1, <1>2, <1>12, <4>1
      <4> QED
        BY <4>1, <4>2 DEF Updated
    <3>3. Behind(q, states[q]) => Behind(q, states[q])'
      BY <1>4, <1>6, <2>2 DEF Behind
    <3> QED
      BY <3>1, <3>2, <3>3
  <2> QED
    BY <2>1, <2>2
<1>16. LinesInOrder'
  <2>1. ASSUME NEW q \in Paths, NEW i \in DOMAIN sent'[q], NEW j \in DOMAIN sent'[q],
               i < j, sent'[q][i].gen = sent'[q][j].gen,
               sent'[q][i].boot = sent'[q][j].boot
        PROVE  sent'[q][i].to <= sent'[q][j].from
    <3>1. CASE q # p
      BY <1>6, <2>1, <3>1 DEF Paced, LinesInOrder
    <3>2. CASE q = p /\ j \in 1..n
      <4>1. i \in 1..n
        BY <1>7, <2>1, <3>2
      <4> QED
        BY <1>2, <1>7, <2>1, <3>2, <4>1 DEF Paced, LinesInOrder
    <3>3. CASE q = p /\ j = n + 1
      <4>1. i \in 1..n
        BY <1>7, <2>1, <3>3
      <4>2. sent[p][i].boot = boots
        BY <1>5, <1>7, <2>1, <3>3, <4>1
      <4> QED
        BY <1>5, <1>7, <1>8, <3>3, <4>1, <4>2 DEF Behind
    <3> QED
      BY <1>7, <3>1, <3>2, <3>3
  <2> QED
    BY <2>1 DEF LinesInOrder
<1> QED
  BY <1>4, <1>2, <1>13, <1>14, <1>15, <1>16 DEF Paced

LEMMA UpdatePaced ==
  ASSUME Shape, Calm, OneReaderPerFile, Paced, NEW r \in Readers, Update(r)
  PROVE  /\ Paced'
         /\ \A p \in Paths : states[p] <= states'[p]
<1>1. PICK d : d = readers[r]
  OBVIOUS
<1> DEFINE p == d.path
<1>2. readers \in [Readers -> ReaderType] /\ d \in ReaderType /\ p \in Paths /\ d.pc = "update"
      /\ phase = "up" /\ Current(d) /\ states \in [Paths -> MaybeOffset]
  BY <1>1 DEF Shape, ReadersSane, RestSane, Update, ReaderAt, Paced
<1>3. states[p] # NoState
  BY <1>2 DEF Calm, Knowing, Known
<1>4. PICK e : e = [d EXCEPT !.pc = "leave"]
  OBVIOUS
<1>5. /\ UNCHANGED <<sent, boots, phase>>
      /\ readers' = [readers EXCEPT ![r] = e]
      /\ states' = [states EXCEPT ![p] = d.new]
  BY <1>1, <1>2, <1>3, <1>4 DEF Update, history
<1>6. e.pc = "leave"
  BY <1>2, <1>4 DEF ReaderType
<1>7. /\ readers'[r] = e /\ \A s \in Readers : s # r => readers'[s] = readers[s]
      /\ states'[p] = d.new /\ \A q \in Paths : q # p => states'[q] = states[q]
  BY <1>2, <1>5
<1>8. d.off = states[p] /\ d.off <= d.new /\ Behind(p, d.new)
  BY <1>2 DEF Current
<1>9. \A q \in Paths : states[q] <= states'[q]
  <2>1. \A q \in Paths : states[q] \in Int
    <3>1. \A q \in Paths : states[q] \in MaybeOffset
      BY <1>2
    <3>2. MaybeOffset \subseteq Int
      BY DEF MaybeOffset, Offsets, NoState
    <3> QED
      BY <3>1, <3>2
  <2> QED
    BY <1>7, <1>8, <2>1
<1>10. Current(readers[r])'
  BY <1>6, <1>7 DEF Current
<1>11. ASSUME NEW s \in Readers, s # r
       PROVE  Current(readers[s])'
  <2>1. Current(readers[s]) /\ readers'[s] = readers[s]
    BY <1>7, <1>11 DEF Paced
  <2>2. readers[s].pc \in {"scan", "send", "update"}
          => readers[s].path \in Paths /\ readers[s].path # p
    BY <1>1, <1>2, <1>11, OthersElsewhere DEF AtWork, Shape, ReadersSane
  <2>3. readers[s].pc \in {"scan", "send", "update"}
          => states'[readers[s].path] = states[readers[s].path]
    BY <1>7, <2>2
  <2>4. readers[s].pc = "update" => Behind(readers[s].path, readers[s].new)'
    BY <1>5, <2>1 DEF Behind, Current
  <2> QED
    BY <2>1, <2>3, <2>4 DEF Current
<1>12. ASSUME NEW q \in Paths
       PROVE  (Updated(q) \/ Behind(q, states[q]))'
  <2>1. CASE q = p
    BY <1>5, <1>7, <1>8, <2>1 DEF Behind
  <2>2. CASE q # p
    <3>1. ASSUME Updated(q)
          PROVE  Updated(q)'
      <4>1. PICK s \in Readers : readers[s].pc = "update" /\ readers[s].path = q
        BY <3>1 DEF Updated
      <4>2. readers'[s] = readers[s]
        BY <1>1, <1>7, <2>2, <4>1
      <4> QED
        BY <4>1, <4>2 DEF Updated
    <3>2. Behind(q, states[q]) => Behind(q, states[q])'
      BY <1>5, <1>7, <2>2 DEF Behind
    <3> QED
      BY <1>2, <3>1, <3>2 DEF Paced
  <2> QED
    BY <2>1, <2>2
<1>13. LinesInOrder'
  BY <1>5 DEF Paced, LinesInOrder
<1> QED
  BY <1>2, <1>5, <1>9, <1>10, <1>11, <1>12, <1>13 DEF Paced

(* The start of a process: no reader works, and nothing sent bears the     *)
(* number of this one yet.                                                 *)
LEMMA BootPaced == ASSUME Shape, Calm, Paced, Boot PROVE Paced'
<1>1. /\ phase = "down" /\ phase' = "boot" /\ boots' = boots + 1 /\ boots \in Nat
      /\ UNCHANGED <<readers, sent>>
  BY DEF Boot, Shape, HistorySane
<1>2. \A r \in Readers : readers[r].pc = "idle"
  BY <1>1 DEF Calm, Resting
<1>3. ASSUME NEW p \in Paths, NEW i \in DOMAIN sent[p]
      PROVE  sent[p][i].boot # boots'
  <2>1. PICK S : S = [gen : Nat, boot : 1..boots, from : Offsets, to : Offsets]
    OBVIOUS
  <2>2. sent[p] \in Seq(S)
    BY <2>1 DEF Shape, HistorySane, Batches
  <2>3. sent[p][i] \in S
    BY <1>3, <2>2, ElementOfSeq, LenProperties
  <2>4. sent[p][i].boot \in 1..boots
    BY <2>1, <2>3
  <2> QED
    BY <1>1, <2>4
<1>4. LinesInOrder'
  BY <1>1 DEF Paced, LinesInOrder
<1> QED
  BY <1>1, <1>2, <1>3, <1>4 DEF Paced, Current

LEMMA MergePaced == ASSUME Shape, Calm, Paced, ScanMerge PROVE Paced'
<1>0. ~Panic
  BY MergeCalm DEF Panic, Calm
<1>1. /\ phase # "down" /\ UNCHANGED <<phase, readers, sent, boots>>
      /\ \A p \in Paths : p \in Known => states'[p] = states[p]
  <2>1. phase # "down" /\ UNCHANGED <<phase, history>>
    BY <1>0 DEF ScanMerge, ClockAt
  <2> QED
    BY <2>1, MergeCalm DEF history
<1>2. phase = "up" => \A p \in Paths : states'[p] = states[p]
  BY <1>1 DEF Calm, Knowing
<1>3. ASSUME NEW r \in Readers
      PROVE  Current(readers[r])'
  <2>1. Current(readers[r]) /\ readers'[r] = readers[r]
    BY <1>1 DEF Paced
  <2>2. readers[r].pc \in {"scan", "send", "update"} => phase = "up" /\ readers[r].path \in Paths
    BY <1>1 DEF Calm, Resting, Shape, ReadersSane
  <2>3. readers[r].pc = "update" => Behind(readers[r].path, readers[r].new)'
    BY <1>1, <2>1 DEF Current, Behind
  <2> QED
    BY <1>2, <2>1, <2>2, <2>3 DEF Current
<1>4. phase = "up" => \A p \in Paths : (Updated(p) \/ Behind(p, states[p]))'
  BY <1>1, <1>2 DEF Paced, Updated, Behind
<1>5. LinesInOrder'
  BY <1>1 DEF Paced, LinesInOrder
<1> QED
  BY <1>1, <1>3, <1>4, <1>5 DEF Paced

LEMMA DiePaced == ASSUME Paced, Die PROVE Paced'
<1>1. \A r \in Readers : readers'[r].pc = "idle"
  BY DEF Die, NoReader
<1>2. phase' = "down" /\ Known' = {} /\ UNCHANGED sent
  BY DEF Die, Known, NoStates
<1>3. \A r \in Readers : Current(readers[r])'
  BY <1>1 DEF Current
<1>4. LinesInOrder'
  BY <1>2 DEF Paced, LinesInOrder
<1> QED
  BY <1>2, <1>3, <1>4 DEF Paced

LEMMA PacedKept ==
  ASSUME ~FilesMove, Shape, Calm, OneReaderPerFile, Paced, [Next]_vars
  PROVE  Paced'
<1>0. readers \in [Readers -> ReaderType]
  BY DEF Shape, ReadersSane
<1>1. ASSUME UNCHANGED <<states, sent, boots, phase, readers>>
      PROVE  Paced'
  BY <1>1, QuietPaced
<1>2. ASSUME NEW p, NEW kind, NEW r \in Readers, readers[r].pc = "idle",
             readers' = [readers EXCEPT ![r] = Started(p, kind)],
             UNCHANGED <<states, sent, boots, phase>>
      PROVE  Paced'
  <2>1. Started(p, kind).pc = "queued"
    BY DEF Started, NoReader
  <2>2. readers'[r] = Started(p, kind) /\ \A s \in Readers : s # r => readers'[s] = readers[s]
    BY <1>0, <1>2
  <2> QED
    BY <1>2, <2>1, <2>2, QuietPaced
<1>3. ASSUME NEW r \in Readers, NEW l \in {"claim", "load", "leave"},
             readers[r].pc # "update",
             readers' = [readers EXCEPT ![r].pc = l] \/ readers' = [readers EXCEPT ![r] = NoReader],
             UNCHANGED <<states, sent, boots, phase>>
      PROVE  Paced'
  <2>1. CASE readers' = [readers EXCEPT ![r].pc = l]
    <3>1. PICK e : e = [readers[r] EXCEPT !.pc = l]
      OBVIOUS
    <3>2. readers' = [readers EXCEPT ![r] = e]
      BY <1>0, <2>1, <3>1
    <3>3. e.pc = l
      BY <1>0, <3>1 DEF ReaderType
    <3>4. readers'[r].pc = l /\ \A s \in Readers : s # r => readers'[s] = readers[s]
      BY <1>0, <3>2, <3>3
    <3> QED
      BY <1>3, <3>4, QuietPaced
  <2>2. CASE readers' = [readers EXCEPT ![r] = NoReader]
    <3>1. readers'[r].pc = "idle" /\ \A s \in Readers : s # r => readers'[s] = readers[s]
      BY <1>0, <2>2 DEF NoReader
    <3> QED
      BY <1>3, <3>1, QuietPaced
  <2> QED
    BY <1>3, <2>1, <2>2
<1>4. ASSUME NEW p \in Paths, Write(p)
      PROVE  Paced'
  <2>1. UNCHANGED <<phase, readers, sent, boots, states>>
    BY <1>4 DEF Write, Outside, history
  <2> QED
    BY <1>1, <2>1
<1>5. ASSUME NEW p \in Paths
      PROVE  ~Remove(p) /\ ~Truncate(p) /\ ~Create(p)
  BY DEF Remove, Truncate, Create
<1>6. CASE Handle
  <2>1. HandleWrite /\ UNCHANGED <<states, sent, boots, phase>>
    BY <1>6, HandleCalm DEF HandleWrite, history
  <2> QED
    BY <1>2, <1>6, <2>1, HandleCalm
<1>7. ASSUME NEW r \in Readers, ReaderStep(r)
      PROVE  Paced'
  <2>1. CASE Acquire(r) \/ Claim(r) \/ Leave(r)
    BY <1>3, <2>1 DEF Acquire, Claim, Leave, ReaderAt, history
  <2> QED
    BY <1>7, <2>1, LoadPaced, ScanPaced, SendPaced, UpdatePaced DEF ReaderStep
<1>8. CASE ScanKeys \/ ScanWalk \/ ClockSaveOpen \/ SyncOpen \/ SyncWrite \/ Pick
           \/ UNCHANGED vars
  <2>1. UNCHANGED <<states, sent, boots, phase, readers>>
    BY <1>8 DEF ScanKeys, ScanWalk, ClockSaveOpen, SyncOpen, SyncWrite, Pick, vars, memory,
       history, SaveOpen, SaveWrite
  <2> QED
    BY <1>1, <2>1
<1>9. CASE ClockSaveWrite
  <2>1. UNCHANGED <<states, sent, boots, readers>>
    BY <1>9 DEF ClockSaveWrite, SaveWrite, history
  <2>2. CASE UNCHANGED phase
    BY <1>1, <2>1, <2>2
  <2>3. CASE phase = "boot" /\ phase' = "up"
    BY <2>1, <2>3 DEF Paced, Current, Behind, Updated, LinesInOrder
  <2> QED
    BY <1>9, <2>2, <2>3 DEF ClockSaveWrite
<1>10. ASSUME NEW p \in Paths, Check(p)
       PROVE  Paced'
  <2>1. UNCHANGED <<phase, states, sent, boots>>
    BY <1>10, CheckCalm DEF history
  <2> QED
    BY <1>1, <1>2, <1>10, <2>1, CheckCalm
<1>11. CASE ClockSaveFails \/ SyncFails
  BY <1>1, <1>11, SavesThatFail, DiePaced DEF FailedSave, GivesUp
<1> QED
  BY <1>4, <1>5, <1>6, <1>7, <1>8, <1>9, <1>10, <1>11, BootPaced, MergePaced DEF Next, ScanStep

LEMMA InitPaced == Init => Paced
<1> SUFFICES ASSUME Init
             PROVE  Paced
  OBVIOUS
<1>1. \A r \in Readers : Current(readers[r])
  BY DEF Init, NoReader, Current
<1>2. LinesInOrder
  <2>1. DOMAIN <<>> = {}
    OBVIOUS
  <2> QED
    BY <2>1 DEF Init, LinesInOrder
<1>3. Known = {}
  BY DEF Init, NoStates, Known
<1> QED
  BY <1>1, <1>2, <1>3 DEF Init, Paced

Orderly == Shape /\ Calm /\ OneReaderPerFile /\ Paced

LEMMA OrderlyInvariant ==
  ASSUME ~FilesMove
  PROVE  Spec /\ WalksSucceed => []Orderly
<1>1. Init => Orderly
  BY InitShape, InitCalm, InitPaced, InitOneReader DEF Orderly
<1>2. Orderly /\ [Next]_vars /\ [Lists]_vars => Orderly'
  BY ShapeKept, CalmKept, OneReaderKept, PacedKept DEF Orderly
<1> QED
  BY <1>1, <1>2, PTL DEF Spec, WalksSucceed

(* Between two starts the consumer gets the lines of a file in order and   *)
(* each once, whoever reads them: a reader that takes the file over starts *)
(* where the last one stopped.  Files stay and every directory can be      *)
(* listed; opening, reading and saving may fail.                           *)
THEOREM LinesKeepOrder ==
  ASSUME ~FilesMove
  PROVE  Spec /\ WalksSucceed => []LinesInOrder
<1>1. Orderly => LinesInOrder
  BY DEF Orderly, Paced
<1> QED
  BY <1>1, OrderlyInvariant, PTL

Grows == \A p \in Paths : states[p] # NoState /\ states'[p] # NoState => states[p] <= states'[p]

(* No step sets the offset of a file back.                                 *)
LEMMA OffsetGrows == ASSUME ~FilesMove, Orderly, [Next]_vars PROVE Grows
<1>0. Shape /\ Calm /\ OneReaderPerFile /\ Paced
  BY DEF Orderly
<1>1. \A p \in Paths : states[p] \in Int
  <2>1. \A p \in Paths : states[p] \in MaybeOffset
    BY <1>0 DEF Shape, RestSane
  <2>2. MaybeOffset \subseteq Int
    BY DEF MaybeOffset, Offsets, NoState
  <2> QED
    BY <2>1, <2>2
<1>2. CASE UNCHANGED states
  BY <1>1, <1>2 DEF Grows
<1>3. CASE Boot
  <2>1. \A p \in Paths : states[p] = NoState
    BY <1>0, <1>3 DEF Boot, Paced, Known
  <2> QED
    BY <2>1 DEF Grows
<1>4. ASSUME NEW p \in Paths
      PROVE  ~Remove(p) /\ ~Truncate(p) /\ ~Create(p)
  BY DEF Remove, Truncate, Create
<1>5. ASSUME NEW r \in Readers, ReaderStep(r)
      PROVE  Grows
  <2>1. CASE Update(r)
    BY <1>0, <2>1, UpdatePaced DEF Grows
  <2>2. CASE ~Update(r)
    <3>1. readers[r].pc = "update" => Update(r)
      BY <1>5 DEF ReaderStep, Acquire, Claim, Load, Scan, Send, Leave, ReaderAt
    <3> QED
      BY <1>0, <1>2, <1>5, <2>2, <3>1, ReaderCalm
  <2> QED
    BY <2>1, <2>2
<1>6. CASE ScanMerge
  <2>1. \A p \in Paths : p \in Known => states'[p] = states[p]
    BY <1>0, <1>6, MergeCalm
  <2> QED
    BY <1>1, <2>1 DEF Grows, Known
<1>7. ASSUME NEW p \in Paths, Write(p) \/ Check(p)
      PROVE  UNCHANGED states
  BY <1>0, <1>7, CheckCalm DEF Write, Outside
<1>8. Handle => UNCHANGED states
  BY <1>0, HandleCalm
<1>9. CASE ScanKeys \/ ScanWalk \/ ClockSaveOpen \/ ClockSaveWrite \/ SyncOpen \/ SyncWrite
           \/ Pick \/ UNCHANGED vars
  BY <1>2, <1>9 DEF ScanKeys, ScanWalk, ClockSaveOpen, ClockSaveWrite, SyncOpen, SyncWrite,
     Pick, vars, memory, SaveOpen, SaveWrite
<1>10. CASE ClockSaveFails \/ SyncFails
  <2>1. Die => Grows
    BY DEF Die, NoStates, Grows
  <2> QED
    BY <1>2, <1>10, <2>1, SavesThatFail DEF FailedSave, GivesUp
<1> QED
  BY <1>2, <1>3, <1>4, <1>5, <1>6, <1>7, <1>8, <1>9, <1>10 DEF Next, ScanStep

(* As long as files stay and every directory can be listed, the offset of  *)
(* a file in the map never goes back, so no line is read twice by one      *)
(* process; opening, reading and saving may fail.                          *)
THEOREM OffsetsOnlyGrow ==
  ASSUME ~FilesMove
  PROVE  Spec /\ WalksSucceed => OffsetsGrow
<1>1. Orderly /\ [Next]_vars => [Grows]_vars
  BY OffsetGrows
<1>2. Spec => [][Next]_vars
  BY DEF Spec
<1>3. Spec /\ WalksSucceed => [][Grows]_vars
  BY <1>1, <1>2, OrderlyInvariant, PTL
<1> QED
  BY <1>3 DEF OffsetsGrow, Grows
=============================================================================
