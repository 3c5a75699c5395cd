---------------------------- MODULE PipelineProof ----------------------------
(* Proofs about Pipeline: what a crash, a raced exit or a restart costs,   *)
(* for every set of files and readers and any number of starts and faults. *)
EXTENDS Pipeline, FileWatchProof

USE DEF memory, history
-----------------------------------------------------------------------------
(* Types.  PipeTypeOK is inductive with FileWatch's Shape and Quiet.       *)

Fates == {"memory", "settled", "lost", "skipped"}
Stages == {"serve", "write", "grace", "close", "race"}

Fated == /\ fate \in [Paths -> Seq(Fates)]
         /\ \A p \in Paths : Len(fate[p]) = Len(sent[p])
Gone == \A p \in Paths : \A i \in DOMAIN fate[p] : fate[p][i] # "memory"
Alone == phase # "up" => main = "serve" /\ Gone
Guarded == lock = "main" <=> main = "write"

PipeShape ==
  /\ Shape /\ Fated /\ Alone /\ Guarded
  /\ main \in Stages /\ unclean \in BOOLEAN

LEMMA GoneIsEmpty == Gone <=> InMemory = {}
BY DEF Gone, InMemory, Range

LEMMA PipeShapeIsTyped == PipeShape /\ Quiet => PipeTypeOK
BY ShapeIsTyped, GoneIsEmpty
DEF PipeShape, Fated, Alone, Guarded, Fates, Stages, PipeTypeOK

LEMMA Indices ==
  ASSUME NEW n, NEW s \in [Paths -> Batches(n)]
  PROVE  \A p \in Paths : DOMAIN s[p] = 1..Len(s[p]) /\ Len(s[p]) \in Nat
<1>1. ASSUME NEW p \in Paths
      PROVE  DOMAIN s[p] = 1..Len(s[p]) /\ Len(s[p]) \in Nat
  <2>1. PICK S : s[p] \in Seq(S)
    BY DEF Batches
  <2> QED
    BY <2>1, LenProperties
<1> QED
  BY <1>1

LEMMA FateIndices ==
  ASSUME Shape, Fated
  PROVE  \A p \in Paths : /\ DOMAIN fate[p] = DOMAIN sent[p]
                          /\ \A i \in DOMAIN fate[p] : fate[p][i] \in Fates
<1>1. ASSUME NEW p \in Paths
      PROVE  /\ DOMAIN fate[p] = DOMAIN sent[p]
             /\ \A i \in DOMAIN fate[p] : fate[p][i] \in Fates
  <2>1. fate[p] \in Seq(Fates) /\ Len(fate[p]) = Len(sent[p])
    BY DEF Fated
  <2>2. DOMAIN fate[p] = 1..Len(fate[p]) /\ DOMAIN sent[p] = 1..Len(sent[p])
    BY <2>1, Indices, LenProperties DEF Shape, HistorySane
  <2>3. \A i \in 1..Len(fate[p]) : fate[p][i] \in Fates
    BY <2>1, ElementOfSeq
  <2> QED
    BY <2>1, <2>2, <2>3
<1> QED
  BY <1>1

(* A function on an interval of fates is a sequence of them. *)
LEMMA FatesFrom ==
  ASSUME NEW n \in Nat, NEW E, DOMAIN E = 1..n, E = [i \in 1..n |-> E[i]],
         \A i \in 1..n : E[i] \in Fates
  PROVE  E \in Seq(Fates) /\ Len(E) = n
<1>1. E \in [1..n -> Fates]
  OBVIOUS
<1> QED
  BY <1>1, SeqDef, LenProperties

(* What FileWatch's steps do to what the rest of the process looks at.     *)
Discreet ==
  /\ phase' # "up" => sent' = sent
  /\ phase' = "down" => Die \/ phase = "down"
  /\ phase' = "boot" => phase # "up"
  /\ Die \/ (lock' = "main" <=> lock = "main")

LEMMA NextIsDiscreet == Next => Discreet
<1>0. "main" # "free" /\ "main" # "clock" /\ "main" # "sync"
  OBVIOUS
<1>1. Die => Discreet
  BY DEF Die, Discreet
<1>2. ASSUME ~Die, UNCHANGED lock, UNCHANGED <<phase, sent>>
      PROVE  Discreet
  BY <1>2 DEF Discreet
<1>3. ASSUME NEW p \in Paths, Write(p) \/ Remove(p) \/ Truncate(p) \/ Create(p)
      PROVE  Discreet
  BY <1>1, <1>2, <1>3 DEF Write, Remove, Truncate, Create, Outside
<1>4. CASE Boot
  BY <1>4 DEF Boot, Discreet
<1>5. CASE Handle
  BY <1>1, <1>2, <1>5 DEF Handle, HandleWrite, HandleCreate, HandleRemove
<1>6. ASSUME NEW r \in Readers, ReaderStep(r)
      PROVE  Discreet
  <2>1. CASE Panic
    BY <1>1, <2>1 DEF Panic
  <2>2. CASE Send(r)
    BY <2>2 DEF Send, ReaderAt, Discreet
  <2>3. CASE ~Panic /\ ~Send(r)
    BY <1>1, <1>2, <1>6, <2>3
    DEF ReaderStep, Acquire, Claim, Load, Scan, Update, Leave
  <2> QED
    BY <2>1, <2>2, <2>3
<1>7. CASE ScanKeys \/ ScanWalk \/ Pick
  BY <1>1, <1>2, <1>7 DEF ScanKeys, ScanWalk, Pick
<1>8. CASE ScanMerge
  BY <1>1, <1>2, <1>8 DEF ScanMerge, Panic
<1>9. CASE ClockSaveOpen \/ SyncOpen
  BY <1>9 DEF ClockSaveOpen, SyncOpen, SaveOpen, Discreet, ClockAt
<1>10. CASE ClockSaveWrite \/ SyncWrite
  BY <1>10 DEF ClockSaveWrite, SyncWrite, SaveWrite, Discreet, ClockAt
<1>11. ASSUME NEW p \in Paths, Check(p)
       PROVE  Discreet
  BY <1>1, <1>2, <1>11 DEF Check, Panic
<1>12. CASE ClockSaveFails
  <2>1. CASE Die
    BY <1>1, <2>1
  <2>2. CASE ~Die
    <3>1. SaveFails("clock") /\ phase = "up" /\ UNCHANGED phase
      BY <1>12, <2>2 DEF ClockSaveFails
    <3> QED
      BY <1>0, <3>1 DEF SaveFails, Discreet
  <2> QED
    BY <2>1, <2>2
<1>13. CASE SyncFails
  <2>1. SaveFails("sync") /\ phase = "up" /\ UNCHANGED phase
    BY <1>13 DEF SyncFails
  <2> QED
    BY <1>0, <2>1 DEF SaveFails, Discreet
<1> QED
  BY <1>3, <1>4, <1>5, <1>6, <1>7, <1>8, <1>9, <1>10, <1>11, <1>12, <1>13 DEF Next, ScanStep

(* The fate of what was sent, after a step of the watcher or a crash.      *)
NextFate(p, i) ==
  IF i > Len(fate[p]) THEN "memory"
  ELSE IF phase' = "down" THEN AfterDeath(p, i)
  ELSE fate[p][i]

LEMMA FollowFates ==
  ASSUME Shape, Shape', Fated, Follow
  PROVE  /\ Fated'
         /\ \A p \in Paths : \A i \in DOMAIN sent'[p] : fate'[p][i] = NextFate(p, i)
<1>1. fate' = [p \in Paths |-> [i \in DOMAIN sent'[p] |-> NextFate(p, i)]]
  BY DEF Follow, NextFate
<1>2. \A p \in Paths : DOMAIN sent'[p] = 1..Len(sent'[p]) /\ Len(sent'[p]) \in Nat
  <2>1. PICK s, n : s = sent' /\ n = boots'
    OBVIOUS
  <2>2. s \in [Paths -> Batches(n)]
    BY <2>1 DEF Shape, HistorySane, Batches
  <2> QED
    BY <2>1, <2>2, Indices
<1>3. ASSUME NEW p \in Paths, NEW i \in 1..Len(sent'[p])
      PROVE  NextFate(p, i) \in Fates
  <2>1. CASE i > Len(fate[p])
    BY <2>1 DEF NextFate, Fates
  <2>2. CASE ~(i > Len(fate[p]))
    <3>1. i \in DOMAIN sent[p] /\ Len(sent[p]) \in Nat
      BY <1>2, <2>2, Indices DEF Fated, Shape, HistorySane
    <3>2. fate[p][i] \in Fates
      BY <3>1, FateIndices
    <3> QED
      BY <2>2, <3>2 DEF NextFate, AfterDeath, Fates
  <2> QED
    BY <2>1, <2>2
<1>4. ASSUME NEW p \in Paths
      PROVE  fate'[p] \in Seq(Fates) /\ Len(fate'[p]) = Len(sent'[p])
  <2>1. PICK n \in Nat : n = Len(sent'[p]) /\ DOMAIN sent'[p] = 1..n
    BY <1>2
  <2>2. PICK E : E = [i \in 1..n |-> NextFate(p, i)]
    OBVIOUS
  <2>3. fate'[p] = E
    BY <1>1, <2>1, <2>2
  <2>4. \A i \in 1..n : E[i] \in Fates
    BY <1>3, <2>1, <2>2
  <2>5. E \in Seq(Fates) /\ Len(E) = n
    BY <2>2, <2>4, FatesFrom
  <2> QED
    BY <2>1, <2>3, <2>5
<1>5. fate' \in [Paths -> Seq(Fates)]
  BY <1>1, <1>4
<1> QED
  BY <1>1, <1>4, <1>5 DEF Fated

(* A step after which nothing has been sent anew leaves nothing in the     *)
(* memory of a process that is not there.                                  *)
LEMMA GoneAfter ==
  ASSUME Shape, Shape', Fated, Follow, sent' = sent, phase' = "down" \/ Gone
  PROVE  Gone'
<1>1. ASSUME NEW p \in Paths, NEW i \in DOMAIN fate'[p]
      PROVE  fate'[p][i] # "memory"
  <2>1. DOMAIN fate'[p] = DOMAIN sent[p]
    BY DEF Follow
  <2>2. i \in 1..Len(fate[p]) /\ Len(fate[p]) \in Nat /\ i \in DOMAIN fate[p]
    BY <1>1, <2>1, Indices, FateIndices DEF Fated, Shape, HistorySane
  <2>3. fate'[p][i] = NextFate(p, i) /\ ~(i > Len(fate[p]))
    BY <1>1, <2>1, <2>2, FollowFates
  <2> QED
    BY <2>2, <2>3 DEF NextFate, AfterDeath, Gone
<1> QED
  BY <1>1 DEF Gone

LEMMA WatchSane == PipeShape /\ Watch => PipeShape'
<1> SUFFICES ASSUME PipeShape, Watch
             PROVE  PipeShape'
  OBVIOUS
<1>1. Shape /\ Fated /\ Alone /\ Guarded /\ main \in Stages /\ unclean \in BOOLEAN
      /\ Next /\ Follow
  BY DEF PipeShape, Watch
<1>2. Shape'
  BY <1>1, ShapeKept
<1>3. Fated'
  BY <1>1, <1>2, FollowFates
<1>4. Discreet
  BY <1>1, NextIsDiscreet
<1>5. main' \in Stages /\ unclean' \in BOOLEAN
  BY <1>1 DEF Follow, Stages
<1>6. ASSUME phase' # "up"
      PROVE  main' = "serve" /\ Gone'
  <2>1. sent' = sent
    BY <1>4, <1>6 DEF Discreet
  <2>2. phase' = "down" \/ (phase' = "boot" /\ Gone /\ main = "serve")
    BY <1>1, <1>2, <1>4, <1>6 DEF Discreet, Alone, Shape, RestSane
  <2>3. Gone'
    BY <1>1, <1>2, <2>1, <2>2, GoneAfter
  <2> QED
    BY <1>1, <2>2, <2>3 DEF Follow
<1>7. Guarded'
  <2>1. CASE Die
    BY <1>1, <2>1 DEF Die, Follow, Guarded
  <2>2. CASE ~Die
    BY <1>1, <1>4, <2>2 DEF Discreet, Follow, Guarded, Alone
  <2> QED
    BY <2>1, <2>2
<1> QED
  BY <1>2, <1>3, <1>5, <1>6, <1>7 DEF PipeShape, Alone

LEMMA CrashSane == PipeShape /\ Crash => PipeShape'
<1> SUFFICES ASSUME PipeShape, Crash
             PROVE  PipeShape'
  OBVIOUS
<1>1. Shape /\ Fated /\ main \in Stages /\ unclean \in BOOLEAN /\ Follow /\ Die
  BY DEF PipeShape, Crash
<1>2. Shape'
  <2>1. faults' \in 0..MaxFaults /\ panicked' \in BOOLEAN
    <3>1. MaxFaults \in Nat
      BY Bounds
    <3> QED
      BY <1>1, <3>1 DEF Crash, Fault, Shape, HistorySane
  <2> QED
    BY <1>1, <2>1, DieSane
<1>3. sent' = sent /\ phase' = "down" /\ lock' = "free"
  BY <1>1 DEF Die
<1>4. Fated' /\ Gone'
  BY <1>1, <1>2, <1>3, FollowFates, GoneAfter
<1>5. main' = "serve" /\ unclean' \in BOOLEAN
  BY <1>1, <1>3 DEF Follow
<1> QED
  BY <1>2, <1>3, <1>4, <1>5 DEF PipeShape, Alone, Guarded, Stages

LEMMA DeliverSane == ASSUME PipeShape, NEW p \in Paths, Deliver(p) PROVE PipeShape'
<1>1. Shape /\ Fated /\ Guarded /\ phase = "up" /\ UNCHANGED <<vars, main, unclean>>
  BY DEF PipeShape, Deliver
<1>2. PICK i \in DOMAIN fate[p] : fate' = [fate EXCEPT ![p] = [fate[p] EXCEPT ![i] = "settled"]]
  BY DEF Deliver
<1>3. PICK e : e = [fate[p] EXCEPT ![i] = "settled"]
  OBVIOUS
<1>4. fate[p] \in Seq(Fates) /\ "settled" \in Fates
  BY <1>1 DEF Fated, Fates
<1>5. e \in Seq(Fates) /\ Len(e) = Len(fate[p])
  BY <1>3, <1>4, ExceptSeq, LenProperties
<1>6. fate' = [fate EXCEPT ![p] = e]
  BY <1>2, <1>3
<1>7. Fated'
  <2>1. fate' \in [Paths -> Seq(Fates)]
    BY <1>1, <1>5, <1>6 DEF Fated
  <2>2. \A q \in Paths : fate'[q] = IF q = p THEN e ELSE fate[q]
    BY <1>1, <1>6 DEF Fated
  <2>3. UNCHANGED sent
    BY <1>1 DEF vars
  <2> QED
    BY <1>1, <1>5, <2>1, <2>2, <2>3 DEF Fated
<1>8. Shape'
  BY <1>1, ShapeKept
<1>9. UNCHANGED <<phase, lock, main, unclean>>
  BY <1>1 DEF vars
<1> QED
  BY <1>1, <1>7, <1>8, <1>9 DEF PipeShape, Alone, Guarded

LEMMA ExitFailsToSave ==
  ExitSaveFails => FailedSave /\ main' = "grace" /\ UNCHANGED <<fate, unclean>>
BY DEF ExitSaveFails, MainAt, MainGoes, SaveFails, FailedSave

LEMMA ExitFailureSane == PipeShape /\ ExitSaveFails => PipeShape'
<1> SUFFICES ASSUME PipeShape, ExitSaveFails
             PROVE  PipeShape'
  OBVIOUS
<1>1. FailedSave /\ main' = "grace" /\ UNCHANGED <<fate, unclean>>
  BY ExitFailsToSave
<1>2. Shape'
  BY <1>1, FailedSaveSane DEF PipeShape
<1>3. phase = "up" /\ UNCHANGED <<phase, sent>> /\ lock' = "free"
  BY <1>1 DEF FailedSave
<1> QED
  BY <1>1, <1>2, <1>3 DEF PipeShape, Fated, Alone, Guarded, Stages

LEMMA ExitSaveSane == PipeShape /\ (ExitSaveOpen \/ ExitSaveWrite \/ EndGrace) => PipeShape'
<1> SUFFICES ASSUME PipeShape, ExitSaveOpen \/ ExitSaveWrite \/ EndGrace
             PROVE  PipeShape'
  OBVIOUS
<1>1. phase = "up" /\ UNCHANGED <<fate, unclean, sent, phase>>
  BY DEF ExitSaveOpen, ExitSaveWrite, EndGrace, MainAt, MainGoes, SaveOpen, SaveWrite, vars
<1>2. Shape'
  <2>1. Shape /\ "main" \in {"sync", "main"}
    BY DEF PipeShape
  <2>2. ExitSaveOpen \/ ExitSaveWrite
          => UNCHANGED <<phase, clock>> /\ (SaveOpen("main") \/ SaveWrite("main"))
    BY <1>1 DEF ExitSaveOpen, ExitSaveWrite
  <2>3. EndGrace => UNCHANGED vars
    BY DEF EndGrace
  <2> QED
    BY <2>1, <2>2, <2>3, SaveSane, ShapeKept
<1>3. Guarded'
  BY DEF PipeShape, Guarded, ExitSaveOpen, ExitSaveWrite, EndGrace, MainAt, MainGoes,
     SaveOpen, SaveWrite, vars
<1>4. main' \in Stages
  BY DEF Stages, ExitSaveOpen, ExitSaveWrite, EndGrace, MainGoes
<1> QED
  BY <1>1, <1>2, <1>3, <1>4 DEF PipeShape, Fated, Alone

(* What an exit leaves of the fates. *)
LEMMA ExitFates ==
  ASSUME PipeShape, Exit
  PROVE  /\ Fated' /\ Gone'
         /\ \A p \in Paths : /\ DOMAIN fate'[p] = DOMAIN fate[p]
                             /\ \A i \in DOMAIN fate[p] : fate'[p][i] = AfterDeath(p, i)
<1>1. fate' = [p \in Paths |-> [i \in DOMAIN fate[p] |-> AfterDeath(p, i)]] /\ Shape /\ Fated
      /\ sent' = sent
  BY DEF Exit, PipeShape, Die
<1>2. ASSUME NEW p \in Paths, NEW i \in DOMAIN fate[p]
      PROVE  AfterDeath(p, i) \in Fates \ {"memory"}
  <2>1. fate[p][i] \in Fates
    BY <1>1, FateIndices
  <2> QED
    BY <2>1 DEF AfterDeath, Fates
<1>3. ASSUME NEW p \in Paths
      PROVE  fate'[p] \in Seq(Fates) /\ Len(fate'[p]) = Len(sent'[p])
  <2>1. PICK n \in Nat : n = Len(sent[p]) /\ DOMAIN fate[p] = 1..n
    BY <1>1, Indices, FateIndices DEF Shape, HistorySane
  <2>2. PICK E : E = [i \in 1..n |-> AfterDeath(p, i)]
    OBVIOUS
  <2>3. fate'[p] = E
    BY <1>1, <2>1, <2>2
  <2>4. \A i \in 1..n : E[i] \in Fates
    BY <1>2, <2>1, <2>2
  <2>5. E \in Seq(Fates) /\ Len(E) = n
    BY <2>2, <2>4, FatesFrom
  <2> QED
    BY <1>1, <2>1, <2>3, <2>5
<1>4. fate' \in [Paths -> Seq(Fates)]
  BY <1>1, <1>3
<1>5. Gone'
  BY <1>1, <1>2 DEF Gone
<1> QED
  BY <1>1, <1>3, <1>4, <1>5 DEF Fated

LEMMA ExitSane == PipeShape /\ Exit => PipeShape'
<1> SUFFICES ASSUME PipeShape, Exit
             PROVE  PipeShape'
  OBVIOUS
<1>1. Shape'
  BY DieSane DEF PipeShape, Shape, HistorySane, Exit
<1>2. main' = "serve" /\ unclean' \in BOOLEAN /\ lock' = "free"
  BY DEF Exit, PipeShape, Die
<1> QED
  BY <1>1, <1>2, ExitFates DEF PipeShape, Alone, Guarded, Stages

LEMMA PipeShapeKept == PipeShape /\ [PipeNext]_pipeVars => PipeShape'
<1>1. PipeShape /\ UNCHANGED pipeVars => PipeShape'
  <2> SUFFICES ASSUME PipeShape, UNCHANGED pipeVars
               PROVE  PipeShape'
    OBVIOUS
  <2>1. UNCHANGED vars /\ UNCHANGED <<main, fate, unclean>>
    BY DEF pipeVars
  <2>2. Shape'
    BY <2>1, ShapeKept DEF PipeShape
  <2>3. UNCHANGED <<sent, phase, lock>>
    BY <2>1 DEF vars
  <2> QED
    BY <2>1, <2>2, <2>3 DEF PipeShape, Fated, Alone, Gone, Guarded
<1> QED
  BY <1>1, WatchSane, CrashSane, DeliverSane, ExitSaveSane, ExitFailureSane, ExitSane DEF PipeNext

LEMMA PipeQuietKept == ASSUME Shape, Quiet, [PipeNext]_pipeVars PROVE Quiet'
<1>1. Next \/ UNCHANGED vars => Quiet'
  BY QuietKept
<1>2. Crash \/ Exit => Quiet'
  BY DieIsQuiet DEF Crash, Exit
<1>3. ExitSaveOpen \/ ExitSaveWrite \/ ExitSaveFails => phase' = "up"
  BY DEF ExitSaveOpen, ExitSaveWrite, ExitSaveFails, MainAt, SaveOpen
<1>4. phase' = "up" => Quiet'
  BY DEF Quiet
<1>5. EndGrace \/ (\E p \in Paths : Deliver(p)) \/ UNCHANGED pipeVars => UNCHANGED vars
  BY DEF EndGrace, Deliver, pipeVars
<1> QED
  BY <1>1, <1>2, <1>3, <1>4, <1>5 DEF PipeNext, Watch

LEMMA InitPipeShape == PipeInit => PipeShape
<1> SUFFICES ASSUME PipeInit
             PROVE  PipeShape
  OBVIOUS
<1>1. Shape
  BY InitShape DEF PipeInit
<1>2. Fated /\ Gone
  <2>1. <<>> \in Seq(Fates) /\ Len(<<>>) = 0 /\ DOMAIN <<>> = {}
    OBVIOUS
  <2> QED
    BY <2>1 DEF PipeInit, Init, Fated, Gone
<1>3. lock = "free" /\ main = "serve" /\ unclean = FALSE
  BY DEF PipeInit, Init
<1> QED
  BY <1>1, <1>2, <1>3 DEF PipeShape, Alone, Guarded, Stages

(* Every variable keeps its type, every line handed over has one fate, the *)
(* memory of a process that is gone is empty, and graceExit holds the lock *)
(* exactly while it saves, however often the program dies and starts, and  *)
(* whatever save fails.                                                    *)
THEOREM PipeTypeCorrect == PipeSpec => []PipeTypeOK
<1>1. PipeInit => PipeShape /\ Quiet
  BY InitPipeShape, InitQuiet DEF PipeInit
<1>2. PipeShape /\ Quiet /\ [PipeNext]_pipeVars => (PipeShape /\ Quiet)'
  BY PipeShapeKept, PipeQuietKept DEF PipeShape
<1> QED
  BY <1>1, <1>2, PipeShapeIsTyped, PTL DEF PipeSpec
-----------------------------------------------------------------------------
(* What FileWatch keeps, the rest of the process does not disturb.         *)

LEMMA PipeRestedKept ==
  ASSUME ~FilesMove, Whole, PipeShape, PipeShape', Rested, [PipeNext]_pipeVars
  PROVE  Rested'
<1>1. Shape /\ Shape'
  BY DEF PipeShape
<1>2. Next \/ UNCHANGED vars => Rested'
  BY <1>1, RestedKept
<1>3. Crash \/ Exit => Rested'
  BY <1>1, DieRests DEF Crash, Exit
<1>4. ExitSaveOpen \/ ExitSaveWrite => Rested'
  <2>1. ExitSaveOpen \/ ExitSaveWrite => \E who : SaveOpen(who) \/ SaveWrite(who)
    BY DEF ExitSaveOpen, ExitSaveWrite
  <2> QED
    BY <1>1, <2>1, ClocksRest
<1>5. EndGrace \/ (\E p \in Paths : Deliver(p)) \/ UNCHANGED pipeVars => UNCHANGED vars
  BY DEF EndGrace, Deliver, pipeVars
<1>6. ExitSaveFails => Rested'
  BY <1>1, ExitFailsToSave, FailedSaveRests
<1> QED
  BY <1>2, <1>3, <1>4, <1>5, <1>6 DEF PipeNext, Watch

(* Only whole lines are handed over, across crashes, exits and restarts:   *)
(* the state file never holds an offset inside a line.                     *)
THEOREM PipeWholeLines ==
  ASSUME ~FilesMove, Whole
  PROVE  PipeSpec => []WholeLines
<1>1. PipeInit => PipeShape /\ Rested
  BY InitPipeShape, InitRested DEF PipeInit
<1>2. PipeShape /\ Rested /\ [PipeNext]_pipeVars => (PipeShape /\ Rested)'
  BY PipeShapeKept, PipeRestedKept
<1>3. Rested => WholeLines
  BY RestedGives
<1> QED
  BY <1>1, <1>2, <1>3, PTL DEF PipeSpec
-----------------------------------------------------------------------------
(* Nothing is forgotten.  The offsets of a file are in the map, on disk    *)
(* and in the hands of readers; they only flow from one to another, start  *)
(* at 0, or are where a reader stopped after it handed over.  Below each   *)
(* of them everything is kept: a death loses only lines that the state     *)
(* file is not past, and what is not in the state file dies with it.       *)

Keeps(d, o) ==
  \/ d.pc # "idle" /\ d.held # Live /\ o = d.held
  \/ d.pc \in {"scan", "send", "update"} /\ o = d.off
  \/ d.pc = "update" /\ o = d.new

Holds(p, o) ==
  \/ o = states[p] \/ o = disk[p]
  \/ \E r \in Readers : readers[r].path = p /\ Keeps(readers[r], o)

Secure == \A p \in Paths : \A o \in MaybeOffset : Holds(p, o) => KeptBelow(o, p)

Flows == \A p \in Paths : \A o : Holds(p, o)' => o \in {0, NoState} \/ Holds(p, o)

LEMMA HeldOffsetRests ==
  ASSUME Shape, Rested, NEW p \in Paths, NEW o, Holds(p, o)
  PROVE  o \in MaybeOffset /\ Rests(o, p)
<1>1. CASE o = states[p] \/ o = disk[p]
  BY <1>1 DEF Rested, OffsetsRest, Shape, RestSane
<1>2. ASSUME NEW r \in Readers, readers[r].path = p, Keeps(readers[r], o)
      PROVE  o \in MaybeOffset /\ Rests(o, p)
  <2>1. PICK d : d = readers[r] /\ d \in ReaderType /\ Restful(d) /\ d.path = p
    BY <1>2 DEF Shape, ReadersSane, Rested, ReadersRest
  <2>2. Rests(o, p)
    BY <1>2, <2>1 DEF Keeps, Restful
  <2>3. d.held \in MaybeOffset \cup {Live} /\ d.off \in MaybeOffset /\ d.new \in MaybeOffset
    BY <2>1, Bounds DEF ReaderType
  <2> QED
    BY <1>2, <2>1, <2>2, <2>3 DEF Keeps
<1> QED
  BY <1>1, <1>2 DEF Holds

(* A step that moves offsets as the code does, and readers that take only  *)
(* what is there.                                                          *)
LEMMA FlowsFrom ==
  ASSUME \A p \in Paths : \/ states'[p] \in {states[p], disk[p], 0, NoState}
                          \/ \E r \in Readers : /\ readers[r].pc = "update"
                                                /\ readers[r].path = p
                                                /\ states'[p] = readers[r].new,
         \A p \in Paths : disk'[p] \in {disk[p], states[p], NoState},
         \A r \in Readers : \/ readers'[r] = readers[r]
                            \/ \A o : Keeps(readers'[r], o) => Holds(readers'[r].path, o)
  PROVE  Flows
<1>1. ASSUME NEW p \in Paths, NEW o, o = states'[p] \/ o = disk'[p]
      PROVE  o \in {0, NoState} \/ Holds(p, o)
  BY <1>1 DEF Holds, Keeps
<1>2. ASSUME NEW p \in Paths, NEW o, NEW r \in Readers, readers'[r].path = p, Keeps(readers'[r], o)
      PROVE  Holds(p, o)
  BY <1>2 DEF Holds
<1>3. ASSUME NEW p \in Paths, NEW o, Holds(p, o)'
      PROVE  o \in {0, NoState} \/ Holds(p, o)
  <2>1. CASE o = states'[p] \/ o = disk'[p]
    BY <1>1, <2>1
  <2>2. ASSUME NEW r \in Readers, readers'[r].path = p, Keeps(readers[r], o)'
        PROVE  Holds(p, o)
    <3>1. Keeps(readers'[r], o)
      BY <2>2 DEF Keeps
    <3> QED
      BY <1>2, <2>2, <3>1
  <2> QED
    BY <1>3, <2>1, <2>2 DEF Holds
<1> QED
  BY <1>3 DEF Flows

(* The offset map and disk stay, and one reader takes a step.              *)
LEMMA OneReaderFlows ==
  ASSUME Shape, UNCHANGED <<states, disk>>, NEW r \in Readers, NEW e,
         readers' = [readers EXCEPT ![r] = e],
         \A o : Keeps(e, o) => Holds(e.path, o)
  PROVE  Flows
<1>1. readers \in [Readers -> ReaderType]
  BY DEF Shape, ReadersSane
<1>2. readers'[r] = e /\ \A s \in Readers : s # r => readers'[s] = readers[s]
  BY <1>1
<1> QED
  BY <1>2, FlowsFrom

LEMMA FreshKeepsNothing ==
  ASSUME NEW d, d = NoReader \/ \E p, kind : d = Started(p, kind)
  PROVE  d.pc \in {"idle", "queued"} /\ \A o : ~Keeps(d, o)
<1>1. /\ NoReader.pc = "idle" /\ NoReader.held = Live
      /\ \A p, kind : Started(p, kind).pc = "queued" /\ Started(p, kind).held = Live
  BY DEF NoReader, Started
<1>2. d.pc \in {"idle", "queued"} /\ d.held = Live
  BY <1>1
<1> QED
  BY <1>2 DEF Keeps

LEMMA DetachFlows ==
  ASSUME Shape, NEW gone, Detach(gone), UNCHANGED disk,
         \A p \in Paths : states'[p] \in {states[p], 0, NoState}
  PROVE  Flows
<1>1. ASSUME NEW r \in Readers, readers'[r] # readers[r], NEW o, Keeps(readers'[r], o)
      PROVE  Holds(readers'[r].path, o)
  <2>1. PICK d : d = [readers[r] EXCEPT !.held = states[readers[r].path]] /\ readers'[r] = d
    BY <1>1 DEF Detach
  <2>2. readers[r] \in ReaderType /\ Unread(readers[r])
    BY <1>1 DEF Detach, Shape, ReadersSane
  <2>3. d.pc \in {"queued", "claim", "load"} /\ d.held = states[d.path]
    BY <2>1, <2>2 DEF Unread, ReaderType
  <2>4. o = states[d.path]
    BY <1>1, <2>1, <2>3 DEF Keeps
  <2> QED
    BY <2>1, <2>4 DEF Holds
<1> QED
  BY <1>1, FlowsFrom

LEMMA HandleFlows == ASSUME Shape, Handle PROVE Flows
<1>1. states \in [Paths -> MaybeOffset] /\ UNCHANGED disk
  BY DEF Shape, RestSane, Handle, HandleWrite, HandleCreate, HandleRemove
<1>2. \A p \in Paths : states'[p] \in {states[p], 0, NoState}
  BY <1>1 DEF Handle, HandleWrite, HandleCreate, HandleRemove
<1>3. CASE HandleWrite
  <2>0. PICK r \in Readers :
          \E d : readers' = [readers EXCEPT ![r] = d] /\ \E p : d = Started(p, "event")
    BY <1>3 DEF HandleWrite
  <2>1. PICK d : readers' = [readers EXCEPT ![r] = d] /\ \E p : d = Started(p, "event")
    BY <2>0
  <2>2. readers \in [Readers -> ReaderType] /\ \A o : ~Keeps(d, o)
    BY <2>1, FreshKeepsNothing DEF Shape, ReadersSane
  <2>3. readers'[r] = d /\ \A s \in Readers : s # r => readers'[s] = readers[s]
    BY <2>1, <2>2
  <2> QED
    BY <1>1, <1>2, <2>2, <2>3, FlowsFrom
<1>4. ASSUME NEW gone, Detach(gone)
      PROVE  Flows
  BY <1>1, <1>2, <1>4, DetachFlows
<1>5. CASE UNCHANGED readers
  BY <1>1, <1>2, <1>5, FlowsFrom
<1> QED
  BY <1>3, <1>4, <1>5 DEF Handle, HandleCreate, HandleRemove

LEMMA DieFlows == ASSUME Die PROVE Flows
<1>1. \A p \in Paths : states'[p] = NoState /\ disk'[p] = disk[p]
  BY DEF Die, NoStates
<1>2. \A r \in Readers : readers'[r] = NoReader
  BY DEF Die
<1>3. \A o : ~Keeps(NoReader, o)
  BY FreshKeepsNothing
<1> QED
  BY <1>1, <1>2, <1>3, FlowsFrom

LEMMA FailedSaveFlows == FailedSave => Flows
BY FlowsFrom DEF FailedSave

LEMMA ClocksFlow ==
  ASSUME Shape,
         ScanStep \/ Pick \/ (\E p \in Paths : Check(p))
           \/ (\E who : SaveOpen(who) \/ SaveWrite(who))
  PROVE  Flows
<1>1. CASE Panic
  BY <1>1, DieFlows DEF Panic
<1>2. CASE ~Panic
  <2>1. \A p \in Paths : disk'[p] \in {disk[p], states[p], NoState}
    <3>1. disk' \in {disk, states, NoStates}
      BY <1>2 DEF ScanStep, ScanKeys, ScanWalk, ScanMerge, ClockSaveOpen, ClockSaveWrite,
         SaveOpen, SaveWrite, Pick, Check
    <3> QED
      BY <3>1 DEF NoStates
  <2>2. \A p \in Paths : states'[p] \in {states[p], 0, NoState}
    <3>1. states' = states \/ states' = [p \in Paths |-> Merged(p)]
      BY <1>2 DEF ScanStep, ScanKeys, ScanWalk, ScanMerge, ClockSaveOpen, ClockSaveWrite,
         SaveOpen, SaveWrite, Pick, Check
    <3> QED
      BY <3>1 DEF Merged
  <2>3. CASE readers' = readers
    BY <2>1, <2>2, <2>3, FlowsFrom
  <2>4. CASE ScanMerge
    <3>1. UNCHANGED disk /\ \E gone : Detach(gone)
      BY <1>2, <2>4 DEF ScanMerge
    <3> QED
      BY <2>2, <3>1, DetachFlows
  <2>5. ASSUME NEW p \in Paths, Check(p)
        PROVE  Flows
    <3>1. CASE readers' # readers
      <4>0. PICK r \in Readers : readers' = [readers EXCEPT ![r] = Started(p, "old")]
        BY <1>2, <2>5, <3>1 DEF Check
      <4>1. PICK d : readers' = [readers EXCEPT ![r] = d] /\ d = Started(p, "old")
        BY <4>0
      <4>2. UNCHANGED <<states, disk>>
        BY <1>2, <2>5 DEF Check
      <4>3. \A o : ~Keeps(d, o)
        BY <4>1, FreshKeepsNothing
      <4> QED
        BY <4>1, <4>2, <4>3, OneReaderFlows
    <3> QED
      BY <2>3, <3>1
  <2>6. ScanKeys \/ ScanWalk \/ ClockSaveOpen \/ ClockSaveWrite \/ Pick => readers' = readers
    BY DEF ScanKeys, ScanWalk, ClockSaveOpen, ClockSaveWrite, SaveOpen, SaveWrite, Pick
  <2>7. (\E who : SaveOpen(who) \/ SaveWrite(who)) => readers' = readers
    BY DEF SaveOpen, SaveWrite
  <2> QED
    BY <2>3, <2>4, <2>5, <2>6, <2>7 DEF ScanStep
<1> QED
  BY <1>1, <1>2

(* Every step of a reader but Send, after which it holds where it stopped. *)
LEMMA ReaderFlows ==
  ASSUME Shape, NEW r \in Readers, ReaderStep(r), ~Send(r)
  PROVE  Flows
<1>1. PICK d : d = readers[r]
  OBVIOUS
<1>2. readers \in [Readers -> ReaderType] /\ d \in ReaderType /\ (d.pc # "idle" => d.path \in Paths)
  BY <1>1 DEF Shape, ReadersSane
<1>3. \A o : Keeps(d, o) => Holds(d.path, o)
  BY <1>1 DEF Holds
<1>4. CASE Panic
  BY <1>4, DieFlows DEF Panic
<1>5. ASSUME NEW l \in {"claim", "load", "leave"}, readers' = [readers EXCEPT ![r].pc = l],
             UNCHANGED <<states, disk>>, d.pc # "idle"
      PROVE  Flows
  <2>1. PICK e : e = [d EXCEPT !.pc = l]
    OBVIOUS
  <2>2. readers' = [readers EXCEPT ![r] = e]
    BY <1>1, <1>2, <1>5, <2>1
  <2>3. e.pc = l /\ e.path = d.path /\ e.held = d.held
    BY <1>2, <2>1 DEF ReaderType
  <2>4. \A o : Keeps(e, o) => Keeps(d, o)
    BY <1>5, <2>3 DEF Keeps
  <2> QED
    BY <1>3, <1>5, <2>2, <2>3, <2>4, OneReaderFlows
<1>6. CASE readers' = [readers EXCEPT ![r] = NoReader] /\ UNCHANGED <<states, disk>>
  BY <1>6, FreshKeepsNothing, OneReaderFlows
<1>7. CASE Acquire(r) \/ Claim(r) \/ Leave(r)
  BY <1>1, <1>5, <1>6, <1>7 DEF Acquire, Claim, Leave, ReaderAt
<1>8. CASE Load(r) /\ ~Panic
  <2>1. PICK known : known = IF d.held = Live THEN states[d.path] ELSE d.held
    OBVIOUS
  <2>2. PICK e : e = [d EXCEPT !.pc = "scan", !.held = Live, !.off = known]
    OBVIOUS
  <2>3. /\ d.pc = "load" /\ readers' = [readers EXCEPT ![r] = e]
        /\ UNCHANGED <<disk, states>>
    BY <1>1, <1>8, <2>1, <2>2 DEF Load, ReaderAt
  <2>4. Holds(d.path, known)
    BY <1>3, <2>1, <2>3 DEF Keeps, Holds
  <2>5. e.pc = "scan" /\ e.path = d.path /\ e.held = Live /\ e.off = known
    BY <1>2, <2>2 DEF ReaderType
  <2> QED
    BY <2>3, <2>4, <2>5, OneReaderFlows DEF Keeps
<1>9. CASE Scan(r)
  <2> DEFINE f == files[d.path]
  <2>0. d.pc = "scan" /\ UNCHANGED <<disk, states>>
    BY <1>1, <1>9 DEF Scan, ReaderAt
  <2>1. CASE readers' = [readers EXCEPT ![r].pc = "leave"]
    BY <1>5, <2>0, <2>1
  <2>2. CASE ~(readers' = [readers EXCEPT ![r].pc = "leave"])
    <3>1. PICK new : new = IF d.kind = "event" THEN EventOffset(f, d.off)
                           ELSE ObsoleteOffset(f, d.off)
      OBVIOUS
    <3>2. PICK e : e = [d EXCEPT !.pc = IF new > d.off THEN "send" ELSE "update",
                                 !.new = new, !.gen = f.gen,
                                 !.to = IF new > f.size THEN f.size ELSE new]
      OBVIOUS
    <3>3. readers' = [readers EXCEPT ![r] = e] /\ f.there
      BY <1>1, <1>9, <2>2, <3>1, <3>2 DEF Scan
    <3>4. ~(new > d.off) => new = d.off
      BY <1>1, <1>9, <3>1, <3>3, ScanFacts
    <3> HIDE DEF f
    <3>5. /\ e.path = d.path /\ e.held = d.held /\ e.off = d.off /\ e.new = new
          /\ e.pc = IF new > d.off THEN "send" ELSE "update"
      BY <1>2, <3>2 DEF ReaderType
    <3>6. \A o : Keeps(e, o) => Keeps(d, o)
      BY <2>0, <3>4, <3>5 DEF Keeps
    <3> QED
      BY <1>3, <2>0, <3>3, <3>5, <3>6, OneReaderFlows
  <2> QED
    BY <2>1, <2>2
<1>10. CASE Update(r) /\ ~Panic
  <2>1. PICK e : e = [d EXCEPT !.pc = "leave"]
    OBVIOUS
  <2>2. /\ states' = [states EXCEPT ![d.path] = d.new] /\ d.pc = "update" /\ UNCHANGED disk
        /\ readers' = [readers EXCEPT ![r] = e]
    BY <1>1, <1>2, <1>10, <2>1 DEF Update, ReaderAt
  <2>3. e.pc = "leave" /\ e.path = d.path /\ e.held = d.held
    BY <1>2, <2>1 DEF ReaderType
  <2>4. \A o : Keeps(e, o) => Holds(e.path, o)
    BY <1>3, <2>2, <2>3 DEF Keeps
  <2>5. readers'[r] = e /\ \A s \in Readers : s # r => readers'[s] = readers[s]
    BY <1>2, <2>2
  <2>6. states \in [Paths -> MaybeOffset]
    BY DEF Shape, RestSane
  <2>7. \A p \in Paths : states'[p] = states[p] \/ (p = readers[r].path /\ states'[p] = readers[r].new)
    BY <1>1, <2>2, <2>6
  <2> QED
    BY <1>1, <2>2, <2>4, <2>5, <2>7, FlowsFrom
<1> QED
  BY <1>4, <1>7, <1>8, <1>9, <1>10 DEF ReaderStep

LEMMA NextFlows ==
  ASSUME ~FilesMove, Shape, Next, \A r \in Readers : ~Send(r)
  PROVE  Flows
<1>1. ASSUME UNCHANGED <<disk, readers>>, states' = states \/ states' = disk
      PROVE  Flows
  BY <1>1, FlowsFrom
<1>2. ASSUME NEW p \in Paths, Write(p) \/ Remove(p) \/ Truncate(p) \/ Create(p)
      PROVE  Flows
  BY <1>1, <1>2 DEF Write, Remove, Truncate, Create, Outside
<1>3. CASE Boot
  BY <1>1, <1>3 DEF Boot, LoadDiskFile
<1>4. SyncOpen \/ SyncWrite => Flows
  BY ClocksFlow DEF SyncOpen, SyncWrite
<1>5. ClockSaveFails \/ SyncFails => Flows
  BY SavesThatFail, FailedSaveFlows, DieFlows DEF GivesUp
<1> QED
  BY <1>2, <1>3, <1>4, <1>5, HandleFlows, ReaderFlows, ClocksFlow DEF Next

(* Files only grow, and so does what was handed over.                      *)
LEMMA NextGrows ==
  ASSUME ~FilesMove, Shape, Next, \A r \in Readers : ~Send(r)
  PROVE  Growth
<1>1. ASSUME UNCHANGED <<files, sent>>
      PROVE  Growth
  BY <1>1 DEF Growth
<1>2. ASSUME NEW p \in Paths, Write(p) \/ Remove(p) \/ Truncate(p) \/ Create(p)
      PROVE  Growth
  <2>1. Write(p) /\ UNCHANGED sent
    BY <1>2 DEF Write, Remove, Truncate, Create, Outside
  <2>2. files \in [Paths -> FileType]
    BY DEF Shape, FilesSane
  <2>3. PICK c, size :
          files' = [files EXCEPT ![p] = [files[p] EXCEPT !.size = size,
                      !.ends = IF c.line THEN files[p].ends \cup {size} ELSE files[p].ends]]
    BY <2>1, <2>2 DEF Write
  <2>4. \A q \in Paths : q # p => files'[q] = files[q]
    BY <2>2, <2>3
  <2>5. /\ files'[p].there = files[p].there /\ files'[p].gen = files[p].gen
        /\ files[p].ends \subseteq files'[p].ends
    BY <2>2, <2>3 DEF FileType
  <2> QED
    BY <2>1, <2>4, <2>5 DEF Growth
<1>3. CASE Boot \/ Handle \/ Pick \/ SyncOpen \/ SyncWrite
  BY <1>1, <1>3 DEF Boot, Handle, HandleWrite, HandleCreate, HandleRemove, Pick, SyncOpen,
     SyncWrite, SaveOpen, SaveWrite
<1>4. Panic => Growth
  BY <1>1 DEF Panic, Die
<1>5. ASSUME NEW r \in Readers, ReaderStep(r)
      PROVE  Growth
  BY <1>1, <1>4, <1>5 DEF ReaderStep, Acquire, Claim, Load, Scan, Update, Leave
<1>6. CASE ScanStep
  BY <1>1, <1>4, <1>6 DEF ScanStep, ScanKeys, ScanWalk, ScanMerge, ClockSaveOpen,
     ClockSaveWrite, SaveOpen, SaveWrite
<1>7. ASSUME NEW p \in Paths, Check(p)
      PROVE  Growth
  BY <1>1, <1>4, <1>7 DEF Check
<1>8. ClockSaveFails \/ SyncFails => Growth
  BY <1>1, SavesThatFail DEF FailedSave, GivesUp, Die
<1> QED
  BY <1>2, <1>3, <1>5, <1>6, <1>7, <1>8 DEF Next

Spared(p) == \A i \in DOMAIN sent[p] : fate[p][i] # "lost" => fate'[p][i] # "lost"

LEMMA KeptOn ==
  ASSUME Shape, Rested, Growth, NEW p \in Paths, Spared(p), NEW o, Rests(o, p), KeptBelow(o, p)
  PROVE  KeptBelow(o, p)'
<1>1. files[p].ends \subseteq 1..files[p].size /\ files[p].size \in Nat
  BY Bounds DEF Shape, FilesSane, FileType
<1>2. ASSUME NEW x \in 0..(MaxSize - 1), x < o
      PROVE  x < files[p].size
  <2>1. o # NoState /\ o # 0
    BY <1>2, Bounds DEF NoState
  <2>2. o \in 1..files[p].size
    BY <1>1, <2>1 DEF Rests
  <2> QED
    BY <1>1, <1>2, <2>2, Bounds
<1>3. ASSUME NEW x \in 0..(MaxSize - 1), x < o
      PROVE  Kept(p, x)'
  <2>1. PICK i \in With(p, x) : fate[p][i] # "lost"
    BY <1>2, <1>3 DEF KeptBelow, Kept
  <2>2. i \in DOMAIN sent[p] /\ i \in With(p, x)'
    BY <2>1 DEF With, Growth
  <2>3. fate'[p][i] # "lost"
    BY <2>1, <2>2 DEF Spared
  <2> QED
    BY <2>2, <2>3 DEF Kept
<1> QED
  BY <1>3 DEF KeptBelow

LEMMA NothingBelowStart ==
  ASSUME NEW p
  PROVE  KeptBelow(0, p)' /\ KeptBelow(NoState, p)'
BY DEF KeptBelow, NoState

LEMMA SecureFlows ==
  ASSUME Shape, Rested, Secure, Growth, Flows, \A p \in Paths : Spared(p)
  PROVE  Secure'
<1>1. ASSUME NEW p \in Paths, NEW o, Holds(p, o)'
      PROVE  KeptBelow(o, p)'
  <2>1. CASE o \in {0, NoState}
    BY <2>1, NothingBelowStart
  <2>2. CASE Holds(p, o)
    BY <2>2, HeldOffsetRests, KeptOn DEF Secure
  <2> QED
    BY <1>1, <2>1, <2>2 DEF Flows
<1> QED
  BY <1>1 DEF Secure

(* The end of a process: the state file is all that is held, and it is     *)
(* past nothing that was lost.                                             *)
LEMMA SecureDeath ==
  ASSUME Shape, Secure, Die,
         \A p \in Paths : \A i \in DOMAIN sent[p] : fate'[p][i] = AfterDeath(p, i)
  PROVE  Secure'
<1>1. /\ \A p \in Paths : states'[p] = NoState /\ disk'[p] = disk[p]
      /\ \A r \in Readers : readers'[r] = NoReader
      /\ UNCHANGED <<files, sent>>
  BY DEF Die, NoStates
<1>2. ASSUME NEW p \in Paths, NEW o, Holds(p, o)'
      PROVE  o = NoState \/ o = disk[p]
  <2>1. ASSUME NEW r \in Readers
        PROVE  ~Keeps(readers[r], o)'
    BY <1>1, FreshKeepsNothing DEF Keeps
  <2> QED
    BY <1>1, <1>2, <2>1 DEF Holds
<1>3. ASSUME NEW p \in Paths, NEW o, o = disk[p]
      PROVE  KeptBelow(o, p)'
  <2>1. disk[p] \in Int
    <3>1. disk[p] \in MaybeOffset
      BY DEF Shape, RestSane
    <3>2. MaybeOffset \subseteq Int
      BY DEF MaybeOffset, Offsets, NoState
    <3> QED
      BY <3>1, <3>2
  <2>2. ASSUME NEW x \in 0..(MaxSize - 1), x < o, x < files[p].size
        PROVE  Kept(p, x)'
    <3>1. KeptBelow(disk[p], p)
      BY DEF Secure, Holds, Shape, RestSane
    <3>2. PICK i \in With(p, x) : fate[p][i] # "lost"
      BY <1>3, <2>2, <3>1 DEF KeptBelow, Kept
    <3>3. i \in DOMAIN sent[p] /\ i \in With(p, x)' /\ sent[p][i].from <= x
      BY <1>1, <3>2 DEF With
    <3>4. sent[p][i].from \in Nat /\ x \in Int
      <4>1. PICK S : S = [gen : Nat, boot : 1..boots, from : Offsets, to : Offsets]
        OBVIOUS
      <4>2. sent[p] \in Seq(S)
        BY <4>1 DEF Shape, HistorySane, Batches
      <4>3. sent[p][i] \in S
        BY <3>3, <4>2, ElementOfSeq, LenProperties
      <4>4. sent[p][i].from \in Offsets
        BY <4>1, <4>3
      <4>5. MaxSize \in Nat
        BY Bounds
      <4>6. x \in Int
        BY <2>2, <4>5
      <4> QED
        BY <4>4, <4>6, Bounds
    <3>5. disk[p] > sent[p][i].from
      BY <1>3, <2>1, <2>2, <3>3, <3>4
    <3>6. fate'[p][i] # "lost"
      BY <3>2, <3>3, <3>5 DEF AfterDeath
    <3> QED
      BY <3>3, <3>6 DEF Kept
  <2> QED
    BY <1>1, <2>2 DEF KeptBelow
<1> QED
  BY <1>2, <1>3, NothingBelowStart DEF Secure

LEMMA SendSecure ==
  ASSUME Shape, Shape', Fated, Rested, Secure, NEW r \in Readers, Send(r), Follow
  PROVE  Secure'
<1>1. PICK d : d = readers[r]
  OBVIOUS
<1> DEFINE p == d.path
           b == [gen |-> d.gen, boot |-> boots, from |-> d.off, to |-> d.to]
<1>2. readers \in [Readers -> ReaderType] /\ d \in ReaderType /\ p \in Paths /\ d.pc = "send"
  BY <1>1 DEF Shape, ReadersSane, Send, ReaderAt
<1>3. Rests(d.off, p) /\ d.gen = 1 /\ d.to = d.new /\ files[p].gen = 1
  BY <1>1, <1>2 DEF Rested, ReadersRest, Restful, Fixed
<1>4. UNCHANGED <<files, disk, states, phase>> /\ phase = "up"
      /\ readers' = [readers EXCEPT ![r] = [d EXCEPT !.pc = "update"]]
      /\ sent' = [sent EXCEPT ![p] = Append(sent[p], b)]
  BY <1>1, <1>2 DEF Send, ReaderAt
<1>5. sent \in [Paths -> Batches(boots)] /\ b.gen = 1 /\ b.from = d.off /\ b.to = d.new
  BY <1>3 DEF Shape, HistorySane
<1> HIDE DEF b
<1>6. /\ \A q \in Paths : q # p => sent'[q] = sent[q]
      /\ sent'[p] = Append(sent[p], b)
  BY <1>2, <1>4, <1>5
<1> DEFINE n == Len(sent[p])
<1>7. /\ DOMAIN sent[p] = 1..n /\ n \in Nat
      /\ DOMAIN sent'[p] = 1..(n + 1)
      /\ sent'[p][n + 1] = b
      /\ \A i \in 1..n : sent'[p][i] = sent[p][i]
  <2>1. PICK S : sent[p] \in Seq(S) /\ b \in S
    <3>1. PICK S : sent[p] \in Seq(S)
      BY <1>2, <1>5 DEF Batches
    <3>2. Seq(S) \subseteq Seq(S \cup {b})
      OBVIOUS
    <3> QED
      BY <3>1, <3>2
  <2> QED
    BY <1>6, <2>1, AppendProperties, LenProperties
<1> HIDE DEF n
<1>8. Growth
  BY <1>4, <1>6, <1>7 DEF Growth
<1>9. \A q \in Paths : \A i \in DOMAIN sent[q] :
        i \in DOMAIN sent'[q] /\ ~(i > Len(fate[q])) /\ fate'[q][i] = fate[q][i]
  <2>1. ASSUME NEW q \in Paths, NEW i \in DOMAIN sent[q]
        PROVE  i \in DOMAIN sent'[q] /\ ~(i > Len(fate[q]))
    BY <1>8, <2>1, Indices DEF Growth, Fated, Shape, HistorySane
  <2> QED
    BY <1>4, <2>1, FollowFates DEF NextFate
<1>10. \A q \in Paths : Spared(q)
  BY <1>9 DEF Spared
<1>11. n + 1 \in DOMAIN sent'[p] /\ fate'[p][n + 1] = "memory"
  <2>1. n + 1 \in DOMAIN sent'[p] /\ n + 1 > Len(fate[p])
    <3>1. Len(fate[p]) = n
      BY <1>2 DEF Fated, n
    <3> QED
      BY <1>7, <3>1
  <2> QED
    BY <1>2, <2>1, FollowFates DEF NextFate
<1>12. KeptBelow(d.off, p)'
  <2>1. Holds(p, d.off)
    BY <1>1, <1>2 DEF Holds, Keeps
  <2>2. KeptBelow(d.off, p)
    BY <1>2, <2>1, HeldOffsetRests DEF Secure
  <2> QED
    BY <1>2, <1>3, <1>8, <1>10, <2>2, KeptOn
<1>13. KeptBelow(d.new, p)'
  <2>1. ASSUME NEW x \in 0..(MaxSize - 1), x < d.new, x < files[p].size
        PROVE  Kept(p, x)'
    <3>1. CASE x < d.off
      BY <1>4, <1>12, <2>1, <3>1 DEF KeptBelow
    <3>2. CASE ~(x < d.off)
      <4>1. d.off <= x
        <5>0. MaxSize \in Nat
          BY Bounds
        <5>1. x \in Int
          BY <2>1, <5>0
        <5>2. d.off \in Offsets
          BY <1>2 DEF ReaderType
        <5>3. d.off \in Nat
          BY <5>2, Bounds
        <5> QED
          BY <3>2, <5>1, <5>3
      <4>2. n + 1 \in With(p, x)'
        BY <1>3, <1>4, <1>5, <1>7, <1>11, <2>1, <4>1 DEF With
      <4> QED
        BY <1>11, <4>2 DEF Kept
    <3> QED
      BY <3>1, <3>2
  <2> QED
    BY <1>4, <2>1 DEF KeptBelow
<1>14. ASSUME NEW q \in Paths, NEW o, Holds(q, o)'
       PROVE  Holds(q, o) \/ (q = p /\ o = d.new)
  <2>1. PICK e : e = [d EXCEPT !.pc = "update"]
    OBVIOUS
  <2>2. e.pc = "update" /\ e.path = p /\ e.held = d.held /\ e.off = d.off /\ e.new = d.new
    BY <1>2, <2>1 DEF ReaderType
  <2>3. readers'[r] = e /\ \A s \in Readers : s # r => readers'[s] = readers[s]
    BY <1>2, <1>4, <2>1
  <2>4. Keeps(e, o) => Keeps(d, o) \/ o = d.new
    BY <1>2, <2>2 DEF Keeps
  <2>5. ASSUME NEW s \in Readers, readers'[s].path = q, Keeps(readers[s], o)'
        PROVE  Holds(q, o) \/ (q = p /\ o = d.new)
    <3>1. Keeps(readers'[s], o)
      BY <2>5 DEF Keeps
    <3>2. CASE s = r
      BY <1>1, <2>2, <2>3, <2>4, <2>5, <3>1, <3>2 DEF Holds
    <3>3. CASE s # r
      BY <2>3, <2>5, <3>1, <3>3 DEF Holds
    <3> QED
      BY <3>2, <3>3
  <2> QED
    BY <1>4, <1>14, <2>5 DEF Holds
<1>15. ASSUME NEW q \in Paths, NEW o, Holds(q, o)'
       PROVE  KeptBelow(o, q)'
  <2>1. CASE q = p /\ o = d.new
    BY <1>13, <2>1
  <2>2. CASE Holds(q, o)
    BY <1>8, <1>10, <2>2, HeldOffsetRests, KeptOn DEF Secure
  <2> QED
    BY <1>14, <1>15, <2>1, <2>2
<1> QED
  BY <1>15 DEF Secure

(* The fate of what was sent before the step.                              *)
LEMMA OldFates ==
  ASSUME Shape, Shape', Fated, Follow,
         \A p \in Paths : \A i \in DOMAIN sent[p] : i \in DOMAIN sent'[p]
  PROVE  \A p \in Paths : \A i \in DOMAIN sent[p] :
           fate'[p][i] = IF phase' = "down" THEN AfterDeath(p, i) ELSE fate[p][i]
<1>1. ASSUME NEW p \in Paths, NEW i \in DOMAIN sent[p]
      PROVE  i \in DOMAIN sent'[p] /\ ~(i > Len(fate[p]))
  BY <1>1, Indices DEF Fated, Shape, HistorySane
<1> QED
  BY <1>1, FollowFates DEF NextFate

LEMMA WatchSecure ==
  ASSUME ~FilesMove, PipeShape, Shape', Rested, Secure, Watch
  PROVE  Secure'
<1>1. Shape /\ Fated /\ Alone /\ Next /\ Follow
  BY DEF PipeShape, Watch
<1>2. CASE \E r \in Readers : Send(r)
  BY <1>1, <1>2, SendSecure
<1>3. CASE \A r \in Readers : ~Send(r)
  <2>1. Growth /\ Flows
    BY <1>1, <1>3, NextGrows, NextFlows
  <2>2. \A p \in Paths : \A i \in DOMAIN sent[p] :
          fate'[p][i] = IF phase' = "down" THEN AfterDeath(p, i) ELSE fate[p][i]
    BY <1>1, <2>1, OldFates DEF Growth
  <2>3. CASE phase' = "down" /\ phase # "down"
    <3>1. Die
      BY <1>1, <2>3, NextIsDiscreet DEF Discreet
    <3> QED
      BY <1>1, <2>2, <2>3, <3>1, SecureDeath
  <2>4. CASE phase' # "down" \/ phase = "down"
    <3>1. ASSUME NEW p \in Paths, NEW i \in DOMAIN sent[p]
          PROVE  fate'[p][i] = fate[p][i]
      <4>1. CASE phase' # "down"
        BY <2>2, <4>1
      <4>2. CASE phase = "down"
        <5>1. fate[p][i] # "memory"
          BY <1>1, <4>2, FateIndices DEF Alone, Gone
        <5> QED
          BY <2>2, <5>1 DEF AfterDeath
      <4> QED
        BY <2>4, <4>1, <4>2
    <3> QED
      BY <1>1, <2>1, <3>1, SecureFlows DEF Spared
  <2> QED
    BY <2>3, <2>4
<1> QED
  BY <1>2, <1>3

LEMMA SecureKept ==
  ASSUME ~FilesMove, PipeShape, PipeShape', Rested, Secure, [PipeNext]_pipeVars
  PROVE  Secure'
<1>1. Shape /\ Shape' /\ Fated
  BY DEF PipeShape
<1>2. CASE Crash
  <2>1. Die /\ Follow /\ phase' = "down" /\ sent' = sent
    BY <1>2 DEF Crash, Die
  <2>2. \A p \in Paths : \A i \in DOMAIN sent[p] : fate'[p][i] = AfterDeath(p, i)
    BY <1>1, <2>1, OldFates
  <2> QED
    BY <1>1, <2>1, <2>2, SecureDeath
<1>3. CASE Exit
  <2>1. Die
    BY <1>3 DEF Exit
  <2>2. \A p \in Paths : \A i \in DOMAIN sent[p] : fate'[p][i] = AfterDeath(p, i)
    BY <1>1, <1>3, ExitFates, FateIndices
  <2> QED
    BY <1>1, <2>1, <2>2, SecureDeath
<1>4. ASSUME UNCHANGED <<files, sent>>, Flows,
             \A p \in Paths : \A i \in DOMAIN sent[p] : fate'[p][i] \in {fate[p][i], "settled"}
      PROVE  Secure'
  <2>1. Growth /\ \A p \in Paths : Spared(p)
    BY <1>4 DEF Growth, Spared
  <2> QED
    BY <1>1, <1>4, <2>1, SecureFlows
<1>5. UNCHANGED vars => Flows
  BY FlowsFrom DEF vars
<1>6. ASSUME NEW p \in Paths, Deliver(p)
      PROVE  Secure'
  <2>1. UNCHANGED vars /\ UNCHANGED <<files, sent>>
    BY <1>6 DEF Deliver, vars
  <2>2. PICK j \in DOMAIN fate[p] : fate' = [fate EXCEPT ![p] = [fate[p] EXCEPT ![j] = "settled"]]
    BY <1>6 DEF Deliver
  <2>3. PICK e : e = [fate[p] EXCEPT ![j] = "settled"]
    OBVIOUS
  <2>4. \A i \in DOMAIN fate[p] : e[i] \in {fate[p][i], "settled"}
    BY <2>3
  <2>5. fate' = [fate EXCEPT ![p] = e] /\ fate \in [Paths -> Seq(Fates)]
    BY <1>1, <2>2, <2>3 DEF Fated
  <2>6. \A q \in Paths : fate'[q] = IF q = p THEN e ELSE fate[q]
    BY <2>5
  <2> QED
    BY <1>1, <1>4, <1>5, <2>1, <2>4, <2>6, FateIndices
<1>7. CASE ExitSaveOpen \/ ExitSaveWrite
  <2>1. UNCHANGED <<files, sent, fate>>
    BY <1>7 DEF ExitSaveOpen, ExitSaveWrite, MainGoes, SaveOpen, SaveWrite
  <2>2. \E who : SaveOpen(who) \/ SaveWrite(who)
    BY <1>7 DEF ExitSaveOpen, ExitSaveWrite
  <2> QED
    BY <1>1, <1>4, <2>1, <2>2, ClocksFlow
<1>8. CASE EndGrace \/ UNCHANGED pipeVars
  <2>1. UNCHANGED vars /\ UNCHANGED <<files, sent, fate>>
    BY <1>8 DEF EndGrace, MainGoes, vars, pipeVars
  <2> QED
    BY <1>4, <1>5, <2>1
<1>9. Watch => Secure'
  BY <1>1, WatchSecure
<1>10. CASE ExitSaveFails
  <2>1. FailedSave /\ UNCHANGED fate
    BY <1>10, ExitFailsToSave
  <2>2. UNCHANGED <<files, sent>>
    BY <2>1 DEF FailedSave
  <2> QED
    BY <1>1, <1>4, <2>1, <2>2, FailedSaveFlows
<1> QED
  BY <1>2, <1>3, <1>6, <1>7, <1>8, <1>9, <1>10 DEF PipeNext

LEMMA InitSecure == PipeInit => Secure
<1> SUFFICES ASSUME PipeInit
             PROVE  Secure
  OBVIOUS
<1>1. \A p \in Paths : states[p] = NoState /\ disk[p] = NoState
  BY DEF PipeInit, Init, NoStates
<1>2. \A r \in Readers : readers[r] = NoReader
  BY DEF PipeInit, Init
<1>3. \A p \in Paths, o \in MaybeOffset : Holds(p, o) => o = NoState
  BY <1>1, <1>2, FreshKeepsNothing DEF Holds
<1>4. \A p : KeptBelow(NoState, p)
  BY DEF KeptBelow, NoState
<1> QED
  BY <1>3, <1>4 DEF Secure

(* Lines are lost, or skipped after a death, only if a process was killed  *)
(* while it watched, or its exit was raced: a start that fails has nothing *)
(* in memory.                                                              *)
Blamed == unclean \/ \A p \in Paths : \A i \in DOMAIN fate[p] : fate[p][i] \in {"memory", "settled"}

LEMMA BlamedKept ==
  ASSUME PipeShape, PipeShape', Blamed, [PipeNext]_pipeVars
  PROVE  Blamed'
<1>1. Shape /\ Shape' /\ Fated /\ Fated' /\ Alone /\ unclean \in BOOLEAN
  BY DEF PipeShape
<1>2. \A p \in Paths : DOMAIN fate'[p] = DOMAIN sent'[p]
  <2>1. ASSUME NEW p \in Paths
        PROVE  DOMAIN fate'[p] = DOMAIN sent'[p]
    <3>1. PICK s, n : s = sent' /\ n = boots'
      OBVIOUS
    <3>2. s \in [Paths -> Batches(n)]
      BY <1>1, <3>1 DEF Shape, HistorySane, Batches
    <3>3. DOMAIN s[p] = 1..Len(s[p]) /\ Len(s[p]) \in Nat
      BY <3>2, Indices
    <3>4. fate'[p] \in Seq(Fates) /\ Len(fate'[p]) = Len(s[p])
      BY <1>1, <3>1 DEF Fated
    <3> QED
      BY <3>1, <3>3, <3>4, LenProperties
  <2> QED
    BY <2>1
<1>3. CASE unclean
  BY <1>3 DEF Blamed, PipeNext, Watch, Crash, Exit, Deliver, ExitSaveOpen, ExitSaveWrite,
     ExitSaveFails, EndGrace, MainGoes, Follow, pipeVars
<1>4. CASE ~unclean /\ Follow /\ ~(phase = "up" /\ phase' = "down")
  <2>1. ASSUME NEW p \in Paths, NEW i \in DOMAIN fate'[p]
        PROVE  fate'[p][i] \in {"memory", "settled"}
    <3>1. fate'[p][i] = NextFate(p, i)
      BY <1>1, <1>2, <1>4, <2>1, FollowFates
    <3>2. CASE i > Len(fate[p])
      BY <3>1, <3>2 DEF NextFate
    <3>3. CASE ~(i > Len(fate[p]))
      <4>1. i \in DOMAIN fate[p]
        <5>1. PICK s, n : s = sent' /\ n = boots'
          OBVIOUS
        <5>2. s \in [Paths -> Batches(n)]
          BY <1>1, <5>1 DEF Shape, HistorySane, Batches
        <5>3. i \in 1..Len(s[p]) /\ Len(s[p]) \in Nat
          BY <1>2, <2>1, <5>1, <5>2, Indices
        <5>4. fate[p] \in Seq(Fates)
          BY <1>1 DEF Fated
        <5> QED
          BY <3>3, <5>3, <5>4, LenProperties
      <4>2. fate[p][i] \in {"memory", "settled"}
        BY <1>4, <4>1 DEF Blamed
      <4>3. phase' = "down" => fate[p][i] # "memory"
        BY <1>1, <1>4, <4>1 DEF Alone, Gone
      <4> QED
        BY <3>1, <3>3, <4>2, <4>3 DEF NextFate, AfterDeath
    <3> QED
      BY <3>2, <3>3
  <2> QED
    BY <2>1 DEF Blamed
<1>5. CASE Watch \/ Crash
  <2>1. Follow
    BY <1>5 DEF Watch, Crash
  <2>2. phase = "up" /\ phase' = "down" => Blamed'
    BY <2>1 DEF Follow, Blamed
  <2> QED
    BY <1>3, <1>4, <2>1, <2>2
<1>6. CASE Exit /\ ~unclean
  <2>1. CASE main = "race"
    BY <1>6, <2>1 DEF Exit, Blamed
  <2>2. CASE main # "race"
    <3>1. Gone
      BY <1>6, <2>2, GoneIsEmpty DEF Exit, MainAt
    <3>2. \A p \in Paths : \A i \in DOMAIN fate[p] : fate'[p][i] = fate[p][i]
      BY <1>6, <3>1, ExitFates DEF AfterDeath, Gone
    <3> QED
      BY <1>6, <3>2, ExitFates DEF Blamed
  <2> QED
    BY <2>1, <2>2
<1>7. ASSUME NEW p \in Paths, Deliver(p), ~unclean
      PROVE  Blamed'
  <2>1. PICK j \in DOMAIN fate[p] : fate' = [fate EXCEPT ![p] = [fate[p] EXCEPT ![j] = "settled"]]
    BY <1>7 DEF Deliver
  <2>2. PICK e : e = [fate[p] EXCEPT ![j] = "settled"]
    OBVIOUS
  <2>3. DOMAIN e = DOMAIN fate[p] /\ \A i \in DOMAIN fate[p] : e[i] \in {fate[p][i], "settled"}
    BY <2>2
  <2>4. fate' = [fate EXCEPT ![p] = e] /\ fate \in [Paths -> Seq(Fates)]
    BY <1>1, <2>1, <2>2 DEF Fated
  <2>5. \A q \in Paths : fate'[q] = IF q = p THEN e ELSE fate[q]
    BY <2>4
  <2>6. \A q \in Paths : \A i \in DOMAIN fate'[q] : fate'[q][i] \in {"memory", "settled"}
    BY <1>7, <2>3, <2>5 DEF Blamed
  <2> QED
    BY <2>6 DEF Blamed
<1>8. CASE ExitSaveOpen \/ ExitSaveWrite \/ ExitSaveFails \/ EndGrace \/ UNCHANGED pipeVars
  BY <1>8 DEF Blamed, ExitSaveOpen, ExitSaveWrite, ExitSaveFails, EndGrace, MainGoes, pipeVars
<1> QED
  BY <1>3, <1>5, <1>6, <1>7, <1>8 DEF PipeNext

PipeInv == PipeShape /\ Rested /\ Secure /\ Blamed

LEMMA PipeInvGives == PipeInv => NothingForgotten
<1> SUFFICES ASSUME PipeInv
             PROVE  NothingForgotten
  OBVIOUS
<1>1. ASSUME NEW p \in Paths
      PROVE  KeptBelow(states[p], p) /\ KeptBelow(disk[p], p)
  BY DEF PipeInv, PipeShape, Shape, RestSane, Secure, Holds
<1>2. ASSUME NEW p \in Paths, Range(fate[p]) \cap {"lost", "skipped"} # {}
      PROVE  unclean
  <2>1. PICK i \in DOMAIN fate[p] : fate[p][i] \in {"lost", "skipped"}
    BY <1>2 DEF Range
  <2> QED
    BY <2>1 DEF PipeInv, Blamed
<1> QED
  BY <1>1, <1>2 DEF NothingForgotten

LEMMA InitPipeInv == ~FilesMove /\ PipeInit => PipeInv
<1> SUFFICES ASSUME ~FilesMove, PipeInit
             PROVE  PipeInv
  OBVIOUS
<1>1. Blamed
  <2>1. DOMAIN <<>> = {}
    OBVIOUS
  <2> QED
    BY <2>1 DEF PipeInit, Blamed
<1> QED
  BY <1>1, InitPipeShape, InitRested, InitSecure DEF PipeInv, PipeInit

(* No offset, in memory or saved, is past a line that the consumer never   *)
(* had or that died with it and is still to be read again, and only a      *)
(* killed process or a raced exit loses anything: through any number of    *)
(* crashes, also inside a save, failed walks, reads and saves, exits and   *)
(* starts.                                                                 *)
THEOREM NothingIsForgotten ==
  ASSUME ~FilesMove, Whole
  PROVE  PipeSpec => []NothingForgotten
<1>1. PipeInit => PipeInv
  BY InitPipeInv
<1>2. PipeInv /\ [PipeNext]_pipeVars => PipeInv'
  BY PipeShapeKept, PipeRestedKept, SecureKept, BlamedKept DEF PipeInv
<1> QED
  BY <1>1, <1>2, PipeInvGives, PTL DEF PipeSpec
-----------------------------------------------------------------------------
(* Readers and their order.  The end of a process takes its readers and    *)
(* its map along, and graceExit only touches the lock and the state file.  *)

LEMMA DieOrderly ==
  ASSUME Orderly, Die, UNCHANGED panicked
  PROVE  Calm' /\ OneReaderPerFile' /\ Paced'
BY DieCalm, DieEndsWork, DiePaced DEF Orderly

(* Saving changes neither map nor readers. *)
LEMMA SaveOrderly ==
  ASSUME Orderly, UNCHANGED <<files, events, phase, states, claims, readers, clock, boots,
                              panicked, sent>>
  PROVE  Calm' /\ OneReaderPerFile' /\ Paced'
<1>1. Calm'
  BY DEF Orderly, Calm, Fixed, Writes, Resting, Knowing, Known, Attached
<1>2. OneReaderPerFile'
  BY DEF Orderly, OneReaderPerFile, Working
<1>3. Paced'
  BY DEF Orderly, Paced, Current, Behind, Updated, Known, LinesInOrder
<1> QED
  BY <1>1, <1>2, <1>3

LEMMA ExitSaves ==
  ASSUME ExitSaveOpen \/ ExitSaveWrite \/ ExitSaveFails \/ EndGrace \/ (\E p \in Paths : Deliver(p))
         \/ UNCHANGED pipeVars
  PROVE  UNCHANGED <<files, events, phase, states, claims, readers, clock, boots, panicked, sent>>
BY DEF ExitSaveOpen, ExitSaveWrite, ExitSaveFails, SaveOpen, SaveWrite, SaveFails, EndGrace,
   Deliver, pipeVars, vars

LEMMA PipeOrderlyKept ==
  ASSUME ~FilesMove, PipeShape, PipeShape', Orderly, [PipeNext]_pipeVars, [Lists]_vars
  PROVE  Orderly'
<1>1. Shape /\ Shape' /\ Calm /\ OneReaderPerFile /\ Paced
  BY DEF PipeShape, Orderly
<1>2. CASE Next
  BY <1>1, <1>2, CalmKept, OneReaderKept, PacedKept DEF Orderly
<1>3. CASE Crash \/ Exit
  BY <1>1, <1>3, DieOrderly DEF Crash, Exit, Orderly
<1>4. CASE ExitSaveOpen \/ ExitSaveWrite \/ ExitSaveFails \/ EndGrace
           \/ (\E p \in Paths : Deliver(p)) \/ UNCHANGED pipeVars
  BY <1>1, <1>4, ExitSaves, SaveOrderly DEF Orderly
<1> QED
  BY <1>2, <1>3, <1>4 DEF PipeNext, Watch

LEMMA PipeOrderly ==
  ASSUME ~FilesMove
  PROVE  PipeSpec /\ WalksSucceed => []Orderly
<1>1. PipeInit => PipeShape /\ Orderly
  BY InitPipeShape, InitShape, InitCalm, InitPaced, InitOneReader DEF PipeInit, Orderly
<1>2. PipeShape /\ Orderly /\ [PipeNext]_pipeVars /\ [Lists]_vars => (PipeShape /\ Orderly)'
  BY PipeShapeKept, PipeOrderlyKept
<1> QED
  BY <1>1, <1>2, PTL DEF PipeSpec, WalksSucceed

(* However often the program is killed, exits and starts, each process     *)
(* hands over the lines of a file in order and each once, the lines it     *)
(* accepts while graceExit waits included.                                 *)
THEOREM PipeLinesInOrder ==
  ASSUME ~FilesMove
  PROVE  PipeSpec /\ WalksSucceed => []LinesInOrder
<1>1. Orderly => LinesInOrder
  BY DEF Orderly, Paced
<1> QED
  BY <1>1, PipeOrderly, PTL

(* No exit, and no start from whatever the state file holds, makes a       *)
(* goroutine meet a state that is gone.                                    *)
THEOREM PipeNeverDereferencesNil ==
  ASSUME ~FilesMove
  PROVE  PipeSpec /\ WalksSucceed => []NeverPanics
<1>1. Orderly => NeverPanics
  BY DEF Orderly, Calm, NeverPanics
<1> QED
  BY <1>1, PipeOrderly, PTL
=============================================================================
