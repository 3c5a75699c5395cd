------------------------------ MODULE FileWatch ------------------------------
(***************************************************************************)
(* pkg/k3/watch/watch.go: how far each log file has been read, who reads   *)
(* it, and what is saved.  The threads are the goroutine that handles file *)
(* events, the reader goroutines it and the obsolete clock start, the      *)
(* obsolete clock itself and the clock that saves the states.  Pipeline    *)
(* adds crashes and the orderly exit.                                      *)
(*                                                                         *)
(* A file is a size and the set of positions at which a line ends, in      *)
(* units small enough for a line to be half written.  A critical section   *)
(* on GlobalFileStatesLock is one action, except the save, inside which    *)
(* the state file on disk is empty.  Time is left out: a file may be found *)
(* obsolete whenever the clock looks.                                      *)
(***************************************************************************)
EXTENDS Integers, Sequences, FiniteSets, Functions

CONSTANTS
  Paths,                 \* the log files under the watched directories
  Readers,               \* identities of reader goroutines
  ConfigMaxReadCount,    \* watch.max_read_count, any integer
  DefaultMaxReadCount,
  ObsoleteMaxReadCount,  \* watch.obsolete_max_read_count, any integer
  ProcessingSlots,       \* capacity of processingSem
  Chunks,                \* what a program may append: [size, line]
  FilesMove,             \* files may be created, truncated and removed
  MaxSize,               \* bound: the size of a file
  MaxGeneration,         \* bound: how often a path is created or truncated
  MaxEvents,             \* bound: the events waiting
  MaxBoots,              \* bound: how often the program is started
  MaxFaults              \* bound: crashes (in Pipeline), failed walks, reads and saves

ASSUME FileWatchAssumption ==
  /\ IsFiniteSet(Paths) /\ IsFiniteSet(Readers)
  /\ ConfigMaxReadCount \in Int /\ ObsoleteMaxReadCount \in Int
  /\ DefaultMaxReadCount \in Nat \ {0}
  /\ ProcessingSlots \in Nat \ {0}
  /\ Chunks \subseteq [size : Nat \ {0}, line : BOOLEAN]
  /\ FilesMove \in BOOLEAN
  /\ {MaxSize, MaxGeneration, MaxEvents, MaxBoots, MaxFaults} \subseteq Nat

NoState == -1            \* a path that is not in the map
Live == -2               \* a pointer to the FileState that is in the map

VARIABLES
  files,       \* the log files on disk
  disk,        \* the state file: the saved offset of each path, or NoState
  events,      \* watcher.Events, oldest first
  phase,       \* "down", "boot" (Run before InitWatcher) or "up"
  states,      \* GlobalFileStates: the offset of each path, or NoState
  lock,        \* who holds GlobalFileStatesLock during a save
  claims,      \* processingMap
  readers,     \* the reader goroutines
  clock,       \* the obsolete clock (and Run, which scans like it)
  boots,       \* history: how often the program was started
  faults,      \* history: what went wrong so far
  panicked,    \* history: a nil dereference has killed the program
  sent         \* history: what was handed to the consumer, per path

memory == <<events, phase, states, lock, claims, readers, clock>>
history == <<boots, faults, panicked, sent>>
vars == <<files, disk, memory, history>>

NoReader == [pc |-> "idle", path |-> "", kind |-> "", held |-> Live,
             off |-> 0, new |-> 0, gen |-> 0, to |-> 0]
NoClock == [pc |-> "idle", keys |-> {}, walked |-> {}, todo |-> {}]
NewFile == [there |-> TRUE, gen |-> 1, size |-> 0, ends |-> {}]
NoFile == [NewFile EXCEPT !.there = FALSE, !.gen = 0]
NoStates == [p \in Paths |-> NoState]

(* The first start, with no state file yet.  Where files may move, some of *)
(* the paths may only be created later.                                    *)
Init ==
  /\ \E S \in SUBSET Paths :
       /\ FilesMove \/ S = Paths
       /\ files = [p \in Paths |-> IF p \in S THEN NewFile ELSE NoFile]
  /\ disk = NoStates
  /\ events = <<>>
  /\ phase = "down"
  /\ states = NoStates
  /\ lock = "free"
  /\ claims = {}
  /\ readers = [r \in Readers |-> NoReader]
  /\ clock = NoClock
  /\ boots = 0
  /\ faults = 0
  /\ panicked = FALSE
  /\ sent = [p \in Paths |-> <<>>]

There == {p \in Paths : files[p].there}
Known == {p \in Paths : states[p] # NoState}
-----------------------------------------------------------------------------
(* Scanning. *)

(* The positions bufio.ScanLines leaves a reader at that starts at o, as   *)
(* the code counts them: len(line) + 1 per line, also for the last line    *)
(* when its newline is not there yet.                                      *)
TokenEnds(f, o) ==
  {e \in f.ends : e > o} \cup
  (IF o < f.size /\ f.size \notin f.ends THEN {f.size + 1} ELSE {})

AfterTokens(f, o, n) ==
  IF n <= 0 THEN o
  ELSE CHOOSE e \in TokenEnds(f, o) :
         Cardinality({x \in TokenEnds(f, o) : x <= e}) = n

TokensRead(f, o, max) ==
  LET n == Cardinality(TokenEnds(f, o)) IN IF max < n THEN max ELSE n

MaxReadCount ==
  IF ConfigMaxReadCount < 0 \/ ConfigMaxReadCount > DefaultMaxReadCount
    THEN DefaultMaxReadCount ELSE ConfigMaxReadCount

(* Mutant: every line read is handed over, as the commented-out code did. *)
EventOffsetAll(f, o) == AfterTokens(f, o, TokensRead(f, o, MaxReadCount))

(* readEventNameByOffset keeps the last line it read for the next time. *)
EventOffset(f, o) == AfterTokens(f, o, TokensRead(f, o, MaxReadCount) - 1)

(* processReadObsoleteFile hands over all it read. *)
ObsoleteOffset(f, o) == AfterTokens(f, o, TokensRead(f, o, ObsoleteMaxReadCount))
-----------------------------------------------------------------------------
(* The programs that write the logs.  An event like the last one waiting   *)
(* may be merged with it; there is nobody to queue it while the program is *)
(* not watching.                                                           *)
Event(op, p) == [op |-> op, path |-> p]

Notify(e) ==
  IF phase # "up" THEN UNCHANGED events
  ELSE \/ /\ Len(events) < MaxEvents
          /\ events' = Append(events, e)
       \/ /\ events # <<>>
          /\ events[Len(events)] = e
          /\ UNCHANGED events

Outside == UNCHANGED <<disk, phase, states, lock, claims, readers, clock, history>>

Write(p) ==
  /\ files[p].there
  /\ \E c \in Chunks :
       LET size == files[p].size + c.size
       IN /\ size <= MaxSize
          /\ files' = [files EXCEPT ![p].size = size,
                         ![p].ends = IF c.line THEN @ \cup {size} ELSE @]
  /\ Notify(Event("write", p))
  /\ Outside

Remove(p) ==
  /\ FilesMove
  /\ files[p].there
  /\ files' = [files EXCEPT ![p] = [NewFile EXCEPT !.there = FALSE, !.gen = files[p].gen]]
  /\ Notify(Event("remove", p))
  /\ Outside

(* As copytruncate does; what comes after it counts as another file.       *)
Truncate(p) ==
  /\ FilesMove
  /\ files[p].there /\ files[p].size > 0
  /\ files[p].gen < MaxGeneration
  /\ files' = [files EXCEPT ![p] = [NewFile EXCEPT !.gen = files[p].gen + 1]]
  /\ Notify(Event("write", p))
  /\ Outside

Create(p) ==
  /\ FilesMove
  /\ ~files[p].there
  /\ files[p].gen < MaxGeneration
  /\ files' = [files EXCEPT ![p] = [NewFile EXCEPT !.gen = files[p].gen + 1]]
  /\ Notify(Event("create", p))
  /\ Outside
-----------------------------------------------------------------------------
(* The end of the process: only the disk stays. *)
Die ==
  /\ phase' = "down"
  /\ events' = <<>>
  /\ states' = NoStates
  /\ lock' = "free"
  /\ claims' = {}
  /\ readers' = [r \in Readers |-> NoReader]
  /\ clock' = NoClock
  /\ UNCHANGED <<files, disk, boots, sent>>

(* A nil *FileState is dereferenced; no goroutine of watch.go recovers. *)
Panic == /\ panicked' = TRUE
         /\ UNCHANGED faults
         /\ Die

(* An error the operating system reports. *)
Fault == faults < MaxFaults /\ faults' = faults + 1

(* Mutant: a restart goes on at the end of the files it knows. *)
LoadDiskFileAtEnd ==
  states' = [p \in Paths |-> IF disk[p] = NoState THEN NoState ELSE files[p].size]

(* LoadDiskFileToGlobalFileStates: an empty file leaves the map empty. *)
LoadDiskFile == states' = disk

(* Run: the state file is loaded, then the directories are scanned. *)
Boot ==
  /\ phase = "down"
  /\ boots < MaxBoots
  /\ boots' = boots + 1
  /\ phase' = "boot"
  /\ LoadDiskFile
  /\ UNCHANGED <<files, disk, events, lock, claims, readers, clock, faults, panicked, sent>>
-----------------------------------------------------------------------------
(* Changing the map. *)

(* Goroutines of the obsolete clock hold a pointer to a FileState.  Once   *)
(* another FileState takes its place in the map, or none, nobody changes   *)
(* the old one any more: they are left with its last offset.               *)
Unread(d) == d.kind = "old" /\ d.held = Live /\ d.pc \in {"queued", "claim", "load"}

Detach(gone) ==
  readers' = [r \in Readers |->
    IF Unread(readers[r]) /\ readers[r].path \in gone
      THEN [readers[r] EXCEPT !.held = states[readers[r].path]]
      ELSE readers[r]]

(* go processing(...) or go processReadObsoleteFile(...). *)
Started(p, kind) == [NoReader EXCEPT !.pc = "queued", !.path = p, !.kind = kind]

Handling(op) ==
  /\ phase = "up"
  /\ events # <<>>
  /\ Head(events).op = op
  /\ events' = Tail(events)

(* writeEvent: a state for a file that has none, and a reader for it. *)
HandleWrite ==
  /\ Handling("write")
  /\ lock = "free"
  /\ LET p == Head(events).path
     IN /\ states' = [states EXCEPT ![p] = IF @ = NoState THEN 0 ELSE @]
        /\ \E r \in Readers :
             /\ readers[r].pc = "idle"
             /\ readers' = [readers EXCEPT ![r] = Started(p, "event")]
  /\ UNCHANGED <<files, disk, phase, lock, claims, clock, history>>

(* createEvent: the file may be gone again; else it gets a new state. *)
HandleCreate ==
  /\ Handling("create")
  /\ LET p == Head(events).path
     IN \/ /\ ~files[p].there
           /\ UNCHANGED <<states, readers>>
        \/ /\ files[p].there
           /\ lock = "free"
           /\ states' = [states EXCEPT ![p] = 0]
           /\ Detach({p})
  /\ UNCHANGED <<files, disk, phase, lock, claims, clock, history>>

(* removeEvent *)
HandleRemove ==
  /\ Handling("remove")
  /\ lock = "free"
  /\ states' = [states EXCEPT ![Head(events).path] = NoState]
  /\ Detach({Head(events).path})
  /\ UNCHANGED <<files, disk, phase, lock, claims, clock, history>>
-----------------------------------------------------------------------------
(* A reader goroutine. *)
ReaderAt(r, l) == phase = "up" /\ readers[r].pc = l

Busy == {r \in Readers : readers[r].pc \notin {"idle", "queued"}}

(* processingSem <- struct{}{} *)
Acquire(r) ==
  /\ ReaderAt(r, "queued")
  /\ Cardinality(Busy) < ProcessingSlots
  /\ readers' = [readers EXCEPT ![r].pc = "claim"]
  /\ UNCHANGED <<files, disk, events, phase, states, lock, claims, clock, history>>

(* Mutant: the claim is not looked at. *)
ClaimAnyway(r) ==
  /\ ReaderAt(r, "claim")
  /\ claims' = claims \cup {readers[r].path}
  /\ readers' = [readers EXCEPT ![r].pc = "load"]
  /\ UNCHANGED <<files, disk, events, phase, states, lock, clock, history>>

(* processingMap.LoadOrStore: whoever finds the path taken just leaves. *)
Claim(r) ==
  /\ ReaderAt(r, "claim")
  /\ \/ /\ readers[r].path \in claims
        /\ readers' = [readers EXCEPT ![r] = NoReader]
        /\ UNCHANGED claims
     \/ /\ readers[r].path \notin claims
        /\ claims' = claims \cup {readers[r].path}
        /\ readers' = [readers EXCEPT ![r].pc = "load"]
  /\ UNCHANGED <<files, disk, events, phase, states, lock, clock, history>>

(* The offset to read from, loaded without the lock: from the map, or      *)
(* through the pointer the goroutine was given.                            *)
Load(r) ==
  /\ ReaderAt(r, "load")
  /\ LET d == readers[r]
         known == IF d.held = Live THEN states[d.path] ELSE d.held
     IN \/ /\ known = NoState
           /\ Panic
        \/ /\ known # NoState
           /\ readers' = [readers EXCEPT ![r] = [d EXCEPT !.pc = "scan", !.held = Live, !.off = known]]
           /\ UNCHANGED <<files, disk, events, phase, states, lock, claims, clock, history>>

(* Open, seek, and read lines up to the limit or the end of the file.      *)
(* After an error, which includes a file that is gone, nothing is updated. *)
Scan(r) ==
  /\ ReaderAt(r, "scan")
  /\ LET d == readers[r]
         f == files[d.path]
         new == IF d.kind = "event" THEN EventOffset(f, d.off) ELSE ObsoleteOffset(f, d.off)
     IN \/ /\ f.there
           /\ readers' = [readers EXCEPT ![r] =
                [d EXCEPT !.pc = IF new > d.off THEN "send" ELSE "update",
                          !.new = new, !.gen = f.gen,
                          !.to = IF new > f.size THEN f.size ELSE new]]
           /\ UNCHANGED faults
        \/ /\ IF f.there THEN Fault ELSE UNCHANGED faults
           /\ readers' = [readers EXCEPT ![r].pc = "leave"]
  /\ UNCHANGED <<files, disk, events, phase, states, lock, claims, clock, boots, panicked, sent>>

(* SendData2Consumer: Track for every line, in order. *)
Send(r) ==
  /\ ReaderAt(r, "send")
  /\ LET d == readers[r]
     IN sent' = [sent EXCEPT ![d.path] =
                   Append(@, [gen |-> d.gen, boot |-> boots, from |-> d.off, to |-> d.to])]
  /\ readers' = [readers EXCEPT ![r].pc = "update"]
  /\ UNCHANGED <<files, disk, events, phase, states, lock, claims, clock, boots, faults, panicked>>

(* Mutant: the offset becomes the size the file has by now. *)
UpdateToSize(r) ==
  /\ ReaderAt(r, "update")
  /\ lock = "free"
  /\ states' = [states EXCEPT ![readers[r].path] = files[readers[r].path].size]
  /\ readers' = [readers EXCEPT ![r].pc = "leave"]
  /\ UNCHANGED <<files, disk, events, phase, lock, claims, clock, history>>

(* GlobalFileStates[path].Offset = currentOffset, under the lock. *)
Update(r) ==
  /\ ReaderAt(r, "update")
  /\ lock = "free"
  /\ \/ /\ states[readers[r].path] = NoState
        /\ Panic
     \/ /\ states[readers[r].path] # NoState
        /\ states' = [states EXCEPT ![readers[r].path] = readers[r].new]
        /\ readers' = [readers EXCEPT ![r].pc = "leave"]
        /\ UNCHANGED <<files, disk, events, phase, lock, claims, clock, history>>

(* Mutant: the path stays in processingMap. *)
LeaveClaimed(r) ==
  /\ ReaderAt(r, "leave")
  /\ readers' = [readers EXCEPT ![r] = NoReader]
  /\ UNCHANGED <<files, disk, events, phase, states, lock, claims, clock, history>>

(* The deferred processingMap.Delete and the release of the semaphore. *)
Leave(r) ==
  /\ ReaderAt(r, "leave")
  /\ claims' = claims \ {readers[r].path}
  /\ readers' = [readers EXCEPT ![r] = NoReader]
  /\ UNCHANGED <<files, disk, events, phase, states, lock, clock, history>>
-----------------------------------------------------------------------------
(* ScanLogFileToGlobalFileStatesAndSaveToDiskFile, of the obsolete clock   *)
(* at every tick and of Run before anything is watched.                    *)
ClockAt(l) == phase # "down" /\ clock.pc = l

(* The keys of the map, read without the lock. *)
ScanKeys ==
  /\ ClockAt("idle")
  /\ clock' = [NoClock EXCEPT !.pc = "walk", !.keys = Known]
  /\ UNCHANGED <<files, disk, events, phase, states, lock, claims, readers, history>>

(* FetchDirectory; a directory it cannot walk counts as empty. *)
ScanWalk ==
  /\ ClockAt("walk")
  /\ \/ /\ clock' = [clock EXCEPT !.pc = "merge", !.walked = There]
        /\ UNCHANGED faults
     \/ /\ Fault
        /\ clock' = [clock EXCEPT !.pc = "merge"]
  /\ UNCHANGED <<files, disk, events, phase, states, lock, claims, readers, boots, panicked, sent>>

(* Mutant: the map is built anew from the walk. *)
MergedAnew(p) == IF p \in clock.walked THEN 0 ELSE NoState

(* Mutant: a file without a state is read from its end. *)
MergedAtEnd(p) == IF p \in clock.walked \ clock.keys THEN files[p].size
                  ELSE IF p \in clock.keys \ clock.walked THEN NoState
                  ELSE states[p]

(* Mutant: keys and walk are mixed up. *)
MergedSwapped(p) == IF p \in clock.walked \ clock.keys THEN 0
                    ELSE IF p \in clock.keys THEN NoState
                    ELSE states[p]

(* What is on disk and not among the keys is added with offset 0, what is  *)
(* among the keys and not on disk is deleted.                              *)
Merged(p) == IF p \in clock.walked \ clock.keys THEN 0
             ELSE IF p \in clock.keys \ clock.walked THEN NoState
             ELSE states[p]

(* A file that is both on disk and among the keys has its IndexName        *)
(* compared, which needs it in the map still.                              *)
ScanMerge ==
  /\ ClockAt("merge")
  /\ lock = "free"
  /\ \/ /\ ~ (clock.walked \cap clock.keys \subseteq Known)
        /\ Panic
     \/ /\ clock.walked \cap clock.keys \subseteq Known
        /\ states' = [p \in Paths |-> Merged(p)]
        /\ Detach((clock.walked \ clock.keys) \cup (clock.keys \ clock.walked))
        /\ clock' = [NoClock EXCEPT !.pc = "save"]
        /\ UNCHANGED <<files, disk, events, phase, lock, claims, history>>

(* Mutant: a save does not take the lock. *)
SaveOpenUnlocked(who) ==
  /\ lock' = who
  /\ disk' = NoStates
  /\ UNCHANGED <<files, events, phase, states, claims, readers, history>>

(* SaveGlobalFileStatesToDiskFile: the file is truncated, then written. *)
SaveOpen(who) ==
  /\ lock = "free"
  /\ lock' = who
  /\ disk' = NoStates
  /\ UNCHANGED <<files, events, phase, states, claims, readers, history>>

SaveWrite(who) ==
  /\ lock = who
  /\ lock' = "free"
  /\ disk' = states
  /\ UNCHANGED <<files, events, states, claims, readers, history>>

(* The state file cannot be opened, and keeps what it has, or, once it is  *)
(* open, nothing reaches it, and it stays empty.                           *)
SaveFails(who) ==
  /\ lock \in {"free", who}
  /\ lock' = "free"
  /\ Fault
  /\ UNCHANGED <<files, disk, events, states, claims, readers, boots, panicked, sent>>

ClockSaveOpen == /\ ClockAt("save")
                 /\ clock' = [clock EXCEPT !.pc = "write"]
                 /\ SaveOpen("clock")

(* Mutant: Run does all that a tick of the obsolete clock does. *)
ClockSaveWriteOfTick ==
  /\ ClockAt("write")
  /\ clock' = [clock EXCEPT !.pc = "pick"]
  /\ UNCHANGED phase
  /\ SaveWrite("clock")

(* Run goes on to watch, the clock to the obsolete files. *)
ClockSaveWrite ==
  /\ ClockAt("write")
  /\ \/ phase = "boot" /\ phase' = "up" /\ clock' = NoClock
     \/ phase = "up" /\ UNCHANGED phase /\ clock' = [clock EXCEPT !.pc = "pick"]
  /\ SaveWrite("clock")

(* Run gives up and the program ends; the clock does not mind. *)
ClockSaveFails ==
  /\ ClockAt("save") \/ ClockAt("write")
  /\ \/ /\ phase = "boot"
        /\ lock \in {"free", "clock"}
        /\ Fault
        /\ Die /\ UNCHANGED panicked
     \/ /\ phase = "up"
        /\ clock' = [clock EXCEPT !.pc = "pick"]
        /\ SaveFails("clock") /\ UNCHANGED phase

(* ClockSyncGlobalFileStatesToDiskFile *)
SyncOpen == phase = "up" /\ SaveOpen("sync") /\ UNCHANGED clock
SyncWrite == phase = "up" /\ SaveWrite("sync") /\ UNCHANGED <<phase, clock>>
SyncFails == phase = "up" /\ SaveFails("sync") /\ UNCHANGED <<phase, clock>>

(* readObsoleteFiles: the files whose last read is long ago. *)
Pick ==
  /\ ClockAt("pick")
  /\ \E old \in SUBSET Known :
       clock' = IF old = {} THEN NoClock
                ELSE [NoClock EXCEPT !.pc = "check", !.todo = old]
  /\ UNCHANGED <<files, disk, events, phase, states, lock, claims, readers, history>>

(* One of them: nothing to do when it is gone or read to its end, else a   *)
(* goroutine for it.                                                       *)
Check(p) ==
  /\ ClockAt("check")
  /\ p \in clock.todo
  /\ LET next == IF clock.todo = {p} THEN NoClock
                 ELSE [clock EXCEPT !.todo = @ \ {p}]
     IN \/ /\ files[p].there
           /\ states[p] = NoState
           /\ Panic
        \/ /\ ~files[p].there \/ states[p] = files[p].size
           /\ clock' = next
           /\ UNCHANGED <<files, disk, events, phase, states, lock, claims, readers, history>>
        \/ /\ files[p].there
           /\ states[p] \notin {NoState, files[p].size}
           /\ clock' = next
           /\ \E r \in Readers :
                /\ readers[r].pc = "idle"
                /\ readers' = [readers EXCEPT ![r] = Started(p, "old")]
           /\ UNCHANGED <<files, disk, events, phase, states, lock, claims, history>>
-----------------------------------------------------------------------------
Handle == HandleWrite \/ HandleCreate \/ HandleRemove

ReaderStep(r) ==
  Acquire(r) \/ Claim(r) \/ Load(r) \/ Scan(r) \/ Send(r) \/ Update(r) \/ Leave(r)

ScanStep == ScanKeys \/ ScanWalk \/ ScanMerge \/ ClockSaveOpen \/ ClockSaveWrite

Next ==
  \/ \E p \in Paths : Write(p) \/ Remove(p) \/ Truncate(p) \/ Create(p)
  \/ Boot
  \/ Handle
  \/ \E r \in Readers : ReaderStep(r)
  \/ ScanStep \/ SyncOpen \/ SyncWrite
  \/ ClockSaveFails \/ SyncFails
  \/ Pick
  \/ \E p \in Paths : Check(p)

Spec == Init /\ [][Next]_vars

(* Goroutines run, and a waiting Lock or channel send is served in the end *)
(* (strong fairness for those).  The clocks tick again and again, and once *)
(* a file is left alone every tick finds it obsolete.                      *)
TakesLock(r) == Acquire(r) \/ Update(r)

Fairness ==
  /\ WF_vars(Boot)
  /\ SF_vars(Handle)
  /\ \A r \in Readers : WF_vars(ReaderStep(r)) /\ SF_vars(TakesLock(r))
  /\ WF_vars(ScanStep) /\ SF_vars(ScanMerge \/ ClockSaveOpen)
  /\ WF_vars(SyncWrite)
  /\ WF_vars(Pick)
  /\ \A p \in Paths : /\ SF_vars(Pick /\ p \in clock'.todo)
                       /\ SF_vars(Check(p))

FairSpec == Spec /\ Fairness
-----------------------------------------------------------------------------
Offsets == 0..(MaxSize + 1)
MaybeOffset == Offsets \cup {NoState}
EventOps == {"write", "create", "remove"}
ReaderLabels == {"idle", "queued", "claim", "load", "scan", "send", "update", "leave"}

FilesOK ==
  /\ files \in [Paths -> [there : BOOLEAN, gen : 0..(MaxGeneration + 1),
                         size : 0..MaxSize, ends : SUBSET (0..MaxSize)]]
  /\ disk \in [Paths -> MaybeOffset]

MemoryOK ==
  /\ events \in Seq([op : EventOps, path : Paths])
  /\ phase \in {"down", "boot", "up"}
  /\ states \in [Paths -> MaybeOffset]
  /\ lock \in {"free", "sync", "clock", "main"}
  /\ claims \subseteq Paths
  /\ readers \in [Readers -> [pc : ReaderLabels, path : Paths \cup {""},
                             kind : {"", "event", "old"}, held : MaybeOffset \cup {Live},
                             off : Offsets, new : Offsets, gen : Nat, to : Offsets]]
  /\ clock \in [pc : {"idle", "walk", "merge", "save", "write", "pick", "check"},
                keys : SUBSET Paths, walked : SUBSET Paths, todo : SUBSET Paths]

HistoryOK ==
  /\ boots \in 0..MaxBoots
  /\ faults \in 0..MaxFaults
  /\ panicked \in BOOLEAN
  /\ sent \in [Paths -> Seq([gen : Nat, boot : 1..boots, from : Offsets, to : Offsets])]

Quiet ==
  /\ phase # "up" =>
       /\ events = <<>> /\ claims = {}
       /\ \A r \in Readers : readers[r].pc = "idle"
       /\ clock.pc \in {"idle", "walk", "merge", "save", "write"}
       /\ lock \in {"free", "clock"}
  /\ phase = "down" => clock.pc = "idle" /\ lock = "free" /\ states = NoStates

(* Every variable has its type; before the program watches nothing of it   *)
(* but the scan is running (Run, watch.go:662), and before it is started   *)
(* not even that: the obsolete files wait for the clock.                   *)
TypeOK == FilesOK /\ MemoryOK /\ HistoryOK /\ Quiet

(* processingMap: the claimed paths are exactly those of the goroutines    *)
(* between LoadOrStore and the deferred Delete, and each has one of them,  *)
(* also when files and states come and go.                                 *)
Working == {r \in Readers : readers[r].pc \in {"load", "scan", "send", "update", "leave"}}
OneReaderPerFile ==
  /\ claims = {readers[r].path : r \in Working}
  /\ \A r, s \in Working : readers[r].path = readers[s].path => r = s

(* Between two starts of the program the consumer gets the lines of a file *)
(* in order and each once, whoever reads them and however readers overlap. *)
LinesInOrder ==
  \A p \in Paths : \A i, j \in DOMAIN sent[p] :
    /\ i < j
    /\ sent[p][i].gen = sent[p][j].gen /\ sent[p][i].boot = sent[p][j].boot
    => sent[p][i].to <= sent[p][j].from

(* Only whole lines are handed over, although a program may have written   *)
(* only the beginning of one.                                              *)
WholeLines ==
  \A p \in Paths : \A i \in DOMAIN sent[p] :
    sent[p][i].gen = files[p].gen =>
      /\ sent[p][i].from \in files[p].ends \cup {0}
      /\ sent[p][i].to \in files[p].ends

(* The unit at position x (from 0) of the file now at p was handed over. *)
HandedOver(p, x) ==
  \E i \in DOMAIN sent[p] : /\ sent[p][i].gen = files[p].gen
                            /\ sent[p][i].from <= x /\ x < sent[p][i].to

(* No offset, in memory or saved, is past anything the consumer was not    *)
(* given: a restart from the state file, at any moment, skips no line.     *)
Covered(o, p) == \A x \in 0..(MaxSize - 1) : x < o /\ x < files[p].size => HandedOver(p, x)
NothingSkipped ==
  \A p \in Paths : Covered(states[p], p) /\ Covered(disk[p], p)

(* No reader and no clock dereferences a state that was deleted since it   *)
(* looked: changes of GlobalFileStates are atomic, as watch.go:41 says.    *)
(* It holds for files that stay, not for files that are removed.           *)
NeverPanics == ~panicked

(* As long as nothing fails and files stay, an offset only grows.          *)
OffsetsGrow ==
  [][\A p \in Paths : states[p] # NoState /\ states'[p] # NoState
                        => states[p] <= states'[p]]_vars

(* Every whole line of a file that stays is handed over in the end. *)
EveryLineSent ==
  \A p \in Paths, e \in 1..MaxSize : e \in files[p].ends ~> HandedOver(p, e - 1)
-----------------------------------------------------------------------------
(* What the comments say, and the code does not do. *)

(* watch.go:752: a file whose size is its offset has been read completely; *)
(* everything in it but the newlines was handed over.                      *)
FinishedMeansRead ==
  \A p \in Paths : states[p] = files[p].size =>
    \A x \in 0..(MaxSize - 1) :
      x < files[p].size /\ (x + 1) \notin files[p].ends => HandedOver(p, x)
=============================================================================
