----------------------------- MODULE LogConsumer -----------------------------
(***************************************************************************)
(* pkg/k3/consumer_log.go: the K3LogConsumer.  Callers of Add put records  *)
(* into a bounded channel under a mutex; one goroutine (FileWriter) takes  *)
(* them out and appends them to files that change with the date and with   *)
(* their size; Close holds the same mutex until that goroutine has ended.  *)
(*                                                                         *)
(* Records are numbered in the order they are accepted; what a line of one *)
(* takes on disk is chosen when it is written.  Flush only moves written   *)
(* data from the page cache to the device, which the end of the process    *)
(* does not lose: it changes nothing of this state.                        *)
(***************************************************************************)
EXTENDS Integers, Sequences, FiniteSets, Functions

CONSTANTS
  Adders,             \* goroutines that call Add
  FileWriter,         \* the goroutine started by init
  Closer,             \* the goroutine that calls Close
  NoOne,              \* the holder of a free mutex
  ConfigChannelSize,  \* K3LogConsumerConfig.ChannelSize, any integer
  DefaultChannelSize,
  FileSize,           \* fileSize in bytes, not above 0: no limit
  MaxRecordSize,      \* the longest line, in bytes
  MaxRecords,         \* bound: how many records are accepted
  MaxDate,            \* bound: how many dates (or hours) go by
  MaxBoots,           \* bound: how often the program is started
  MaxFaults           \* bound: crashes and errors of the file system

Threads == Adders \cup {FileWriter, Closer}

ASSUME LogConsumerAssumption ==
  /\ FileWriter # Closer /\ {FileWriter, Closer} \cap Adders = {}
  /\ NoOne \notin Threads
  /\ IsFiniteSet(Adders)
  /\ ConfigChannelSize \in Int /\ FileSize \in Int
  /\ {DefaultChannelSize, MaxRecordSize} \subseteq Nat \ {0}
  /\ {MaxRecords, MaxBoots, MaxFaults} \subseteq Nat
  /\ MaxDate \in Nat \ {0}

ChannelSize == IF ConfigChannelSize > 0 THEN ConfigChannelSize ELSE DefaultChannelSize

(* generateFileName: the date and, where the size is limited, the index.   *)
NoFile == <<0, 0>>
Names == (1..MaxDate) \X (0..MaxRecords)

VARIABLES
  up,         \* the process runs
  pc,         \* where each thread is
  mutex,      \* its holder, or NoOne
  ch,         \* the channel
  chClosed,
  sdkClose,
  inHand,     \* the record the FileWriter is about to write, if any
  current,    \* the name of currentFile, or NoFile for nil
  logIndex,   \* LogFileIndex
  date,       \* what the clock says
  files,      \* the records in the files on disk
  bytes,      \* how large these files are
  accepted,   \* history: how many records Add accepted
  lost,       \* history: those given up after an error or in a crash
  starts,     \* history: the value of accepted at each start
  faults      \* history: how much went wrong

intake == <<mutex, ch, chClosed, sdkClose>>
writer == <<inHand, current, logIndex>>
outside == <<up, date, starts>>
disk == <<files, bytes>>
vars == <<pc, intake, writer, outside, disk, accepted, lost, faults>>

AtRest == [t \in Threads |-> IF t = FileWriter THEN "receive" ELSE "idle"]

Init ==
  /\ up = FALSE
  /\ pc = AtRest
  /\ mutex = NoOne
  /\ ch = <<>> /\ chClosed = FALSE /\ sdkClose = FALSE
  /\ inHand = <<>>
  /\ current = NoFile
  /\ logIndex = 0
  /\ date = 1
  /\ files = [n \in Names |-> <<>>] /\ bytes = [n \in Names |-> 0]
  /\ accepted = 0
  /\ lost = {}
  /\ starts = <<>>
  /\ faults = 0

Goto(t, l) == pc' = [pc EXCEPT ![t] = l]
At(t, l) == up /\ pc[t] = l
Fault == faults < MaxFaults /\ faults' = faults + 1

(* The name of the file an index belongs to now. *)
Name(i) == <<date, IF FileSize > 0 THEN i ELSE 0>>
-----------------------------------------------------------------------------
(* NewLogConsumerWithConfig and init: index 0, whatever is on disk.  When  *)
(* init cannot open the file it starts no goroutine, but the consumer is   *)
(* returned beside the error, which main ignores.                          *)
Boot ==
  /\ ~up
  /\ Len(starts) < MaxBoots
  /\ up' = TRUE
  /\ \/ pc' = AtRest /\ current' = Name(0) /\ UNCHANGED faults
     \/ pc' = [AtRest EXCEPT ![FileWriter] = "none"] /\ current' = NoFile /\ Fault
  /\ mutex' = NoOne
  /\ ch' = <<>> /\ chClosed' = FALSE /\ sdkClose' = FALSE
  /\ inHand' = <<>>
  /\ logIndex' = 0
  /\ starts' = Append(starts, accepted)
  /\ UNCHANGED <<date, disk, accepted, lost>>

(* The end of the process: the channel is gone, the files stay. *)
Crash ==
  /\ up
  /\ Fault
  /\ up' = FALSE
  /\ lost' = lost \cup Range(inHand \o ch)
  /\ ch' = <<>> /\ inHand' = <<>>
  /\ pc' = AtRest
  /\ mutex' = NoOne
  /\ UNCHANGED <<chClosed, sdkClose, current, logIndex, date, disk, accepted, starts>>

DateChanges ==
  /\ date < MaxDate
  /\ date' = date + 1
  /\ UNCHANGED <<up, pc, intake, writer, disk, accepted, lost, starts, faults>>
-----------------------------------------------------------------------------
(* Add *)
Call(a) ==
  /\ a \in Adders
  /\ At(a, "idle")
  /\ accepted + Cardinality({b \in Adders : pc[b] # "idle"}) < MaxRecords
  /\ Goto(a, "want")
  /\ UNCHANGED <<intake, writer, outside, disk, accepted, lost, faults>>

(* k.mutex.Lock(); a closed SDK refuses the record, and so does Marshal    *)
(* when it cannot encode it.                                               *)
Enter(a) ==
  /\ a \in Adders
  /\ At(a, "want")
  /\ mutex = NoOne
  /\ \/ /\ Goto(a, "idle")
        /\ UNCHANGED mutex
     \/ /\ ~sdkClose
        /\ Goto(a, "push")
        /\ mutex' = a
  /\ UNCHANGED <<ch, chClosed, sdkClose, writer, outside, disk, accepted, lost, faults>>

(* Mutant: the channel has no bound. *)
PushUnbounded(a) ==
  /\ At(a, "push")
  /\ ch' = Append(ch, accepted + 1)
  /\ accepted' = accepted + 1
  /\ mutex' = NoOne
  /\ Goto(a, "idle")
  /\ UNCHANGED <<chClosed, sdkClose, writer, outside, disk, lost, faults>>

(* k.ch <- b, still under the mutex. *)
Push(a) ==
  /\ At(a, "push")
  /\ Len(ch) < ChannelSize
  /\ ch' = Append(ch, accepted + 1)
  /\ accepted' = accepted + 1
  /\ mutex' = NoOne
  /\ Goto(a, "idle")
  /\ UNCHANGED <<chClosed, sdkClose, writer, outside, disk, lost, faults>>
-----------------------------------------------------------------------------
(* The goroutine of init. *)
Receive ==
  /\ At(FileWriter, "receive")
  /\ ch # <<>>
  /\ inHand' = <<Head(ch)>>
  /\ ch' = Tail(ch)
  /\ Goto(FileWriter, "open")
  /\ UNCHANGED <<mutex, chClosed, sdkClose, current, logIndex, outside, disk, accepted, lost, faults>>

WriterExit ==
  /\ At(FileWriter, "receive")
  /\ ch = <<>> /\ chClosed
  /\ Goto(FileWriter, "done")
  /\ UNCHANGED <<intake, writer, outside, disk, accepted, lost, faults>>

(* rsyncFile returned early: the record is gone. *)
GiveUp(next) ==
  /\ Fault
  /\ lost' = lost \cup Range(inHand)
  /\ inHand' = <<>>
  /\ Goto(FileWriter, next)

(* os.OpenFile opens the file, or fails and leaves currentFile nil. *)
OpenElse(name, opened, failed) ==
  \/ /\ current' = name
     /\ Goto(FileWriter, opened)
     /\ UNCHANGED <<inHand, lost, faults>>
  \/ /\ current' = NoFile
     /\ GiveUp(failed)

(* Mutant: an open that fails ends the goroutine. *)
OpenFileOrEnd ==
  /\ At(FileWriter, "open")
  /\ IF current = Name(logIndex)
       THEN /\ Goto(FileWriter, "size")
            /\ UNCHANGED <<inHand, current, lost, faults>>
       ELSE OpenElse(Name(logIndex), "size", "done")
  /\ UNCHANGED <<intake, logIndex, outside, disk, accepted>>

(* rsyncFile: a file of another date, or none, is replaced first. *)
OpenFile ==
  /\ At(FileWriter, "open")
  /\ IF current = Name(logIndex)
       THEN /\ Goto(FileWriter, "size")
            /\ UNCHANGED <<inHand, current, lost, faults>>
       ELSE OpenElse(Name(logIndex), "size", "receive")
  /\ UNCHANGED <<intake, logIndex, outside, disk, accepted>>

(* Mutant: > instead of >=. *)
FullAbove(name) == FileSize > 0 /\ bytes[name] > FileSize

(* stat.Size() >= k.fileSize *)
Full(name) == FileSize > 0 /\ bytes[name] >= FileSize

(* Mutant: the index wraps around. *)
RotateAround ==
  /\ At(FileWriter, "size")
  /\ Full(current)
  /\ logIndex' = (logIndex + 1) % 2
  /\ OpenElse(Name(logIndex'), "write", "receive")
  /\ UNCHANGED <<intake, outside, disk, accepted>>

(* The next index, without a look at how full that file is already. *)
Rotate ==
  /\ At(FileWriter, "size")
  /\ Full(current)
  /\ logIndex' = logIndex + 1
  /\ OpenElse(Name(logIndex'), "write", "receive")
  /\ UNCHANGED <<intake, outside, disk, accepted>>

(* Stat fails: the size is not known, and the record is gone. *)
StatFails ==
  /\ At(FileWriter, "size")
  /\ FileSize > 0
  /\ GiveUp("receive")
  /\ UNCHANGED <<intake, current, logIndex, outside, disk, accepted>>

MayWrite == At(FileWriter, "write") \/ (At(FileWriter, "size") /\ ~Full(current))

(* The current file becomes longer by some size. *)
Grow(sizes) == \E size \in sizes : bytes' = [bytes EXCEPT ![current] = @ + size]

Write ==
  /\ MayWrite
  /\ files' = [files EXCEPT ![current] = @ \o inHand]
  /\ Grow(1..MaxRecordSize)
  /\ inHand' = <<>>
  /\ Goto(FileWriter, "receive")
  /\ UNCHANGED <<intake, current, logIndex, outside, accepted, lost, faults>>

(* The write fails, having written some of the line: a part of a line      *)
(* counts as lost, also when it is all but the end.  The file stays open.  *)
WriteFails ==
  /\ MayWrite
  /\ GiveUp("receive")
  /\ Grow(0..MaxRecordSize)
  /\ UNCHANGED <<intake, current, logIndex, outside, files, accepted>>
-----------------------------------------------------------------------------
(* Close *)
CloseCall ==
  /\ At(Closer, "idle")
  /\ Goto(Closer, "want")
  /\ UNCHANGED <<intake, writer, outside, disk, accepted, lost, faults>>

(* Mutant: the channel is closed without the mutex. *)
CloseEnterUnlocked ==
  /\ At(Closer, "want")
  /\ chClosed' = TRUE
  /\ Goto(Closer, "wait")
  /\ UNCHANGED <<mutex, ch, sdkClose, writer, outside, disk, accepted, lost, faults>>

CloseEnter ==
  /\ At(Closer, "want")
  /\ mutex = NoOne
  /\ mutex' = Closer
  /\ chClosed' = TRUE
  /\ Goto(Closer, "wait")
  /\ UNCHANGED <<ch, sdkClose, writer, outside, disk, accepted, lost, faults>>

(* Mutant: Close does not wait. *)
CloseNoWait ==
  /\ At(Closer, "wait")
  /\ current' = NoFile
  /\ sdkClose' = TRUE
  /\ mutex' = NoOne
  /\ Goto(Closer, "done")
  /\ UNCHANGED <<ch, chClosed, inHand, logIndex, outside, disk, accepted, lost, faults>>

(* k.wg.Wait(), which returns at once where init added nobody; then the    *)
(* file is closed.                                                         *)
CloseWait ==
  /\ At(Closer, "wait")
  /\ pc[FileWriter] \in {"done", "none"}
  /\ current' = NoFile
  /\ sdkClose' = TRUE
  /\ mutex' = NoOne
  /\ Goto(Closer, "done")
  /\ UNCHANGED <<ch, chClosed, inHand, logIndex, outside, disk, accepted, lost, faults>>
-----------------------------------------------------------------------------
FileStep == Receive \/ WriterExit \/ OpenFile \/ StatFails \/ Rotate \/ Write \/ WriteFails

(* init failed, and an Add holds the mutex before a channel that is full   *)
(* for good.                                                               *)
Stuck ==
  /\ up /\ pc[FileWriter] = "none"
  /\ Len(ch) = ChannelSize
  /\ \E a \in Adders : pc[a] = "push"

(* Everybody is through, or the last start is over, or all wait for the    *)
(* mutex of the one that is stuck.                                         *)
Stopped ==
  /\ \/ ~up /\ Len(starts) = MaxBoots
     \/ Stuck
     \/ /\ up /\ pc[Closer] = "done"
        /\ \A a \in Adders : pc[a] = "idle"
  /\ UNCHANGED vars

Next ==
  \/ Boot \/ Crash \/ DateChanges
  \/ \E a \in Adders : Call(a) \/ Enter(a) \/ Push(a)
  \/ FileStep
  \/ CloseCall \/ CloseEnter \/ CloseWait
  \/ Stopped

Spec == Init /\ [][Next]_vars

(* Goroutines run, and whoever waits for the mutex gets it in the end.     *)
(* Nobody has to call Add or Close, and no record is owed a success.       *)
Fairness ==
  /\ WF_vars(FileStep)
  /\ \A a \in Adders : SF_vars(Enter(a)) /\ WF_vars(Push(a))
  /\ SF_vars(CloseEnter) /\ WF_vars(CloseWait)

FairSpec == Spec /\ Fairness
-----------------------------------------------------------------------------
(* Every variable has its type, and the channel holds what it can hold. *)
TypeOK ==
  /\ up \in BOOLEAN
  /\ \A a \in Adders : pc[a] \in {"idle", "want", "push"}
  /\ pc[FileWriter] \in {"receive", "open", "size", "write", "done", "none"}
  /\ pc[Closer] \in {"idle", "want", "wait", "done"}
  /\ mutex \in Threads \cup {NoOne}
  /\ ch \in Seq(Nat) /\ Len(ch) <= ChannelSize
  /\ chClosed \in BOOLEAN /\ sdkClose \in BOOLEAN
  /\ inHand \in Seq(Nat) /\ Len(inHand) <= 1
  /\ current \in Names \cup {NoFile}
  /\ logIndex \in Nat
  /\ date \in 1..MaxDate
  /\ files \in [Names -> Seq(Nat)] /\ bytes \in [Names -> Nat]
  /\ accepted \in Nat
  /\ lost \subseteq Nat
  /\ starts \in Seq(Nat) /\ Len(starts) <= MaxBoots
  /\ faults \in 0..MaxFaults

OnDisk(r) == {p \in UNION {{<<n, i>> : i \in DOMAIN files[n]} : n \in Names} :
                files[p[1]][p[2]] = r}
Pending == inHand \o ch

(* A record Add accepted waits, in order, or is in one place of one file,  *)
(* or was given up after an error or in a crash; when Close has returned   *)
(* none waits any more, unless init failed and nobody ever took one.       *)
Accounted ==
  /\ \A r \in 1..accepted :
       Cardinality(OnDisk(r)) + (IF r \in lost THEN 1 ELSE 0)
         + (IF r \in Range(Pending) THEN 1 ELSE 0) = 1
  /\ \A i \in 1..Len(Pending) : Pending[i] = accepted - Len(Pending) + i
  /\ up /\ pc[Closer] = "done" /\ pc[FileWriter] # "none" => Pending = <<>>

(* Read in the order of their dates and indexes, the files give the        *)
(* records of one start in the order they were accepted.                   *)
SameStart(r, s) == \A i \in DOMAIN starts : starts[i] < r <=> starts[i] < s

Before(p, q) ==
  LET d == p[1][1] e == q[1][1] i == p[1][2] j == q[1][2]
  IN d < e \/ (d = e /\ i < j) \/ (d = e /\ i = j /\ p[2] < q[2])

OrderAcrossFiles ==
  \A r, s \in 1..accepted :
    r < s /\ SameStart(r, s) =>
      \A p \in OnDisk(r), q \in OnDisk(s) : Before(p, q)

(* The size is looked at before the write, so a file exceeds its limit by  *)
(* the end of one record; a later start, which begins with index 0 and     *)
(* does not look before it rotates into an older file, adds one more.      *)
FilesBounded ==
  FileSize > 0 => \A n \in Names : bytes[n] <= FileSize - 1 + MaxRecordSize * Len(starts)

(* Nobody sends on the closed channel, although Add and Close may come at  *)
(* any time: the send is under the mutex, after the test of sdkClose.      *)
NeverSendsOnClosed == \A a \in Adders : At(a, "push") => ~chClosed

(* Add and Close come back, however often the file system fails: the full  *)
(* channel is emptied by a goroutine that needs no mutex.  They do not     *)
(* where init failed and the channel has filled up.                        *)
CallsReturn ==
  /\ \A a \in Adders : pc[a] = "want" ~> (pc[a] = "idle" \/ Stuck)
  /\ pc[Closer] = "want" ~> (pc[Closer] \in {"done", "idle"} \/ Stuck)
=============================================================================
