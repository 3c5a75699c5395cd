----------------------------- MODULE DebugLogger -----------------------------
(***************************************************************************)
(* pkg/k3/logger.go: the Logger behind GlobalLogger.  Callers of Add put   *)
(* records into a bounded channel without a lock; one Flush goroutine      *)
(* writes them to files that are replaced by date and size; Close closes   *)
(* the channel, waits for the goroutine and forgets the channel.           *)
(*                                                                         *)
(* The module has the logger's own steps.  Where its callers are, and that *)
(* the process ends by log.Fatalf or by a panic, is up to the module that  *)
(* extends it.  A file is named by its date and index; records are         *)
(* numbered as they are accepted, and what a line of one takes on disk is  *)
(* chosen when it is written.                                              *)
(***************************************************************************)
EXTENDS Integers, Sequences, FiniteSets

CONSTANTS
  ChannelSize,     \* capacity of the channel
  FileSize,        \* size, the limit of a file in bytes; 0 for none
  MaxLine,         \* the longest line, in bytes
  Leftovers,       \* the sizes in which earlier processes may have left files
  MaxDay,          \* bound: the last date
  MaxIndex         \* bound: the last index

Files == [day : 0..MaxDay, index : 0..MaxIndex]

ASSUME DebugLoggerAssumption ==
  /\ {ChannelSize, MaxLine} \subseteq Nat \ {0}
  /\ {FileSize, MaxDay, MaxIndex} \subseteq Nat
  /\ Leftovers \subseteq [Files -> Nat]

VARIABLES
  ch,              \* the records in the channel
  chState,         \* "open", "closed", or "nil" once Close has forgotten it
  flusher,         \* where the Flush goroutine is
  record,          \* the record it works on
  fd,              \* the name of the open file
  index,
  day,             \* the current date
  sizes,           \* the bytes in each file
  accepted,        \* history: how many records Add has sent
  writes,          \* history: the writes, each with its record, its file and
                   \* whether the whole line got there
  old              \* history: the bytes earlier processes left in each file

disk == <<sizes, writes, old>>
loggerVars == <<ch, chState, flusher, record, fd, index, day, accepted, disk>>

FileName(d, i) == [day |-> d, index |-> i]

(* NewLogger, called by init with index 0: it goes on with the file an     *)
(* earlier process may have left; there may be more of them, of this date. *)
LoggerInit ==
  /\ ch = <<>>
  /\ chState = "open"
  /\ flusher = "receive"
  /\ record = 0
  /\ fd = FileName(0, 0)
  /\ index = 0
  /\ day = 0
  /\ accepted = 0
  /\ writes = <<>>
  /\ old \in {s \in Leftovers : \A f \in Files : f.day > 0 => s[f] = 0}
  /\ sizes = old

(* Mutant: the channel has no bound. *)
AddSendsAlways ==
  /\ chState = "open"
  /\ ch' = Append(ch, accepted + 1)
  /\ accepted' = accepted + 1
  /\ UNCHANGED <<chState, flusher, record, fd, index, day, disk>>

(* Add after its test of the channel, l.ch <- data: waits while the        *)
(* channel is full, panics when it is closed, waits for ever when it is    *)
(* nil by now.                                                             *)
AddSends ==
  /\ chState = "open"
  /\ Len(ch) < ChannelSize
  /\ ch' = Append(ch, accepted + 1)
  /\ accepted' = accepted + 1
  /\ UNCHANGED <<chState, flusher, record, fd, index, day, disk>>

AddPanics == chState = "closed" /\ UNCHANGED loggerVars

AddRefused == chState = "nil" /\ UNCHANGED loggerVars

DayChanges ==
  /\ day < MaxDay
  /\ day' = day + 1
  /\ UNCHANGED <<ch, chState, flusher, record, fd, index, accepted, disk>>
-----------------------------------------------------------------------------
(* Flush: a closed channel still yields what is in it. *)
FlushReceives ==
  /\ flusher = "receive"
  /\ ch # <<>>
  /\ record' = Head(ch)
  /\ ch' = Tail(ch)
  /\ flusher' = "open"
  /\ UNCHANGED <<chState, fd, index, day, accepted, disk>>

FlushEnds ==
  /\ flusher = "receive"
  /\ ch = <<>> /\ chState = "closed"
  /\ flusher' = "done"
  /\ UNCHANGED <<ch, chState, record, fd, index, day, accepted, disk>>

(* write: the file of the current date and index must be the open one. *)
OpensFile ==
  /\ flusher = "open"
  /\ fd' = FileName(day, index)
  /\ flusher' = "rotate"
  /\ UNCHANGED <<ch, chState, record, index, day, accepted, disk>>

(* fileInfo.Size() >= l.size *)
Full == FileSize > 0 /\ sizes[fd] >= FileSize

(* The date is read again for the name of the next file, and nobody looks  *)
(* how full that is already.                                               *)
Rotates ==
  /\ flusher = "rotate"
  /\ Full
  /\ index < MaxIndex
  /\ index' = index + 1
  /\ fd' = FileName(day, index + 1)
  /\ flusher' = "write"
  /\ UNCHANGED <<ch, chState, record, day, accepted, disk>>

KeepsFile ==
  /\ flusher = "rotate"
  /\ ~Full
  /\ flusher' = "write"
  /\ UNCHANGED <<ch, chState, record, fd, index, day, accepted, disk>>

(* fmt.Fprintf, whose error is ignored: where it fails, some of the line   *)
(* or nothing of it is in the file, and it is not tried again.             *)
Writes ==
  /\ flusher = "write"
  /\ \E whole \in BOOLEAN, size \in 0..MaxLine :
       /\ IF whole THEN size > 0 ELSE size < MaxLine
       /\ writes' = Append(writes, [record |-> record, file |-> fd, whole |-> whole])
       /\ sizes' = [sizes EXCEPT ![fd] = @ + size]
  /\ flusher' = "receive"
  /\ UNCHANGED <<ch, chState, record, fd, index, day, accepted, old>>

(* An open or a Stat fails: log.Fatalf ends the process. *)
FlushFails ==
  /\ \/ flusher = "open" /\ fd # FileName(day, index)
     \/ flusher = "rotate" /\ FileSize > 0
  /\ UNCHANGED loggerVars

FlushStep ==
  FlushReceives \/ FlushEnds \/ OpensFile \/ Rotates \/ KeepsFile \/ Writes
-----------------------------------------------------------------------------
(* Close *)
ClosesChannel ==
  /\ chState' = "closed"
  /\ UNCHANGED <<ch, flusher, record, fd, index, day, accepted, disk>>

(* Mutant: Close does not wait for the goroutine. *)
ForgetsChannelAtOnce ==
  /\ chState' = "nil"
  /\ UNCHANGED <<ch, flusher, record, fd, index, day, accepted, disk>>

ForgetsChannel ==
  /\ flusher = "done"
  /\ chState' = "nil"
  /\ UNCHANGED <<ch, flusher, record, fd, index, day, accepted, disk>>
-----------------------------------------------------------------------------
LoggerTypeOK ==
  /\ ch \in Seq(1..accepted) /\ Len(ch) <= ChannelSize
  /\ chState \in {"open", "closed", "nil"}
  /\ flusher \in {"receive", "open", "rotate", "write", "done"}
  /\ accepted \in Nat /\ record \in 0..accepted
  /\ index \in 0..MaxIndex /\ day \in 0..MaxDay
  /\ fd \in [day : 0..day, index : 0..index]
  /\ writes \in Seq([record : 1..accepted, file : [day : 0..day, index : 0..index],
                     whole : BOOLEAN])
  /\ sizes \in [Files -> Nat] /\ old \in [Files -> Nat]

(* What Add accepted is written, in this order and each record once, or is *)
(* with the goroutine or in the channel: a record is missing in the files  *)
(* only when its own write failed.  The files follow date and index.  No   *)
(* file exceeds its limit, or what it had at the start, by more than the   *)
(* end of one line: also not the one a rotation opens without a look.      *)
(* When Close has returned nothing is left to write.                       *)
Held == IF flusher \in {"open", "rotate", "write"} THEN <<record>> ELSE <<>>
NotAfter(f, g) == f.day <= g.day /\ f.index <= g.index
Higher(a, b) == IF a > b THEN a ELSE b

LoggedInOrder ==
  /\ [i \in DOMAIN writes |-> writes[i].record] \o Held \o ch
       = [i \in 1..accepted |-> i]
  /\ \A i \in 1..Len(writes) - 1 : NotAfter(writes[i].file, writes[i + 1].file)
  /\ FileSize > 0 => \A f \in Files : sizes[f] <= Higher(old[f], FileSize - 1) + MaxLine
  /\ chState = "nil" => Len(writes) = accepted
=============================================================================
