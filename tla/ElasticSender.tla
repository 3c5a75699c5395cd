---------------------------- MODULE ElasticSender ----------------------------
(***************************************************************************)
(* pkg/k3/sender/elk.go: the ElasticSearchClient.  Callers of Send push    *)
(* records one by one into a bounded channel, retrying while it is full;   *)
(* one Writer goroutine collects them into bulk requests; Close drains.    *)
(*                                                                         *)
(* Records are numbered in the order they are submitted.  Elasticsearch    *)
(* and the log consumer of lost records are external: a bulk request ends  *)
(* in any of the ways the code distinguishes, or never.                    *)
(***************************************************************************)
EXTENDS Integers, Sequences, FiniteSets, Functions

CONSTANTS
  Senders,              \* goroutines that call Send
  Writer,               \* the goroutine of WriteDataToElasticSearch
  Closer,               \* the goroutine that calls Close
  NoData,               \* the records without a _data property
  ConfigMaxChannelSize, DefaultMaxChannelSize,
  ConfigMaxRetry, DefaultMaxRetry,
  ConfigRetryInterval, DefaultRetryInterval,    \* seconds
  ConfigTimeout, DefaultTimeout,                \* seconds
  BulkSize,             \* ELK.BulkSize, used as configured
  LateSends,            \* whether Send may be called while Close runs
  MaxRecords,           \* bound: how many records are submitted
  MaxBatch              \* bound: the longest slice given to Send

ASSUME SenderAssumption ==
  /\ Writer # Closer /\ Writer \notin Senders /\ Closer \notin Senders
  /\ IsFiniteSet(Senders)
  /\ ConfigMaxChannelSize \in Nat      \* with another the process does not come up
  /\ {ConfigMaxRetry, ConfigRetryInterval, ConfigTimeout} \subseteq Int
  /\ {DefaultMaxChannelSize, DefaultMaxRetry, DefaultRetryInterval, DefaultTimeout}
       \subseteq Nat \ {0}
  /\ BulkSize \in Int
  /\ LateSends \in BOOLEAN
  /\ MaxRecords \in Nat /\ MaxBatch \in Nat

(* NewElasticsearch: zero, or anything from the default upwards, means the *)
(* default; a negative value stays.  Of the channel's size make panics     *)
(* then, of the retries it allows no attempt, of the timeout it has passed *)
(* before the first one, and a negative sleep is none.                     *)
Clamp(configured, default) ==
  IF configured = 0 \/ configured >= default THEN default ELSE configured

MaxChannelSize == Clamp(ConfigMaxChannelSize, DefaultMaxChannelSize)
MaxRetries == Clamp(ConfigMaxRetry, DefaultMaxRetry)
RetryInterval == Clamp(ConfigRetryInterval, DefaultRetryInterval)
Timeout == Clamp(ConfigTimeout, DefaultTimeout)

Threads == Senders \cup {Writer, Closer}
Requesters == {Writer, Closer}

VARIABLES
  pc,           \* where each thread is
  todo,         \* what is left of each sender's slice, its record first
  attempt,      \* i of sendWithRetries
  expired,      \* whether the sender's context has timed out
  dataChan,     \* the channel
  chanClosed,
  bulkData,     \* the package variable BulkData
  request,      \* the bulk request each requester waits for
  reg,          \* the counter a sender has read and not written back yet
  successCount, failedCount, toChannelFailedCount,
  submitted,    \* history: how many records Send was called with
  serial,       \* history: whether no two calls of Send overlapped
  requested,    \* history: the records put into requests, in order
  fate          \* history: what became of the records, by outcome

senderVars == <<todo, attempt, expired, reg>>
counters == <<successCount, failedCount, toChannelFailedCount>>
intake == <<dataChan, chanClosed>>
outgoing == <<bulkData, request>>
calls == <<submitted, serial>>
history == <<calls, requested, fate>>
vars == <<pc, senderVars, intake, outgoing, counters, history>>

(* skipped: no _data; acked: a request with it succeeded; refused: one     *)
(* failed; exhausted: no attempt found room; dropped: the context timed    *)
(* out; abandoned: Send panicked.                                          *)
Outcomes == {"skipped", "acked", "refused", "exhausted", "dropped", "abandoned"}

Init ==
  /\ pc = [t \in Threads |-> IF t = Writer THEN "receive" ELSE "idle"]
  /\ todo = [s \in Senders |-> <<>>]
  /\ attempt = [s \in Senders |-> 0]
  /\ expired = [s \in Senders |-> FALSE]
  /\ dataChan = <<>>
  /\ chanClosed = FALSE
  /\ bulkData = <<>>
  /\ request = [t \in Requesters |-> <<>>]
  /\ reg = [s \in Senders |-> 0]
  /\ successCount = 0 /\ failedCount = 0 /\ toChannelFailedCount = 0
  /\ submitted = 0
  /\ serial = TRUE
  /\ requested = <<>>
  /\ fate = [o \in Outcomes |-> {}]

Goto(t, l) == pc' = [pc EXCEPT ![t] = l]
Settle(o, rs) == fate' = [fate EXCEPT ![o] = @ \cup rs]
TimesOutAtOnce == Timeout < 0
SendersIdle == \A s \in Senders : pc[s] = "idle"
-----------------------------------------------------------------------------
(* Send: for _, d := range data.  The batch consumer calls it with both of *)
(* its locks, except in FlushAll: so calls may overlap, but rarely do.     *)
Send(s) ==
  /\ pc[s] = "idle"
  /\ LateSends \/ pc[Closer] = "idle"
  /\ \E n \in 1..MaxBatch :
       /\ submitted + n <= MaxRecords
       /\ todo' = [todo EXCEPT ![s] = [i \in 1..n |-> submitted + i]]
       /\ submitted' = submitted + n
  /\ serial' = (serial /\ SendersIdle)
  /\ attempt' = [attempt EXCEPT ![s] = 0]
  /\ expired' = [expired EXCEPT ![s] = TimesOutAtOnce]
  /\ Goto(s, "try")
  /\ UNCHANGED <<intake, outgoing, reg, counters, requested, fate>>

(* sendWithRetries returned: on to the next record, or Send returns. *)
NextRecord(s) ==
  /\ todo' = [todo EXCEPT ![s] = Tail(@)]
  /\ attempt' = [attempt EXCEPT ![s] = 0]
  /\ expired' = [expired EXCEPT ![s] = TimesOutAtOnce]
  /\ Goto(s, IF Len(todo[s]) = 1 THEN "idle" ELSE "try")

(* One evaluation of the select: each ready case may be taken, default     *)
(* only when none is.  A send on a closed channel is ready, and panics.    *)
Trying(s) == pc[s] = "try" /\ attempt[s] < MaxRetries
Room == Len(dataChan) < MaxChannelSize

TimedOut(s) ==
  /\ Trying(s)
  /\ expired[s]
  /\ Settle("dropped", {Head(todo[s])})
  /\ NextRecord(s)
  /\ UNCHANGED <<intake, outgoing, reg, counters, calls, requested>>

(* Mutant: a blocking caller writes past the capacity. *)
PushAnyway(s) ==
  /\ Trying(s)
  /\ ~chanClosed
  /\ dataChan' = Append(dataChan, Head(todo[s]))
  /\ NextRecord(s)
  /\ UNCHANGED <<chanClosed, outgoing, reg, counters, history>>

Push(s) ==
  /\ Trying(s)
  /\ ~chanClosed
  /\ Room
  /\ dataChan' = Append(dataChan, Head(todo[s]))
  /\ NextRecord(s)
  /\ UNCHANGED <<chanClosed, outgoing, reg, counters, history>>

PushPanics(s) ==
  /\ Trying(s)
  /\ chanClosed
  /\ Settle("abandoned", Range(todo[s]))
  /\ todo' = [todo EXCEPT ![s] = <<>>]
  /\ Goto(s, "idle")
  /\ UNCHANGED <<attempt, expired, intake, outgoing, reg, counters, calls, requested>>

(* Mutant: the attempt is not counted. *)
FullForever(s) ==
  /\ Trying(s)
  /\ ~expired[s] /\ ~chanClosed /\ ~Room
  /\ Goto(s, "sleep")
  /\ UNCHANGED <<senderVars, intake, outgoing, counters, history>>

Full(s) ==
  /\ Trying(s)
  /\ ~expired[s] /\ ~chanClosed /\ ~Room
  /\ attempt' = [attempt EXCEPT ![s] = @ + 1]
  /\ Goto(s, "sleep")
  /\ UNCHANGED <<todo, expired, intake, outgoing, reg, counters, history>>

(* time.Sleep(RetryInterval): the sleeps so far took at least that long.   *)
Wake(s) ==
  /\ pc[s] = "sleep"
  /\ \E late \in BOOLEAN :
       expired' = [expired EXCEPT ![s] = @ \/ late \/ attempt[s] * RetryInterval > Timeout]
  /\ Goto(s, "try")
  /\ UNCHANGED <<todo, attempt, intake, outgoing, reg, counters, history>>

(* All attempts failed: GlobalWriteToChannelFailedCount++, which is a load *)
(* and a store, then the record goes to the log of lost records, whose Add *)
(* is taken to return (it does unless its init failed: see LogConsumer).   *)
Exhausted(s) ==
  /\ pc[s] = "try"
  /\ attempt[s] >= MaxRetries
  /\ reg' = [reg EXCEPT ![s] = toChannelFailedCount]
  /\ Goto(s, "count")
  /\ UNCHANGED <<todo, attempt, expired, intake, outgoing, counters, history>>

(* Mutant: the retries are exhausted and only the counter says so. *)
CountOnly(s) ==
  /\ pc[s] = "count"
  /\ toChannelFailedCount' = reg[s] + 1
  /\ NextRecord(s)
  /\ UNCHANGED <<reg, intake, outgoing, successCount, failedCount, history>>

Count(s) ==
  /\ pc[s] = "count"
  /\ toChannelFailedCount' = reg[s] + 1
  /\ Settle("exhausted", {Head(todo[s])})
  /\ NextRecord(s)
  /\ UNCHANGED <<reg, intake, outgoing, successCount, failedCount, calls, requested>>
-----------------------------------------------------------------------------
(* sendBulkElasticSearch: take everything collected into one request, if   *)
(* it is enough, or if forced.                                             *)
SendBulkIf(enough, t, collected, otherwise) ==
  IF enough
    THEN /\ request' = [request EXCEPT ![t] = collected]
         /\ requested' = requested \o collected
         /\ bulkData' = <<>>
         /\ Goto(t, "request")
    ELSE /\ bulkData' = collected
         /\ Goto(t, otherwise)
         /\ UNCHANGED <<request, requested>>

(* Mutant: > instead of >=. *)
SendBulkAbove(t, collected, force, otherwise) ==
  SendBulkIf(collected # <<>> /\ (Len(collected) > BulkSize \/ force),
             t, collected, otherwise)

SendBulk(t, collected, force, otherwise) ==
  SendBulkIf(collected # <<>> /\ (Len(collected) >= BulkSize \/ force),
             t, collected, otherwise)

(* WriteDataToElasticSearch: receive; a record without _data is skipped.   *)
Receive ==
  /\ pc[Writer] = "receive"
  /\ dataChan # <<>>
  /\ dataChan' = Tail(dataChan)
  /\ LET r == Head(dataChan)
     IN \/ /\ r \in NoData
           /\ Settle("skipped", {r})
           /\ UNCHANGED <<pc, outgoing, requested>>
        \/ /\ r \notin NoData
           /\ SendBulk(Writer, Append(bulkData, r), FALSE, "receive")
           /\ UNCHANGED fate
  /\ UNCHANGED <<senderVars, chanClosed, counters, calls>>

(* Mutant: the writer stays while it has a partial bulk. *)
WriterExitEmpty ==
  /\ pc[Writer] = "receive"
  /\ dataChan = <<>> /\ chanClosed /\ bulkData = <<>>
  /\ Goto(Writer, "done")
  /\ UNCHANGED <<senderVars, intake, outgoing, counters, history>>

(* A closed channel still yields what was buffered in it. *)
WriterExit ==
  /\ pc[Writer] = "receive"
  /\ dataChan = <<>> /\ chanClosed
  /\ Goto(Writer, "done")
  /\ UNCHANGED <<senderVars, intake, outgoing, counters, history>>

Answered(t) ==
  /\ request' = [request EXCEPT ![t] = <<>>]
  /\ Goto(t, IF t = Writer THEN "receive" ELSE "done")
  /\ UNCHANGED <<senderVars, intake, bulkData, toChannelFailedCount, calls, requested>>

(* The bulk response is no error: the items count as written, although the *)
(* response may say of some that they were not indexed.                    *)
Accepted(t) ==
  /\ pc[t] = "request"
  /\ successCount' = successCount + Len(request[t])
  /\ Settle("acked", Range(request[t]))
  /\ Answered(t)
  /\ UNCHANGED failedCount

(* Mutant: the failed bulk is sent again with the next one. *)
RefusedKept(t) ==
  /\ pc[t] = "request"
  /\ Goto(t, IF t = Writer THEN "receive" ELSE "done")
  /\ request' = [request EXCEPT ![t] = <<>>]
  /\ bulkData' = request[t] \o bulkData
  /\ UNCHANGED <<senderVars, intake, counters, history>>

(* Mutant: one failure per bulk. *)
RefusedCountsOne(t) ==
  /\ pc[t] = "request"
  /\ failedCount' = failedCount + 1
  /\ Settle("refused", Range(request[t]))
  /\ Answered(t)
  /\ UNCHANGED successCount

(* A transport error (whatever became of the items) or an  *)
(* error response: counted, and written to the log of lost records.        *)
Refused(t) ==
  /\ pc[t] = "request"
  /\ failedCount' = failedCount + Len(request[t])
  /\ Settle("refused", Range(request[t]))
  /\ Answered(t)
  /\ UNCHANGED successCount
-----------------------------------------------------------------------------
(* Close: close(dataChan), wait for the Writer, send what it left.         *)
CloseStart ==
  /\ pc[Closer] = "idle"
  /\ LateSends \/ SendersIdle
  /\ chanClosed' = TRUE
  /\ Goto(Closer, "wait")
  /\ UNCHANGED <<senderVars, dataChan, outgoing, counters, history>>

(* Mutant: Close does not wait. *)
CloseNoWait ==
  /\ pc[Closer] = "wait"
  /\ SendBulk(Closer, bulkData, TRUE, "done")
  /\ UNCHANGED <<senderVars, intake, counters, calls, fate>>

CloseWait ==
  /\ pc[Closer] = "wait"
  /\ pc[Writer] = "done"
  /\ SendBulk(Closer, bulkData, TRUE, "done")
  /\ UNCHANGED <<senderVars, intake, counters, calls, fate>>
-----------------------------------------------------------------------------
SenderStep(s) == \/ TimedOut(s) \/ Push(s) \/ PushPanics(s) \/ Full(s)
                 \/ Wake(s) \/ Exhausted(s) \/ Count(s)
Answer(t) == Accepted(t) \/ Refused(t)

(* Nothing is left to do once Close returned and the senders are through.  *)
Stopped == /\ pc[Closer] = "done" /\ SendersIdle
           /\ LateSends => submitted = MaxRecords
           /\ UNCHANGED vars

Next == \/ \E s \in Senders : Send(s) \/ SenderStep(s)
        \/ Receive \/ WriterExit
        \/ \E t \in Requesters : Answer(t)
        \/ CloseStart \/ CloseWait
        \/ Stopped

Spec == Init /\ [][Next]_vars

(* Goroutines that can run do run; nobody is obliged to call Send or       *)
(* Close, and Elasticsearch is not obliged to answer.                      *)
Scheduling == /\ \A s \in Senders : WF_vars(SenderStep(s))
              /\ WF_vars(Receive \/ WriterExit)
              /\ WF_vars(CloseWait)

FairSpec == Spec /\ Scheduling
-----------------------------------------------------------------------------
RecordIds == 1..MaxRecords
Attempts == {0} \cup (1..MaxRetries)

(* Every variable has its type, and the channel holds what it can hold. *)
TypeOK ==
  /\ \A s \in Senders : pc[s] \in {"idle", "try", "sleep", "count"}
  /\ pc[Writer] \in {"receive", "request", "done"}
  /\ pc[Closer] \in {"idle", "wait", "request", "done"}
  /\ todo \in [Senders -> Seq(RecordIds)]
  /\ attempt \in [Senders -> Attempts]
  /\ expired \in [Senders -> BOOLEAN]
  /\ dataChan \in Seq(RecordIds) /\ Len(dataChan) <= MaxChannelSize
  /\ chanClosed \in BOOLEAN
  /\ bulkData \in Seq(RecordIds)
  /\ request \in [Requesters -> Seq(RecordIds)]
  /\ reg \in [Senders -> Nat]
  /\ {successCount, failedCount, toChannelFailedCount} \subseteq Nat
  /\ submitted \in 0..MaxRecords
  /\ serial \in BOOLEAN
  /\ requested \in Seq(RecordIds)
  /\ fate \in [Outcomes -> SUBSET RecordIds]

(* A record given to Send is in exactly one place, or met exactly one end. *)
Waiting == UNION {Range(todo[s]) : s \in Senders}
Buffered == dataChan \o bulkData \o request[Writer] \o request[Closer]
OneFate ==
  /\ Waiting \cup Range(Buffered) \cup UNION {fate[o] : o \in Outcomes} = 1..submitted
  /\ Waiting \cap Range(Buffered) = {}
  /\ IsInjective(Buffered)
  /\ \A o \in Outcomes : fate[o] \cap (Waiting \cup Range(Buffered)) = {}
  /\ \A o, p \in Outcomes : o # p => fate[o] \cap fate[p] = {}

(* The counters of the status page say how many records met which end; of  *)
(* overlapping calls of Send some increments may be lost, but none is made *)
(* up.                                                                     *)
CountersAgree ==
  /\ successCount = Cardinality(fate["acked"])
  /\ failedCount = Cardinality(fate["refused"])
  /\ toChannelFailedCount <= Cardinality(fate["exhausted"])
  /\ serial => toChannelFailedCount = Cardinality(fate["exhausted"])

(* Collected records never wait once they fill a bulk, and a request never *)
(* holds more than BulkSize of them.                                       *)
BulkLimit == IF BulkSize > 1 THEN BulkSize ELSE 1
BulkBounded == /\ Len(bulkData) < BulkLimit
               /\ \A t \in Requesters : Len(request[t]) <= BulkLimit

(* Unless calls of Send overlap, the records reach Elasticsearch in the    *)
(* order of submission.                                                    *)
InOrder ==
  serial => LET q == requested \o bulkData \o dataChan
            IN \A i \in 1..Len(q) - 1 : q[i] < q[i + 1]

(* BulkData is handed from the Writer to Close without a lock: Close takes *)
(* it, and has its own request under way, only when the Writer has ended   *)
(* and left nothing in the channel; when Close returned nothing is left.   *)
DrainedByClose ==
  /\ pc[Closer] \in {"request", "done"} =>
       pc[Writer] = "done" /\ dataChan = <<>> /\ bulkData = <<>>
  /\ pc[Closer] = "done" => Buffered = <<>>

(* Send comes back, even if Elasticsearch never answers, as long as the    *)
(* log of lost records does.                                               *)
SendReturns == \A s \in Senders : pc[s] = "try" ~> pc[s] = "idle"

(* Close comes back if Elasticsearch answers every request. *)
EveryAnswer == \A t \in Requesters : pc[t] = "request" ~> pc[t] # "request"
CloseReturns == EveryAnswer => (pc[Closer] = "wait" ~> pc[Closer] = "done")
=============================================================================
