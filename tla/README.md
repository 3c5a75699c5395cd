# log-engine-sdk in TLA+

log-engine-sdk watches directories of log files, reads what programs append to
them, and writes every line to Elasticsearch. It has to keep up with the
programs, not lose a line when it restarts, and not hand over a line twice or out
of order without a reason. This directory holds TLA+ models of its parts, the
configurations TLC checks them with, and proofs checked by TLAPS.

    tlc -config batch_close.cfg MCBatchConsumer     # a run
    tlapm BatchConsumerProof.tla                    # the proofs of a module

`PROJECT.json` says for every definition which lines of the source it models.

## 1. The system

    programs append to log files
            |  fsnotify events            clocks (obsolete files, state file)
            v                                   |
    watch.go: handlers -> reader goroutines <---+     state file (core.json)
            |  Track, one call per line
            v
    DataAnalytics (validates, adds super properties)
            |  consumer.Add, one call per record
            v
    K3BatchConsumer: buffer -> cacheBuffer
            |  sender.Send, one call per batch
            v
    ElasticSearchClient: channel -> writer goroutine -> bulk requests
            |  what is given up                     |
            v                                       v
    K3LogConsumer (log of lost records)         Elasticsearch

| component | source | state | operations |
|---|---|---|---|
| File watcher | `pkg/k3/watch/watch.go` | `GlobalFileStates` (path to offset) under a lock, the state file, `processingMap`, `processingSem` | event handlers, two kinds of reader goroutine, directory scan, save, load |
| Start-up and exit | `watch.go`, `cmd/main.go` | `WatcherContext`, wait groups, the channel `isSuccess` | `InitWatcher`, `forkWatcher`, `graceExit`, `Closed` |
| DataAnalytics | `pkg/k3/data_analytics.go` | super properties under a lock | `Track`, `Close`, ... |
| Batch consumer | `pkg/k3/consumer_batch.go` | `buffer`, `cacheBuffer`, a mutex for each | `Add`, `Flush`, `FlushAll`, auto-flush, `Close` |
| Elasticsearch sender | `pkg/k3/sender/elk.go` | `dataChan`, `BulkData`, three counters | `Send` with retries, the writer goroutine, `Close` |
| Log consumer | `pkg/k3/consumer_log.go` | a channel, the current file, `LogFileIndex` | `Add`, `Flush`, `Close`, rotation |
| Debug logger | `pkg/k3/logger.go` | a channel, the current file | `Add`, `Close`, rotation |
| Status page | `pkg/k3/http_server.go` | none of its own | shows the counters |
| Configuration, utilities, console log, protocol types, default sender, example, scripts | the rest | none that changes | |

How they interact:

- The watcher calls `Track` synchronously from its reader goroutines, so `Add`
  is called by as many goroutines as there are readers (100 at most).
- `Add` and the auto-flush goroutine call `Send` while they hold *both* mutexes
  of the batch consumer. This is why the sender normally has one caller at a
  time, and why a slow Elasticsearch stops the readers: the channel fills up,
  `Send` sleeps between retries, the locks stay taken.
- Only memory lies between an offset in the state file and Elasticsearch. The
  offset is advanced when the consumer *accepted* the line.
- `Close` goes down the same chain: watcher, batch consumer, sender, and the
  sender's log of lost records.

What is hard about each part, and what correct means for it:

- **Batch consumer.** `Flush` runs under two locks, `FlushAll` runs the same
  statements under none, and `Add` decides by two lengths read one after the
  other after it let go of the write lock. Correct: nothing is lost, doubled or
  reordered; a full buffer always has somebody who will flush it; locks
  survive a panic in `Send`; `Close` leaves nothing behind and returns.
- **Elasticsearch sender.** A bounded channel, bounded retries, a context that
  may expire at any attempt, a channel closed under its callers, a package
  variable used by two goroutines. Correct: each record is in one place or met
  one end, the counters say which, the last partial bulk goes out, `Send`
  returns whatever Elasticsearch does.
- **File watcher.** A map read without its lock by some and changed under it by
  others, events skipped while a file is being read, a last line held back
  because it may be unfinished, offsets saved by truncating the state file,
  files that come and go. Correct: one reader per file; each line once and in
  order; never an offset past a line that was not handed over; every line handed
  over in the end; no nil dereference.
- **Log consumer.** A blocking send under the mutex `Close` needs, a file that is
  replaced at every date and size, opens that fail, also the first one, an index
  that begins at 0 again after a restart, a size that is looked at before the write.
  Correct: an accepted record ends in one file or with an error, the files keep
  order and size, `Add` and `Close` return, all of it if the first open succeeds.
- **Debug logger.** `Add` tests a channel that `Close` closes in between; files
  change with date and size under a goroutine of its own, into files earlier
  processes may have filled; errors of the write are ignored. Correct: what `Add`
  accepted is written, in order, when `Close` has returned, and is missing only
  where its own write failed.
- **Start-up and exit.** A channel closed while others send on it; a context that
  a dozen places cancel; the state file saved before the last offsets are known,
  the consumer closed after a second of sleep whether the readers have ended or not.
  Correct: all indexes are watched or none, nothing stops without a reason,
  when one goroutine ends all do if the closes return, and no line is skipped after a restart but those
  a killed process held in memory and had saved an offset past.

`PROJECT.json` lists 40 hazards, each at the line where it bites, with the
properties that watch it, or the reason why none does.

## 2. The modules

| module | models | about |
|---|---|---|
| `OrderedDelivery` | what a buffering stage promises | abstract specification |
| `BatchConsumer` | `consumer_batch.go` | every operation |
| `ElasticSender` | `sender/elk.go` | every operation |
| `FileWatch` | `watch/watch.go` | everything about offsets, readers and the state file |
| `Pipeline` | `FileWatch` composed with the consumer behind it and `graceExit` | what a crash, a restart and an exit cost |
| `LogConsumer` | `consumer_log.go` | every operation that changes state |
| `DebugLogger` | `logger.go` | the steps of `Logger`; its callers are in `Lifecycle` |
| `Lifecycle` | `main`, `graceExit`, `InitWatcher`, `forkWatcher`, the clocks, composed with `DebugLogger` | how the process starts and ends |
| `BatchConsumerProof`, `ElasticSenderProof`, `LogConsumerProof`, `LifecycleProof`, `FileWatchProof`, `PipelineProof` | | theorems about the module of that name, see 5 |
| `SequenceLemmas` | | facts about sequences and counting the proofs share |
| `MCBatchConsumer`, `MCElasticSender`, `MCFileWatch`, `MCPipeline`, `MCLogConsumer`, `MCLifecycle` | | small sets for TLC |

Operators whose comment begins with "Mutant" are faulty versions of the
definition next to them. No action uses them; each shows that a property
notices that fault.

### BatchConsumer

Threads are the adders, the auto-flush goroutine `Ticker` and the goroutine
`Closer` that calls `Close`. `pc` says where each of them is:

| label | code |
|---|---|
| `idle` -> `store` -> `checkBuffer` -> `checkCache` | `Add`: the append under the lock, then the two length tests |
| `lockCache` -> `lockBuffer` | `Flush` taking its locks and making its first tests |
| `move`, `moved`, `reset`, `send`, `pop`, `popped` | the statements `Flush` and `FlushAll` share |
| `wait`, `loop`, `loopBuffer`, `closeSender` | `Close` and the loop of `FlushAll` |

`buffer = append(buffer, d)` and the like are a load into `reg` and a store,
because `FlushAll` holds no lock and may be in the middle of one while an `Add`
is in the middle of another. `RWMutex.RLock` is modelled as a step that needs
the writer's lock to be free. A panic under `Flush` runs the deferred unlocks
and is recovered by `Track` or by the auto-flush goroutine (which then ends);
nobody recovers for `Close`, and the process dies (`crashed`). A reader of a
racing slice header sees the old or the new slice; Go's memory model allows torn
ones too, which are not modelled.

`LateAdds` decides whether goroutines may still call `Add` while `Close` runs. The
code does nothing against it: `Closed` waits one second for the readers and goes
on. So `LateAdds = TRUE` is the code as it is, and `LateAdds = FALSE` the use of
the consumer under which its promises hold. The properties that need the
latter say so (`RaceFree`), and the other ones hold either way.

`added`, `sent` and `refused` are history variables. `sent` also counts batches
`Send` returned an error for, because `Flush` removes a batch either way; they
are in `refused` as well.

### ElasticSender

Senders call `Send` with slices of new records, numbered in the order of
submission. One evaluation of the `select` in `sendWithRetries` is `TimedOut`,
`Push`, `PushPanics` or `Full`: more than one may be enabled, as Go picks any
ready case. `Wake` ends the sleep between attempts; the context has expired
when the sleeps took longer than the timeout, and may have expired earlier, since a
goroutine may be scheduled late. `Receive` is one round of the writer goroutine,
with `sendBulkElasticSearch` up to the request; `Accepted` or `Refused` ends the
request. A transport error, which leaves open what became of the records, and an
error response take the same path in the code and are both `Refused`. `Close`
closes the channel, waits for the writer and sends what it left.

`Clamp` is what `NewElasticsearch` makes of the configuration, which may be any
integers: 0 and large values become the default, negative ones stay. Negative retries
allow no attempt, a negative timeout has passed before the first one
(`TimesOutAtOnce`), a negative interval does not sleep. A negative channel size
makes `make` panic and the process does not come up, so it is excluded by the `ASSUME`.
`Count` takes the `Add` of the log of lost records as returning: when that log's
file could not be opened at the start, it may block for ever (see LogConsumer).

Two calls of `Send` overlap only when the consumer's `FlushAll` races with a
`Flush`. The histories `submitted` and `serial` record the calls and whether they
ever overlapped; order and the exactness of the unsynchronised failure counter are
stated for serial calls, everything else for all.

`fate` is a history variable: which records were skipped, acknowledged, refused,
exhausted (given up after all attempts), dropped (the context expired) or
abandoned (`Send` panicked).

### FileWatch

A file is a size and the set of positions at which a line ends. `TokenEnds`
gives the positions `bufio.ScanLines` together with the code's `len(line) + 1`
leads to; `EventOffset` and `ObsoleteOffset` are the offsets the two readers end
with: the first keeps back the last line it read, the second does not.

| actions | code |
|---|---|
| `Write`, `Create`, `Remove`, `Truncate` (external) | what other programs do; each queues an event, or merges with an equal one |
| `HandleWrite`, `HandleCreate`, `HandleRemove` | `writeEvent`, `createEvent`, `removeEvent` |
| `Acquire`, `Claim`, `Load`, `Scan`, `Send`, `Update`, `Leave` | `processing` + `readEventNameByOffset`, `processReadObsoleteFile` |
| `ScanKeys`, `ScanWalk`, `ScanMerge`, `ClockSaveOpen`, `ClockSaveWrite` | `ScanLogFileToGlobalFileStatesAndSaveToDiskFile`, called by `Run` and by the obsolete clock |
| `Pick`, `Check` | `readObsoleteFiles` |
| `SyncOpen`, `SyncWrite` | the clock that saves the states |
| `SaveFails` in `ClockSaveFails`, `SyncFails` (and `ExitSaveFails` of `Pipeline`) | the state file cannot be opened, or written after it was truncated: `Run` gives up, clocks and exit go on |
| `Boot` | `Run` up to the scan |

A critical section on `GlobalFileStatesLock` is one action, except the save,
which has two: in between the state file is empty, and a crash there (an action of
`Pipeline`) loses the offsets. Everything the code does *without* the lock is a step of its own: the
reader's look at the state (`Load`), the keys the scan collects (`ScanKeys`), the
files the obsolete clock picks (`Pick`) and looks at again (`Check`). Readers of
the obsolete clock hold a pointer to a `FileState` that may leave the map; `held`
is its offset from then on. Wherever the code would dereference a missing state
there is a step `Panic`, which ends the process, as no goroutine of `watch.go`
recovers. `Check` takes the look at a file and the start of its goroutine together;
a state that goes in between is one more nil dereference of the same kind.

Time is left out: `Pick` may find any file obsolete at any tick. A state file is
written as a whole or not at all.

### Pipeline

Every step of `FileWatch` is a step of `Pipeline` (`Watch`), joined with `Follow`,
which keeps `fate` in step with `sent`: what a reader sends is in the consumer's
memory, until `Deliver` settles it, per file in the order of hand-over, or the
process ends. Then it is `skipped` if the saved offset is past its beginning,
else `lost`, to be read again. The consumer is used by its abstract
specification: `BatchConsumer` implements `OrderedDelivery` when nobody adds
while it closes, and is not trusted otherwise: a line handed over during the close
takes `main` to `race`, from where the process may end at any time with whatever
it holds.

| `main` | `graceExit` |
|---|---|
| `serve` -> `write` -> `grace` | the save of the states, under the lock and in two steps |
| `grace` -> `close` | `Closed`: cancel and the second of sleep. Handlers, readers and clocks may go on: readers are not told, and a `select` may prefer an event to the context |
| `close` -> exit | `GlobalDataAnalytics.Close` has emptied the consumer |
| `race` -> exit | a line was added meanwhile |

### DebugLogger and Lifecycle

`Add` is two steps, the test of the channel (`LogTests` in `Lifecycle`) and the
send (`AddSends`, or `AddPanics` when it was closed in between; a send on the channel
`Close` has set to nil blocks for ever). `write` is `OpensFile`, `Rotates` or
`KeepsFile`, `Writes`, as the date is read twice and may change in between.
`Close` is `ClosesChannel`, then `ForgetsChannel` once the goroutine is done.

Sizes are in bytes: `Writes` makes the file longer by what a line may take, or, when
the write fails, by a part of it; the code ignores that error, and so does the
model: `writes` keeps for each record its file and whether the whole line got there. `old`
is what earlier processes left in the files of this date, any of `Leftovers`; the
logger goes on with index 0 of it and rotates into the others without a look.

In `Lifecycle`, `main` walks through `InitWatcher` (`fork`, `await`, `failed`), the
start of the clocks, `graceExit` (`serve`) and its clean-up in order (`Following`),
of which the save of the offsets is in `Pipeline`.
A watcher goroutine per index opens (`Opens`, `OpenFails`), answers on `isSuccess`
(`Answers`, which panics once the channel is closed), and watches until it fails or
sees the context done. A failed start is `Return` from `main`, which races with the
goroutines that still want to answer: the process may end by their panic
instead. What the goroutines do between is in `FileWatch`; here the obsolete clock
only logs. `StartClocks` takes the two intervals from `Intervals`: `time.NewTicker`
panics for one that is not above 0, which the test for the default lets through for
the sync clock (0), and nothing keeps from the obsolete clock; nobody recovers.

### LogConsumer

`Call` and `Enter` are `Add` up to the mutex, `Push` is the send on the channel that
keeps the mutex while the channel is full. The file goroutine receives a record
(`Receive`) and runs `rsyncFile`: `OpenFile` when the date changed or no file is
open, `Rotate` when the file is full, `Write`. Each open, the look at the size
(`StatFails`) and the write (`WriteFails`) may fail; the record is then given up, and
after a failed open `currentFile` is nil.
`Boot` starts with index 0 whatever is on disk, as `LogFileIndex` is only in
memory. Its open may fail too: `init` then starts no goroutine (`pc[FileWriter] = "none"`),
but the consumer is returned beside the error and `main` uses it. `Add` accepts
records until the channel is full and then blocks under the mutex (`Stuck`), and
`Close` behind it; before that `Close` returns at once and leaves them in the channel. `Flush` syncs data that is written already and has no action; that it may
meet a file the goroutine is just closing costs it an error and nothing else.

A file is the sequence of its records (`files`) and a number of bytes (`bytes`): each
write adds what a line may take, from 1 to `MaxRecordSize`, a failed one any part of that.

### OrderedDelivery

Records are accepted one at a time and delivered in the same order, each once, in
chunks. `BatchConsumer` implements it with `accepted <- added` and
`delivered <- sent` when nobody adds while `FlushAll` runs: every step is an
`Accept`, a `Deliver` or a stutter.

## 3. The runs

### Passing

| run | shows | bounds |
|---|---|---|
| `batch_close` | with two adders, auto-flush, failing sends and a `Close` that begins when the adders are done: order kept, nothing lost, no batch above batch size - 1 + adders, cache empty between flushes, drained by `Close`, `OrderedDelivery` implemented, a full buffer sent, `Close` returns | 4 records, configured size 5 clamped to 2 |
| `batch_late` | adders go on while `FlushAll` runs without locks: types, locks released after every panic, a full buffer has its flusher | 4 records, size 2 |
| `elk_send` | two senders whose calls may overlap and go on after `Close`, retries, time-outs, refused and hanging requests, a record without `_data`: one fate per record, never a request above the limit, order and counters right while calls are serial, drained by `Close`; `Send` returns whatever happens, `Close` does if every request is answered | 4 records in slices of up to 2, channel of 1, bulk of 2, attempts by default |
| `watch_append` | a file that grows by whole lines: each line once and in order, no offset past a line that was not handed over, no panic, offsets only grow, every line handed over in the end | 3 lines, at most 2 per read, 2 readers with a slot each, 1 event waiting |
| `watch_churn` | files come, go and are truncated: claims and readers match, never two readers on a path, before the program watches nothing but its scan runs | 1 path created or truncated twice, 3 readers for 2 slots, 1 event waiting, 1 fault (a look, save, walk or read) |
| `ship_crash` | `Pipeline` with half-written lines, a crash at any step, a failing walk, read or save, orderly and raced exits, a restart: event readers hand over whole lines; no offset, in memory or saved, is past a line never handed over, or lost and still to be read; only a crash or a raced exit costs anything | 3 units, 1 reader at a time, 1 event waiting, 1 fault, 2 starts |
| `ship_live` | what died in the consumer's memory, and the saved offset was not past, is handed over again by the next process | 1 line, 1 reader, 1 fault, 2 starts |
| `life_exit` | from the fork of the watchers to the end of the process: all indexes watched or none, no stop without a signal, a failure or an empty configuration, everything ends when one goroutine does and the closes return; the debug log skips no record but by a failed write, keeps its order, and exceeds no size, or what it found, by more than a line | 0 to 2 indexes, intervals -1, 0 and 5, 1 fault, 2 records of a byte, channel of 1, files of 1 byte, one of which may be there and full, 2 dates |
| `log_files` | `Add` and `Close` at any time, full channel, a failing init, errors, crash and restart: every accepted record in one file, lost to an error or pending, none pending after `Close` unless init failed; files in order across rotations, none above its size less one byte by more than a record per start; no send on the closed channel; `Add` and `Close` return unless init failed | 4 records of 1 or 2 bytes, channel of 1, files of 2 bytes, 2 dates, 2 starts, 2 faults |

Why the bounds are enough to meet the interesting cases:

- *batch*: two adders are needed for one to get in between the append and the
  flush of the other. With four records and size 2 there are full batches, a
  partial rest for `Close`, a buffer one above the size, and in `batch_late`
  records left for the racing `FlushAll`.
- *elk*: two records in one call meet a full channel of one, retry, and fill a bulk
  of two; four leave a partial bulk for `Close` in every combination with the
  skipped record; two senders overlap, or follow each other, before and after the
  channel is closed. Timeouts are relative to the sleeps, so small numbers lose
  nothing.
- *watch*: in `watch_append` three lines with a limit of two make a read stop
  before the end, and two readers, of the same or both kinds, overlap; in
  `watch_churn` three readers meet in the claim and wait for one of two slots. An event
  like the one waiting is merged with it, any other waits for its place. That a
  waiting reader gets its slot in the end is assumed, not checked: with three readers
  the liveness run takes longer than is reasonable.
  One path is enough for properties that speak of a path; paths meet in the
  semaphore and in the map only.
- *ship*: three units give two lines and a half one, so that a read resumes behind
  the start of the file; the claim lets one reader at a time work on the one
  file, and two of them are in the `watch_*` runs. `ship_crash` sets
  `obsolete_max_read_count` to 0 so that only event readers read: the obsolete
  reader does hand over half lines, see `watch_half`. `ship_live` has it read, or
  the last line would never be handed over. Two starts are a crash or exit and
  the recovery from it.
- *life*: one watcher fails on either side of the close of `isSuccess`, while the
  other has still to answer; each interval that panics is among the three. Two records
  rotate a file by size twice, or into the full one that is there, and a date change
  comes at any step of it; the clock is in the middle of `Add` when `Close` closes the
  channel. That a line is longer than a byte is left to the proof, which has any
  lengths (and to *log*, whose code is the same there).
- *log*: a file of two bytes ends with two short records, or exceeds its size by the
  end of a long one; four records rotate twice, a date change can come at any
  step of `rsyncFile`, and the second start finds a full file 0 and may rotate
  into a full file 1. Two faults are an error and a crash, an error and its
  repetition, or two starts whose init fails.

Deadlock is checked in all `batch_*`, `elk_*` and `log_*` runs, where `Stopped` allows the
system to rest only when `Close` has returned, or the process has died, and
nobody has anything left to do, or, for `log_files`, when everybody waits for the `Add`
that is stuck after a failed init, in `life_exit`, where it rests only without a
process, and in `watch_append`, whose clocks never rest. `ship_*` and `watch_churn`
switch it off: there the starts and files are bounded, and the model ends with the
last exit or crash.

### Violations

Each of these runs checks one statement of a comment that the code does not keep.

| run | statement | what TLC finds |
|---|---|---|
| `batch_spin` | `FlushAll` sends until nothing is left (`consumer_batch.go:99`) | an `Add` flushes concurrently, the cache ends up with one batch too many, and as every round appends one and removes one `FlushAll` sends empty batches for ever |
| `watch_nil` | changes of `GlobalFileStates` are atomic (`watch.go:41`) | a file is removed after a clock or reader looked it up and before it uses what it found: nil dereference |
| `watch_half` | a file whose size is its offset has been read (`watch.go:752`) | the obsolete reader counts a newline a half-written line does not have yet; the next byte is never read |

`batch_spin` and `watch_nil` are the other side of passing runs: `CloseReturns`
holds when nobody adds late, `NeverPanics` when no file is removed.

Two more disagreements are part of passing runs, whose properties except them: the log
of lost records is to record what the channel refused (`main.go:66`, `elk.go:249`), but
`main.go:67` ignores that its file could not be opened, and what it accepts then
is never written (`Boot`, `Stuck`); the intervals of the clocks have defaults
(`configs/watch.yaml:9` and `:12`), but 0, which a missing key gives, makes
`time.NewTicker` panic (`StartClocks`). A negative interval of the batch consumer does
the same to its auto-flush goroutine, before it defers its recover
(`consumer_batch.go:202`); `BatchConsumer` has intervals that are good.

Other disagreements met while modelling, without a run of their own: auto-flush
is said to submit (`consumer_batch.go:130`), but `Flush` moves only a *full* buffer to
the cache, so the records of a partial one wait until others come or until `Close`;
the offsets are saved before the program exits (`main.go:182`) but also before the
watcher stops, so lines handed over in the last second are sent again after the
restart; `InitWatcher` closes `isSuccess` after the first error and a second
watcher that has still to answer panics (`Answers`); when no index is configured
`WaitGroup.Wait` returns at once and the program exits as soon as it is up; `Add` of
the debug logger may send on the channel `Close` has just closed, and panic; a file
truncated in place keeps its offset and what is written before it is skipped; a record whose
context expires before the retries are used up is dropped without being counted or
logged (`TimedOut`), although `elk.go:249` says what does not get into the channel is
recorded; a batch may
exceed the batch size by the adders that append before the flush (bounded by
`BatchBounded`); the scan of the clock replaces a state by one with offset 0
when an event added it after the keys were read, so lines are read again; the items of a bulk response
that failed one by one are counted as written; `max_read_count` 0 or 1 makes no
progress, because the last line read is always held back.

## 4. Fairness

- *Batch*: `Alive /\ ...` because a crashed process does nothing. A goroutine
  that can run runs in the end (weak fairness). One that waits for a mutex gets
  it although others take it again and again (strong fairness): Go's mutexes hand
  over to a waiter that starves, and a waiting writer of an `RWMutex` keeps new
  readers out. The timer fires. `select` picks among ready cases at random, so
  the closed channel is noticed (strong fairness for `TickerExit`). Nobody has to
  call `Add` or `Close`.
- *Elk*: senders, the writer and `Close` run. No
  answer of Elasticsearch is owed: `SendReturns` holds without, and `CloseReturns`
  says that `Close` returns *if* every request is answered.
- *Log*: the file goroutine runs; who waits for the mutex gets it. A send on the
  full channel is only made by the holder of the mutex, so weak fairness is
  enough for it. Starts, date changes, calls and successes are not owed.
- *Life*: what is under way gets on, with one weak fairness for all of it (`UnderWay`),
  which is less than one for each goroutine and enough, because each has only so many
  steps; `select` notices the closed context although ticks go on (strong
  fairness), the obsolete clock has finitely many files to look at. Nobody owes a signal, a
  failure, a tick or a new date. The closes of the batch consumer and of the log
  consumer are not fair: the first may spin (`batch_spin`) or wait for Elasticsearch, the
  second may hang after a failed init. `EndsTogether` says that the process ends *if*
  they return (`ClosesEnd`).
- *Ship*: the fairness of *watch*; what `graceExit` has begun it ends, and the close of
  the consumer hands over what it holds. Before that nothing is owed, as a partial
  buffer may wait for ever, and a raced close may not end (`batch_spin`).
- *Watch*: events are handled and readers run; whoever waits for the lock or
  the semaphore gets it. The clocks tick. A file that is no longer read is found
  obsolete by some later tick, since its last read is then long ago (strong
  fairness for `Pick` with that file among the picked): this is what makes the
  obsolete clock deliver the held-back last line. Writes, crashes and boots after
  the first are not owed.

## 5. The proofs

Each component has a proof module that EXTENDS it. TLC finds out on a small
instance whether an invariant holds, and every invariant named below was checked
that way before it was proved; the theorems hold for every value of the
constants within the `ASSUME` of the component's module: any sets of threads, files and
indexes, any sizes and limits the configuration can give and the process comes up
with, any number of records, dates,
starts and faults. Every invariant a passing run checks is stated by a theorem, and
so are the action property `OffsetsGrow` and the refinement
`ImplementsOrderedDelivery`. Most theorems need no further hypothesis; those of
`FileWatch` that do are discussed there.

An invariant is proved by an inductive one, `IInv` or the like: `Init` implies it,
every step keeps it (one step of the proof per action), and it implies the
invariant. What it has beyond the properties themselves is what makes the
code correct, so it is given below.

### BatchConsumer

| theorem | states |
|---|---|
| `TypeCorrect` | `Spec => []TypeOK` |
| `LocksCorrect` | `Spec => []LocksFollowProgram` |
| `FullBufferIsFlushed` | `Spec => []NoStrandedFullBuffer` |
| `OrderCorrect` | `Spec => []InOrder` |
| `CacheEmpty` | `Spec => []CacheEmptyBetweenFlushes` |
| `DrainCorrect` | `Spec => []DrainedByClose` |
| `BatchesBounded` | `Spec => []BatchBounded` |
| `RefinesOrderedDelivery` | with no late adders, `Spec => OD!Spec` |

The first three stand on their own: `TypeOK` is inductive, `LocksFollowProgram`
is inductive together with it, and so is `NoStrandedFullBuffer`. They hold while
`FlushAll` races as well.

The order needs a stronger invariant,

    IInv == TypeOK /\ LocksFollowProgram /\ Quiet /\ (RaceFree => Stages)

- `Quiet`: once `Close` is past its wait the auto-flush goroutine is done, and
  without late adds the adders are idle. It is what makes the lock-free
  `FlushAll` as good as a locked one.
- `Stages`: for each label of the shared statements, how `buffer`, `cacheBuffer`
  and `reg` relate to `added` and `sent`, e.g. at `reset` the buffer's records are
  in the cache already, at `pop` those of the cache's only batch are sent.

From locks and quietness follows `Alone`: at most one thread is inside the
shared statements. Each action is then a step of that thread from one stage to
the next (`MoveStages`, `ResetStages`, `SendStages`, `PopStages`), or touches
only the end of the buffer (`AdderStages`); `NoPanic` shows that the cache is
never empty at `send`. `InOrder`, the empty cache, the drained `Close` and the
refinement are read off `Stages`.

`BatchesBounded` counts: `Grown` says that the buffer is no longer than the batch
size less one and the number of adders between their append and the flush they owe.
An append adds one to both, and who gives up the flush has seen a buffer that
is short enough.

### ElasticSender

| theorem | states |
|---|---|
| `TypeCorrect` | `Spec => []TypeOK` |
| `RecordsHaveOneFate` | `Spec => []OneFate` |
| `CountersAreTrue` | `Spec => []CountersAgree` |
| `BulksAreBounded` | `Spec => []BulkBounded` |
| `SendsInOrder` | `Spec => []InOrder` |
| `CloseDrains` | `Spec => []DrainedByClose` |

    IInv == /\ Shape /\ Occupied /\ Closing /\ Apart /\ OneFate
            /\ CountersAgree /\ Counting /\ BulkBounded /\ Lined

- `Occupied`, `Closing`: what a goroutine holds at each label, and how far the
  writer is when `Close` gets on: it is what lets `Close` take the bulk without
  a lock.
- `Apart`: the slices of different senders have no record in common, so that one
  that moves leaves the others where they are.
- `Counting`: what a sender has read of `toChannelFailedCount` is at most what is
  exhausted, and exactly the counter while calls are serial.
- `Lined`: while calls are serial one sender is at work, and its records come after
  all that are requested, collected or in the channel.

### LogConsumer

| theorem | states |
|---|---|
| `TypeCorrect` | `Spec => []TypeOK` |
| `NoSendAfterClose` | `Spec => []NeverSendsOnClosed` |
| `FilesStayBounded` | `Spec => []FilesBounded` |
| `FilesInOrder` | `Spec => []OrderAcrossFiles` |
| `RecordsAccounted` | `Spec => []Accounted` |

    IInv == /\ Shape /\ Working /\ Locking /\ Room /\ Queue /\ Placed
            /\ Reached /\ Ordered /\ Counted /\ Sized

- `Working`, `Locking`: what the file goroutine holds at each label; an adder at its
  send has the mutex, `Close` closes the channel under it, and sets `sdkClose`
  before it lets go, when the file goroutine is done.
- `Queue`, `Placed`: the records are numbered as accepted, so the channel holds the
  last ones; each that left it is in one file, once, or lost.
- `Reached`, `Ordered`: what this start wrote is in no file behind the open one,
  and a rotated file has nothing of this start in it.
- `Sized`: in each start a file exceeds its limit by the end of one record at most, the
  one written when this start gets to its index; the files before the current
  index have had theirs, those behind it not yet.
- `Counted`, `Room`: bounds of the index and of what is accepted, for the types.

`RecordsAccounted` excepts exactly what the code loses: after a failed init nobody takes
the records out of the channel, and they are pending when `Close` has returned.

### Lifecycle and DebugLogger

| theorem | states |
|---|---|
| `TypeCorrect` | `Spec => []TypeOK` |
| `AllStartTogether` | `Spec => []StartsTogether` |
| `NoStopWithoutReason` | `Spec => []StopsForAReason` |
| `LogInOrder` | `Spec => []LoggedInOrder` |

    IInv      == Shape /\ Counted /\ StartsTogether /\ Caused /\ LoggerInv
    LoggerInv == LoggerTypeOK /\ Conveyed /\ Followed /\ Sized /\ Finished

- `Counted`: the answers `main` has read and those in `isSuccess` are as many as the
  watchers that are past theirs. When the last one is read, all are.
- `Caused`: each stage on the way to a stop, a failed watcher or an error on
  the channel, has a signal, a failure or an empty configuration behind it.
- `LoggerInv` is kept by the logger's own steps: `LoggerMoves` shows that whatever
  the process does, the logger makes one of them or none. `Sized` says that a file
  is below its limit before a write, or has what it had at the start, as the files
  behind the current index still do; `Followed` that no record went to a file
  after the open one, `Finished` that the channel is set to nil only after its
  goroutine has emptied it.

### FileWatch

| theorem | states | if |
|---|---|---|
| `TypeCorrect` | `Spec => []TypeOK` | |
| `OneReaderAtATime` | `Spec => []OneReaderPerFile` | |
| `NothingIsSkipped` | `Spec => []NothingSkipped` | `~FilesMove`, `Whole` |
| `OnlyWholeLines` | `Spec => []WholeLines` | `~FilesMove`, `Whole` |
| `NeverDereferencesNil` | `Spec /\ WalksSucceed => []NeverPanics` | `~FilesMove` |
| `LinesKeepOrder` | `Spec /\ WalksSucceed => []LinesInOrder` | `~FilesMove` |
| `OffsetsOnlyGrow` | `Spec /\ WalksSucceed => OffsetsGrow` | `~FilesMove` |

The hypotheses are what the code needs, not what the proofs need:

- `~FilesMove`: no file is created, removed or truncated while the program runs. A
  file truncated in place keeps its offset, and one that is removed takes its
  state along under a reader (`watch_nil`).
- `Whole`: every write ends a line, or the obsolete clock starts no reader that reads
  (`obsolete_max_read_count` is not positive). The obsolete reader hands over a line
  that is not finished and then counts a newline too many (`watch_half`).
- `WalksSucceed`: `FetchDirectory` returns the files that are there. After an error the
  scan takes them all for gone and deletes their states, and the next scan
  begins at 0: lines are handed over again, and readers that hold a deleted state
  meet nil. Opening and reading a file may fail. `FaultlessWalks` shows that the
  hypothesis holds in every run without faults, `watch_append` for one.

`Shape` has the types with the relations between labels and values, and is inductive;
`OneReaderPerFile` is inductive with it. The rest of `TypeOK` is `Quiet`, before the
program watches nothing of it but the scan runs; it is inductive with `Shape`.

`NothingSkipped` and `WholeLines` follow from `Rested`: every offset anybody holds,
in the map, on disk or in the hands of a reader, is 0 or the end of a line, and all
before it was handed over. Offsets are copied between holders, and grow only
where `Scan` computes the end of a read and `Send` hands over what is between.
`AfterTokensFacts` and `ScanFacts` show that this end is a line's end at or after the
start: `AfterTokens` picks the n-th end of a line by its rank, and that there is one
follows from counting (`RankExists`), without induction. The event reader holds back
the last line it read, so it never stops behind a line that is not finished.

The other three follow from `Orderly == Shape /\ Calm /\ OneReaderPerFile /\ Paced`.
`Calm` is the reason that nothing is missing: the scan before the first event
gives every file a state, and no later scan finds a state without a file or a file
without a state. `Paced` is the reason for the order: the reader of a file starts
where the map says, nobody else changes that offset meanwhile, and what this
process handed over of the file ends there, or, until the reader has told the map,
where the reader stopped.

### Pipeline

| theorem | states | if |
|---|---|---|
| `PipeTypeCorrect` | `PipeSpec => []PipeTypeOK` | |
| `PipeWholeLines` | `PipeSpec => []WholeLines` | `~FilesMove`, `Whole` |
| `NothingIsForgotten` | `PipeSpec => []NothingForgotten` | `~FilesMove`, `Whole` |
| `PipeLinesInOrder` | `PipeSpec /\ WalksSucceed => []LinesInOrder` | `~FilesMove` |
| `PipeNeverDereferencesNil` | `PipeSpec /\ WalksSucceed => []NeverPanics` | `~FilesMove` |

    PipeInv == PipeShape /\ Rested /\ Secure /\ Blamed

`Rested` is reused: a crash and an exit lose offsets and make none. `Secure`: for
every offset anybody holds, all below it is with the consumer, settled, or given up
for good. The steps only hand offsets from one holder to another (`Flows`), but for
the reader's update, which is behind its hand-over; a process that ends takes along every
holder but the state file, and of what is in memory then, what lies below the saved
offset is `skipped` and is not read again. Without hypotheses on the walks, as an
offset that is deleted forgets nothing. `Blamed`: lost and skipped lines are from
a crash or a raced exit.

The last two reuse `Orderly`: a process that ends takes its readers and its map
along, the next one starts with whatever the state file holds, and `graceExit`
touches only the lock and that file.

### Only model-checked

- The liveness properties `FullBufferSent`, `CloseReturns`, `SendReturns`,
  `CallsReturn`, `EveryLineSent`, `LostIsReadAgain` and `EndsTogether`: they rest on
  fairness, which is stated with ENABLED, out of reach of the installed provers.
- The statements of the three runs that find a violation.


## 6. What is not modelled

- The document built from a record (its index, id and fields): it does not decide
  what happens to the record, only a missing `_data` does.
- Which items of an accepted bulk were indexed: the code does not look.
- CR LF line ends, lines above the scanner's limits (every read of such a file
  fails), and state files written in part (the program does not start).
- The super properties and the validation in `DataAnalytics`: nothing sets the
  former, and the ids are the same configured values for every line.
- Several index names and directories: the watcher goroutines of several indexes
  share the map and run the same handlers; one stands for all.
- Sockets, HTTP, JSON, YAML, the content of the status page.
- Reading the configuration and listing the directories before `Run`.

## 7. Plan

1. What a later start hands over again: lines only as far back as the offset the
   state file held at the start (`LinesInOrder` speaks of one process at a time).
2. The consumer in `Pipeline` against `OrderedDelivery`: `Follow`, `Deliver` and the
   exit as its `Accept`, `Deliver` and stutter, per file.
3. The two readers on characters with CR LF, against a reference definition of the
   lines of a file.
