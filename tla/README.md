# Verification of my-telemetry-server

TLA+ models of the server in `src/my-telemetry-server`, the configurations with which TLC checks
them, and theorems about them which TLAPS proves. Paths below are relative to
`src/my-telemetry-server/src/` unless they say otherwise; `PROJECT.json` maps every definition to
the lines it models.

Contents: [the system](#the-system) · [the modules](#the-modules) · [the runs](#the-runs) ·
[where the code differs from its comments](#where-the-code-differs-from-its-comments) ·
[the proofs](#the-proofs) · [what is left out](#what-is-left-out) · [the plan](#the-plan)

## The system

Services send the events of their calls - "metrics" - over gRPC or HTTP. The server keeps the
metrics of the last hours in files of its own format, one folder per product scope and hour, moves
an hour to S3 when it is two hours old, deletes it when it expires, and answers searches over all of
it. Besides it counts the metrics into statistics in a database.

### Components and their state

| Component | Source | State | Operations |
|---|---|---|---|
| Ingest | `flows/upload_events.rs`, `to_write_queue/`, `flows/take_in_queued_metrics.rs`, `background/` | a queue; a signal of an executor; a lock for passes | enqueue, signal, pass (take a batch, drop what is late, count, hand over) |
| Memory of the storage | `metrics_storage/pending.rs` | the seconds which wait (`buckets`), a counter of their records, the seconds being written | `add` (with a bound), `take_ready`, `written`, `search` |
| Writing out | `flows/write_ready_metrics.rs`, `timers/metrics_writer.rs`, `process_id_user_id_links.rs` | the links process → client; a blocking task per tick | take what is ready, name clients, write, keep for good, let old links go |
| Hours | `metrics_storage/metrics_storage.rs` | a map of hours to handles; in each a lock and a slot closed/open/deleted | get, open, write, read, delete, persist indexes, let go when idle |
| Files of an hour | `metrics_storage/hour_file.rs`, `frame.rs`, `cells.rs`, `metric_block.rs` | a chain of frames over data files, an index of 3600 cells, a dirty mark, a seal | open (or rebuild), write a second, flush, compact |
| Indexes of an hour | `key_index.rs`, `process_index.rs` | seconds by action, seconds by process, with limits | add, forget, counts of a query, write, read |
| S3 | `metrics_storage/s3_archive.rs`, `timers/upload_to_s3_timer.rs` | the objects of an hour; a cache of indexes; a cache of the listing; the failed uploads | ask, upload, delete what expires, list |
| Retention | `metrics_storage/retention.rs` | none | when an hour is written into, local, uploaded, expired |
| Search | `metrics_storage.rs`, `search.rs`, `query.rs` | none but its answer | windows from the end of the hour down; memory before files |
| Statistics | `caches/`, `flows/save_statistics.rs`, `flows/init.rs`, `db/` | counts per hour and service, durations per action, what is changed since the last save | count, save, restore, gc |
| Permanent users | `permanent_users/`, `scripts/permanent_users/`, `db/permanent_metrics/` | a list with a file; a table | add, remove, save, load |
| Start and stop | `main.rs` | - | drain, write, end |
| UI | `src/my-telemetry-ui*` | - | a proxy and a browser client |

### How they meet

* A writer's call appends to the queue, then signals the executor, then answers. The executor's pass
  and the drain of the stop exclude each other by `queue_pass`.
* A pass takes three locks one after the other: of the queue, of the statistics, of the memory. What
  it holds in between is nowhere but in its own variables.
* A tick of the writer timer takes what is ready under the lock of the statistics *and* of the
  memory, and writes in a blocking task. The timer gives up on a tick which takes too long; the task
  goes on, so several may write.
* A write, a search, the gc tick and the upload tick meet at the map of the hours (a mutex held for a
  moment) and at the lock of the slot (held by a search for a pass, by the others for a blocking
  section). A search holds neither between two passes.
* The caches in front of S3 are filled after an `await`, and emptied by uploads and deletions.

### What is hard about it, and what makes it correct

1. *The way of a metric.* Many hands, no transaction: a metric which was taken in has to be in
   exactly one place, and a search has to find it wherever it is. → `NothingForgotten`,
   `NothingTwice`, `NoMomentInNeither`, `SearchFindsAll`.
2. *The bound of the memory.* A counter and a map change in four places. → `MemoryIsBounded`.
3. *Which hour, which client.* The time of a metric is set right twice, and it is counted in between;
   the client is found by links which age while metrics wait. → `CountedUnderItsHour`,
   `ClientIsNamed`.
4. *The stop.* It runs beside the executor, the ticks and the servers. → `StopWritesWhatWasAccepted`.
5. *The move to S3.* Seal, copy, put object by object, forget, delete - with a failure, a crash, an
   expiry, a search or a late write between any two. → `StoredIsKept`, `ArchiveIsWhole`,
   `OneHourFile`, `SearchFindsStored`, `LocalHourGoes`, `ExpiredLeavesS3`.
6. *The files of an hour.* Seconds are merged, cut into blocks, moved by halving; cells and two indexes
   have to follow; a flush is many writes to several files without an fsync, and an hour is opened from
   whatever is there. → `CellsAgreeWithTheChain`, `EveryRecordIsHeldOnce`, `FlushedSurvives`,
   `HourOpens`, `IndexesAgree`, `CopyHoldsTheChain`.
7. *A search is many passes*, each over another state of the hour, with windows set from estimates.
   → `SearchGivesTheLatest`, `TraceGivesEveryEvent`.
8. *Statistics* are swapped out under a lock, saved beside each other, let go of and restored.
   → `KeptHoursAreExact`, `NothingCountedIsLost`, `ScreensAreWhole`, `ChangesAreSaved`.

Over all of it stands what a caller may rely on: `Custody`.

`PROJECT.json` lists each such place with its line under `hazards`.

## The modules

| Extends or instantiates | |
|---|---|
| `Retention` ← `Pipeline` (which has an instance of `Custody`) ← `MCPipeline` | the way of a metric |
| `Pipeline` ← `PipelineProofs` | its theorems |
| `Retention` ← `HourLifecycle` ← `MCHourLifecycle`; `HourLifecycle` ← `HourProofs` | the life of an hour, its theorems |
| `MetricBlock` ← `Frame`, `HourIndexes` ← `HourFile` ← `MCHourFile` | the files of an hour |
| `FoldLemmas` ← `IndexProofs`, `StatisticsProofs`; `HourIndexes` ← `IndexProofs` | folds, orders and recursive functions; the theorems about the indexes |
| `HourFile`, `IndexProofs` ← `FileProofs` ← `ChainProofs` ← `RoomProofs` | the theorems about the files of an hour: their types, the chain of frames, the hour |
| `HourFile` ← `MCSplitHour` | an hour of more seconds, for one crash |
| `HourFile` ← `HourSearch` ← `MCHourSearch` | a search beside what changes the hour |
| `Retention` ← `Statistics` ← `MCStatistics`; `Statistics` ← `StatisticsProofs` | the statistics, their theorems |

(`A` ← `B`: `B` extends `A`.) Operators named `X_Something` are wrong variants of the operator `X`
below them: each property of a run is violated when its variant is put in.

### Retention

The functions of `retention.rs` and `time_to_keep` of `pending.rs`, over integers. The lengths of an
hour, of the local time and of what is too far ahead are constants.

### Pipeline

The way of a metric from a writer's call to the files of its hour, for one product scope. A tick of
the clock is a second.

| Variable | In the code |
|---|---|
| `calls`, `queue`, `signalled` | how far each call is; `ToWriteQueue`; the trigger of `queue_executor` |
| `repeat`, `holder`, `counting`, `passing`, `more` | what the last pass returned; who holds `queue_pass`; the locals of `take_in_queued_metrics` |
| `waiting`, `created`, `records` | `PendingMetrics`: the records of the buckets, when each bucket was made, the counter |
| `kept` | the `started` of a record, as it is changed on its way |
| `stage`, `held`, `left`, `awaited` | of each blocking task: how far, `being_written`, what it has not decided yet, whether the tick still waits |
| `links`, `client`, `permanent` | `ProcessIdUserIdLinks`; the tag of a record; the table of what is kept for good |
| `stop`, `search` | the stop in `main.rs`; the searches |
| `counted`, `late`, `overflow`, `refused`, `accepted`, `pushed`, `made` | what the properties remember of the past |

Actions, in the order of a metric: `Enqueue`, `Trigger` (upload_events); `TakeNothing`, `TakeBatch`,
`Count`, `Push`, `EndPass` (take_in_queued_metrics: one action per lock it takes); `TickTakes`,
`TickFindsNothing`, `StopTakes` (write_ready_metrics under its locks); `StartWrite`, `WriteHour`,
`EndWrite` (MetricsStorage::write: the clock, then hour by hour, then its guard is dropped);
`GiveUp` (the timeout of the timer); `BeginStop`, `Exit`; `LookInMemory`, `ReadFiles`, `Answer`
(action_events).

`WriteHour` stores the metrics of an hour or refuses them, as one step and without a reason: why an
hour refuses is the matter of `HourLifecycle`. A search reads every second of the hour from the last
one down, one step each; the windows, estimates and limits are not there, so `SearchFindsAll` is about
the order of memory and files, not about the limit. Of a record only its time and its client are
modelled. Which of the events of one pass makes the link of their process is left open.

### HourLifecycle

One hour of one scope, from its first write until it has left S3. A tick of the clock is an hour.

| Variable | In the code |
|---|---|
| `map`, `slot`, `asked` | `MetricsStorage::hours`; `HourSlot` of each handle; what `last_access` tells, see below |
| `sealed`, `unflushed` | the seal of the open `HourFile`; what it has in memory and not in its files |
| `at`, `held` | how far the write task, the gc tick, the upload tick and each search are; the `Arc<HourHandle>` each has |
| `folder`, `file`, `local`, `copies` | the folder of the hour, its `metrics.data00`, what the files have, the `.upload` copies |
| `s3data`, `s3index` | the data files and the index of the hour in S3 |
| `cached` | `S3Archive::indexes`: nothing, missing, or the index |
| `towrite`, `writing`, `gcNow`, `search` | what the write tasks bring; the time a gc tick read; what a search has to find yet |
| `stored`, `afterData` | what was ever flushed; what was flushed while S3 had the data of the hour |

The write task: `BeginWrite` (reads the clock), `WriteGetsHour`, then under the lock `WriteRefused`,
`WriteFlushed` or `WriteFails`. The gc tick: `GcTick`, the deletion, `GcPersists`, `GcLetsGo`. The
upload tick: `UploadTick`, `UploadAsks`, `UploadGetsHour`, `SealRefused`/`SealFlushFails`/`SealAndCopy`,
`PutData`, `PutIndex`, `UploadForgets` or `UploadFails`, the deletion, and `UploadGivenUp` for its
timeout; in a later tick `GcS3Tick`, `GcS3Index`, `GcS3Data`, `GcS3Forgets`. The deletion of both:
`DeleteGetsHour`, `RemoveFolder`, `LeaveMap`. A search: `SearchGetsHour`, `SearchOpensHour`,
`SearchLocksHour`, `SearchCollects` for a local pass, `SearchLooksInCache`, `SearchDownloadsIndex`,
`SearchKeepsIndex`, `SearchCollectsFromS3` for one in S3; two passes. `CacheLapses`, `Tick`, `Crash`.

Abstractions, with their direction:

* A step under the slot's lock is one step. What a crash inside leaves is what the failed step leaves.
* A flush which fails writes nothing (a partial flush is the matter of `HourFile`).
* How long an hour has been idle is not counted: an hour which nobody holds may be let go of by any gc
  tick - more than the code does - unless it was asked for since the write task under way began. That
  a write task does not take `IDLE_HOUR_MICROS`, ten minutes, is the one timing the model assumes;
  without it a sealed hour could be let go of, be opened unsealed and be written into by that task.
* The wait before a failed upload is tried again is left out: it may be tried at any tick.
* A data file in S3 which is "as long as the copy" is not put again. Whether two copies are equally
  long is left open: a file grows by whole frames, whatever is in them.
* There are three handles. A freed handle is used again; who would need a fourth one waits.

### Custody

What the server promises of a metric, without threads, locks or files: it is outside, on its way (`sent`),
in sight (`held` or `stored`), or `dropped`; it never goes back, and what is stored stays. Four
actions: `Send`, `HandOver`, `Store`, `Refuse`. `Pipeline` implements it: `Promise` in `Pipeline.tla` is
an instance in which what is on its way is what is queued or in a pass (`OnItsWay`), what is held is
the memory together with what the tasks have taken and not yet decided, and what is dropped is
`Dropped`. `KeepsItsPromise` is its specification, a `PROPERTY` of the run `pipeline` and a theorem.
Sixteen of the actions of `Pipeline` are stutters of it: the passes, ticks, timeouts and the stop
change who has a metric, not whether it is there.

### MetricBlock, Frame, HourIndexes, HourFile

The files of one hour as their writer keeps them. The length of an entry is a number; what compression
and encoding do is a bound on that number (`RAW_BLOCK_LEN`, `MAX_PAYLOAD_LEN`), what a record loses when it
is cut to fit is modelled (`MetricBlock`). A frame (`Frame`) is a sequence of entries with the link to
the next one; an entry may be one which does not read. `HourIndexes` has the key index and the process
index with their limits, as they are in memory, as their files are laid out in pages, and as a search
asks of them.

| Variable of `HourFile` | In the code |
|---|---|
| `disk` | the data files (frames, lengths, whether the last one is torn), `metrics.index`, the files of both indexes |
| `slot` | `HourFile`: cells, counts, tail, the cached and the dirty frames, both indexes, clean or not |
| `steps` | the writes a flush has still to make, in their order |
| `given`, `writing` | what the hour was given; what the flush under way is about |
| `durable`, `dropped`, `refusals`, `fault` | what the properties remember |

`Write` is `MetricsStorage::write` for one hour: every second in turn, merged with what the second has
(`PutRecords`), cut into blocks, placed, with halving and new frames; a second which is refused for
room closes the hour (`Refuse`). `FlushStep` is one write of `flush_frames`; so a crash (`Crash`), a
torn write (`TornWrite`), a power loss under a clean index (`PowerLoss`) and an error (`FlushFails`) fall
between any two. `Open` is `HourFile::open`: clean or rebuilt, with the indexes read in full, by their
directory, or counted again. `Persist`, `LetGoIdle`, `compact_to` are what the timers do. `Load` puts
an hour there which was written before, so that the interesting states are near.

Abstractions: the write of an index file is one step; of a frame which is written over, the entries
up to some place are new and the ones after it old; the position of a record in its block is not told
apart; an hour is four seconds.

### HourSearch

One search beside what changes the hour. `Begin` looks in the memory (`add_waiting`), then `Find` opens
the hour or asks S3, and `ReadWindow` (by action) or `ReadPart` (a trace) is one pass under the lock, with
the window set by the estimates of the index which serves the query (`open_for_reading`,
`process_counts`, `Runs`, `in_parts`). Between two passes the hour is written, flushed, let go of, opened
from its files or uploaded (`Upload`). `SearchGivesTheLatest` and `TraceGivesEveryEvent` compare the
answer with its definition: the latest events which match - of a trace the oldest - each of them once,
as far as the limit goes. Conditions on tags and durations, and the walk over several hours, are not
modelled.

### Statistics

| Variable | In the code |
|---|---|
| `cache` | `statistics_by_app_and_data`, `event_amount_by_hours`: the rows of the hours in memory |
| `to_persist` | the rows which changed since they were last taken |
| `saves` | the save of the timer and that of the stop: what each took, how far it is |
| `db`, `reader` | the two databases; one screen |
| `counted`, `spoiled`, `fault` | what the properties remember |

`Count` is what a pass counts, both tables under one lock; `TakeChanges`, `WriteActions`, `WriteServices`
are `save_statistics`; `SaveFails` a panic of the tick; `Gc` lets go of hours; `Start` restores the
current one; `ReadMemory`, `ReadDatabase` are what a screen is given. The values of the rows are real: sums,
minimum, maximum and counts are computed and compared with the reference over the set of events.

## The runs

| Run | Question | Instance | States |
|---|---|---|---|
| `pipeline` | Is a metric ever lost, doubled, hidden, miscounted, left by the stop, or written without the client it should have? | 3 metrics of one process in 2 calls: one whose hour ends its local time, one without a time and a client, one current, the two naming different clients; links which are let go of when they are as old as the window, so that one goes with the tick which still needs it; memory of 2 records; one tick, the stop, one search; seconds 7 to 8 | 3.1 million |
| `pipeline_live` | Is what is queued taken in, and what is being written let go of? | 2 calls, batches of one, two tasks at once, a clock which stands | 0.1 million |
| `hour_lifecycle` | Is what was flushed ever lost on its way to S3, and does a search follow it? | 2 records, each of a pass of its own; with and without S3; one search after the other; one failure and one crash anywhere; three hours: written into, local time over, expired | 3.8 million |
| `hour_live` | Does the hour leave the disk, and S3? | the same with one record and no crash | 0.3 million |
| `hour_file` | Do cells, indexes and chain agree, does an hour always open, and what does a crash cost? | an hour of four seconds, three ways it was written before, 2 more records of 4 - one long, one to be cut, one which fits nowhere, one in a new second; either index lets everything go with some of them; one fault | 23 thousand |
| `search` | Is the answer the latest events, each once, whatever happens to the hour between two passes? | 5 queries; an index which knows and one which was let go of; 3 records written beside the search; the hour in S3 | 54 thousand |
| `statistics` | Are the counts exact, saved, and shown whole? | 3 events of one service and two actions; hours 3 to 5; both saves; one fault | 0.8 million |
| `statistics_late`, `clean_stop`, `copy_is_the_same`, `crash_costs`, `cells_after_crash` | see the next section | | |

**Why the bounds are enough.** The properties of the pipeline compare a metric with the places it may
be in; a violation needs one metric which is mishandled and at most one more which makes the
difference (fills the batch, fills the memory, is of another hour). The instance has one of each and
both kinds of task. The memory of two records makes the third overflow; `MAX_BATCH` of two makes a
pass which leaves something behind. In the hour one record has to be treated otherwise than the one
before it - written before and after the seal, read by the first and by the second pass - so two
records are what there is to tell apart; the clock has one value for each answer of `retention.rs`.
One failure and one crash may fall at any step, in either order, and so may a timeout of the upload,
which counts as a failure.

In the files of an hour two records on top of what is there reach every case of `write_second`: into a
second which has an entry, between two seconds, after the last one, into a frame which is full, into the
last frame there is room for. One thing goes wrong in a behaviour; after a power loss nothing more is
written, as the state it leaves is one no code can tell from a whole one. A write brings at most
`MaxBatch` records. In `search` there is one search per behaviour, with limits of two and three events
over nine. In `statistics` two events share a row and the third has one of its own, a pass takes one or two
of them; three hours are one which is current, one which is over and one the memory lets go of.

**Fairness.** `statistics`: the timer saves, again and again, while the process is up
(`save_statistics_timer.rs` ticks each second); nothing else. `pipeline_live`: the executor runs when it is signalled and again when its pass returns
`true`, a pass goes on, a blocking task which began ends, a call which queued its batch goes on to
the signal. Nothing is assumed of writers, searches, ticks of the timer or the clock.
`hour_live`: the two timers tick while the process runs, the write task and the searches under way go
on. Strong fairness for the ticks, as they wait for a lock which searches take again and again: the
lock of the slot is tokio's `RwLock`, which lets a waiting writer through in turn. The number of
failures is bounded; a disk or an S3 which fails for ever keeps the folder until the process can
delete it, and nothing is promised.

**What they show.** Within these bounds every metric which was sent is in exactly one of: the queue,
a pass, the memory, a task, the files, or dropped for one of the three reasons the code names (the hour
is over, the memory is full, the hour does not take it). A search finds whatever was in memory or
files when it began, though ticks move records between the two while it reads. What was
flushed into an hour stays readable until the hour expires, through failures and crashes of the
upload; the index of an hour in S3 never names data which is not there; only the handle of the map
works on the files. `SearchFindsStored` says that a search which met no failure follows the hour to
S3. What it leaves out on purpose:

* a search told "missing" by the cache while S3 has the hour. `S3Archive::get_indexes` stores its
  answer after an `await` without asking whether the hour changed meanwhile (the listing has
  `changes` for this, the indexes have nothing): an hour first written, uploaded and deleted during
  one request is missing for a minute. The window is narrow - the hour has to be made in the last
  moments of its local time.
* a search which finds the hour closed again by a write which failed (`open_for_reading`, line 434).
* a search which reads an hour made anew by a write which came too late.

## Where the code differs from its comments

* `statistics_late`: `flows/take_in_queued_metrics.rs:79` says that "the statistics count what is
  stored". A metric is counted as it is taken in; if the local time of its hour is over by the time
  it is written - it waits a window, and longer behind a slow write - it is dropped and stays counted.
* `clean_stop`: `src/README.md:51` says that a clean stop writes what waits in memory. The servers take
  calls until the process ends: a call answered after the drain found the queue empty is lost.
  What was accepted *before* the stop began is written (`StopWritesWhatWasAccepted`).
* `copy_is_the_same`: `metrics_storage/s3_archive.rs:571` says that the copy of an hour is the same each
  time it is made, since nothing is written into an hour which is uploaded - which is why a data file
  of the same length is not put again. `MetricsStorage::write` reads the clock once, before it waits
  for the locks of the hours it writes. An upload which failed between its data and its index unseals
  the hour; a write whose clock is from before the end of the local time is then flushed into it. The
  next copy has other content, possibly in files of the same length. It takes a write which waits
  past a failed upload; the consequence would be an index in S3 over other data files.
* Not a run of its own: `upload_hour` says that "a failed upload unseals the hour". When the flush of
  the sealed hour fails (`seal_and_copy`, line 1138) the error is returned before anything unseals it.
  Only writes which are late anyway could tell.
* `crash_costs`: `src/README.md:51` says that what came in the last `WindowSeconds` waits in memory and that a
  crash loses it; `metrics_storage.rs:165` calls it "what a crash would cost". `flush_frames` writes
  the new frames first, so nothing ever points at a frame which is not there - but the changed frames
  one after another. A halving which moved entries into the frame which follows, when that one was on the
  disk already, changes both: a crash between the two writes loses the entries of one of them, which an
  earlier flush had put on the disk. `FlushedSurvives` holds of every other crash.
* `cells_after_crash`: the other side of the same crash. A write halves a frame into the next one, then
  that one into the one after it; the flush dies when the second of the three is written, or the first. The
  chain which is rebuilt has some entries twice, and earlier seconds again after later ones:
  `1 2 4 | 2 3 | 6 | 7 8 9`. That alone only costs the order. But `last_entry_of` (`hour_file.rs:869`) walks
  from the cell of a second up to the first entry of a later one, and takes what it passed last for an entry
  of that second: the next write into second 4 takes out the entry of second 3, puts its records into one
  block with its own, and moves the cell of second 3 past it - the code asks whether the entry it takes out
  is where the cell of *its* second is, not of any other. A search of second 3 does not find it any more;
  `cells.rs:22` says that a cell is "where the first entry of a second is". So `CellsAgreeWithTheChain` and
  `IndexesAgree` leave out the hours half of a flush was found in (`HalfFlushed`): of them it is claimed that
  the chain reads to its end, that every hour opens, and that no write into it is refused but for room.

Not runs of their own, since no text of the repository says otherwise, or since they follow from a
fault the code does not claim to survive:

* A row of the statistics replaces the one in the database. Counts of an hour which has left the memory -
  after the gc at two hours, or a restart, which restores the current hour only - start from nothing
  and replace the row of the whole hour. `main.rs:120` says that there is no reason to lose the
  statistics on a clean shutdown; those of the last hours are lost with the first late event after it.
  (`spoiled` in `Statistics`.)
* A save of the timer which is under way as the stop saves may end after it, with older rows, or not
  at all.
* The minimum of a duration is taken as unset when it is 0.
* A screen is shown less of an hour which left the memory before its last changes were saved.
* `scripts/permanent_users/save.rs` writes a list of objects, `load.rs` reads a list of strings and
  unwraps: a start after any user was added ends in a panic. Nothing more than a start and an added user
  is needed, so there is no model of it. Two calls which change the list write its file in either order.
* A rebuild which finds not even the head empties every data file of the hour but keeps them
  (`hour_file.rs:1360`), and `allocate_frame` goes on in the last one: in an hour of two files or more the
  next chain starts at that file's first frame, and not at `FrameId::HEAD`, where a search, a rebuild and the
  copy for S3 start. The rebuild after it finds nothing again, and empties what was flushed since. It takes a
  first flush of more than a data file (3 GB) which a crash cuts short, or a larger hour whose first frame
  does not read. `ChainInv` has such a chain (`FromHead`); the runs, whose first flush fits one file, have not.
* A search which is opened on an hour that a refused write closes before the search has its read lock
  finds nothing of that hour (`open_for_reading`).
* Two metrics which are alike in process, times, service and action are one to a search which finds
  the one in the memory and the other in the files (`add_waiting`).

## The proofs

Every theorem is for every instance of its module: any finite set of metrics, any calls, tasks,
searches, handles, faults, bounds and times, under the assumptions of `Retention`, `Pipeline`,
`HourLifecycle`, `Statistics`, `MetricBlock`, `Frame`, `HourIndexes` and `HourFile`. They say that the
constants have their types; that a metric is sent once: it is in one batch, at one place of it (two
calls with equal content are two metrics); that the records of an hour are of its seconds, and come
once; and that a frame has room for three entries of the longest payload (`frame.rs:27`: "a full frame then
always holds at least three entries"; `MAX_ENTRY_BODY_LEN` is about a quarter of a frame). TLC checked
every inductive invariant on the small instance before it was proved; of `ChainInv`, which says that there *is* a
chain, it checked what follows for the walk from the head (the first lines of `CellsAgreeWithTheChain`).

| Module | Theorem | Says |
|---|---|---|
| `PipelineProofs` | `TypesHold` | `Spec => []TypeOK` |
| | `NothingIsForgotten` | `Spec => []NothingForgotten` |
| | `NothingIsTakenTwice` | `Spec => []NothingTwice` |
| | `NoMetricIsInNeither` | `Spec => []NoMomentInNeither` |
| | `PipelineKeepsItsPromise` | `Spec => KeepsItsPromise`: `Pipeline` implements `Custody` |
| | `MemoryStaysBounded` | `Spec => []MemoryIsBounded` |
| | `CountedIsKept` | `Spec => []CountedUnderItsHour` |
| | `SearchMissesNothing` | `Spec => []SearchFindsAll` |
| | `StopLosesNothingAccepted` | `Spec => []StopWritesWhatWasAccepted` |
| | `ClientsAreNamed` | `Spec => ClientIsNamed`, if `WindowSeconds # 0` |
| `HourProofs` | `HourTypesHold` | `Spec => [](TypeOK /\ StagesRight)` |
| | `OneHandleHolds` | `Spec => []OneHourFile` |
| | `ArchiveStaysWhole` | `Spec => []ArchiveIsWhole` |
| | `StoredStaysKept` | `Spec => []StoredIsKept` |
| | `SearchFindsWhatIsStored` | `Spec => []SearchFindsStored` |
| `StatisticsProofs` | `KeptHoursStayExact` | `Spec => []KeptHoursAreExact` |
| | `CountedStaysSaved` | `Spec => []NothingCountedIsLost` |
| | `ScreensStayWhole` | `Spec => []ScreensAreWhole` |
| `IndexProofs` | `DirectoryAnswersAsTheIndex` | a search by the directory of the file of a process index finds what the index has |
| | `KeyFileIsTheIndex` | the file of a key index, read value by value, is the index |
| | `ProcessFileIsTheIndex` | the file of a process index, read back, is the index |
| `FileProofs` | `FileTypesHold` | `Spec => []TypeOK` of `HourFile` |
| | `HoursOpen` | `Spec => []HourOpens` |
| | `IndexFilesAnswer` | `Spec => []IndexFilesAnswerAsTheIndexes` |
| `ChainProofs` | `HalvesFit` | a full frame has a border to halve it at, and either half has room for one more entry |
| | `BlocksAllPut` | blocks for which there is room are all put where they are aimed at, in a chain which stays in order, and the cells follow |
| `RoomProofs` | `FoundAgainIsRight` | whatever frames the files of an hour still hold, also after a loss of power: an hour which is found again opens with a chain in order and cells which stand in it, and it is found again when its index is missing, marked or torn, or when the end of the chain does not read from it |
| | `WritesAreRefusedOnlyForRoom` | `Spec => []RefusedOnlyForRoom` |

So all the safety of `Pipeline`, of `HourLifecycle` and of `Statistics` is proved, and a part of that of `HourFile`.

*The way of a metric.* `NothingForgotten` and `NothingTwice` together say that the places of a metric
partition what was sent. Neither is inductive alone: that a task may add to `stored` what it has
`left` without doubling anything needs that no other task has it, and that the end of a task may clear
`held` needs that all of it has been decided. The inductive invariant is therefore

    Sound == TypeOK /\ PassIsOver /\ Accounted
    Accounted == NothingForgotten /\ NothingTwice /\ TasksAccountFor /\ NoMomentInNeither

`PassIsOver`: without a holder of `queue_pass` no metric is in a pass. `TasksAccountFor` says what a
task holds at each stage: nothing when idle, nothing left before it writes, and while it writes
everything held is left, stored or dropped. One lemma per action for the types and one for the
accounting, and lemmas on how a sequence without duplicates splits at the batch (`QueueParts`) and
grows (`QueueGrows`). Everything else about the pipeline rests on `Sound`:

* *The promise.* From `Sound` the four places of `Custody` part what was sent (`Parted`); then five actions
  of `Pipeline` are one of `Custody`'s each - `Enqueue` sends, `Push` hands over and pushes out, `WriteHour`
  stores or refuses, `TakeBatch` and `StartWrite` refuse what is late - and the others move nothing.
* *The memory.* `MemoryIsBounded` is inductive with `Sound`. The counter is compared with a cardinality, so a
  step which adds or takes a group needs the facts of `FiniteSetTheorems` on disjoint unions.
* *The count.* A metric may be set right twice - when it is taken from the queue, and when it is handed to the
  storage - and the clock goes on in between. `CountedRight` adds that what a pass has taken is `Timely`: kept
  at a time the second look takes as it is. The clock never runs back in the model.
* *The search.* `Reachable`: what a search still has to find is in a second it has not read.
* *The stop.* `StopRight` says where nothing accepted can be at each stage of the stop: not in the queue once
  a pass of the drain leaves it empty, not in memory once the last write has taken every second.
* *The clients.* `LinksRight` relates three clocks: what waits is no older than its bucket, and a link which was
  let go of was older than the window and its reach together. `settings.rs:198` takes a window of 0; then
  nothing waits and the argument is a second short, hence the assumption.

*The life of an hour.* The invariant `HourInv` is a conjunction of five parts, each with a lemma for its step;
all but the first are weakened by the clock, which turns each off for good:

    HourInv == TypeOK /\ StagesRight /\ OneHandle /\ SealRight /\ Whole /\ Kept

* `StagesRight`: what each stage has. An upload holds a handle while it waits for the lock; its hour is
  over, S3 is set up, and no index of it is there once it was asked for; the gc deletes what is not to be kept.
* `OneHandle`: until the hour expires every handle but the map's is deleted, and who removes the folder holds
  the map's. It needs that the gc and an upload never both delete an hour (`OneDeletes`), which needs that
  without S3 there is no upload and with S3 the gc waits until the hour expires. `OneHourFile` follows.
* `SealRight`: from the seal until the copy is in S3 the hour is not let go of under a writer who has asked for
  it (`AskedRight`), so the writer meets the seal; and nothing is left in memory, so the copy is what the
  files have (`CopyRight`). This is what the use of `last_access` in `let_go_idle_hours` is for, together with
  the assumption that a write ends within `IDLE_HOUR_MICROS`, which the model makes.
* `Whole`: data in S3 is as the copy, as the files - or the files are gone - unless the hour was written into
  after it was there. `ArchiveIsWhole` is a conjunct. That an upload which starts again finds its own data
  there, from an earlier try, is why the files have to be compared as well.
* `Kept`: at each stage of the upload, where what is stored can be: in the files; from the put of the data on
  in the copy; from the put of the index on in S3, index and data, until then the folder stays. `StoredIsKept` is
  a conjunct. It rests on `Whole` where the put of the index needs the data to be there, and on `SealRight`
  where nothing may be flushed between the copy and its put.

`LeavesFiles` and `FlushesFiles` sort the thirty-odd actions by what they do to the files, once
(`StepsOfFiles`), so `Whole` and `Kept` have nine cases each instead. Two lemmas on `Retention` carry the clock:
a time which is over stays over (`LocalTimeStays`), what is expired stays so (`ExpiredStays`).

*The search in an hour.* `SearchFindsStored` is inductive with `HourInv` and `Found`, which says of an hour that is
to be kept where a search which is under way will still find what was stored before it began:

* `FreshRight`, `FlushedRight`: a record is in one of the write task, the memory of the hour and what is
  stored, and nothing else was ever flushed.
* `CacheRight`: an index of S3 that is kept in memory is the one which is there. The index is only put once
  while the hour is to be kept (`ArchiveStays`), so one which was downloaded before stays right.
* `MapRight`: who finds the hour of the map deleted finds its index in S3 - the one step which sets it so,
  the end of the upload, comes after the put of the index.
* `FoundRight`: at each stage of a search, what it has to find (`due`) is in the files and the memory of the
  handle it reads - which cannot be deleted while it has its read lock - or in the index it goes to. Between
  looking at the map and having the lock the handle may be deleted; the search looks again.

*The statistics.* A pass folds its metrics into two tables. What is said of a table is said of each row by the
set of events it counts: `Counts(t, row, some)` - sums, amounts, the smallest and the largest are those of
`some`. The invariant is

    StatisticsInv == /\ TypesRight /\ SavesRight /\ TablesRight
                     /\ CacheWhole /\ OneHasIt /\ NewerComesLater /\ ReaderRight

* `TablesRight`: every row, in memory, with a save or in a database, counts events of its key and no others. So a
  row which has as many as there are counts all of them (`AtMostAll`), and rows of one key are compared by
  their amounts.
* `CacheWhole`: an hour in memory has all of its rows, and whole. A start reads back the whole current hour
  as nothing is with a save then; without `OneHasIt` this is not inductive.
* `OneHasIt`: the whole row of what was counted is in the database, with one of the saves, or to be written.
* `NewerComesLater`: while only the timer saves, a row on its way has no less than the one it replaces. That is
  what two savers lose; then what the row lost is in `spoiled`.
* `ReaderRight`: a screen which let go of the lock before it reads the database finds there at least what was
  counted before it asked (`HasAll`). The amounts of its rows are added up (`SumOfParts`, `SumGrows`).

The tables are folds over a set of metrics, and the screen's sum is one over its keys. The prover cannot
instantiate the library's induction theorems; `NatInd` and `SubsetInd` state induction with a *set* in the
place of the predicate, proved from the existence of a smallest counterexample. `FoldExists` gives the recursive
function behind a fold over a finite set from them, and `SumAdd` and `CountsTheBatch` what the folds are.

*The indexes.* Their files are sorted, so the theorems are about searches in an order. The order of pairs and of
keys is a strict total one, a finite set has one sequence which sorts it (`Sorts`), and in it the last page
whose first pair is not after the one looked for is the one to begin with; a page which ends before the seconds
of the process do goes on in the next (`DirectoryAnswersAsTheIndex`). The key index packs the seconds of a value
as steps from the one before: adding up the steps gives the seconds back, and the lengths of the values, added
up, give the place at which each begins, on either side of what the first read brought in (`KeyFileIsTheIndex`).

*The files of an hour.* The invariant is

    FileInv == FilesRight /\ SlotRight /\ StepsRight /\ GivenRight /\ FaultRight

* `FilesRight`: every frame on the disk is within its capacity, and a file of an index is the file of some index.
* `SlotRight`: the hour is closed, or open without a failure and with frames, cells, counts and indexes of their
  types; what is dirty is in memory.
* `StepsRight`: a frame which a flush has still to write is in memory, and is written before the cells are.
  A flush writes what is in memory *then*, so this is what keeps the disk within the capacity.
* `GivenRight`, `FaultRight`: what is written or dropped was given; a loaded hour was not used before.

None of the three invariants is inductive alone. `HourOpens` is about the step which opens, and that step reads
what any crash left: so the capacity, the indexes and the links have to be of their types in everything that
may be on the disk. Where the argument is not a matter of types:

* *The capacity.* A block is cut until it fits a frame (`EntryOfRecords`). An entry is inserted only where there
  is room for it; where there is none the frame is halved at a boundary of entries, and both halves are within
  the capacity as their entries are some of those there were; a frame which was ended, or is torn, is no longer
  than it was. The lengths are sums over a recursive function, so each needs induction (`StaysIn`).
* *The chain.* The one failure of an open that would stay is that the last frame is not found
  (`"the hour does not open"`). A rebuild walks the chain from the head, ends the frame at which the walk
  stopped, and makes the cells from what it found. So every cell is on the part of the chain that was walked, and
  the walk from it is a part of that walk (`PartOfAChain`): it ends in the ended frame, which has no next.
* *The indexes.* A write adds to them, a merge forgets and counts again, an open reads them from their files:
  `RecordsAreCounted`, `RecordsAreForgotten`, `ProcessesAreCounted` and the round trips keep them indexes. Then
  `IndexFilesAnswer` is an instance of the theorems of `IndexProofs`.

The walks, placings and merges of the model are recursive functions and left folds over sequences;
`RecursionExists`, `PathExists` and `LeftFoldExists` say that there is such a function, and `StaysIn` and
`LeftFoldIn` that what each of its steps keeps, it keeps.

*The chain.* `RefusedOnlyForRoom` says that a write never fails for what the code takes for impossible: a cell
which leads to no entry, a chain which does not read, a full frame with a single entry, an entry which fits
neither half. That is about every cell of the hour and every frame of it, over merges, halvings, half
flushes and rebuilds; the invariant is

    ChainInv == FileInv /\ RefusedOnlyForRoom /\ PowerRight /\ ChainRight

* A chain is laid out, `IsLaid(F, c, S, W)`, when the frames `c` of `F`, each once and each the next of the one
  before, have the entries `W` between them, the i-th those from `S[i]` to `S[i + 1]`. A cell stands in it
  (`StandsAt`) when it is at a border of its entries, and that is named by a *number*: how many entries are before
  it. What the code does to frames and offsets is then one of two things to `W`: one entry put in behind k
  others (`PutIntoLaid`), or one taken out (`TakeFromLaid`); halving a frame into a new one or into the next
  one moves cells and leaves `W` and all the numbers as they are (`SplitLaid`, `NextLaid`).
* `PutBehind` says of the three ways to put an entry - into a frame with room, into one which was halved, into
  the first one - that the entry is behind k others, that the place after it stands behind k + 1, that the cells
  are where those entries now are (`CellsPushed`), and that it took one new frame at most. So n blocks
  take n frames, and `write_second` which asks for twice as many is never out of frames halfway.
  `HalvesFit` is the arithmetic: the border nearest to the middle is no further from it than half of the longest
  entry, and a frame has room for three of those.
* `HourIsRight`: the memory over the disk has such a chain, every cell stands in it, and it starts at the head or
  has a cell. `SecondIsRight` carries it through the cases of `write_second` - a new second, one after the last
  entry, one merged with its last entry, which is taken out and comes back in blocks.
* A rebuild walks from the head as far as the frames read and ends the frame at which it stops: what it
  walked is then a chain laid out, and the cells it finds stand in it (`WalkIsLaid`). No order of the seconds is
  needed for this, so it holds of hours half of a flush was found in as well.
* `FlushRight(d, h, s)`: with the steps `s` still to do. The files are marked before the first frame changes, and
  unmarked with the cells, after the last one; so an index which is not marked is one whose cells stand in
  the chain of the disk (`DiskRight`), after any part of a flush (`StepIsRight`), and a marked one is rebuilt.
* Once power is lost nothing may be concluded from a mark, and nothing is written (`PowerRight`). What is left
  then is `FoundAgainIsRight`, which asks nothing of the frames but that they are in files and nothing of the
  index: if the end of the chain does not read from the last cell of an index which is not marked
  (`EndIsLost`), or a file of an index counts other records than the walk, the hour is found again by the walk
  and opens right. An unmarked index whose last frame reads, over a frame lost in the middle, is taken as it
  is - by the code, too - and nothing is proved of it.

`ChainInv` does not say which entry of its second a cell leads to. After a crash it need not be the first
(`cells_after_crash`); without one it is, which is left to TLC.

*Only model-checked:*

* Liveness (`QueueIsTakenIn`, `BeingWrittenIsLetGo`, `LocalHourGoes`, `ExpiredLeavesS3`, `ChangesAreSaved`), as the
  prover does not handle `ENABLED`.
* Of `HourFile`: `CellsAgreeWithTheChain`, `EveryRecordIsHeldOnce`, `FlushedSurvives`, `IndexesAgree`,
  `CopyHoldsTheChain`; of `HourSearch`: `SearchGivesTheLatest`, `TraceGivesEveryEvent`. They say which records the
  chain has and in which order. A proof needs, on top of `ChainInv`, that a merge keeps the records of `W` as a bag
  and its seconds in order; nothing is in the way of it but its length.

## What is left out

* The listing of the bucket and its `changes` counter (`s3_archive.rs:640`): only the screens which list hours
  and scopes read it, and a stale one is corrected when it lapses.
* The list of permanent users and its file: two assignments and a write. What is wrong with them is told above.
  That their metrics are copied is in `Pipeline` (`permanent`).
* Conditions on tags and durations, and the walk of a search over several hours: each hour is searched by
  the same passes with what is left of the limit.
* Several scopes and hours in the storage: an hour has its own lock and its own objects, and the models
  of one hour stand for each. What hours share - the loop of a write over them, the cache of 64
  indexes - appears as waiting and as `CacheLapses`.
* That `Write` of `HourFile` is what `WriteFlushed` of `HourLifecycle` stands for is not shown by a mapping:
  there a flush is one step, which is what `FlushedSurvives` and `CrashCostsWhatWasNotWritten` are about.
* `settings.rs`, `product_scope.rs`, the mappers and controllers: translation and validation of input,
  with no state.
* `ignore_events.rs`: a list with an expiry which nothing else reads.
* The start of the servers and timers; the UI server and client: a proxy and rendering.

## The plan

1. *Done:* `Retention`, `Pipeline`, `HourLifecycle`, `Custody`, `MetricBlock`, `Frame`, `HourIndexes`, `HourFile`,
   `HourSearch`, `Statistics`; the safety of `Pipeline`, `HourLifecycle` and `Statistics` proved; of `HourFile` its
   types, that it opens, the files of its indexes (`FileInv`), its chain and that every write finds room
   (`ChainInv`).
2. The other invariants of `HourFile` for every instance, on `ChainInv`: the order of the seconds, the records
   as a bag, what the indexes count.
3. The walk of a search over hours, and the listing of S3 with its race at the store.
4. A mapping from `HourFile` to the hour of `HourLifecycle` between two crashes.
