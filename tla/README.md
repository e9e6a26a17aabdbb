# A TLA+ verification project for financial-etl-pipeline

The program is an ETL service: one process, one asyncio event loop. It takes
market events from a Kafka topic and from files, cleans and normalizes them, and
writes them to PostgreSQL; an HTTP API reads the tables. This directory holds a
model of it — the batch stages down to the fields, the two modes that drive
them, the database they write, the API and the lifespan that runs all of it —
with TLC runs that check it on small instances and TLAPS proofs, for every
instance, of all safety properties the runs check: of the two modes, of the service
they make up with the row locks between them, of the API's answers, and of what the
transform stages compute.

Paths below are relative to `src/`; line numbers refer to the modelled commit.

## 1. The system

| Component | Source | State it keeps | Operations |
|---|---|---|---|
| Orchestrator | `app/pipeline/orchestrator.py` | one `PipelineRun` and one session per batch or file | `_process_batch`, `run_kafka_mode`, `run_file_mode` |
| Kafka clients | `app/infrastructure/kafka/client.py`, `app/pipeline/extract/kafka_consumer.py` | consumer position; at the broker the committed offset, the topic, the dead letter topic | `start`, `consume_batch`, `send_to_dlt`, `parse_raw_event`, `extract_batch` |
| File extractor | `app/pipeline/extract/file_reader.py` | input, archive and error directories | `get_pending_files`, `extract_file`, `_archive`, `_move_to_errors` |
| Cleaner | `app/pipeline/transform/cleaner.py`, `app/domain/models.py` | none | `clean_batch`, `parse_timestamp`, `parse_decimal`, `parse_int` |
| Normalizer | `app/pipeline/transform/normalizer.py` | FX rates (constant) | `normalize_batch`: EUR price, outlier flag |
| Aggregator | `app/pipeline/transform/aggregator.py` | none | `aggregate`: OHLCV per (symbol, market, date) |
| Database writer | `app/pipeline/load/db_writer.py`, `app/infrastructure/database/` | `market_records`, `daily_summaries`, `pipeline_runs`, `validation_errors`; the session's open transaction | the three upserts, `save_validation_errors`, commit |
| Lifespan | `app/main.py` | the Kafka task, the scheduler | start, scan every five minutes, shutdown |
| HTTP API | `app/api/routers/pipeline.py` | none (reads the tables) | runs, metrics, summaries |

**How they interact.** The lifespan starts `run_kafka_mode` as a task and
`run_file_mode` as a scheduled job. Both put raw messages through
`_process_batch`, each batch in a database session of its own. Kafka mode
acknowledges a batch when its loop body is done with it: the generator
`consume_batch` commits the offsets on being resumed. File mode moves a file to
the archive inside `extract_file`, that is before its rows are processed. The
modes share the database and the event loop and nothing in memory; in the
database they meet in the rows of `daily_summaries`, where an upsert waits for
the other's open transaction. The API reads all four tables in sessions of its
own. On shutdown the lifespan cancels the task, awaits it, and stops the
scheduler.

**What is hard.** A batch has effects in four places that no transaction spans:
the dead letter topic, the database (twice, in two commits), the broker's offset
(or the file's directory), and the log. The process can stop between any two of
them; any awaited call can fail, with or without effect; a rebalance resets the
consumer's position at any await; other processes write to the input directory
while a scan reads it. The exception handlers swallow, or let through, different
things in the two modes. And the data decides where a batch fails: a bad
timestamp passes the cleaner and fails the normalizer, a long symbol fails in
the server (which aborts the transaction), a large volume in the driver (which
does not), or already in the cleaner if a neighbour's volume is missing. Even a
refusal may be refused: its payload by a JSONB column, its dead letter by the
producer. Numbers come as text in two styles, become floats, `Decimal`s and columns
of fixed width, and their sums are 64 bits wide.

**What makes each component correct.**

- *Kafka loop*: an event is not skipped without a trace; a replay is bounded and
  changes nothing that is stored; no failure wedges the loop.
- *File loop*: a file is loaded at most once per drop, given up only with a
  trace, and not at all once it is in the error directory; every file is taken up.
- *Batch*: counters, run status and tables agree; records, summaries and refusals
  of a batch belong together; in Kafka mode each refusal is on the dead letter
  topic (file mode passes no producer and sends none).
- *Writer*: first wins for records and for the open of a day.
- *Cleaner*: what it accepts has the value that was meant; what becomes of a
  batch follows from its records.
- *Normalizer*: outliers are a minority, and a spike is one.
- *Aggregator*: the figures of a day fit each other.
- *Service*: the modes do not deadlock or undo each other's rows; each keeps its
  promises beside the other, through every way the lifespan ends.
- *API*: the parts of an answer fit together although they are read one by one.

## 2. The modules

| Module | Models | Extends |
|---|---|---|
| `Store` | the four tables and the writer; a transaction is a write set, a value | |
| `Fates` | what the contents of a batch decide about its way through the stages | |
| `ProcessBatch` | `_process_batch`, a stage between two awaits per action | `Store`, `Fates` |
| `KafkaMode` | `run_kafka_mode` and `KafkaConsumerClient` | `ProcessBatch` |
| `FileMode` | `run_file_mode` and `FileExtractor` | `ProcessBatch` |
| `Delivery` | abstract: what a consumer promises of a topic | |
| `MonitoringApi` | the handlers of `api/routers/pipeline.py`, a statement per action | `Store` |
| `EtlSystem` | `main.py`: both modes and the API in one process, row locks, the lifespan | `MonitoringApi`; instances of `KafkaMode`, `FileMode` |
| `Transform` | cleaner, normalizer and aggregator computed from the fields of a batch, and what the load refuses | an instance of `Fates` |
| `KafkaClaims` | statements of docs the code does not keep | `KafkaMode` |
| `MCKafkaMode`, `MCFileMode`, `MCEtlSystem`, `MCTransform` | instances for TLC | the module (`MCKafkaMode`: `KafkaClaims`) |
| `BatchProofs` | lemmas on `Store` and `ProcessBatch` | `ProcessBatch` |
| `KafkaModeProofs`, `FileModeProofs` | theorems: types, losses, replays, the refinement; files | the mode, `BatchProofs` |
| `KafkaRowProofs`, `FileRowProofs` | theorems: what the rows of the tables say | `KafkaModeProofs`, `FileModeProofs` |
| `EtlSystemProofs` | theorems: the row locks | `EtlSystem` |
| `ServiceProofs` | theorems: each mode beside the other; the refinement, the rows and the answers in the service | `EtlSystemProofs`; instances of `KafkaRowProofs`, `FileRowProofs` |
| `TransformProofs` | theorems: fates, types, prices as read, outliers, figures of a day | `Transform` |

### State and code

- `market`, `summaries`, `runs`, `errors` are the tables. `tx` is what the open
  transaction has written; a statement extends it, commit copies it into the
  tables, a rollback drops it. `aborted` says that the server (or the session,
  after a failed commit) takes no more statements in it.
- `pc` is where the worker's coroutine is; `batch`, `run`, `runId` are
  `raw_messages` and the `PipelineRun`; `todo` is what is left of a stage that
  awaits in a loop (the dead letters, the chunks of the insert).
- In `KafkaMode`, `log` is the topic, `committed` the group's offset, `position`
  the consumer's; `failed` are the offsets "Batch failed" was logged for.
- In `FileMode`, `input`, `archive`, `errordir` map names to drops, `pending` is
  the rest of the list the scan made, `name` and `reading` the file in hand;
  `failed` are the drops "File processing failed" was logged for, and
  `disturbed` is a history variable: the drops the environment interfered with.

An action is the code between two awaits, since that is what other tasks, the
broker, a crash and other processes can get in between. The one finer step is in
`extract_file`, which does not await: another process may write to the input
directory between the read and the move, so these are two actions. An awaited
call has, besides its success, a failing action under `InfraFaults`; where the
call may have taken effect although it raised (a commit, a send), both outcomes
are there. A failure that the data causes needs no `InfraFaults`; a statement of more
rows than the driver has parameters for (`MaxErrorRows`, `MaxSummaryRows`), a
refusal that cannot be saved or sent, are among those. Nor does an offset commit
that a rebalance refuses (`AckFails`; rebalances have their own bound).
The fetch of a batch's first message may raise and end the task (`GetOneFails`); of the
fetch of the others the code catches `KafkaError`, which leaves the batch smaller.

`ProducerStarts` says whether `AIOKafkaProducer` takes the arguments that
client.py:84 passes it. It is TRUE in all runs but `ClaimRuns`, which makes it a
hypothesis of all they show: **aiokafka 0.11.0, which requirements.txt:19 pins, has
no parameter `retries`, so that the pinned program behaves as with FALSE.** Then
`start()` raises before the loop, outside its `try`, and Kafka mode does nothing at
all (section 6). The safety theorems hold of either value.

What a record contains is abstracted to its *fate*: the first piece of code that
does not take it. The seven fates are listed in `Fates`, with the values that
lead to them; two of them are easily missed: `int(float("inf"))` raises
`OverflowError`, which `parse_int` does not catch, and a timestamp no format
fits becomes `datetime.min` or `NaT`, which the validation lets through. Two more
things are kept since they bear on neighbours. The class of a record's *volume*: one
missing volume makes pandas' column one of floats, and pydantic takes no float of
2^63 or more for an integer, so the cleaner refuses a wide volume that it would
otherwise have left to the driver (`Floats`, `Invalid`). And who *bars* the record of
its refusal: the server (a NaN or a NUL in the JSONB payload, an event id over 100
characters, a source over 50) or the producer (a dead letter over its
`max_request_size`). A refusal is sent and saved with the last event of its id
(`LastWithId`), so it is that event's bar that counts (`Unsavable`); such a refusal
fails its whole batch, or file. `Coherent` says which volumes go with which fate.
An event's id, its day (symbol, market, date) and the order of timestamps are
kept, since conflicts, summaries and the open price depend on them.

`EtlSystem` has each mode's variables under a prefix (`k`, `f`) and shares the
tables. A step of a worker is a step of its module (`K!Consume`, `F!Work`); added
to it is what only exists when there are two:

- `locks`: the transaction that has written a day's summary. The upsert of a
  worker takes the days of its `VALUES` list one by one, smallest first since
  `groupby` sorts them (`NextDay`), and waits at one the other holds (`TakeLock`);
  it returns when it has them all (`Upserts`). Locks go with the transaction
  (`Release`): on commit, rollback, an aborting error, a lost connection.
- `phase`: `Boot`; `Shutdown` (cancel); `TaskCancelled`, after which a task that was
  in its `try` awaits `stop()` of consumer and producer in its `finally`: they return
  (`ClientsStop`), raise in the place of `CancelledError` (`ClientsRaise`, which goes
  through the lifespan past the scheduler's shutdown) or never return
  (`ClientsHang`: the lifespan waits for ever, and only `Kill` ends it);
  `StopScheduler`; for a task that had died before, `AwaitRaises` and `Exit`. `Kill`
  comes while the service is up or hangs. Cancellation is a loss of the worker's
  volatile state, as a crash is: in Kafka mode `CancelledError` passes the
  `except Exception`; in file mode `finally` runs, but its save meets a connection
  the cancelled statement has cost.

`MonitoringApi` keeps of an answer the rows it is computed from. One request at a
time is enough: a handler changes nothing.

`Transform` knows a number as its digits with its points and commas by place, and
a timestamp as its separator, fraction and zone. Its actions are the stages of
one batch, with the exceptions each may raise, the saving of the refusals among
them (`SaveErrors`); `misfits` are the columns that do not take what an event has for
them. `CleanBatch` judges by the fields and by the column of volumes as pandas builds
it, from left to right (`Objects`, `FloatColumn`). `Described` is the same batch as
`ProcessBatch` knows it, by `Fate`, volume class and bar, and `P` the instance of
`Fates` on it: `FatesDecide` says that the guards of `ProcessBatch`, evaluated on the
description, give the stage that raises and the records that are stored or refused.
Arithmetic is exact: money is counted in sub-units, so that a rate, the rounding
to six and four places and the medians stay integers. A median is given by rank: the
k-th value has fewer than k values below it and at least k up to it (`Ranked`).
`VolumeMax`, `PriceMax`,
`ValueMax` and `DoubleMax` stand for the limits of int64, `Numeric(19, 6)`,
`Numeric(19, 4)` and a double. `GenerateEvent` is the sample producer's event.

An event carries the price its sender meant. `Written` says how senders write one:
digits with at most a point before the fraction, or as in the EU with a comma and
grouping points before it. `WritingAssumption`: every number in a batch is written
so, or has several separators and is a number in neither style. "1,234.56" is
excluded by it; what the code makes of that is in section 6.

### The abstract specification

`Delivery` says: messages get dealt with in any order and for good, and a prefix
is acknowledged only when all of it is dealt with. `KafkaMode` implements it
(`ImplementsDelivery`) with *dealt with* = stored, refused with an error row,
unparsable, or reported as failed. That last alternative is the point: with
"processed successfully" in its place, as the docstring of `consume_batch` has
it, the refinement fails (`ClaimOffsets`).

## 3. The runs

| Run | Question |
|---|---|
| `KafkaSafety` | Do tables, dead letter topic, offsets and counters agree, through crashes, rebalances and failing calls? Does the loop implement `Delivery`? Is the topic drained unless the task dies? |
| `KafkaBenign` | With answering services and a topic that decodes, is everything settled and the last run completed, through restarts and rebalances, but for the batches of a message that spoils one? |
| `FileSafety` | Do directories, tables and run rows agree, through slow copies, overwritten files, failing moves and calls, and a crash? Is every file taken up in the end? |
| `FileBenign` | With answering services, is every file loaded that has no row to spoil it, whatever the others have? |
| `SystemSafety` | Do both modes on the same days keep clear of deadlocks and of each other's rows, through failures, shutdowns, kills and restarts? |
| `SystemLiveness` | Does each mode proceed although they wait for each other and the task may die? |
| `SystemMonitoring` | Do the parts of an answer fit together while both modes commit? |
| `Transform` | Do the parsers, the outlier test and the figures of a day do what they are for, on every kind of input and at the limits? Is what `ProcessBatch` has from the fates what the fields give? |
| `ClaimOffsets`, `ClaimSummaries`, `ClaimDeadLetters`, `ClaimRuns` | One statement of a doc each, with a counterexample (section 6) |

### Properties

Kafka mode:

- `NoSilentLoss`: an acknowledged offset was settled or logged as failed.
- `RunRowsMatchTables`: a run row counts exactly the records and errors of that
  run, although conflicts, a replay and the two commits are in between.
- `ErrorsReachDlt`: no `validation_errors` row without its dead letter.
- `SummariesMatchMarket`: a stored record's day has a summary, and summaries
  contain trades of stored events of that day only.
- `ReplayIsBounded`: no effect beyond one full batch after the committed offset.
- `RowsAreStable`, `RunRowsSettle` (action properties): first wins; a run row
  changes once, from running to completed, with its counters.
- `TopicIsDrained` (liveness): everything is acknowledged in the end unless the task
  has died. A dead task, of a message that is not JSON or a failed `start()`, is
  excused: nobody restarts it, and `ClaimRuns` is about that.
- `EverythingSettles` (liveness, services answering): each message is stored, refused
  or unparsable in the end, or its batch was logged as failed *and* a message that
  spoils a batch (`Spoils`: a stage raises on it, or its refusal cannot be recorded)
  is less than a batch away (`Near`). It says that the harm such a message does stays
  within a batch of it, and that nothing else does any.
- `LastRunCompletes` (likewise): unless such a message is near the end of the topic,
  the last run has a row and it says completed. Both excuse a task that a rebalance
  took down at its offset commit (`LostToRebalance`).

File mode:

- `FilesAreAccounted`: a drop that is neither waiting nor in hand was loaded, or
  logged as failed, or the environment interfered with it.
- `LoadedFilesAreGone`: no row in the tables comes from a file that is still to
  be scanned or was refused.
- `LoadedOncePerDrop`: as the ids are new with every reading, nothing but the
  order of moves keeps a rescan from storing rows again.
- `RunRowsTellOutcome`: what a run row with each status says of the tables. It is
  weaker than in Kafka mode because `finally` commits what a failed load wrote.
- `SummariesAreBacked`: no summary of trades that are not stored; a record
  without a summary belongs to a failed run.
- `FilesAreTakenUp` (liveness): no file waits for ever.
- `FilesAreLoaded` (liveness, services answering): every file is settled, or its own
  failure was logged and it has a row that spoils it (`Spoilt`, as above): no file is
  lost to another's fault, though one may end the scan.

The service:

- `NoWaitCycle`: the two upserts never wait for each other. It rests on the
  sorted groups: with `sort=False` (the mutant) the days of two batches come in
  either order and the database has to abort one.
- `OpenPricesStand`: a day's open is never changed or lost, though the two
  transactions on it overlap; that is what the row locks give.
- `SummariesAreBacked`: over the tables of both modes, no summary of trades that
  are not stored, no record without a summary except under a failed run.
- `DeliversBesideFiles`: the Kafka refinement holds in the composition, with
  every way the lifespan ends. `TypeOK` holds of both modes on shared tables.
- `BothProceed` (liveness): the topic is drained unless the task has died, and no file
  waits for ever, though each upsert may wait for the other's transaction.
- `MetricsAgree`: records and errors counted belong to runs counted. It holds
  because the runs are counted last; the mutant counts them first.
- `DetailAddsUp`: a run's row and its listed errors fit, because a first commit
  has both; a failed run may have its row alone.
- `AnswersStand`: an outcome, an open price or a record that was answered is
  still so.

The transform stages:

- `FatesDecide`: which stage raises for the whole batch, and which records are
  stored or refused, is what `Fates` makes of the batch's description — with the
  refusals that cannot be saved, with the neighbours a missing volume has, and with
  the width of `price_original` beside that of `price_eur`. The stages judge by the
  fields and the column, `Fates` by one word of each record; the property is that the
  second suffices. It says that a batch with an unreadable timestamp fails, not that it
  should.
- `PricesAreRead`: an accepted price, plain or in EU style with a comma, is the
  one that was meant.
- `OutliersAreMinority`, `SpikesStandOut`: less than half of a symbol's records
  are flagged; a record farther from all others than threshold/0.6745 times
  their spread is, however far (the masking that normalizer.py:68 speaks of).
- `FiguresFit`: open, close and VWAP lie between low and high, up to the
  rounding of values, while the total volume fits 64 bits.

### Bounds, and why they are enough

- *Messages*: every pair of fates; pairs of one id where records or refusals of it can
  meet; topics of three messages in which ids collide across batches, a day is opened
  by one batch and rewritten by the next, and a bad record has good neighbours; a wide
  volume beside a missing or a negative one, and refusals the server or the producer
  does not take (`Hampered`). Batches
  of one and of two, split at any point, occur; a third message gives a batch
  after a failed one, or a replay in another grouping. `KafkaBenign` has topics of four
  messages with a spoiling one first (`Spoilt`), so that with `MaxPollRecords` 3 the
  last is out of its reach.
- *`MaxPollRecords`* 2 or 3: a batch can be full, with and without the first
  message being fetched again.
- *`ChunkSize`* 1 (`KafkaSafety`, `FileSafety`): the insert has a boundary between any
  two records, so it can fail after the first chunk; 2 in other runs: several rows in
  one statement, with conflicts inside it.
- *`MaxRestarts`*, *`MaxRebalances`* 1: each can hit at every step, also one
  after the other. A further one finds a state the first could have left, as a
  restart keeps only the tables and the offset; the proofs do not need a bound.
- *Files*: one file of two rows with any fates, two drops under one name or two; in
  `FileBenign` a spoilt file, by each kind of row, before a good one.
  Two failing moves: both moves of one file, or one move of each of two files.
- *`MaxErrorRows`, `MaxSummaryRows`* 1 in `FileSafety`: two refused rows, or a
  file of two days, exceed a statement. Elsewhere out of the way: Kafka batches
  of at most 500 messages never exceed one.
- *System*: one topic of two messages and one file of two or three rows on the
  same two days, in both orders; a deadlock needs two days and two workers, so
  that is enough for one. `MaxRestarts` 1 gives a shutdown or a kill in every
  state, and a life after it. `FewRuns` ends a behaviour at its fifth run: each
  mode's batch processed twice fits, and a fifth run meets tables the first four
  could have left. Requests are on in `SystemMonitoring` alone, as
  they change nothing; `PageSize` 1 lets a page be exceeded; failing statements
  of a request are on (`ApiFaults`), of the workers off, as `DetailAddsUp` and
  `AnswersStand` speak of commits only.
- *`Transform`*: batches of one with every combination of 13 prices, 11 volumes,
  3 currencies and 15 timestamps; every pair of fates; refusals with each column that
  does not take them, before a later event of the same id or of another; three volumes
  out of six sizes (missing, negative, small, over 63 bits, over 64, below minus 63) in
  every order; rates of 1 and 2 sub-units with the original price at 2, so that
  `price_original` overflows where `price_eur` fits; three trades with four
  prices, three volumes, two markets and both orders; four and five trades with
  four prices, two markets or two symbols (an even number, a majority of equal
  prices, one and two spikes). `VolumeMax` is 8, so 7 + 7 wraps; the other limits lie
  between the values that occur.
- Deadlock is not checked: with the topic drained and no file dropped the system
  has nothing to do; `Transform` ends with its batch.
- `EventIds` has four elements in file mode, enough for every row that can be
  stored; with fewer `ReadFile` would be disabled for want of a fresh id.

### Fairness

`KafkaMode` has weak fairness of `Consume`, the task as a whole, while `Resumable`: the
event loop resumes a coroutine whose awaited result is there. An idle iterator may
raise (`GetOneFails`), but nothing says that it ever does, or every consumer with
nothing to do would have to die and `TopicIsDrained` would excuse it. Nothing is assumed of which
outcome an awaited call has, nor that a rebalance or a crash happens or stops
(they are bounded). `FileMode` has weak fairness of `Work` (the same, and the
interval trigger that runs the job again and again, also after an exception) and
of `Copied` (a copy that has begun ends). `FilesAreTakenUp` depends on failed
moves being finitely many, which `MaxMoveFaults` says; the database may fail for
ever. `EtlSystem` has weak fairness of each worker with its lock waits (a lock
that is free is granted: PostgreSQL queues waiters), and of `Lifespan` (the
process is started again, the coroutine of the lifespan resumed). Shutdowns,
kills, arrivals and requests are free to happen or not; a shutdown that hangs
(under `InfraFaults`) is killed or not, and its end is not claimed.

## 4. What is proved

Kafka mode, for every topic, poll size, chunk size, number of restarts and
rebalances:

| Theorem | Statement |
|---|---|
| `KafkaModeProofs!TypeCorrect` | `Spec => []TypeOK` |
| `KafkaModeProofs!NothingIsLostSilently` | `Spec => []NoSilentLoss` |
| `KafkaModeProofs!ReplayIsOneBatch` | `Spec => []ReplayIsBounded` |
| `KafkaModeProofs!DeliveryRefinement` | `Spec => D!Spec` |
| `KafkaRowProofs!RunRowsAreTrue` | `Spec => []RunRowsMatchTables` |
| `KafkaRowProofs!RefusalsAreOnDlt` | `Spec => []ErrorsReachDlt` |
| `KafkaRowProofs!SummariesAreTrue` | `Spec => []SummariesMatchMarket` |
| `KafkaRowProofs!FirstWriteWins` | `Spec => RowsAreStable` |
| `KafkaRowProofs!RunRowsStand` | `Spec => RunRowsSettle` |

File mode, for every sequence of drops, chunk size, limit of a statement, number
of restarts and failed moves:

| Theorem | Statement |
|---|---|
| `FileModeProofs!TypeCorrect` | `Spec => []TypeOK` |
| `FileModeProofs!LoadedFilesStayGone` | `Spec => []LoadedFilesAreGone` |
| `FileRowProofs!OutcomesAreTrue` | `Spec => []RunRowsTellOutcome` |
| `FileRowProofs!SummariesStandBacked` | `Spec => []SummariesAreBacked` |
| `FileRowProofs!FilesStayAccounted` | `Spec => []FilesAreAccounted` |
| `FileRowProofs!NoRowTwicePerDrop` | `Spec => []LoadedOncePerDrop` |

That is every safety property the runs of the two modes check. The service and
the transform stages:

| Theorem | Statement |
|---|---|
| `EtlSystemProofs!NoDeadlock` | `Spec => []NoWaitCycle`, for any batches of both modes and any days |
| `EtlSystemProofs!OpenPricesNeverChange` | `Spec => OpenPricesStand` |
| `ServiceProofs!ServiceTypes` | `Spec => []TypeOK` |
| `ServiceProofs!ModesKeepTheirState` | `Spec => []ServiceInv`, the parts of both modes' invariants that stand beside the other |
| `ServiceProofs!DeliveryBesideFiles` | `Spec => DeliversBesideFiles`, the refinement of `Delivery` by the consumer in the service |
| `ServiceProofs!ServiceRows` | `Spec => [](ServiceInv /\ RowInv)`, and what the rows of both say |
| `ServiceProofs!SummariesAreBackedBesideOthers` | `Spec => []SummariesAreBacked` |
| `ServiceProofs!MetricsAreOfOnePiece` | `Spec => []MetricsAgree` |
| `ServiceProofs!DetailsAddUp` | `Spec => []DetailAddsUp` |
| `ServiceProofs!AnswersAreNotTakenBack` | `Spec => []AnswersStand` |
| `TransformProofs!FatesAreDecisive` | `Spec => []FatesDecide`, for any batch, rates, widths and limits |
| `TransformProofs!TypeCorrect` | `Spec => []TypeOK`: prices, values and volumes are natural numbers |
| `TransformProofs!PricesAreReadBack` | `Spec => []PricesAreRead`, for any number of digits and grouping points |
| `TransformProofs!OutliersStayFew` | `Threshold >= 2 => (Spec => []OutliersAreMinority)` |
| `TransformProofs!SpikesAreFlagged` | `Threshold >= 1 => (Spec => []SpikesStandOut)` |
| `TransformProofs!FiguresAlwaysFit` | `Spec => []FiguresFit`, for any number of trades |

**Assumptions.** `EventIds` is finite and `NoRow` is not a row (`Store`);
`ChunkSize` is a positive number, `InfraFaults` a Boolean (`ProcessBatch`); the
types of the constants of the modes (`KafkaAssumption`, `FileAssumption`); two
rows of a file have different origins (`OriginAssumption`), which is what an
origin is: the place of the row, not a value in it. `EtlSystemProofs` uses that
days are ordered (`SystemAssumption`: `Keys` are numbers), as `groupby` orders
them. `ServiceProofs` needs the assumptions of both modes of the service's
constants (`ModesAssumption`). `TransformProofs` uses the types of its constants
(`TransformAssumption`: rates, steps and the limit of a volume are positive), that
`Places` are as many as the fractions of the prices need (`PrecisionAssumption`), and
for `PricesAreReadBack` alone `WritingAssumption`.

The two theorems on outliers have a hypothesis on the threshold, which the code takes
from its settings unchecked and which is 3.0 by default (`core/config.py:30`). It is
needed: with a threshold of 1 TLC finds half of a symbol's records flagged, since a
deviation of 1.5 times the median one is enough then.

**The Kafka argument.** `NoSilentLoss` is not inductive: when `Ack` covers new
offsets one has to know that they are in the batch, and that the batch was
recorded or reported. So `IInv` adds

- `StageInv`: what the stages passed have established — after the errors were
  saved every refused position has its error in the transaction, while records
  are inserted those that are not in `todo` have their id stored as far as the
  transaction sees, and from "normalize" and "records" on there is no record
  those stages would have raised on. With it the commit yields `Recorded(i)`
  for every position (`CommitRecords` in `BatchProofs`);
- `BatchFromLog`: a position of the batch is a message of the topic;
- `FetchedInBatch`: every offset between `committed` and `position` is in the
  batch. A rebalance makes the interval empty, and `GetMany` after it fetches
  messages again that the batch may already hold;
- `BatchOutcome`: at "ack" each position is recorded or reported as failed;
- `BatchInWindow`: batch and transaction hold nothing beyond
  `committed + MaxPollRecords`; it makes `ReplayIsBounded` inductive.

The refinement then needs only that settled messages stay settled (the tables
gain rows and lose none) and that an acknowledged prefix is dealt with, which is
`NoSilentLoss` in the next state.

**What the rows say, Kafka mode.** The properties about rows speak of the tables
alone; a commit establishes them from what the transaction and the run in memory
hold. `TInv` adds these to `IInv`:

- `TxFromBatch`: what the open transaction has written is the batch's — records
  under ids nobody had, with the number of this run; errors of refused
  positions; summaries of the batch's days with trades of its valid events;
- `TxStages`: which of these are complete at which stage, and `RunFits`: the
  counters of the run in memory are the cardinalities of those sets. The insert
  adds as many to `loaded` as it adds ids to the transaction, conflicts aside,
  so that the commit makes the row count exactly (`RunRowsMatchTables`); the
  cardinalities of two disjoint finite sets are all the counting there is;
- `RunsAreKept`: runs without a row, the one in hand among them, have no row in
  the other tables; so a crash or rollback leaves none behind;
- `TxBetween`, `RunBetween`: outside the stages the transaction is empty but for
  the completed run, whose committed row differs in its status alone. This is
  what makes the second commit harmless (`RunRowsSettle`);
- `DltFirst`: errors are saved after all dead letters are sent; `BatchIsNew`: the
  batch lies after `committed`; `TradesFromLog`.

`RowsAreStable` and `RunRowsSettle` are properties of steps: they hold of every
step that starts in `IInv /\ TInv`, by what the commits write.

**The file argument.** `LoadedFilesAreGone` needs to know where files are while
rows are on their way. `Placement`: a drop is under its own name and in one
directory at a time. `Holding`: between the read and the move the rows come from
the drop that was read, which is not in the error directory; whether the file
under that name is still that drop does not matter, since an overwritten file is
gone too. `InTransit`: after the move all of the batch and of the transaction
comes from files that are gone. That stays true because names are given to new
drops only and the error directory is filled from the input directory
(`TakenIsStable`).

**What the rows say, file mode.** `FInv` has the same shape (`TxFromBatch` and
`TxStages` are shared, in `BatchProofs`), with what `finally` makes different:

- `RunOutside`, `TxOutside`: a failed load keeps its transaction, unless it was
  aborted, and the next commit is that of the failed run with the records
  inserted so far; hence `RunRowsTellOutcome` says less of a failed run;
- `FreshBatch`: the ids of a batch are its own and new, so an insert meets no
  conflict and a completed run has loaded all of its valid rows;
- `BatchFromFile`, `Handled`: the batch has every row of the file in hand unless
  the file was disturbed, and when the stages are over the file is settled or
  reported. `FilesAreAccounted` follows when the scan goes on;
- `RowsHaveSources`: every run with rows can be assigned the drop it read, so
  that a row's origin is a row of that drop, two rows with one run's drop and
  one origin are the same row, and the drop is gone. The assignment exists
  (`\E src`) and is extended by each new run; the tables do not hold it.
  `LoadedOncePerDrop` then counts: as many drops contain a row as it is stored,
  at least.

**The lock argument.** `LockInv` says of each worker that it holds a lock only
while it has a transaction that can commit; that the days it holds come before
those it still has to take, while its upsert is waiting; that it holds the lock
of every day its transaction has written; and that such a row has the open of
the committed row, if there is one. The third and fourth give `OpenPricesStand`:
a commit writes days whose locks it holds, so nobody has changed the row since
its open was read. The second gives `NoWaitCycle`: of two workers waiting for
each other each would hold a smaller day than the other's. It is here alone that
the order in which `groupby` gives the days matters.

**The modes beside each other.** `KafkaModeProofs` and `FileModeProofs` split
their invariants in two. `ConsumerInv` (all but `BatchInWindow` and
`ReplayIsBounded`) and `JobInv` (all but `LoadedFilesAreGone`) say nothing of
where every row of a table comes from, and so survive another writer, provided
it only adds rows (`OnlyAdds`: no error and no record goes, no run number is
given back): that is `OtherWriter` of each module. `ConsumerGrows` and `JobGrows`
say that either mode is such a writer. In the service a step is then, to the two
modes, a step of one while the other's variables stand, a step of neither, or the
end of both (`WhoseStep`), and `ServiceInv` is inductive. The refinement follows
as in Kafka mode: `StepEffect` and `DeliveryStep` name what `Delivery` sees of a
step, which no step of the job can do more of than add rows. `KP` and `FP` are
the modes once more, as instances of the modules of proofs; `SameConsumer` and
`SameJob` say, by expanding every definition, that they are `K` and `F`.

**The rows of both modes.** `RowInv` adds to `ServiceInv` what `TInv` and `FInv`
say of each mode alone, as far as it stands when the other writes too:

- *In hand.* `KP!InHand` and `FP!RunInHand` say what a worker's transaction and
  run hold of its batch. The other's commit is, to them, a writer of rows with
  ids and run numbers of its own: the ids of a topic are none that files get, so
  an insert of one never meets a row of the other's, and `serial` numbers are
  given once, so their runs differ (`OwnRuns`). Where they do meet is a day's
  open, and that is what the locks protect: a day the transaction has written is
  locked by it (`LockInv`, here a hypothesis of `HandsStand`).
- *Tables.* To the tables any step is one of four (`TablesStep`): nothing; a new
  run; the rows of a run that had none and its row; the change of a run's status
  from running to completed. Each mode's commits are such steps (`ConsumerTables`,
  `JobTables`), from what it has in hand. Under them a run with rows in a table
  has a row (`RunsAreKept`), as many errors as its row counts, or none of a failed
  run (`RefusalsFit`), and every day and record is backed (`SummariesAreBacked`).
- *Readers.* `AnswersHold` says what a request has read so far still holds: its
  rows are in the tables, or were and have got their outcome since; a run whose
  records or errors were read has been, or is still to be, counted. As rows only
  come, each statement of a handler need be looked at once (`ServeHolds`), and
  the steps of the workers by `TablesStep` alone (`AnswersStay`).

**The fates.** `FateInv` says what each stage of `Transform` has left behind: the
cleaner's lists, whether the refusals could be saved, which records the normalizer and
the database take. `FatesDecide` is about another module's operators, those of `Fates`
on the description, so the proof relates the two sides. `FateCases` and `VolumeCases`
unfold what one word says of a record; `Descriptions` gives the parts of the
description, `CoherentEvents` that they go together. `SameColumn`: the column of
volumes becomes one of floats in `Transform` exactly when it does by the classes.
`SameLists`: hence the cleaner's lists are `Valid` and `Invalid`. `SameEvent`: the last
event with an id is the same, hence the refusals that cannot be saved are.
`FailingRecords`: past the cleaner the stages that raise are those of the fates.

**What the stages compute.** `DataInv` adds to `FateInv` that the records are those of
the valid positions, with natural numbers for amounts and the verdict of the outlier
test for a flag, and that the days are the groups. The properties are then lemmas on
operators, about batches of any length; their inductions are over sets, which is the
form the provers can take: `LeastNumber` and `SubsetsIn` say that the numbers, or the
finite sets, a statement fails of have a least one. From these come

- the recursive functions: that powers of ten exist and are positive (`TenDefined`,
  `TenPositive`), and what `SumFunction` computes (`SumIsTabled`), by tables that grow;
- `SumsCompare`: sums over a group compare as their terms do. The VWAP is the quotient
  of two sums, of which each term is rounded by half a step at most (`Rounded`), so
  that it lies between the least and the greatest price (`AverageIsBetween`) up to the
  `slack` that `FiguresFit` allows;
- ranks: the k-th value exists (`RankExists`), is at most c where k values are, and at
  least c where all but k - 1 are (`RankAtMost`, `RankAtLeast`);
- `FewOutliers`: more than half of a group deviate by at most the upper of the two
  middle deviations. That is at most twice MAD, and with a threshold of two a flagged
  record deviates by more than 2 / 0.6745 times MAD. `SpikeIsOutlier`: of a spike both
  medians are among the other prices, so all deviations but its own are within their
  spread, and so is MAD;
- `ReadBack`: `ParseDecimal` inverts `Written`.

All invariants were checked by TLC on the instances of section 3 before being
proved.

**Only model-checked.** Every safety property of a passing run is proved. Liveness is
not (`TopicIsDrained`, `EverythingSettles`, `LastRunCompletes`, `FilesAreTakenUp`,
`FilesAreLoaded`, `BothProceed`): it rests on fairness, hence on
`ENABLED`, which the prover does not handle. Nor are the four claims of section 6,
which are false.

## 5. What is not modelled

- The rounding of binary floats and strings as such (stripping, upper case, lengths:
  `misfits`). Of pandas' conversions the one that decides something is modelled (a
  missing volume makes the column floats, and wide volumes are refused); that floats
  also cost volumes above 2^53 their last digits is not. A batch of several days is one of one day for `Transform`; the days of
  a batch are in `ProcessBatch`.
- Several partitions and several consumers: a topic is one partition, another
  consumer appears as a rebalance that takes the partition and gives it back.
  Committing after a rebalance that gave it to somebody else is an `AckFails`, which
  needs a rebalance or a failing broker.
- A shutdown that meets the file job before the first statement of a file's session:
  the save in `finally` could then check out a connection of its own and write the
  failed run's row. In the model the cancelled job writes nothing.
- That a shutdown ends: it awaits `stop()` of two clients without a timeout, and
  nothing in the code bounds them.
- Locks on `market_records`: the ids of a topic and those made up for files are
  distinct, and a second Kafka worker does not exist.
- Pool exhaustion and timeouts, other than as a failing call. A sum of values
  that exceeds its column fails the upsert in `Transform` only.
- `/health`, configuration, logging, deployment, the sample producer's send loop.
  The README's `trigger-files` endpoint (README.md:154) does not exist.
- The removal of a pending file by somebody else, and archive and input
  directories on different file systems.

## 6. Disagreements between code and documentation

Each of these has a run with a counterexample, in which no service fails.

| Run | Statement | What happens |
|---|---|---|
| `ClaimOffsets` | client.py:50, commits only after successful processing | the offset of a failed batch is committed |
| `ClaimSummaries` | README.md:228, aggregates per day | the last batch's aggregate replaces the day's |
| `ClaimDeadLetters` | client.py:77, "Failed records that cannot be processed are sent here for inspection" | of two events of a batch with one id the later is sent (`LastWithId`), here a good one |
| `ClaimRuns` | orchestrator.py:111, "Continuously consumes from Kafka" | with `ProducerStarts` FALSE, as pinned, the task ends before its first poll |

Further disagreements that the model has, without a run of their own:

- kafka_consumer.py:13, "Invalid JSON or missing required fields are logged and
  skipped": `json.loads` is the consumer's deserializer (`DecodeRaises`), invalid
  JSON ends the task.
- orchestrator.py:153, "Processes all pending files": a file the server refuses
  makes the save in `finally` raise, which ends the scan (`OutcomeFails`).
- db_writer.py:5, "safe to re-process the same records without duplicates": file
  rows get new ids, so a file dropped twice is stored twice (`FreshIds`).
- produce_sample_events.py:49 sends `isoformat()` of an aware datetime, with a
  fraction and an offset, which no entry of `TIMESTAMP_FORMATS` takes: a batch of
  sample events passes the cleaner, fails as a whole in the normalizer and is
  acknowledged (`GenerateEvent`, `ParseTimestamp`).
- database/models.py:75, "Tracks each pipeline execution": a failed Kafka batch leaves
  no run row, as its status and message are set and never saved (`HandleFailure`).
- README.md:30, "Validate: currency, positive price, required fields": a record
  without a readable timestamp is valid to the cleaner, and raises in the normalizer.
- A refusal whose payload has a NaN or a NUL, or whose id or source is too long, is not
  saved but fails its whole batch or file (`SaveValidationErrorsFails`). A record with a bad timestamp takes the
  good ones of its batch down; a replay adds its validation errors again; part
  of a failed file is committed under a run that counts no loaded record; a file
  that is still being copied is archived half read.
- `parse_decimal` takes "1,234.56" for 1.23456 and "1.234" for 1.234 whatever
  the style; a volume of "-0.5" is 0; a missing symbol is "" and accepted.
- The volumes of a day are summed as int64 and wrap; after a second batch the
  open, which stays, may lie outside low and high, which are replaced.
- The metrics' outlier rate counts records before outliers, so it may exceed
  100 % while a batch commits; `outlier_rate_pct` needs no more than that.
- When the Kafka task has died, a shutdown raises out of the lifespan before
  `scheduler.shutdown()`.

## 7. Plan

Done: all modules of section 2, their runs, and the theorems of section 4, which are
all safety properties the runs check.

Left: liveness stays with TLC. Of what section 5 lists, batches of several days in
`Transform` and the connection pool would say most about the program next.
