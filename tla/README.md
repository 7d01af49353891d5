# Formal models of openentropy

TLA+ models of openentropy, the TLC configurations that check them on small
instances, and TLAPS proofs of the central properties for every instance.
`PROJECT.json` lists the runs, the mutants that show each property can fail, the
lines of Rust each definition stands for, the hazards and the findings.

Paths below are relative to `src/crates/`, and to `openentropy-core/src/` where
they begin with neither a crate nor a directory of one.

## The system

openentropy harvests bytes from some 60 hardware entropy sources, pools them,
conditions them on request, analyses them and records sessions of them.

| Component | State | Operations | What is hard | Modules |
|---|---|---|---|---|
| Pool collection (`pool.rs`) | `in_flight`, `backoff_until`; per call the batch, `scheduled`, `received`, a channel | `collect_all_parallel_n`, `collect_enabled_n`, `collect_enabled_raw_n`, detached workers | workers that hang and outlive their call, timeouts per batch or per sweep, late messages, two mutexes taken one after the other | `PoolCollection` |
| Pool output (`pool.rs`) | `buffer`, `state`, `counter`, `total_output`, a mutex each | `get_raw_bytes`, `get_random_bytes`, `get_bytes` | concurrent calls, check then take, read-modify-write over two critical sections | `PoolOutput`, `ByteStream` |
| Source health, benchmark (`pool.rs`, `benchmark.rs`) | a `SourceState` per source; per benchmark the last counters and sums | `collect_one_n`, timeout marks, `health_report`, `benchmark_sources` | late workers, `try_lock`, counters read while they change | `Benchmark`, `Reports` |
| Session writer (`session.rs`) | five buffered files, two offsets, totals, analysis buffer | `new`, `write_sample`, `flush_all`, `finish`, `Drop`; `load_session_raw_data` | a write that fails half-way, a kill between any two writes | `SessionWriter` |
| QCicada source (`sources/quantum/qcicada_source.rs`) | `mode`, the open `device` | `collect` (lazy open, read, reconnect, retry), `set_config` | the mode set while a collect opens or reads; opens and reads that fail | `QCicada` |
| Camera source (`sources/sensor/camera.rs`) | the ffmpeg process, its reader thread and its last frame | `collect`, reader thread | a process that dies, or never sends a frame | `Camera` |
| Commands of sources (`sources/helpers.rs`, `sources/network/wifi_rssi.rs`, `telemetry.rs`) | a child, its pipe, a thread that drains it | three helpers with a deadline | a full pipe, a child that hangs, a grandchild that keeps the pipe | `ChildProcess` |
| Other sources (`sources/`) | what one `collect` takes from the system | `collect`, probes | a call in the middle that fails; threads and queued blocks that use what is released | `SourceScript`, `Sources*`, `SourceCollect` |
| Terminal UI (`openentropy-cli/src/tui/app.rs`) | selection, cursor, modes, `SharedState`, `collector_flag`, writer | keys, ticks, one background collector | settings captured when a collection starts and used at its end; panics | `TuiCollector` |
| Recorders, `stream`, server (`openentropy-cli/src/commands/`, `openentropy-server/src/lib.rs`) | counts, a named pipe, a stop flag | loops over pool calls, `handle_random` | short answers, readers that come and go, signals | `Clients` |
| Conditioning (`conditioning.rs`) | none | debiasing, folding, hashing, estimators | odd tails, shared blocks | `Conditioning`, `Estimators` |
| Statistics (`statistics.rs`, `comparison.rs`, `analysis.rs`, `chaos.rs`, `temporal.rs`, `synchrony.rs`, `trials.rs`, `math.rs`) and the battery (`openentropy-tests/src/lib.rs`) | none | some 90 functions of samples | short samples, ties, last elements | `Kernel`, `Statistics`, `Comparison`, `Analysis`, `Chaos`, `Temporal`, `Nist`, `Lengths` |
| Verdicts, calibration, name resolution (`verdict.rs`, `dispatcher.rs`, `trials.rs`, `source_resolution.rs`) | none | thresholds; greedy matching | bands that do not nest, requests that use up sources | `Reports` |
| Telemetry, Python and WebAssembly bindings | none shared | reading sensors; wrappers | nothing TLC reaches | |

Recorders, the TUI, the server and the CLI call the pool; the pool calls sources
from worker threads and never holds a source's mutex during `collect`; the
sources' bytes reach the shared buffer (or, for a raw sweep, the caller) and
leave it through `get_bytes`; recorders hand a sweep's bytes to a
`SessionWriter`.

## The modules

### PoolCollection

State: `inFlight` is `in_flight`; `backedOff` the indices whose `backoff_until`
is in the future; per caller the locals of its call; `channel[c]` the messages of
the call's mpsc channel; `job[c][s]` the worker thread the call launched, and
`orphans[s]` the workers that outlived theirs. `op[c]` tells which of the three
operations runs: `"all"`, `"enabled"` (no coordination) or `"raw"` (one deadline
for the whole sweep, names chosen by the caller).

One action per critical section or wait of the code: `Begin` (which reads
`now`), `CheckBackoff` and `Claim` (the two locks of the scan loop), `ScanEnabled`,
`ScanDone`, `NextBatch`, `Spawn`, `Receive`, `WindowExpires`,
`SweepDeadlinePassed`, `DrainReceive`, `DrainEnds`, `Mark`, `Return`, and for the
worker `Release` (it has collected and left `in_flight`), `Send`, `OrphanEnds`.
`skip[c]` are the sources for which `now < backoff_until`, for the `now` of the
call: a backoff that ends in the middle of a scan does not count for it, one that
is set in the middle does. Time is otherwise abstract: a window or a backoff ends
whenever it likes. A worker may stay `"running"` for ever. `thread::spawn` is
taken to succeed, and a poisoned mutex not to occur: no panic can happen while
one of these mutexes is held.

### ByteStream and PoolOutput

`ByteStream` is what the buffer promises: bytes in order of arrival, each handed
to one reader, in contiguous chunks. `PoolOutput` models the bodies of
`get_raw_bytes` and `get_random_bytes` with one action per critical section, and
refines `ByteStream` with `arrived <- produced`, `given <- produced -
Len(buffer)`, `held <- chunk`. A byte is its arrival position. A collection round
inside a call appends at most `Yield` bytes in one step; how it runs is
`PoolCollection`'s subject. A digest is represented by its place in `blocks`
together with what it was hashed from (caller, counter value, state); that
digests do not collide is assumed (each hashes the clock and 8 bytes of OS
randomness). The Von Neumann pass over the bytes a call holds touches no shared
state and is left out.

### SessionWriter

The five files with the part that has reached the disk (`disk`) and the part in
the `BufWriter` (`buf`). A write is absorbed, or spills the buffer, or goes
through; it may fail after any prefix of buffer and data is on disk
(`Failed`). `write_sample` writes `csv`, `raw`, `cond`, `index`, `condIndex` one
after the other (`PutNext`, `PutFails`) and only then advances the offsets
(`Count`); `flush_all` runs inside `write_sample`, `finish` and `Drop`
(`FlushNext`, `FlushFails`), with the three ways its first error is taken;
`DropField` is the implicit flush of each `BufWriter`; `Kill` ends the process
anywhere, losing the buffers. `OnError` is the recorder's reaction to an error:
`record.rs` calls `finish`, the Python recorder returns and drops the writer, the
TUI ignores it. An index row is one item, so torn rows are not modelled.

### QCicada

`collect` holds `device` for the whole call (`Lock` to `Return`); `set_config`
replaces `mode` (`SetMode`), then waits for `device` and stops it (`LockToStop`,
`StopDevice`). `try_open` reads the mode (`ReadMode`) before the opener runs
(`Opened`, `OpenFails`). `device` is the mode the open handle was configured for,
`hardware` the mode the device is really in: `set_postprocess` may fail unnoticed.

### SourceScript, SourcesKernel, SourcesChip, SourcesHost, SourceCollect, SourceLedgers

A hardware source is a sequential program: it takes things from the system, runs
a loop of timed operations, gives the things back and extracts bytes from the
timings. `SourceScript` has the vocabulary to write that down: `Get`, `Own` (a
scope gives it back), `Put`, `Try`, `Require`, `Spawn`, with where the code goes
when the step is refused ("on", "next", "break", "return", "found", "panic",
"switch"). The modules `Sources*` are the scripts of the sources, one definition
for each `collect` and each probe; `SourceCollect` is the interpreter, a state
machine with one action per kind of step, in which every call may be refused.
`held`, `lost`, `stray` and `loans` record what is held, what went out of reach,
what was released without being held, and what a running thread uses; `gap` that
a round gave no timing. The extraction functions of `sources/helpers.rs` turn the
number of timings into the number of bytes. `SourceLedgers` adds nothing to the
model: it defines the invariant of the proofs, what a call may hold at each step.

### ChildProcess, Camera, Clients, Benchmark

Four state machines that share nothing; `MCPrograms` runs one of them in each
behaviour.

- `ChildProcess`: a command with a pipe of `PipeSize` units, which writes, ends,
  hangs, or leaves a process behind that keeps the pipe open (`heir`); the three
  helpers differ in who reads the pipe and when.
- `Camera`: `collect` from its lazy start (`TrySpawn`, the device selectors one
  after the other) to the frame it takes, with the process (`Starts`, `Dies`) and
  the reader thread (`ReadsFrame`, `ReaderEnds`) in between.
- `Clients`: `stream` from one source and from the pool, `stream` into a named
  pipe, `record`, and `handle_random`. Of the pool they see how many bytes a call
  gives.
- `Benchmark`: `benchmark_sources` over sweeps with late workers. `Collects` is
  the critical section of `collect_one_n`, `MarkSilent` the timeout mark with its
  `try_lock`, `ReadHealth` one source of `health_report`. `first` and `launches`
  are history variables.

### TuiCollector

The event loop is one thread: a key or a tick is one action. A collector thread
sets `collecting`, collects (or panics), publishes under the mutex of
`SharedState`, collects a sample of each source to record, takes the mutex again
for each to write it to the session that is open by then (`RecordOne`), and clears
the flag. A job carries what the closure captured: the source shown, the mode, the
other sources to record. Of the bytes published and written the model keeps the
modes that do not belong: in a random walk those that were not the mode on screen
when they came, in a session those that its `session.json` will not name. When the
user changes the mode while a session records, no one name is right any more, and
that session is no longer followed. `write_sample` stands for the refusal of
sources that the session does not declare; the rest of it is `SessionWriter`'s.

### Kernel and the numerical modules

A statistic is floating point, but which elements it reads, where it cuts the
sample and what it divides by are integers that depend on lengths alone.
`Kernel` has the operations (`Index`, `Slice`, `Minus`, `Over`, `Ratio`,
`Chunks`) and when each is sound. In `Statistics`, `Comparison`, `Analysis`,
`Chaos`, `Temporal`, `Estimators` and `Nist` each function of the code is an
operator from lengths to its set of operations, with its early returns; a loop
contributes its last iteration. `Lengths` brings them all together: what is
computed of a sample of `n` bytes, of one with a parameter, and of two samples,
and `NoPanic`, that every one of those operations is sound. The parts that are combinatorial are modelled
exactly on bytes or bits: debiasing, folding, ranks, U, Cliff's delta, KS, Holm,
runs, bursts, segments, recurrence lines, template counts, linear complexity,
rank over GF(2), the serial patterns. Those of `conditioning.rs` work on bits and
are in `Conditioning`, apart from `Estimators`, so that what is proved needs no
bitwise operators.

### Reports

Verdicts on values in thousandths or `NaN`; `build_verdicts` and `analyze`;
`calibration_check`; the benchmark's score, percentile and stability;
`resolve_source_names` over names compared by two operators.

## Runs

| Run | Instance | States, time | Result |
|---|---|---|---|
| `pool_collection` | 2 callers (one `"all"`, one any operation), 2 sources, batches of 1 | 825,000 | type, `OneWorkerPerSource`, `InFlightAccounted`, `OnlySilentSourcesMarked`, `OneAnswerPerSource`, `SharedSweepBudget` hold |
| `pool_liveness` | an `"all"` caller against a `"raw"` caller, fair | 101,000 | `CallsReturn`, `SourcesCollectedAgain` hold |
| `pool_leak` | as `pool_collection` | | `InFlightHasWorker` is violated |
| `pool_output` | 2 callers, requests of all three modes, 2 rounds, 2 bytes, fair | 368,000 | `CounterNeverRepeats`, `OwnStateAdvances`, `IsByteStream`, `CallsReturn` hold |
| `session` | 2 declared sources and one undeclared, 3 samples of 0 to 2 bytes, flush every 2, analysis buffer of 2 bytes, up to two failing writes | 1,293,000 | `IndexMatchesData`, `LossBounded`, `ClosedIsComplete`, `AnalysisKeepsTail` hold |
| `session_ignored` | one failing write, errors ignored | | `IndexMatchesData` is violated |
| `qcicada` | 2 readers, 2 setters, 2 modes, 2 chunks, fair | 35,000 | `OneHandle`, `ConfiguredForMode`, `OneModePerConnection`, `DeviceReleased` hold |
| `collect` | all scripts, 0, 9 and 300 bytes, two rounds of each loop | 6,600 | `LeaksOnlyKnown`, `ReleasedOnce`, `OversamplingSuffices` hold |
| `tui` | two categories with a source each, one of them watched, two collector threads, fair | 391,000 | `OneCollector`, `SelectionOnScreen`, `OneModeLeftOver`, `WalkMixesOneInFlight`, `CollectionGoesOn` hold |
| `algorithms` | two samples of 5 bytes together, 8 bits, lengths 0 to 130 and 19 longer ones | 8,400 | `NoPanic`, `ConditioningKeeps`, `TestsAgree`, `ScansAgree`, `BatteryAgrees`, `JudgementsSound` hold |
| `programs` | pipe of 2, output up to 4; 3 camera processes, 3 selectors; chunks of 2, up to 6 bytes, 2 recorded sources; one benchmarked source, 1 warm-up and 3 rounds; fair | 84,500 | `CommandSound`, `CameraSound`, `ClientsSound`, `BenchmarkSound`, `ChildrenEnd`, `ClientsEnd` hold |
| `stream_stuck` | `stream` of one source with Von Neumann, fair | | `StreamIsFinite` is violated |

Why the bounds are enough.

- Collection: with batches of one and two sources a call has an earlier and a
  later batch, so a message can be late for its batch, a sweep can break with a
  claim not launched, and two callers can meet at every lock; the state is finite
  without any further bound.
- Output: a raw request of two bytes and a Von Neumann one of six compete for two
  bytes with blocks that sample one; a conditioned request of two blocks makes a
  call meet another's block between its own. `MaxBytes` bounds collection,
  `MaxBlocks` the start of conditioned calls (calls in progress finish their
  blocks, so two calls of two blocks overlap).
- Sessions: with a flush every second sample, the third is the first after a
  flush, and samples of zero to two bytes put every boundary of the two-byte
  analysis buffer in reach; two failures let `finish`, or the drop after it, fail
  as well once a write has ended the recording.
- QCicada: two of each thread make readers wait for readers and setters supersede
  each other; two chunks give a read before and after every event.
- Sources: a second round meets what the first left; 9 bytes are fewer and 300
  more than the caps of the sources that have one.
- TUI: the second category makes every row shift when the first is collapsed; a
  second thread is the one that must never run. Fresh bytes do not matter, so a
  watched source has the set of modes that reached its walk.
- Algorithms: five bytes over four values (nested as sets of bits, so that they
  serve as names that contain one another) give ties, an odd byte, a run at
  either end and an unfinished one; the lengths lie on both sides of every limit
  in the code. Kernels take the last iteration of a loop, in which an index is
  largest.
- Programs: output on both sides of the pipe's size; three processes, one kept,
  one being tried and one dying; an odd number of bytes and the last chunk shorter
  than the others; three measured rounds, so that a worker of the warm-up can be
  late into the first or the second. A benchmarked source shares nothing with
  another but the rounds, so one is enough; the ranking of several is
  `JudgementsSound`'s. `MaxBytes` caps the total of a stream without end, and
  sweeps after a stop are counted up to two.

Runs that do not check deadlock have programs that end (a session, a collect, a
command, a stream, the TUI after quit, a sample that cannot grow further). All
other models never stop.

### Fairness

- Collection: a caller's thread keeps being scheduled and its deadlines pass
  (`WF` on its steps), and backoffs end. A source's `collect` need not return:
  `Release` and `OrphanEnds` are not fair. One caller keeps calling `collect_all`,
  as the consumers' loops do; without it nothing obliges the pool to collect.
- Output: `WF` on the steps of a call in progress; nobody has to call.
- QCicada: `WF` on the steps of the thread that holds the mutex, for every device
  operation has a timeout. Nothing is assumed about who gets the mutex next: it
  is not a fair one.
- TUI: ticks come, and a collector thread, once started, runs to its end
  (`get_source_raw_bytes` has no timeout of its own: a source that hangs holds the
  collector for ever, which `CollectionGoesOn` excludes by that assumption). After
  the event loop the program goes on to stop a recording (`AfterQuit`).
- Commands: the helper's thread runs and its deadline passes; the child owes
  nothing. `Join` and `ReadAtEnd` are fair, but enabled only once the pipe has no
  writer left.
- Camera: the pool collects again and again, and a reader whose pipe has ended
  ends.
- Clients: their own steps; a duration ends; a pool that is asked for ever gives
  a byte now and then (`SF` on `Fruitful`), without which no stream is finite.

### What the violated runs show

- `pool_leak`: a raw sweep that hits its deadline leaves the sources of the
  batches it did not launch in `in_flight` for ever (`pool.rs:401`, `:426`,
  `:436`); every later coordinated call skips them. With 16 threads per batch
  and 50 sources one slow batch is enough.
- `session_ignored`: after an ignored write error the TUI's later index rows
  point at other samples' bytes.
- `stream_stuck`: `stream --bytes n --conditioning vonneumann` of one source
  collects as many raw bytes as are left to write. Of one raw byte debiasing
  keeps at most four bits and no whole byte: with one byte left the loop turns for
  ever without writing.

### Observations

Behaviour met while modelling that no run states as a property.

- Pool: `collect_all_parallel_n` documents `timeout_secs` as the "max wall-clock
  time to wait for a collection cycle" (`pool.rs:101`), while each batch has a
  window of its own, as `pool.rs:170` intends. `get_raw_bytes` tests the buffer
  and takes from it under two locks and can return short without any round.
  Concurrent conditioned calls may hash the same state; the counter still tells
  the blocks apart. A worker that is late after its timeout mark sets `healthy`
  again while its source is in backoff, and its failure is counted by both.
  `get_source_bytes` also answers `None` when its source gave nothing, which the
  server reports as an unknown source.
- QCicada: a failed `set_postprocess` leaves the device in the old mode unnoticed.
- Sources: `usb_enumeration` keeps the 51st device, `kqueue_events` its file when
  it cannot be opened again; a panic of `thread::spawn` leaves what the earlier
  threads were given; `dispatch_queue_timing` releases its semaphore after a wait
  that timed out, while the block is queued. Debiased extraction gives fewer bytes
  than asked for however much is sampled. These are `KnownLeaks`,
  `KnownLeaksOfPanic` and the exceptions of the other two properties.
- Camera: `take_frame` copies, so a frame may be returned more than once;
  `try_spawn` waits its two seconds even when ffmpeg has ended.
- TUI: a collector in flight mixes the bytes of the old mode into a walk that was
  reset for the new one, and writes samples of it to a session that was started
  after it: `OneModeLeftOver` bounds that to one mode, it does not exclude it.
  Changing the mode while recording makes `session.json` name the mode of the
  start. The help says "Records from all selected (yellow) sources" (`ui.rs:868`),
  but one selected after the start is collected in every round and refused by
  `write_sample` each time, unnoticed. When the terminal cannot be restored, `run`
  returns before it stops the recording, and the session is left to the writer's
  `Drop`.
- Statistics: the numerator of sample entropy leaves out the last template;
  `anomaly_detection` cannot find any deviation above 3 with fewer than 11
  windows; the battery counts one cycle too many in a walk that ends at zero;
  `trial_analysis` asserts that trials are whole bytes.
- Verdicts: `verdict.rs` reserves N/A for what could not be computed "(NaN,
  insufficient data, etc.)", but the six forensic verdicts take NaN for a pass, and
  so do those on samples too short to be measured. With partial names the sources
  chosen depend on the order of the requests.
- Conditioning: a debiased answer may be empty and still be a success.

## Proofs

`tlapm` proves the theorems below for every value of the constants that satisfies
the assumptions stated in the modules. Those are what the code gives:
`ConstantsAssumption`, `OutputConstants`, `QCicadaConstants`, `SessionConstants`,
`TuiAssumption`, `PipeAssumption`, `CameraAssumption`, `NoCameraAssumption`,
`ClientAssumption`, `BenchmarkAssumption`, `SizesAssumption`,
`MaxRoundsAssumption` say that sets of threads and sources are finite and sizes
natural numbers, positive where the code divides by them or would never
progress; `NaNAssumption`, that NaN is no number. TLC evaluates each of them.

- `PoolCollectionProofs`: `TypeCorrect`, `OneWorker`, `InFlightExact`,
  `AnswersOnce`, `OnlySilentMarked`, `SweepBudget`. `OneWorkerPerSource` is not
  inductive: it needs that an orphan, a running worker, a claim about to be
  launched and a dropped claim exclude one another for a source, and that
  `inFlight` is exactly their union; this is the invariant proved first, action
  by action. The answers' properties need the shape of a call: which locals
  are empty at which location, and that a worker's source is in `scheduled`
  and in neither `channel` nor `received`.
- `PoolOutputProofs`: `OutputTypeCorrect`, `OutputIsByteStream` (the refinement:
  the buffer always is the last `Len(buffer)` positions, so every step is a step
  or a stutter of `ByteStream`), `CounterUnique` (every counter value in `blocks`
  or held by a call is at most `counter`, and held by one only), `OwnStateChain`.
- `QCicadaProofs`: `QCicadaTypeCorrect`, `OneHandleOnly`, `ModeApplied`,
  `OneModeRead`. The invariant ties each location to the mutex and to the state of
  the device (`Located`), and says that a superseded mode on its way into the
  device will be stopped by a pending `set_config` (`Doomed`). `OneModeRead` adds
  that what a call has read is in the mode the hardware still is in.
- `SessionWriterProofs`: `SessionTypeCorrect`, `RowsMatchData`, `ClosedComplete`,
  `LossIsBounded`, `TailsKept`. The first four rest on what has been written to a file, on disk or
  buffered: it only grows, and what is on disk is its beginning, whatever write or
  flush fails (`Puts`, `FilesGrow`). `MatchInv`: every row written points at its
  sample's bytes, and while nothing has failed the offset is the length written.
  `RecordedInv` says how far `write_sample` has got with the current sample and
  that every accepted one is written, `ClosingInv` what `flush_all` and `finish`
  have put on disk, `LossInv` that all but fewer than `FlushInterval` samples are
  on disk. `RowsMatchData` and `LossIsBounded` assume `"ignore" \notin OnError`:
  `session_ignored` shows that the first is false without. `TailsKept` has
  `TailInv`, which adds the sample that is counted and not yet accepted. What the
  samples recorded is a recursive function: that its values exist and depend on
  the samples up to each alone (`UptoExists`, `UptoAgree`) is found from the least
  index at which they would not, and that the last bytes of a sequence, with
  others pushed behind them, are the last bytes of the longer sequence is
  `PushedIsLast`.
- `TuiCollectorProofs`: `TuiTypeCorrect`, `CollectorIsAlone`, `SelectionStays`,
  `WalksMixTwo`, `OneLeftOver`. `OneInv`: threads with a job are one at
  most, and the flag tells whether there is one. `WalkInv`: as long as a job with
  a superseded mode has not published, nothing was published since, and a walk
  has one mode besides the current one at most. `SessionInv`: a session that is
  still followed is in the current mode, so a collection that starts now cannot
  give it odd samples, and those it has are of the mode of any job that could still
  give it one. The rows on screen are a recursive
  function; that there is always one is shown from the least category at which it
  would fail.
- `ProgramsProofs`: `CommandIsSound`, `CameraIsSound`, `ClientsAreSound`,
  `BenchmarkIsSound`. `CommandInv`: what was read, is in the pipe and is left to
  write add up to the output, and a reader is done only once nobody can write.
  `CameraInv`: the process that runs is the one kept or the one being tried.
  `ClientsInv`: what a stream holds is at most what it has left to write; a sweep
  after a stop had begun. `BenchInv`: every launch is an outcome, a pending worker
  or a timeout mark (`Launched`), and each sum is what the rounds read so far can
  account for (`Accounted`, `RoundsRead`).
- `AlgorithmsProofs`: `EveryLengthSound` and `NeverPanics`: the early returns of
  each function keep every index and cut inside, every divisor from zero and every
  difference from becoming negative, for all lengths and parameters, where the run
  tries lengths to 130 and the limits. One lemma for each family of functions; the
  arithmetic they need is in `Product`, `Quotient`, `TilesSound`, `WindowsSound`
  (whole windows fit), `QuotientGrows` (cuts are in order), `SteppedIs` (a
  subsample is neither empty nor too long) and `CeilDivIs`. The recursive sums of
  the tests of groups (ANOVA, Levene, Kruskal-Wallis, sessions) are left to
  `TestsAgree`. `SegmentsPartition`: the segments of a drift are a partition of
  the sample. `VerdictsInOrder` and `ScoresInOrder`: verdicts and scores keep the
  order of what they judge, the parts of `JudgementsSound` that are arithmetic.
  `HolmCloses` is the part `HolmIsClosure` of `TestsAgree` for any p-values: the
  sets that decide about a hypothesis are what is left at each position of the
  sorted values, as many as Holm's factor (`SortedIs`), and in any set the first
  of the sorted values rejects (`ClosureIs`); the running maximum is below the level
  when all it runs over are (`BelowIs`), and ties do not matter (`OrderIsKept`).
  `RequestsAreServed` is the part `RequestsServed` of `JudgementsSound` for any
  sources and requests: `ChosenInv`, what the first requests have chosen, is kept by
  one more (`ChosenStep`), so by all, as there is no least number of requests after
  which it fails. That the choice for names without parts does not depend on the
  order of the requests is left to the run.
- `SourceCollectProofs`: `EnoughForAnyRequest`, that is `OversamplingSuffices` for
  any number of bytes. The invariant says that a call that has ended does not
  change any more (`EndInv`); the work is in the three lemmas that go through the
  sources one by one, by the rounds they make and what their extractor drops.
  `NothingLeaks` and `NothingReleasedTwice`: `LeaksOnlyKnown` and `ReleasedOnce`
  for any number of rounds. Neither is inductive, as whether a way out gives back
  what is held depends on what is held there. `LedgerInv` says so: each source has
  a ledger, the sets of resources that a call may hold before each of its steps
  (an entry), and a call is at an entry of it. The ledger is not written down but
  chosen (`Ledger`), so TLC cannot evaluate `LedgerInv`; that each source has one
  (`EveryAgrees`) is proved in the manner of Hoare's rules: a rule for each kind of
  step says what entry follows (`GetKept`, `PutKept`, ..., and the same for entries
  given by what is held at least and at most, `GetBetween`, ...), `Leads2` to
  `Leads10` and `LeadsThen` put steps together, and one lemma for each source, or
  each group of like sources, goes through its script. An entry after a step must
  contain what is held if the step succeeds and what is held if it is refused and
  the code goes on; where a refusal leads out, the rest must be owned, or a known
  leak. `LedgerStep` then goes through the actions of `SourceCollect` once.

Only model-checked:

- `ConditioningKeeps`, `ScansAgree`, `BatteryAgrees` and the rest of `TestsAgree` and
  of `JudgementsSound`: they compare sums, sortings and recursive operators over
  samples, which takes induction over data, or use bitwise operators.
- All liveness properties: liveness under fairness and `ENABLED` are out of the
  prover's reach.

## Not modelled

- The instructions hardware sources time and the values they read: physics.
- The floating-point values of statistics and p-values.
- Drawing, export, formatting, argument parsing, printing, help texts.
- Telemetry but for its command helper: it reads sensors and formats them.
- The Python and WebAssembly wrappers, which keep no state, and the loop of the
  Python recorder, whose error handling is `SessionWriter`'s `OnError`.
- Torn rows of a session's index after a kill: the loader has nothing to tell
  them by, so there is no promise to check.
- The handlers of the server that only read the pool; detection of the platform.

## Plan

1. `PoolOutput` over `PoolCollection`: a round's bytes delivered by its `Return`,
   and `Clients` over `PoolOutput`.
2. The TUI's recording composed with `SessionWriter`'s declared sources.
