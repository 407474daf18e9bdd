# Verification of cat-automation

TLA+ modules, TLC configurations and TLAPS proofs for the cat-detection system
in this repository. The system watches one camera: an *edge* device grabs and
streams frames; a *compute* host stores them under a byte cap, lets YOLO look at
them (on demand and continuously), identifies cats, and trains the models that
do so. Both halves are multi-threaded Python; the compute half also keeps an
SQLite index beside a directory of JPEG files. The modules below are about what
its locks, threads, transactions and queues must guarantee together.

`tlc -config X.cfg M` checks a module; `tlapm M_proofs.tla` checks its proofs.

## Inventory

| component | state | operations | interacts with |
|---|---|---|---|
| analysis job queue (`analysis/runner.py`, `AnalysisManager`) | pending deque, current job, running flag, current thread and stop Event, progress counters, history | enqueue, promote, cancel, cancel_job, clear_pending, stop_all, join; the worker's start, record and finally | API handlers (threads), one worker thread per job, the shutdown hook |
| one sweep (`run_analysis`) | bounded queue, producer thread, batch; or the decode look-ahead and pending verdicts | read, decode, analyse, write, stop | the store, the analyzer, its manager |
| frame store (`collection/store.py`, `Store`) | SQLite rows, JPEG files, byte and row counters, eviction frontier, stage | add, evict, purge batch, orphan batch, clear, write verdict | every other compute component; one lock |
| capture mode (`CollectorManager`, `record_mode_change`, `motion_only_spans`) | motion-only flag in memory and in settings, mode_changes, purge_spans, frontier | toggle, start, stop, stage change, clear, purge, restart | API, the collector thread, eviction |
| detection worker (`learning/yolo_oracle.py`) | watermark, epoch, thread, stop Event | start, stop, tick, clamp, reset | store, `run_analysis`, the job queue's GPU use |
| live identification (`learning/live_identify.py`) | watermark in memory and in settings, epoch, thread | the same, over closed visits: detect, then identify each | store, models, the job queue's GPU use |
| training queue (`learning/runner.py`) | FIFO, current job, report directories, artifact files, rows | enqueue, run, cancel, prune | store, models |
| model registry (`store.py`, `app.py`) | model_versions, thresholds, artifact files, identifications | add, promote, threshold, delete | training, identification |
| calendar cache (`store.py`) | memoized day rows | read, invalidate, reserve, store, prune | every write of frames and verdicts |
| visits (`store.py`) | none: frames, verdicts, identifications and labels read as runs of frames | scorecard, inbox, timeline, activity feed, cats and door statistics, annotation queue, review, flags, build counts | the admin and the household pages |
| cleanup jobs (`collection/cleanup.py`) | one job, progress, cancel flag | start (or busy), batch, cancel, end | store, capture mode |
| dataset (`app.py`, `store.py`, `dataset/crops.py`, `tools/recut_crops.py`) | label rows, crop files, flags, the crop geometry | label, confirm, re-label, undo, ignore, mark, un-mark, re-cut | store, files, cleanup's one slot |
| ingest client (`ingest/client.py`) | connection, backoff | read, reconnect | edge stream, collector |
| edge grabber and watchdog (`edge/server/grabber.py`, `watchdog.py`) | last frame and motion under a condition, motion gate under a lock, liveness clock | grab, publish, reset motion, wait; check, exit | capture source, HTTP streams, systemd |
| edge night light (`edge/server/night_light.py`, `edge/actuators/gpio.py`) | schedule, level last commanded, pins | tick, schedule request, manual switch, restart | settings, clock, GPIO |

The behaviours that are hard, by kind:

* *Interleavings.* Handlers and workers change one manager's state; threads are
  published under a lock and started outside it; the collector decides frame by
  frame while a handler flips its flag; an old worker thread outlives a bounded
  join and runs beside its successor; the orphan walk and a sweep's decode run
  without the lock.
* *Partial failure.* A write, an insert, an eviction's unlink or a commit fails
  in the middle; a decode, a batch or a listing raises.
* *Crash recovery.* Kill and power cut between files and commits; the memory
  mirrors are rebuilt at the next launch.
* *Stale state.* Watermarks and horizons read before a clear and used after it;
  ids that go back and are used again; a pin that is not at the level it was
  last commanded to.
* *Two readers of one table.* The same visits are counted by a dozen queries,
  each with its own SQL, cap and filter.
* *Liveness.* Queues, producers and watermarks that must keep moving past
  failures, stops and manual jobs.

What makes each component correct: the queue runs one job at a time, first in
first out, loses none, repeats none, and cancels the one that was meant; a sweep
settles each frame of its scope once and ends on every path with no thread left
behind; the store's index changes one whole operation at a time, stays under its
cap and matches its memory mirrors and files; no window that lost frames is read
as measurable; a tail worker passes over no frame it promised; a memoized day is what a
fresh computation would give; a training job leaves no row without its files,
and nothing at all when it is canceled; one model is active once any was; an
identify pass that ends has left no frame out; pages that show the same visits
agree on them; a label row's crop is the one the row describes, and a human's
decision is lost only to an undo. At the edge, the
settings file is what is in force, the source in use is open, motion belongs to
the view it is shown on, no wedged camera outlives the watchdog, and the lamp
follows the sun or the last hand on its switch.

## Modules

| module | models | abstract specification |
|---|---|---|
| `JobQueue` | `AnalysisManager` | `SerialQueue`, first in, first out |
| `FrameStore` | `Store`'s frames, files and verdicts | `FrameIndex` |
| `CaptureMode` | collector, toggles, stages, clears, purges and `motion_only_spans`, composed | - |
| `TailSweep` | `YoloOracleManager` and the clear route | - |
| `RunAnalysis` | `run_analysis`: `BatchSweep` and `WindowedSweep`, its two paths, composed | `Sweep` |
| `LiveIdentify` | `LiveIdentifyManager`, the clear route, purges and crashes | - |
| `Edge` | the camera side of the edge process: grabber, motion gate, camera sources, settings routes and file, watchdog, composed | - |
| `NightLight`, `EdgeProcess` | the lamp's scheduler and the GPIO switches; the two sides as one process over one settings file | - |
| `Calendar` | the memoized days of `tuning_calendar`, beside every write of frames and verdicts | - |
| `Training` | `TrainingManager`, the directories and rows of its jobs, the model registry and identify passes, composed | - |
| `Visits`; `Scorecard`, `Feed`, `Queue` | the frames table and its one clustering primitive; the queries the pages are drawn from | clusters by declaration (`VisitsOf`, `TrueEvents`) |
| `Labels` | the label and flag routes, the rows, the crop files and the re-cut job, composed | - |

`MC<module>` instantiates a module for TLC. `<module>_proofs` holds the theorems
about a module: `JobQueue`, `FrameStore`, `LiveIdentify`, `Training`, `Calendar`
and `Edge` (with `EdgeProcess` and `NightLight`) have one; `Sweeps_proofs` holds
those of `RunAnalysis` and of `TailSweep`, whose tick calls it, `Operator_proofs`
those of `CaptureMode` and `Labels`, which keep what an operator decides. Where `Min`, `Max` or a fold is used, whose definitions CHOOSE, the facts
about it come first. PROJECT.json's map ties each definition to its lines.

In every module one action is one critical section: what the code does under one
hold of a lock, or between two points where another thread can observe it. A
handler that lets go of the lock between two steps is two actions. Operators
whose comment begins with *Mutant* describe plausible slips of the code; no
specification uses them, and each property is tested by substituting one.

### JobQueue

A job is its index, `pc[j]` its life: `drawn` (its handler holds a descriptor),
`queued`, `prepared` (promoted: `_promote_locked` made it current and created
its Event and thread), `sweeping`, how the sweep returned, then its terminal
state. `latest` is the job whose thread and Event the manager refers to,
`stopSet` the Events that are set, `handlers` the requests that must still call
`thread.start()`. `Finally` is the worker's one lock hold: outcome, history,
idle, promotion. Starting the successor's thread is a step of its own, as in the
code. `Shutdown` and `Join` are the two steps of the API's shutdown hook.

Three jobs over three keys: two wait while one runs, so order, duplicates, and
a cancel that meets a promotion occur; one frame per sweep suffices to tell a
swept job from an unswept one. 1.1 million states.

*Fairness*: weak, for each handler that is inside the manager and for each
worker: the OS schedules threads and no lock is held across anything unbounded.
Operators owe nothing.

### FrameStore

`work` is the database as the connection sees it, `db` the last commit,
`durable` what a power cut leaves (WAL, `synchronous=NORMAL`); a frame's file is
named by its shot, so a reused id never reuses a file. `phase` is where the
holder of the store lock stands. Each unlink, each insert and each commit is a
step, so a fault can fall between any two. `stripped` is a history variable: the
ids dropped by preferential eviction since the last clear.

`Worlds` lists which clients run beside which faults, and a behaviour picks one
at the start; the worlds of the passing run keep apart what would only multiply
states. `FrameIndex` is the promise: the committed index changes by whole
operations, and a power cut brings back an earlier commit, never half of one.
Four shots, sizes 1 and 2 and a cap of 3: one large frame can evict two small
ones, a store can be all motion, and a second eviction can follow a failed first.

### CaptureMode

Frames are ids. A toggle is `Flip` (the flag, under the manager's lock),
`RecordFlip` (the boundary) and `PersistFlip` (the setting); a stage request
adds `SetStage`. The collector thread reads the mode and records it in two
steps. `Unmeasurable` is `motion_only_spans` read one id at a time; `skipped`
and `deleted` are history variables of what was really lost. `Worlds` lists what
may happen together: settings that change between runs beside purges and clears,
settings that change during runs beside crashes, clears during runs. Two things
the passing run leaves out are where the code disagrees with its documentation
(below): a toggle while the collector's thread stands between its two steps, and
the loss of frames skipped while a boundary is late. Four ids, three boundaries and three frames under the cap
give two boundaries at one id, an eviction by preference between them, and a
purge that drains or is canceled.

### TailSweep

A tick is split where other threads can act: wake, snapshot of watermark and
epoch, window, chunk, the detect call, one verdict at a time, and the advance.
`Seed` is `_seed_watermark`, with `start` and `api_clear` reading their horizon
in a step before it. `due` is a history variable: what arrived beyond the last
seed. Two threads (one stopped in mid-tick, one fresh), a clear, a manual job
and a fault are the cases the epoch exists for; two ids and two arrivals make
an id be reused after a clear or a purge. Evictions, and purges of the newest
frames while the worker is off, are unrestricted.

*Fairness*: weak for each thread's tick (the loop always comes back to its timed
wait), for the end of a manual job (a sweep ends, by `ImplementsSweep`) and for
the steps of a request under way.

### RunAnalysis, BatchSweep, WindowedSweep and Sweep

`Sweep` is what a caller of `run_analysis` is told: every frame settled at most
once, by a verdict or a skip; a return only when nothing is left or a stop was
asked; an error never reported as success; and some day a return or a raise.
`RunAnalysis` is the call: the analyzer says which path it takes, and both share
the cursor, the stop Event, what is written and skipped and the outcome.
`BatchSweep` is the producer thread, the bounded queue with its sentinel, the
worker's batch with the flush at a change of image dimensions, and the finally
that aborts, drains and joins. `WindowedSweep` is the look-ahead over the decode
pool and the batched writes. Six frames exceed the queue (4), the batch (2), the
look-ahead (3) and the write batch (2), so everything fills and wraps.

*Fairness*: weak for each of the two threads, or the worker and the pool. Errors
and stops need not happen. Deadlock is checked: a finished sweep is the only
state that may rest.

### LiveIdentify

The protocol of `TailSweep` over closed visits, with its own steps: the clock,
the epoch and watermark, the store's visits, then per visit the look at stop and
jobs, the detect call, the identify call, the advance in memory and, one step
later, in the settings. `due` is a history variable: the motion frames that
arrived since the horizon the worker was given; `failed` those it could not
decode. A crash keeps `stored` and loses `watermark`; the launch starts the
worker from it. The watermark may run ahead of `stored`, so a crash between the
two costs a visit named twice and none missed.

Two frames, a clock of two ticks with no gap, one visit per tick, two threads and
one fault (a job, a failing pass, a clear or a crash): a fault falls into every
step of a tick, a stopped thread meets its successor, an id is used again, and a
visit of two frames meets the cap of visits per tick. 573,000 states. `Allowed`
names what the run leaves out, which are disagreements (below).

*Fairness*: weak for each thread's tick (the loop always comes back to its timed
wait, and its calls return), for the clock, for the end of a manual job and for
the steps of a request under way.

### Visits, Scorecard, Feed and Queue

The queries keep no state, so a behaviour is a history: frames arrive one by one
with all that will ever be known of them (gates, verdicts and scores, boxes,
identification, label), and in every table that arises each query is evaluated
under every combination of its parameters. `GapSplit` is the code's one pass;
`VisitsOf` says what a visit is without it.

* `Scorecard`: the gate scorecard with its regimes, the missed visits and their
  reasons, the visit inbox, the timeline. `CardsAgree`: day and night add up to
  the whole, visits that straddle dusk included; the inbox calls no visit missed
  that the card calls caught; the timeline counts each frame once.
* `Feed`: the activity feed with its scan and event caps, the subject and the
  name of a visit, the cats page, the door statistics that walk the feed in
  pages. `FeedsAgree`: the statistics count every visit once or say that they
  are truncated, and a cat that was last seen in a window has a visit there.
* `Queue`: the annotation queue with its filters, order and caps, progress, the
  phone's confirmation, review, flags, and what a build, its pre-check and the
  cats list count. `QueuesAgree`: filtered never reads as finished, each
  control's count is what relaxing it alone would add, every present frame is
  asked for or under review and never both, the phone confirms the name on its
  card, and a build gets what was counted.

Each invariant is a conjunction of such agreements, each false under one of the
run's mutants. Histories of three to seven frames over kinds chosen per query:
a frame stands within the gap of the last or beyond it, on either side of dusk
and of each threshold, so a cut page, a visit that straddles, a cap with one
more behind it, and each filter's edge occur. Seven frames fill every page the
statistics may read.

### Labels

A label route is split at each file and each commit: the delete of a re-label,
the unlinking, the reading of geometry and sources, each crop, the insert, the
flags. The re-cut job reads its plan, puts the pixels of a batch in place one by
one, and swaps its rows in one commit. A file's pixels are the frame, the box
and the margin they were cut at, which is what `CropIsTheRows` compares with the
row. `shown` is a history variable: the frames, not just the ids, that the
client was shown. An eviction ends an add and leaves the newest frame
(`NewestStays`), unless the cap holds not even that one, or everything above an
older frame is without motion and goes before it.

A load says which requests, faults and changes may occur and how often, and has
three flags: `alone`, one route or job at a time; `stale`, a client may repeat a
label it was not told of; `race`, a wipe may fall into the middle of a route, and
an eviction may take the newest frame.

`MCLoads` lists what may happen together, and a behaviour picks one: two
labellers beside a re-cut, evictions, a crash and a wipe between requests; every
route in turn while the detector moves the boxes and the operator the geometry;
the phone beside the desk; a crash anywhere. Two or three frames, batches of
two, two requests at once: a batch with one row that fails, one frame labelled
twice, a copy from a twin and a re-cut back occur. The loads the run leaves out
are disagreements (below). 2.1 million states. Nothing is promised to happen, so
there is no fairness.

### Edge, NightLight and EdgeProcess

`live` and `source` are the state dictionary of `create_app`, `file` the
settings file (`Torn` when it does not parse), `cameras` the source objects of
this process, `grab[t]` the iteration of `_grab_once_internal` that the loop or
a request is in, `slot` what it published. `POST /api/config` is split at every
point where it holds no lock: it reads the live settings, opens and probes a
candidate, assembles the file image, truncates, writes, swaps, closes the old
source, resets the gate, clears the slot and grabs. Its reads of single keys at
the start are one step, since nothing else happens between them. A camera's lock
is held while a read of it lasts, and a faulty camera's read may never return.
The watchdog's clocks are implicit: it may exit whenever the loop waits for a
faulty camera or its last grab failed. Focus and white balance share a route's
shape and are one field; fps and the motion parameters are a body that names
neither device nor region. `overlapped`, `unsaved` and `straddled` are history
variables that name the three circumstances under which the code does not keep
its promises (next section).

`NightLight` is the scheduler's tick, split after the reading of schedule and
clock, with failing sun times and failing drives; the manual switches; and the
clock, which may go on or step anywhere. `last` is the level it last commanded,
which it compares with instead of the pin. `settled` and `hand` are history
variables: whether a tick succeeded since what it asks for last changed, and
what a hand flip met. `EdgeProcess` puts both sides into one process: schedule
requests, their saves, restarts and the settings file are `Edge`'s own actions,
and the scheduler reads `live.night`. A behaviour follows one side; nothing but
settings and restarts would let the other tell, and the requests of either side
that rewrite the file are followed with it. `LampKept` is two promises:
`FollowsSun`, after a successful tick the lamp is as the sun wants it unless a
hand flip excuses it, and `FlipHolds`, such a flip lasts until what is asked for
changes. A schedule that is off and one that is on, a day of five slots with an
offset before sunset, two flips and a restart put each between any two steps of
a tick.

Two requests on two threads, two devices of which the first is faulty, two
regions and one crash: two edits meet at every step, a swap meets a hung read,
and a crash meets an empty file. 1.1 million states, both sides together.

*Fairness*: weak for every thread, except that a read or probe of a faulty
device owes nothing, and for the watchdog while the loop waits: its poll is a
timed wait on a thread that takes no lock the loop can hold for long.

### Calendar

One action per transaction: each statement of a request is one, since the
request reads on its own connection and sees the last commit; each write is one,
with the days it drops. `request` is the state of the one request that
`_cal_lock` admits: its step, the day it is at, the span it reserved, the
numbers so far and the days it will return. `calendar_days` has the columns of
the table, keyed by offset and day; a token is the number of the request. The
store is `frames` and `analysis`; its cap counts frames, so that an add evicts
one at most. The scans are written as the SQL computes them (the span of ids for
coverage, the predecessor within one gap for events), and `MemoExact` compares
them with what the day's frames, their verdicts and the visits of the whole
store say.

Two frames, four writes and two requests over two days of two ticks: enough for
every pair of a statement and a write with a write before and one after it, for
ids that are used again, for seeks that a clock going back has misled, and for a
visit over midnight. Longer days or more frames repeat these. `StepsBack` lets
the clock go back, which the store assumes away and guards against.

### Training

One thread works at a time, so `step` is its program counter and `pass` the
locals of an identify pass; the queue itself is JobQueue's with another dedup
rule, and its lock discipline is not modelled a second time. `dir[j]` is what
job `j` has on disk (nothing, part, all of it), `status` and `runs` are the
rows, `removing` the deletions between their commit and their `rmtree`. A
version and a validation run go by the number of their job. Whether crops are
enough, a crop embeds, or a frame shows a cat is a choice.

An identify pass is split where others can act: the reading of the active model,
the loading of its gallery, the count, each page, the match rows of a batch, its
marker rows with the look at the stop Event after them. A failing step, a
half-done removal and an exit share one bound; an exit loses the manager's
memory and keeps rows and directories.

Three jobs are a build, its promotion and a pass, or two builds with the first
deleted during the pass, or runs that age one another out; three frames with
pages and batches of two are a full batch and a last one. With `Keep` at 1, one
newer run makes a report old. 9 million states.

## Runs

| run | checks | shows |
|---|---|---|
| `job_queue` | `SerialDrain`, `NoDuplicateWork`, `CancelHitsItsTarget`, `ArchivedCounters`, `AcceptedJobEnds`, `ImplementsSerialQueue` | the queue keeps its promise, order included, under every interleaving of handlers, workers and shutdown |
| `frame_store` | `MirrorsExact`, `UnderCap`, `NothingOutlivesItsRow`, `VictimOrder`, `ImplementsFrameIndex` | the store survives failing writes, commits, crashes and power cuts |
| `capture_mode` | `EveryLossIsFlagged`, `ReadsModeInForce` | three traces together admit every loss |
| `tail_sweep` | `NothingPassedOver`, `EveryFrameCovered` | the epoch protocol is right under restarts and clears |
| `run_analysis` | `NoProducerLeftBehind`, `CancelAtNextBoundary`, `StrictTimeOrder`, `CountedIsStored`, `ImplementsSweep` | both paths of a sweep end, settle, store and cancel as promised |
| `edge` | `SourcesInOrder`, `SoloEditsStick`, `NoStrayMotion`, `LampKept`, `CameraServes` | camera swaps, saves, relearning and restarts keep sources, file, motion and frames together; the lamp follows the sun or the last hand |
| `calendar` | `MemoExact`, `QuietRequest`, `VisitsAddUp` | reservations and invalidations keep every memoized day up to date; requests that nothing disturbs are exact and leave their days memoized |
| `training` | `RegistryHonest`, `CanceledLeavesNothing`, `PassCovers` | rows keep their files through failures, deletions and exits; a canceled job leaves nothing; an identify pass is complete |
| `visits` | `CardsAgree`, `FeedsAgree`, `QueuesAgree` | every page counts the same visits |
| `live_identify` | `NothingPassedOver`, `NeverExtended`, `EveryVisitNamed` | no visit is passed over or taken before it is whole, and each is named in the end |
| `labels` | `CropIsTheRows`, `DurableLabels`, `MarkedUntilLabelled` | a row's crop is the row's, a decision is lost only to an undo, a mark only to a label |

`JobQueue`, `FrameStore`, `CaptureMode`, `TailSweep`, `BatchSweep`,
`WindowedSweep`, `Edge`, `Calendar`, `LiveIdentify` and `Training` state the types
of their variables as `TypeOK`. Those of `JobQueue`, `FrameStore`, `CaptureMode`,
`TailSweep`, `LiveIdentify`, `Training`, `Calendar` and `Edge` are theorems; all hold under the configurations of
the runs with `INVARIANT TypeOK` in place of their properties (`B!TypeOK` and
`W!TypeOK` of `RunAnalysis` for the two paths of a sweep).

One run ends in a counterexample, to something the repository says of itself:

| run | property | what happens |
|---|---|---|
| `edge_file` | `FileAgrees` | A save that fails has emptied the file already. Two requests reach it too: the file image of one, assembled before the other's save, overwrites it. |

Further disagreements the modules reach. The first three have a configuration
of their own beside the runs'; the others are seen by giving the named constant
the named value:

* The finally of a worker promotes a successor and releases the lock; before it
  calls `next_thread.start()` the shutdown hook joins that thread, `Thread.join`
  raises, and the store is never closed, although `join`'s docstring says that a
  finished or missing thread "returns at once" and the hook's comment that it is
  registered "UNCONDITIONALLY". `MCJobQueueJoin.cfg`, `JoinNeverRaises`.
* The commit of an add fails after its eviction has unlinked files; the rollback
  brings back rows whose files are gone, which `_unlink`'s docstring calls "a
  worse, inconsistent state". `MCFrameStoreResurrect.cfg`, `RowsHaveFiles`.
* Two readers name one visit differently when one of them sees its frames cut
  off at the edge of its window, although `door_stats` says that Visits, Cats
  and Activity "can never" do so. `MCVisitsNaming.cfg`, `OneNaming`.
* A toggle between the collector's reading of the mode and its recording of it
  (`CaptureMode`, `{"toggle live", "toggle start"}`): the stale boundary lands
  last and is in force for the whole run, although `run_collector` says that
  "the boundary of every on/off flip is recorded". `ReadsModeInForce`.
* A toggle during a run (`CaptureMode`, world `{"toggle live", "count gaps"}`):
  frames skipped between the flag's flip and its boundary row, with a frame
  stored in between, are under no span. A clear during a run (`{"wipe", "wipe
  live", "count gaps"}`) has the same gap before its re-seeded row, and a purge
  that dies before its one span row (`{"purge", "die"}`) leaves all it deleted
  unflagged. `EveryLossIsFlagged`.
* A purge of the newest frames (`{"purge", "purge tail"}`) lowers `MAX(id)`, so
  a later boundary sorts before an earlier one. `EveryLossIsFlagged`,
  `ReadsModeInForce`.
* A clear during a running purge (`CaptureMode`, `{"purge", "wipe"}`): the purge
  goes on over the new frames with the bounds of the old window and may take the
  newest of them, so its span does not match what it deleted; with `MaxLog = 4` it
  also lowers `MAX(id)` as above. `EveryLossIsFlagged`, `ReadsModeInForce`.
* A toggle between a clear's reading of the mode and its re-seeded row
  (`CaptureMode`, `{"wipe", "wipe live", "toggle live"}`): the row lands after the
  toggle's and says the opposite. `EveryLossIsFlagged`, `ReadsModeInForce`.
* Two stage requests at once (`CaptureMode`, `Requests` of two over
  `StageSettings`) leave the capture flag of one with the stage of the other,
  although `stage_keeps_all_frames` says the two "cannot disagree about a stage".
* A grab that took its settings before a swap and computes after the gate's
  reset teaches the new model the old view, and publishes its box after the slot
  was cleared, although `reset_motion` says that "no stale motion signal
  survives a reset"; likewise the old camera's frame can follow the new one's,
  which the request grabbed so that it would not (`Edge`, `straddled`).
* A schedule that moves the lamp to another output while it is on (`MCEdge`,
  `Nights <- MovedLamp`, `Channels = {relay, spare}`): the wanted level is the one
  last commanded, so the new output is not driven and the old one is not released
  until the next transition, although the route says that "the scheduler picks
  the change up next tick". `LampKept`.
* A settings change that does not name the region writes back the region it read
  at its start; after another request changed it in between, the view goes back
  without a relearning (`Edge`, `overlapped`).
* A cancel that arrives after the sweep completed and before the worker's
  finally archives a complete sweep as canceled, although the class docstring
  calls such a cancel "a harmless no-op" (`JobQueue`, `Outcome`).
* A power cut that undoes an eviction's commit restores rows whose files are
  gone (`FrameStore`, a world with fault `power`, `RowsHaveFiles`); the comment
  beside the pragma names only the opposite leak.
* A verdict computed before a clear is stored on the new frame that took its id
  (`FrameStore`, clients `sweep` and `clear`): the guard asks for the id only.
* A start of the detection worker that read its horizon before a clear seeds it
  after the clear's reset (`TailSweep`, `Allowed` containing `"overlap"`): the
  watermark lies above every new frame, although the reset promises to "cover
  what arrives from now on". `NothingPassedOver`.
* An eviction that reaches midnight takes the earlier part of a visit; the next
  day's `events` goes up by one, and its memoized row stays, although
  `tuning_calendar` says that "every mutation that can move a day's numbers
  invalidates it" (`Calendar`, without the exception for `cut` in `Tells`).
* Newest frames purged while the detection worker is on (`TailSweep`, `Allowed`
  containing `"purge"`): new frames that take their ids before the next tick lie
  at or below the watermark and are never swept. `NothingPassedOver`.
* A frame `run_analysis` cannot read or analyse is skipped and the call returns
  normally, so the tick advances over it (`TailSweep`'s `failed`), although the
  comment says a failure never lets the watermark skip frames.
* A model that is replaced and deleted while an identify pass of it is under way
  (`Training`, invariant `\A i \in identified : status[i[2]] # "none"`): the pass
  goes on writing identifications of the deleted model, although
  `delete_model_version` says that "its `identifications` rows go too".
* A probe or a builder that fails while it writes leaves a directory without a
  row (`Training`, `WriterRaises`), which no prune removes; the guard beside the
  row's insert, there because such an orphan "would never be bounded", does not
  cover it.
* Newest frames purged while the naming worker is on (`MCLiveIdentifyPurge.cfg`,
  or `LiveIdentify`'s `Allowed` containing `"purge"`): as for the detection
  worker, the frames that take their ids are never named, although a stale
  watermark is said to cost re-work, "never a missed or double-counted visit".
  With `"race"` and two faults, a clear between an advance and its save, or a
  crash in the middle of a clear, does the same. `NothingPassedOver`.
* A frame stored a tick after it was stamped, its visit taken in between
  (`LiveIdentify`, `Allowed` containing `"late"`), opens a visit of its own,
  although `closed_visits` promises a visit no later frame can extend.
  `NeverExtended`.
* A frame re-labelled as the same cat while the re-cut holds its batch is moved
  back under the new row when its box is the same (`Labels`, load
  `RelabelBesideRecut` of `MCLabels`): the unlinking took the file that the batch had put in
  place, although `_cut_one` "guarantees no row ever names a missing file".
  `CropIsTheRows`; so are the next three.
* An undo unlinks after another labeller's crop was cut and before its row is
  inserted (`UndoBesideLabel`): the row has no file.
* A client that repeats a label after the box has moved cuts the crop again and
  inserts no row, since "the first write wins" (`RepeatedLabel`): the old row
  keeps its box and has the new pixels.
* A crash between a crop and its row leaves a file that `add_dataset_items`
  calls a harmless orphan; a later re-cut finds it at its target and adopts it
  for a row with another box (`AdoptedOrphan`).
* A wipe between a commit's reads and its insert (`ClearBesideLabel`): the row
  is anchored to the new frame that took the id. `CropIsTheRows`.
* An undo of a frame that has the id of a labelled one from before a wipe
  deletes both rows (`UndoAfterClear`), "harmless cleanup" to
  `delete_dataset_items`, a precious label to `clear`. `DurableLabels`.
* `BatchSweep`: the flush at a change of dimensions is not followed by a look at
  the stop event; `CancelAtNextBoundary` therefore speaks of full batches.
* `WindowedSweep`: verdicts are counted as they are analysed, up to a write
  batch before they are stored; `CountedIsStored` speaks of sweeps that return.

## Proofs

`JobQueue_proofs` proves, for every set of keys and every number of jobs, frames
and history rows (assumptions: the bounds are naturals, the keys are not empty):

* `TypeCorrect`: `TypeOK`; `OneWorker` and `NoInheritedCancel`: the run's
  `SerialDrain` and `CancelHitsItsTarget`;
* `NothingStranded`: an idle manager has an empty queue; `QueueAgrees`: the
  deque lists exactly the waiting jobs, each once;
* `NoDoubleSweep`: the run's `NoDuplicateWork`;
* `ArchivesItsOwn`: the run's action property `ArchivedCounters`;
* `RefinesSerialQueue`: the safety part of `ImplementsSerialQueue`, first in,
  first out.

None of them is inductive alone. `SerialDrain` needs to know that the running
job is not also in the deque (`QueueExact`) and that an idle manager promotes
nothing it forgot (`IdleImpliesEmpty`); `CancelHitsItsTarget` needs that the
Event a worker looks at is its own (`RunningIsCurrent`) and that a set Event was
asked for (`EventsAsked`). `IInv` is their conjunction. Every operation either
leaves the deque alone, shortens it, or promotes its head, so the argument rests
on one lemma about `Promote`, one about shortening the deque, and one step per
action. `NoDoubleSweep` is inductive once `IInv` holds: a key that a handler adds
is not in hand already, which the look at the deque and the running job decides
under the lock. `ArchivesItsOwn` needs to know what a returned sweep leaves behind
until its worker's `finally` reads it (`ReturnsHonest`): one that completed has
counted every frame, one that stopped has its stop still set; a promotion, the
only step that resets either, comes after the row is written. The refinement maps
the deque to the abstract queue as it is: a submission appends, a promotion takes
the head, a cancel drops one place; each action is then a step of `SerialQueue`
or a stutter.

`Sweeps_proofs` proves of `RunAnalysis`, for every number of frames,
batch size, set of image dimensions, look-ahead, pool and write batch
(assumptions `ScopeAssumption`, `KnobsAssumption` and `ShapesAssumption`: the
scope is a natural, the knobs are positive, and the marker of an undecodable
frame and the sentinel are no dimensions):

* `SeenInTimeOrder` and `DoneIsStored`: the run's `StrictTimeOrder` and
  `CountedIsStored`. The invariant says where the windowed path's frames are: the
  look-ahead holds the frames from `current` up to the cursor without a gap,
  whatever of them the pool has decoded; everything seen lies behind `current`,
  in order; and the count is the number of verdicts that are written or pending,
  which are different frames.
* `ProducerJoined` and `CancelIsPrompt`: the run's `NoProducerLeftBehind` and
  `CancelAtNextBoundary`. The first is inductive, since only `Join` sets the
  outcome; the second needs that a worker which analysed a batch after the stop
  stands at the look that follows it or beyond.
* `PromiseKept`: the safety part of `ImplementsSweep`. On the stateless path the
  frames travel in order: what the worker took is below what is queued, which is
  below what the producer holds; a frame is taken once; until the worker sets
  `abort`, every frame before the cursor is in one of the three places; and the
  sentinel is the last thing put, after which the producer has ended. So a worker
  that leaves has every frame settled, or a stop or an error before it, which is
  what `Sweep` asks of a return. On the windowed path every frame up to `current`
  is counted or skipped and never both, and the loop ends on a stop or with
  nothing left to decode.

Of `TailSweep` it proves, for every number of frames, threads, jobs, faults and
clears, `TypeCorrect` and, given `Orderly`, `NeverPassedOver`: the run's
`NothingPassedOver`. The invariant says that all threads but the newest have been
told to stop (`OneInCharge`); that no tick is of an epoch to come, and one of an
epoch gone by cannot write (`EpochsPast`); that the horizon a start or a clear
has read is within the store (`HorizonsHeld`); and of a tick of the present epoch
that it started at or below the watermark and has swept, or tried and failed, the
promised frames it is about to pass (`TicksHonest`).

`FrameStore_proofs` proves, for every number of frames, set of sizes, cap, batch
and stages, and for any combination of clients and faults (assumptions: the
sizes are positive, the batch is not empty, the store begins in tuning; of
`Worlds` nothing is asked):

* `TypeCorrect`; `MirrorsStayExact`, `StaysUnderCap` and `RowsFilesVerdictsAgree`:
  the run's `MirrorsExact`, `UnderCap` and `NothingOutlivesItsRow`;
* `EvictsInOrder`: the action property `VictimOrder`;
* `StoreImplementsFrameIndex`: `ImplementsFrameIndex`.

Half of it is about sums. `Bytes` folds over the ids in the order `CHOOSE` picks,
and the library's facts about folds take an operator, which the provers cannot
instantiate. So `AnyFirst` and `BytesIsFold` show by a least counterexample that
any order gives the same sum, and from there on `Bytes` is used through three
facts: what one row adds, that a part weighs no more (`PartWeighsLess`), and that
a part and the rest make the whole (`BytesSplit`). `VictimsFit` is why an add ends
under the cap: of the rows that stay, the one first in the order of eviction was
spared because what precedes it was enough, and everything that precedes it went
(`FirstRow`, `BeforeTransitive`).

The invariant says that ids and arrivals are in one order (`Ordered`), which makes
a new id the largest and a file the file of one row; what each phase holds
(`Phases`); that the counters and the frontier are right at each step of an
operation, not at rest only (`Counted`, `Marked`); that the rows without what is
doomed are under the cap (`Capped`); that what precedes a doomed row is doomed
(`Foremost`); and that the open transaction is an add of one id and some
evictions, or a purge of frames without motion (`Underway`), from which a commit
is one step of `FrameIndex`. Whatever ends with the lock free or the process dead
goes through one lemma, `SettledStep`.

`LiveIdentify_proofs` proves, for every number of frames, visits a tick, ticks of
the clock and faults, `TypeCorrect` and, given `Orderly`, `NeverPassedOver` and
`VisitNeverExtended`: the run's `NothingPassedOver` and `NeverExtended`. A start
does not advance this worker's epoch, so a stopped thread may still be in a tick
beside its successor and may even set the watermark back. The invariant is
therefore about every id that is the watermark or its saved copy, or may still
become either (`IsMark`): what is due up to it is tried (`MarksHonest`). And the
visits a tick holds are whole: they begin past a mark, are closed, and take all
the motion frames between their ends (`VisitsHonest`), so that a frame still to
come cannot belong to one.

The hypothesis `Orderly` of `TailSweep`'s theorem is `Allowed` without `"purge"`
and `"overlap"`; that of `LiveIdentify`'s is `Allowed` without `"purge"`, `"race"`
and `"late"`. With any of these the property is false, as the list of disagreements above says: newest frames purged while a
worker is on, a start that overlaps a clear, a clear between an advance and its
save or a crash in the middle of a clear, a frame stored after a later one was
taken. `TypeCorrect` has no such hypothesis.

`Operator_proofs` proves of `CaptureMode`, for every bound, cap, batch, stage,
number of requests and settings:

* `TypeCorrect`, without further conditions;
* `LogIsInForce`: the run's `ReadsModeInForce`, for one operator request at a time
  (`Orderly`): no toggle in the middle of the collector's reading of the mode, nor
  in a run that a clear may meet; a purge that leaves the newest frame and meets no
  clear;
* `LossesAreFlagged`: the run's `EveryLossIsFlagged`, where besides the skips that
  count have their boundary, and a purge does not die before its span
  (`Admitting`).

`Orderly` and `Admitting` keep out the disagreements listed above and their
combinations, and the worlds of the run satisfy both. The invariant has a part per
hand that holds a reading of the mode (`Readings`): what the collector's thread, a
clear and a toggle have read and not yet recorded is the mode still in force. Where
no boundary is late the last entry of the log is therefore the mode (`InForce`). The
largest id never goes down but in a clear, since a purge stays behind it
(`PurgeBehind`), so the log is in order as it was written (`InOrder`) and its spans
can be read without the sort and without the minimum (`Spanned`): a frame skipped
under the last entry is in a span at once, and a new entry or a new frame takes
nothing out of one (`InOrderStep`). What eviction prefers goes behind the frontier;
what a purge has deleted lies between the start of its window and the last id it
took, because a batch takes the oldest of the window (`BatchFacts`, `PurgeInHand`),
and its span covers that however it ends.

`Operator_proofs` proves of `Labels`, for every set of loads, number of frames and
of label routes at once, and every batch of the re-cut:

* `LabelsTypeCorrect`, without further conditions;
* `DecisionsOutlive`: the run's `DurableLabels`, where no wipe falls into a route
  (no `race`) and none at all happens beside undo or re-label;
* `MarksOutlive`: the run's `MarkedUntilLabelled`, without `race`, and with undo
  and re-label `alone` where the phone confirms;
* `CropsAreTheRows`: the run's `CropIsTheRows`, without `race`, with undo and
  re-label `alone`, and either no box moves (then any number of labellers run
  beside the re-cut, evictions, crashes and full disks) or boxes move and there is
  one route or job at a time, no repeated label and no fault.

The hypotheses keep out the six disagreements listed above and nothing that
`MCLoads` explores: each of its loads satisfies all of them. The invariant says
that while a route runs no id it holds is given out anew, so that the frames it
was shown, the times it read and the paths it prepared stay those of its frames
(`HeldRoutes`); and that a row, a prepared row and a move name a path of their own
frame (`OwnCrops`), so that what is cut, copied or unlinked for one frame is never
another's. From these follow:

* a row that `undo` deletes by its id alone is of the frame that was shown, as
  long as no id has come twice (`OneFramePerId`); the insert drops no row, the
  swap keeps what was decided (`DecisionsStep`);
* a tap that gets as far as the flags has a row for a frame it was shown, and
  keeps it until it has ended (`Earned`);
* the file of a row, of a prepared row and of a move already made is on disk
  (`FilesOnDisk`). The pixels need one of two arguments. While no box moves, every
  frame and every file at its path has one box (`BoxesStill`). While boxes move,
  what is on disk for a frame is cut at its row's box, or, if it has no row, is in
  the hand of the one route under way (`Tidy`): a file nobody answers for is what
  a fault, a repeated label or a second route would leave.

Its assumptions say that loads are what the routes' models let through, that the
number of frames is a natural and a batch is not empty, and that NULL is no path.

`Training_proofs` proves, for every request sequence, number of jobs, frames,
reports kept and faults, and every positive page and batch:

* `TypeCorrect`;
* `RegistryKeepsItsWord` and `CanceledIsCanceled`: the run's `RegistryHonest` and
  `CanceledLeavesNothing`. A job that waits has left no trace (`Waiting`), one at
  work has no row before it inserts it (`Working`), and only jobs with a row are
  pruned or deleted (`Rows`): no two hands work on one directory.
* `ReturnedPassCovers`: the run's `PassCovers`. Each frame a pass counted has its
  row, is in the batch or the page in hand, or lies past the cursor (`Covering`).

Its assumptions say that the requests are ones the routes can make, and that page,
batch and the number of frames are positive. `LiveIdentify`'s `NoneAssumption`,
like `RunAnalysis`'s about markers, keeps "never saved" apart from every id.

`Edge_proofs` proves of `EdgeProcess`, for every set of devices, regions,
schedules, requests and grab threads, and for every number of failures, exits and
flips:

* `EdgeTypes`; `SourcesStayInOrder`, `EditsStick` and `MotionIsOfTheView`: the
  run's `SourcesInOrder`, `SoloEditsStick` and `NoStrayMotion`. The invariant has
  a part for each. Every open camera has one owner: the grab loop, a request that
  has opened it and not yet swapped it in, or one that has taken it out and not
  yet closed it (`SourcesHeld`). While edits have come one at a time, the one
  request inside holds an image of the file that is its own edit of the live
  settings, and between its save and its swap the file is ahead of the settings by
  that edit (`FileInStep`). The gate and the slot know the view in force, or a
  request has yet to reset them, or a grab that read the old view is past the
  reset (`ViewInStep`).
* `OverrideHolds` and `LampIsKept`: the second half of the run's `LampKept`, and
  all of it. What a tick that commands the lamp remembers is what it saw, and a
  hand that flips the lamp afterwards is recorded with the side of the sun it
  found (`Flipped`, `Commanded`). `OverrideHolds` needs no hypothesis. `LampIsKept`
  is proved from `OneChannel`, by which the schedules drive one output: with two,
  a lamp that moved may stay as it was, as the list of disagreements says.

Its assumptions say what the constants are: requests and schedules have the
fields of the routes' models, the sun rises before it sets, and the markers of
"no value", "unchanged" and a torn file are none of the values they stand beside.

`Calendar_proofs` proves, for every length of a day and of a gap, every set of
analyzers, windows, id ranges and time zones, every cap, and clocks that step back:

* `TypeCorrect`, which includes the cap;
* `MemoStaysExact` and `QuietRequestsAreExact`: the run's `MemoExact` and
  `QuietRequest`. `MemoExact` compares a row with the visits of the whole store,
  and an eviction may change those without touching the day. The invariant
  therefore says what a row is in terms no other day can disturb: the visits the
  day has by itself, or one fewer if something went on over the midnight that
  opens it; and exactly the store's visits until one was cut (`DaysRight`). A
  write that does not drop the day leaves all of this alone (`WriteSpares`, one
  case per write). What a request has counted is right as long as its
  reservation is in place and holds the counted ids, because a write that would
  disturb it drops the reservation (`SpanHeld`, `UnderWay`); the check of the ids
  before the store is needed exactly where the clock stepped back between the
  seeks and the scan. `QuietSoFar` adds, for a request beside no write, that the
  days gone through are right and that seeks in the order of time span the day.
* `DaysCoverVisits`: the run's `VisitsAddUp`. Days of one time zone have no moment
  in common, so their visits are disjoint and their number is the sum
  (`SumOfParts`).

Its assumptions: a day has a positive length, windows do not end before they
begin, ranges of ids are ranges of naturals.

Only model-checked: liveness under fairness (`AcceptedJobEnds`,
`EveryFrameCovered`, `EveryVisitNamed`, `CameraServes` and the fairness of the
refinements), which is beyond the prover; and everything about `Visits` with its
three readers. Their clustering is a fold over a history, and what a fold computes
for every history takes an induction over data, which the prover cannot do.

## Not modelled

PROJECT.json lists every component with its reason. Left out for good: image
analysis and embeddings (numeric code; what a verdict is does not matter to the
protocols), drivers, the wire format's parsing, the web pages, diagnostic
scripts. Inside the modelled parts: SQL other than the statements that change
frames, verdicts and traces; exceptions of `thread.start()`; failures of
`clear`, which has no handler for them.

## Plan

In order of weight:

1. Proofs about `Visits`' readers, from clusters by declaration instead of the fold.
2. Cats, renamed and enrolled between a build's pre-check and the build, and
   groups of frames, as further actions of `Labels`.
3. The ingest client: the reconnecting reader with its backoff, composed with the
   collector's loop.
