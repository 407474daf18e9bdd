----------------------------- MODULE TailSweep -----------------------------
(***************************************************************************)
(* The always-on oracle worker (compute/learning/yolo_oracle.py): a thread *)
(* that wakes up, sweeps the frames beyond a watermark chunk by chunk, and *)
(* advances the watermark over each chunk it completed.  Around it frames  *)
(* arrive and go, a clear starts the id axis again at 1, the operator      *)
(* stops and starts the worker (the old thread may still be in a tick),    *)
(* and a manual job takes the GPU.                                         *)
(*                                                                         *)
(* Every frame here is one the sweep's coverage mode includes.  epoch is   *)
(* the manager's counter of re-seeds.  due is a history variable: the      *)
(* frames that arrived after the horizon of the last re-seed, those the    *)
(* worker has promised to cover; failed holds those it tried in vain.       *)
(***************************************************************************)
EXTENDS Integers, FiniteSets, FiniteSetsExt

CONSTANTS
    MaxId,        \* bound: ids given out
    MaxArrivals,  \* bound: frames that arrive
    PerTick,      \* _MAX_FRAMES_PER_TICK
    Chunk,        \* _CHUNK
    Threads,      \* bound: worker threads started
    MaxJobs,      \* bound: manual jobs that hold the GPU
    MaxFaults,    \* bound: frames that fail and detects that raise
    MaxClears,    \* bound: clears
    Allowed       \* "purge": the newest frames may go during a run;
                  \* "overlap": a start and a clear may overlap

ASSUME BoundsAssumption ==
    {MaxId, MaxArrivals, MaxJobs, MaxFaults, MaxClears} \subseteq Nat
ASSUME SlicesAssumption == PerTick \in Nat \ {0} /\ Chunk \in Nat \ {0}
ASSUME ThreadsAssumption == Threads \in Nat \ {0}

VARIABLES
    rows, swept,             \* ids held, and those that have a verdict
    watermark, epoch,        \* YoloOracleManager._watermark, _epoch
    running, latest,         \* _running; the thread _thread refers to
    starting, horizon,       \* start's progress and the horizon it read
    clearing, clearTo,       \* api_clear's progress and the horizon it read
    tick,                    \* each thread's progress
    stopped,                 \* threads whose stop event is set
    busy,                    \* is_busy()
    used,                    \* how often each bounded event has happened
    due, failed

index   == <<rows, swept, due, failed>>
mark    == <<watermark, epoch>>
manager == <<running, latest, stopped>>
routes  == <<starting, horizon, clearing, clearTo>>
vars == <<rows, swept, watermark, epoch, running, latest, starting, horizon,
          clearing, clearTo, tick, stopped, busy, used, due, failed>>

Ids == 1..MaxId
ThreadIds == 1..Threads
LastId == IF rows = {} THEN 0 ELSE Max(rows)
Smaller(a, b) == IF a < b THEN a ELSE b

Resting == [pc |-> "none", lo |-> 0, hi |-> 0, until |-> 0, epoch |-> 0, batch |-> {}]

Init ==
    /\ rows = {} /\ swept = {} /\ due = {} /\ failed = {}
    /\ watermark = 0 /\ epoch = 0
    /\ running = FALSE /\ latest = 0 /\ stopped = {}
    /\ starting = "none" /\ horizon = 0
    /\ clearing = "none" /\ clearTo = 0
    /\ tick = [w \in ThreadIds |-> Resting]
    /\ busy = FALSE
    /\ used = [arrivals |-> 0, jobs |-> 0, faults |-> 0, clears |-> 0]

-----------------------------------------------------------------------------
(* The store: frames arrive, the oldest age out, a purge takes the newest.  *)

Arrive ==
    /\ used.arrivals < MaxArrivals /\ LastId < MaxId
    /\ rows' = rows \cup {LastId + 1}
    /\ due' = due \cup {LastId + 1}
    /\ used' = [used EXCEPT !.arrivals = @ + 1]
    /\ UNCHANGED <<swept, failed, mark, manager, routes, tick, busy>>

Delete(i) ==
    /\ rows' = rows \ {i} /\ swept' = swept \ {i}
    /\ due' = due \ {i} /\ failed' = failed \ {i}
    /\ UNCHANGED <<mark, manager, routes, tick, busy, used>>

(* The frame whose arrival evicts is the newest, and stays. *)
Evict == Cardinality(rows) > 1 /\ Delete(Min(rows))

(* The newest frames are purged between two runs of the worker, or during   *)
(* one where Allowed says so.                                               *)
PurgeNewest ==
    /\ rows # {}
    /\ "purge" \in Allowed \/ (~running /\ starting = "none" /\ \A w \in ThreadIds : tick[w] = Resting)
    /\ Delete(Max(rows))

-----------------------------------------------------------------------------
(* _seed_watermark: force the watermark and invalidate ticks in flight. *)

(* Mutant: the epoch is not advanced. *)
SeedKeepsEpoch(value) ==
    /\ watermark' = value
    /\ due' = {i \in due : i > value} /\ failed' = {i \in failed : i > value}
    /\ UNCHANGED epoch

Seed(value) ==
    /\ watermark' = value
    /\ epoch' = epoch + 1
    /\ due' = {i \in due : i > value} /\ failed' = {i \in failed : i > value}

(* start: read the horizon, seed, then publish a fresh thread.  A thread    *)
(* that outlives the bounded join goes on beside the new one.               *)
StartReads ==
    /\ ~running /\ starting = "none" /\ latest < Threads
    /\ clearing = "none" \/ "overlap" \in Allowed
    /\ starting' = "read" /\ horizon' = LastId
    /\ UNCHANGED <<index, mark, manager, clearing, clearTo, tick, busy, used>>

StartSeeds ==
    /\ starting = "read"
    /\ Seed(horizon)
    /\ starting' = "seeded"
    /\ UNCHANGED <<rows, swept, manager, horizon, clearing, clearTo, tick, busy, used>>

StartSpawns ==
    /\ starting = "seeded"
    /\ latest' = latest + 1 /\ running' = TRUE
    /\ tick' = [tick EXCEPT ![latest + 1] = [Resting EXCEPT !.pc = "waiting"]]
    /\ starting' = "none"
    /\ UNCHANGED <<index, mark, stopped, horizon, clearing, clearTo, busy, used>>

Stop ==
    /\ running
    /\ running' = FALSE /\ stopped' = stopped \cup {latest}
    /\ UNCHANGED <<index, mark, latest, routes, tick, busy, used>>

(* POST /api/clear: wipe, read the horizon, reset_watermark. *)
ClearWipes ==
    /\ clearing = "none" /\ used.clears < MaxClears
    /\ starting = "none" \/ "overlap" \in Allowed
    /\ rows' = {} /\ swept' = {} /\ due' = {} /\ failed' = {}
    /\ clearing' = "wiped"
    /\ used' = [used EXCEPT !.clears = @ + 1]
    /\ UNCHANGED <<mark, manager, starting, horizon, clearTo, tick, busy>>

ClearReads ==
    /\ clearing = "wiped"
    /\ clearing' = "read" /\ clearTo' = LastId
    /\ UNCHANGED <<index, mark, manager, starting, horizon, tick, busy, used>>

ClearResets ==
    /\ clearing = "read"
    /\ Seed(clearTo)
    /\ clearing' = "none"
    /\ UNCHANGED <<rows, swept, manager, starting, horizon, clearTo, tick, busy, used>>

-----------------------------------------------------------------------------
(* A tick. *)

To(w, t) == tick' = [tick EXCEPT ![w] = t]
Rest(w) == To(w, [Resting EXCEPT !.pc = "waiting"])

(* _advance_watermark: refused once a re-seed has landed. *)
Advance(w, value) ==
    IF tick[w].epoch = epoch THEN watermark' = value ELSE UNCHANGED watermark

Exit(w) ==
    /\ tick[w].pc = "waiting" /\ w \in stopped
    /\ To(w, Resting)
    /\ UNCHANGED <<index, mark, manager, routes, busy, used>>

Wake(w) ==
    /\ tick[w].pc = "waiting" /\ w \notin stopped
    /\ To(w, [tick[w] EXCEPT !.pc = "awake"])
    /\ UNCHANGED <<index, mark, manager, routes, busy, used>>

(* A manual job holds the GPU at the start of the tick. *)
Skip(w) ==
    /\ tick[w].pc = "awake" /\ busy
    /\ Rest(w)
    /\ UNCHANGED <<index, mark, manager, routes, busy, used>>

(* The epoch and the watermark are read together, latest_id afterwards. *)
Snapshot(w) ==
    /\ tick[w].pc = "awake" /\ ~busy
    /\ To(w, [tick[w] EXCEPT !.pc = "snapped", !.epoch = epoch, !.lo = watermark])
    /\ UNCHANGED <<index, mark, manager, routes, busy, used>>

Window(w) ==
    /\ tick[w].pc = "snapped" /\ tick[w].lo <= LastId
    /\ LET until == Smaller(LastId, tick[w].lo + PerTick)
       IN IF until = tick[w].lo THEN Rest(w)
          ELSE To(w, [tick[w] EXCEPT !.pc = "chunk", !.lo = @ + 1, !.until = until])
    /\ UNCHANGED <<index, mark, manager, routes, busy, used>>

(* The ids regressed below the watermark: clamp it to the last id, which    *)
(* Advance may refuse; the window is empty either way.                      *)
Clamp(w) ==
    /\ tick[w].pc = "snapped" /\ tick[w].lo > LastId
    /\ Advance(w, LastId)
    /\ Rest(w)
    /\ UNCHANGED <<index, epoch, manager, routes, busy, used>>

(* A stop or a manual job is noticed between two chunks. *)
Yield(w) ==
    /\ tick[w].pc = "chunk" /\ (w \in stopped \/ busy)
    /\ Rest(w)
    /\ UNCHANGED <<index, mark, manager, routes, busy, used>>

(* run_analysis lists the frames of the chunk that have no verdict. *)
Detect(w) ==
    /\ tick[w].pc = "chunk" /\ w \notin stopped /\ ~busy
    /\ LET hi == Smaller(tick[w].lo + Chunk - 1, tick[w].until)
       IN To(w, [tick[w] EXCEPT !.pc = "detecting", !.hi = hi,
                   !.batch = {i \in rows \ swept : tick[w].lo <= i /\ i <= hi}])
    /\ UNCHANGED <<index, mark, manager, routes, busy, used>>

Write(w) ==
    /\ tick[w].pc = "detecting" /\ tick[w].batch # {}
    /\ LET i == Min(tick[w].batch)
       IN /\ swept' = IF i \in rows THEN swept \cup {i} ELSE swept
          /\ To(w, [tick[w] EXCEPT !.batch = @ \ {i}])
    /\ UNCHANGED <<rows, due, failed, mark, manager, routes, busy, used>>

(* run_analysis logs a frame it cannot decode or analyse, and goes on.      *)
FrameFails(w) ==
    /\ tick[w].pc = "detecting" /\ tick[w].batch # {} /\ used.faults < MaxFaults
    /\ used' = [used EXCEPT !.faults = @ + 1]
    /\ LET i == Min(tick[w].batch)
       IN /\ failed' = failed \cup ({i} \cap due)
          /\ To(w, [tick[w] EXCEPT !.batch = @ \ {i}])
    /\ UNCHANGED <<rows, swept, due, mark, manager, routes, busy>>

(* A stopped detect returns normally, with the chunk half swept: the tick   *)
(* looks at the stop event again before it advances.                        *)
DetectReturns(w) ==
    /\ tick[w].pc = "detecting" /\ (tick[w].batch = {} \/ w \in stopped)
    /\ IF w \in stopped THEN Rest(w)
       ELSE To(w, [tick[w] EXCEPT !.pc = "swept", !.batch = {}])
    /\ UNCHANGED <<index, mark, manager, routes, busy, used>>

(* Mutant: the exception ends the thread. *)
DetectRaisesEndsThread(w) ==
    /\ tick[w].pc = "detecting" /\ used.faults < MaxFaults
    /\ used' = [used EXCEPT !.faults = @ + 1]
    /\ To(w, Resting)
    /\ UNCHANGED <<index, mark, manager, routes, busy>>

DetectRaises(w) ==
    /\ tick[w].pc = "detecting" /\ used.faults < MaxFaults
    /\ used' = [used EXCEPT !.faults = @ + 1]
    /\ Rest(w)
    /\ UNCHANGED <<index, mark, manager, routes, busy>>

ChunkDone(w) ==
    /\ tick[w].pc = "swept"
    /\ Advance(w, tick[w].hi)
    /\ IF tick[w].epoch # epoch \/ tick[w].hi = tick[w].until THEN Rest(w)
       ELSE To(w, [tick[w] EXCEPT !.pc = "chunk", !.lo = tick[w].hi + 1])
    /\ UNCHANGED <<index, epoch, manager, routes, busy, used>>

-----------------------------------------------------------------------------
JobStarts ==
    /\ ~busy /\ used.jobs < MaxJobs
    /\ busy' = TRUE
    /\ used' = [used EXCEPT !.jobs = @ + 1]
    /\ UNCHANGED <<index, mark, manager, routes, tick>>

JobEnds ==
    /\ busy /\ busy' = FALSE
    /\ UNCHANGED <<index, mark, manager, routes, tick, used>>

Ticking(w) ==
    \/ Exit(w) \/ Wake(w) \/ Skip(w) \/ Snapshot(w) \/ Window(w) \/ Clamp(w) \/ Yield(w)
    \/ Detect(w) \/ Write(w) \/ DetectReturns(w) \/ ChunkDone(w)

Starting == StartReads \/ StartSeeds \/ StartSpawns
Clearing == ClearWipes \/ ClearReads \/ ClearResets

Next ==
    \/ Arrive \/ Evict \/ PurgeNewest \/ Starting \/ Stop \/ Clearing
    \/ JobStarts \/ JobEnds
    \/ \E w \in ThreadIds : Ticking(w) \/ FrameFails(w) \/ DetectRaises(w)

(* Threads and request handlers are scheduled by the OS, a manual job ends  *)
(* some day; nothing obliges frames to arrive or the operator to act.       *)
Fairness ==
    /\ \A w \in ThreadIds : WF_vars(Ticking(w))
    /\ WF_vars(JobEnds)
    /\ WF_vars(StartSeeds) /\ WF_vars(StartSpawns)
    /\ WF_vars(ClearReads) /\ WF_vars(ClearResets)

Spec == Init /\ [][Next]_vars /\ Fairness

-----------------------------------------------------------------------------
Ticks ==
    [pc : {"none", "waiting", "awake", "snapped", "chunk", "detecting", "swept"},
     lo : 0..MaxId, hi : 0..MaxId, until : 0..MaxId, epoch : Nat, batch : SUBSET Ids]

TypeOK ==
    /\ rows \subseteq Ids /\ swept \subseteq rows /\ due \subseteq rows /\ failed \subseteq due
    /\ watermark \in 0..MaxId /\ epoch \in Nat
    /\ running \in BOOLEAN /\ latest \in 0..Threads /\ stopped \subseteq ThreadIds
    /\ starting \in {"none", "read", "seeded"} /\ horizon \in 0..MaxId
    /\ clearing \in {"none", "wiped", "read"} /\ clearTo \in 0..MaxId
    /\ tick \in [ThreadIds -> Ticks]
    /\ busy \in BOOLEAN
    /\ used \in [arrivals : 0..MaxArrivals, jobs : 0..MaxJobs, faults : 0..MaxFaults,
                 clears : 0..MaxClears]

Settled == running /\ starting = "none" /\ clearing = "none"

(* The watermark never passes a frame the worker promised to cover and has  *)
(* neither swept nor tried: it would never be looked at again.              *)
NothingPassedOver ==
    Settled => \A i \in due : i <= watermark => i \in swept \cup failed

(* A running worker covers what arrives: every frame it promised is swept   *)
(* or tried, or has gone, or the operator turned the worker off.            *)
EveryFrameCovered ==
    \A i \in Ids : i \in due /\ running ~> i \in swept \cup failed \/ i \notin due \/ ~running
=============================================================================
