---------------------------- MODULE LiveIdentify ----------------------------
(***************************************************************************)
(* The live naming worker (compute/learning/live_identify.py): a thread    *)
(* that wakes up, takes the visits that have closed beyond its watermark,  *)
(* sweeps and names them one by one, and advances the watermark over each. *)
(* The watermark is kept in memory and, one step later, in the settings.   *)
(*                                                                         *)
(* Around it frames arrive and the newest are purged, a clear starts the   *)
(* ids again at 1, the operator stops and starts the worker (the old thread    *)
(* may still be in a tick), jobs take the GPU, and the process dies and is *)
(* launched again.  Every motion frame here shows a cat.  seen and named   *)
(* are the frames with a verdict and an identification; due and failed are *)
(* history: the motion frames the worker has promised to name, and those   *)
(* it could not decode.                                                    *)
(***************************************************************************)
EXTENDS Integers, FiniteSets, FiniteSetsExt

CONSTANTS
    MaxId,      \* bound: ids given out
    MaxTime,    \* bound: the clock
    Gap,        \* _VISIT_GAP_MS, in ticks of the clock
    PerTick,    \* _MAX_SPANS_PER_TICK
    Threads,    \* bound: worker threads started
    MaxFaults,  \* bound: jobs, failures, clears and crashes together
    Allowed,    \* "purge": the newest still frames may go;
                \* "race": a clear may fall between an advance and its save,
                \* and a crash into a clear;
                \* "late": a frame may be stored a clock tick after its stamp
    None        \* the watermark was never saved

ASSUME BoundsAssumption == {MaxId, MaxTime, Gap, MaxFaults} \subseteq Nat
ASSUME SlicesAssumption == PerTick \in Nat \ {0} /\ Threads \in Nat \ {0}
ASSUME NoneAssumption == None \notin 0..MaxId

VARIABLES
    rows, at, moving,     \* ids held, their recv_ts, those with motion
    seen, named, due, failed,
    now,                  \* the clock
    watermark, stored,    \* _watermark, and its copy in the settings
    seedHorizon, epoch,   \* _seed_horizon, _epoch
    running, latest,      \* _running; the thread _thread refers to
    stopped,              \* threads whose stop event is set
    starting, clearing,   \* start's and api_clear's progress
    tick,                 \* each thread's progress
    busy,                 \* is_busy(), or no model is promoted
    faults                \* how many jobs, failures, clears and crashes so far

index   == <<rows, at, moving, seen, named, due, failed>>
mark    == <<watermark, stored, seedHorizon, epoch>>
manager == <<running, latest, stopped>>
routes  == <<starting, clearing>>
vars == <<rows, at, moving, seen, named, due, failed, now, watermark, stored,
          seedHorizon, epoch, running, latest, stopped, starting, clearing,
          tick, busy, faults>>

Ids == 1..MaxId
Workers == 1..Threads
LastId == IF rows = {} THEN 0 ELSE Max(rows)

Resting == [pc |-> "none", now |-> 0, lo |-> 0, epoch |-> 0, spans |-> {}]
Idle == [pc |-> "none", to |-> 0]

Init ==
    /\ rows = {} /\ at = [i \in Ids |-> 0] /\ moving = {}
    /\ seen = {} /\ named = {} /\ due = {} /\ failed = {}
    /\ now = 0
    /\ watermark = 0 /\ stored = None /\ seedHorizon = TRUE /\ epoch = 0
    /\ running = FALSE /\ latest = 0 /\ stopped = {}
    /\ starting = Idle /\ clearing = Idle
    /\ tick = [w \in Workers |-> Resting]
    /\ busy = FALSE /\ faults = 0

Fault == faults < MaxFaults /\ faults' = faults + 1

-----------------------------------------------------------------------------
(* The store.  The clock leaves the last frames time to settle. *)

Arrive(moves, stamp) ==
    /\ LastId < MaxId /\ now + Gap < MaxTime
    /\ \A i \in rows : at[i] <= stamp
    /\ LET i == LastId + 1
       IN /\ rows' = rows \cup {i} /\ at' = [at EXCEPT ![i] = stamp]
          /\ moving' = IF moves THEN moving \cup {i} ELSE moving
          /\ due' = IF moves THEN due \cup {i} ELSE due
    /\ UNCHANGED <<seen, named, failed, now, mark, manager, routes, tick, busy, faults>>

Arrives ==
    \E moves \in BOOLEAN, lag \in (IF "late" \in Allowed THEN {0, 1} ELSE {0}) :
        now >= lag /\ Arrive(moves, now - lag)

Delete(i) ==
    /\ rows' = rows \ {i} /\ moving' = moving \ {i} /\ seen' = seen \ {i}
    /\ named' = named \ {i} /\ due' = due \ {i} /\ failed' = failed \ {i}
    /\ at' = [at EXCEPT ![i] = 0]
    /\ UNCHANGED <<now, mark, manager, routes, tick, busy, faults>>

(* purge_nonmotion_batch takes the newest frame, a still one.  Where        *)
(* Allowed does not say otherwise it lies past the watermark.               *)
PurgeNewest ==
    /\ LastId \in rows \ moving
    /\ \/ "purge" \in Allowed
       \/ starting = Idle /\ clearing = Idle /\ LastId > watermark /\ LastId \notin {stored}
    /\ Delete(LastId)

Clock ==
    /\ now < MaxTime /\ now' = now + 1
    /\ UNCHANGED <<index, mark, manager, routes, tick, busy, faults>>

(* Mutant: the newest cluster is taken before it has settled. *)
ClosedOpenToo(since, time) ==
    LET motion == {i \in rows \cap moving : i > since}
        Opens == {i \in motion : \A j \in motion : j < i => at[i] - at[j] > Gap}
    IN  {{j \in motion : j >= i /\ \A k \in Opens : ~(i < k /\ k <= j)} : i \in Opens}

(* closed_visits: the clusters of motion frames past since whose last frame *)
(* is older than the gap.                                                   *)
ClosedVisits(since, time) ==
    LET motion == {i \in rows \cap moving : i > since}
        Opens == {i \in motion : \A j \in motion : j < i => at[i] - at[j] > Gap}
        Cluster(i) == {j \in motion : j >= i /\ \A k \in Opens : ~(i < k /\ k <= j)}
    IN  {c \in {Cluster(i) : i \in Opens} : at[Max(c)] < time - Gap}

-----------------------------------------------------------------------------
(* start: the very first one seeds the watermark at the horizon, saving it  *)
(* before it sets it; then a fresh thread.                                  *)

StartReads ==
    /\ starting.pc = "none" /\ clearing.pc = "none" /\ ~running /\ latest < Threads
    /\ starting' = [pc |-> IF seedHorizon THEN "read" ELSE "seeded", to |-> LastId]
    /\ UNCHANGED <<index, now, mark, manager, clearing, tick, busy, faults>>

StartSaves ==
    /\ starting.pc = "read"
    /\ stored' = starting.to
    /\ due' = {i \in due : i > starting.to}
    /\ starting' = [starting EXCEPT !.pc = "saved"]
    /\ UNCHANGED <<rows, at, moving, seen, named, failed, now, watermark, seedHorizon, epoch,
                   manager, clearing, tick, busy, faults>>

StartSeeds ==
    /\ starting.pc = "saved"
    /\ watermark' = starting.to /\ seedHorizon' = FALSE
    /\ starting' = [starting EXCEPT !.pc = "seeded"]
    /\ UNCHANGED <<index, now, stored, epoch, manager, clearing, tick, busy, faults>>

StartSpawns ==
    /\ starting.pc = "seeded"
    /\ latest' = latest + 1 /\ running' = TRUE
    /\ tick' = [tick EXCEPT ![latest + 1] = [Resting EXCEPT !.pc = "waiting"]]
    /\ starting' = Idle
    /\ UNCHANGED <<index, now, mark, stopped, clearing, busy, faults>>

(* A thread that waits for its next tick exits at once. *)
Stop ==
    /\ running
    /\ running' = FALSE /\ stopped' = stopped \cup {latest}
    /\ tick' = IF tick[latest].pc = "waiting" THEN [tick EXCEPT ![latest] = Resting] ELSE tick
    /\ UNCHANGED <<index, now, mark, latest, routes, busy, faults>>

(* The process dies with a worker thread to spare for its successor, whose  *)
(* manager reads the saved watermark; the launch starts the worker.         *)
Crash ==
    /\ latest < Threads /\ Fault
    /\ clearing.pc = "none" \/ "race" \in Allowed
    /\ tick' = [w \in Workers |-> Resting] /\ stopped' = {} /\ busy' = FALSE
    /\ running' = FALSE /\ clearing' = Idle
    /\ watermark' = IF stored = None THEN 0 ELSE stored
    /\ seedHorizon' = (stored = None) /\ epoch' = 0
    /\ starting' = [pc |-> IF stored = None THEN "read" ELSE "seeded", to |-> LastId]
    /\ UNCHANGED <<index, now, stored, latest>>

(* POST /api/clear: wipe, read the horizon, reset_watermark in memory and,  *)
(* one step later, in the settings.                                         *)
ClearWipes ==
    /\ clearing.pc = "none" /\ starting.pc = "none" /\ Fault
    /\ rows' = {} /\ moving' = {} /\ seen' = {} /\ named' = {} /\ due' = {} /\ failed' = {}
    /\ at' = [i \in Ids |-> 0]
    /\ clearing' = [pc |-> "wiped", to |-> 0]
    /\ UNCHANGED <<now, mark, manager, starting, tick, busy>>

ClearReads ==
    /\ clearing.pc = "wiped"
    /\ clearing' = [pc |-> "read", to |-> LastId]
    /\ UNCHANGED <<index, now, mark, manager, starting, tick, busy, faults>>

(* Mutant: ticks in flight are not invalidated. *)
ResetKeepsEpoch ==
    /\ watermark' = IF seedHorizon THEN watermark ELSE clearing.to
    /\ UNCHANGED epoch

Reset ==
    /\ watermark' = IF seedHorizon THEN watermark ELSE clearing.to
    /\ epoch' = epoch + 1

ClearResets ==
    /\ clearing.pc = "read"
    /\ "race" \in Allowed \/ \A w \in Workers : tick[w].pc # "saving"
    /\ Reset
    /\ due' = IF seedHorizon THEN due ELSE {i \in due : i > clearing.to}
    /\ clearing' = IF seedHorizon THEN Idle ELSE [clearing EXCEPT !.pc = "reset"]
    /\ UNCHANGED <<rows, at, moving, seen, named, failed, now, stored, seedHorizon,
                   manager, starting, tick, busy, faults>>

ClearSaves ==
    /\ clearing.pc = "reset"
    /\ stored' = clearing.to /\ clearing' = Idle
    /\ UNCHANGED <<index, now, watermark, seedHorizon, epoch, manager, starting, tick, busy, faults>>

-----------------------------------------------------------------------------
(* A tick. *)

To(w, t) == tick' = [tick EXCEPT ![w] = t]
Rest(w) == To(w, IF w \in stopped THEN Resting ELSE [Resting EXCEPT !.pc = "waiting"])
Visit(w) == CHOOSE v \in tick[w].spans : \A u \in tick[w].spans : Min(v) <= Min(u)
Inside(w) == rows \cap (Min(Visit(w))..Max(Visit(w)))

(* The clock is read first; a tick that finds a job on the GPU, or no model *)
(* promoted, changes nothing.                                               *)
Wake(w) ==
    /\ tick[w].pc = "waiting" /\ ~busy
    /\ To(w, [tick[w] EXCEPT !.pc = "awake", !.now = now])
    /\ UNCHANGED <<index, now, mark, manager, routes, busy, faults>>

(* The epoch and the watermark are read together, the store afterwards. *)
Snapshot(w) ==
    /\ tick[w].pc = "awake"
    /\ To(w, [tick[w] EXCEPT !.pc = "snapped", !.epoch = epoch, !.lo = watermark])
    /\ UNCHANGED <<index, now, mark, manager, routes, busy, faults>>

(* The first PerTick closed visits. *)
Window(w) ==
    /\ tick[w].pc = "snapped" /\ tick[w].lo <= LastId
    /\ LET closed == ClosedVisits(tick[w].lo, tick[w].now)
           first == {v \in closed : Cardinality({u \in closed : Min(u) < Min(v)}) < PerTick}
       IN  IF first = {} THEN Rest(w) ELSE To(w, [tick[w] EXCEPT !.pc = "visit", !.spans = first])
    /\ UNCHANGED <<index, now, mark, manager, routes, busy, faults>>

(* The ids regressed below the watermark: it is clamped to the last id, and *)
(* no visit past it can have closed since the clock was read.               *)
Clamp(w) ==
    /\ tick[w].pc = "snapped" /\ tick[w].lo > LastId
    /\ IF tick[w].epoch = epoch
       THEN watermark' = LastId /\ To(w, [tick[w] EXCEPT !.pc = "saving", !.lo = LastId])
       ELSE Rest(w) /\ UNCHANGED watermark
    /\ UNCHANGED <<index, now, stored, seedHorizon, epoch, manager, routes, busy, faults>>

(* A stop or a manual job is noticed between two visits. *)
Yield(w) ==
    /\ tick[w].pc = "visit" /\ (w \in stopped \/ busy)
    /\ Rest(w)
    /\ UNCHANGED <<index, now, mark, manager, routes, busy, faults>>

Detect(w) ==
    /\ tick[w].pc = "visit" /\ w \notin stopped /\ ~busy
    /\ To(w, [tick[w] EXCEPT !.pc = "detecting"])
    /\ UNCHANGED <<index, now, mark, manager, routes, busy, faults>>

(* A stopped detect returns normally with the visit part swept, which the   *)
(* tick notices.                                                            *)
Detected(w) ==
    /\ tick[w].pc = "detecting"
    /\ IF w \in stopped
       THEN /\ \E part \in SUBSET Inside(w) : seen' = seen \cup part
            /\ Rest(w)
       ELSE /\ seen' = seen \cup Inside(w)
            /\ To(w, [tick[w] EXCEPT !.pc = "identifying"])
    /\ UNCHANGED <<rows, at, moving, named, due, failed, now, mark, manager, routes, busy, faults>>

(* A frame that cannot be decoded gets no verdict, and is passed. *)
DetectedButOne(w) ==
    /\ tick[w].pc = "detecting" /\ w \notin stopped /\ Inside(w) # {} /\ Fault
    /\ LET bad == Min(Inside(w))
       IN /\ seen' = seen \cup (Inside(w) \ {bad})
          /\ failed' = failed \cup ({bad} \cap due)
    /\ To(w, [tick[w] EXCEPT !.pc = "identifying"])
    /\ UNCHANGED <<rows, at, moving, named, due, now, mark, manager, routes, busy>>

(* run_identify names what has a verdict; a stop it notices cancels it.     *)
Identified(w) ==
    /\ tick[w].pc = "identifying"
    /\ named' = named \cup (Inside(w) \cap seen)
    /\ To(w, [tick[w] EXCEPT !.pc = "done"])
    /\ UNCHANGED <<rows, at, moving, seen, due, failed, now, mark, manager, routes, busy, faults>>

Cancelled(w) ==
    /\ tick[w].pc = "identifying" /\ w \in stopped
    /\ \E part \in SUBSET (Inside(w) \cap seen) : named' = named \cup part
    /\ Rest(w)
    /\ UNCHANGED <<rows, at, moving, seen, due, failed, now, mark, manager, routes, busy, faults>>

(* Mutant: the exception ends the thread. *)
RaisesEndsThread(w) ==
    /\ tick[w].pc \in {"awake", "detecting", "identifying"} /\ Fault
    /\ To(w, Resting)
    /\ UNCHANGED <<index, now, mark, manager, routes, busy>>

(* A load, a detect or an identify that raises ends the tick. *)
Raises(w) ==
    /\ tick[w].pc \in {"awake", "detecting", "identifying"} /\ Fault
    /\ Rest(w)
    /\ UNCHANGED <<index, now, mark, manager, routes, busy>>

(* _advance_watermark: refused once a reset has landed; set, then saved. *)
Advance(w) ==
    /\ tick[w].pc = "done"
    /\ IF tick[w].epoch = epoch
       THEN /\ watermark' = Max(Visit(w))
            /\ To(w, [tick[w] EXCEPT !.pc = "saving", !.lo = Max(Visit(w)),
                                     !.spans = @ \ {Visit(w)}])
       ELSE Rest(w) /\ UNCHANGED watermark
    /\ UNCHANGED <<index, now, stored, seedHorizon, epoch, manager, routes, busy, faults>>

Save(w) ==
    /\ tick[w].pc = "saving"
    /\ stored' = tick[w].lo
    /\ IF tick[w].spans = {} THEN Rest(w) ELSE To(w, [tick[w] EXCEPT !.pc = "visit"])
    /\ UNCHANGED <<index, now, watermark, seedHorizon, epoch, manager, routes, busy, faults>>

-----------------------------------------------------------------------------
JobStarts ==
    /\ ~busy /\ Fault
    /\ busy' = TRUE
    /\ UNCHANGED <<index, now, mark, manager, routes, tick>>

JobEnds ==
    /\ busy /\ busy' = FALSE
    /\ UNCHANGED <<index, now, mark, manager, routes, tick, faults>>

Ticking(w) ==
    \/ Wake(w) \/ Snapshot(w) \/ Window(w) \/ Clamp(w) \/ Yield(w)
    \/ Detect(w) \/ Detected(w) \/ Identified(w) \/ Cancelled(w) \/ Advance(w) \/ Save(w)

StartGoesOn == StartSaves \/ StartSeeds \/ StartSpawns
ClearGoesOn == ClearReads \/ ClearResets \/ ClearSaves

Next ==
    \/ Arrives \/ PurgeNewest \/ Clock
    \/ StartReads \/ StartGoesOn \/ Stop \/ Crash
    \/ ClearWipes \/ ClearGoesOn \/ JobStarts \/ JobEnds
    \/ \E w \in Workers : Ticking(w) \/ DetectedButOne(w) \/ Raises(w)

(* Threads and request handlers are scheduled by the OS, time passes, and a *)
(* manual job ends some day.                                                *)
Fairness ==
    /\ \A w \in Workers : WF_vars(Ticking(w))
    /\ WF_vars(Clock) /\ WF_vars(JobEnds) /\ WF_vars(StartGoesOn) /\ WF_vars(ClearGoesOn)

Spec == Init /\ [][Next]_vars /\ Fairness

-----------------------------------------------------------------------------
Ticks ==
    [pc : {"none", "waiting", "awake", "snapped", "visit", "detecting", "identifying", "done",
           "saving"},
     now : 0..MaxTime, lo : 0..MaxId, epoch : Nat, spans : SUBSET (SUBSET Ids)]

TypeOK ==
    /\ rows \subseteq Ids /\ at \in [Ids -> 0..MaxTime] /\ moving \subseteq rows
    /\ seen \subseteq rows /\ named \subseteq seen
    /\ due \subseteq rows \cap moving /\ failed \subseteq rows
    /\ now \in 0..MaxTime
    /\ watermark \in 0..MaxId /\ stored \in (0..MaxId) \cup {None}
    /\ seedHorizon \in BOOLEAN /\ epoch \in Nat
    /\ running \in BOOLEAN /\ latest \in 0..Threads /\ stopped \subseteq Workers
    /\ starting \in [pc : {"none", "read", "saved", "seeded"}, to : 0..MaxId]
    /\ clearing \in [pc : {"none", "wiped", "read", "reset"}, to : 0..MaxId]
    /\ tick \in [Workers -> Ticks]
    /\ busy \in BOOLEAN /\ faults \in 0..MaxFaults

Settled == ~seedHorizon /\ starting.pc = "none" /\ clearing.pc = "none"

(* live_identify.py:93-97: a lost or stale watermark costs at most re-work, *)
(* never a missed visit.  The watermark, in memory or saved, passes no      *)
(* motion frame the worker promised to name and has neither named nor tried.*)
NothingPassedOver ==
    Settled => \A i \in due : i <= watermark \/ (stored # None /\ i <= stored)
                                => i \in named \cup failed

(* A visit in the worker's hands is whole: no later motion frame falls      *)
(* within the gap of its last one (closed_visits leaves out the visit a     *)
(* frame could still extend).                                               *)
NeverExtended ==
    clearing.pc = "none" =>
        \A w \in Workers : tick[w].epoch = epoch =>
            \A v \in tick[w].spans, i \in rows \cap moving :
                i > Max(v) => at[i] - at[Max(v)] > Gap

(* A worker that stays on names every visit it promised to, unless a frame  *)
(* of it cannot be decoded or goes.                                         *)
EveryVisitNamed ==
    \A i \in Ids : i \in due /\ Settled /\ running
                    ~> i \in named \cup failed \/ i \notin due \/ ~running
=============================================================================
