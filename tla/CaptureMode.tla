---------------------------- MODULE CaptureMode ----------------------------
(***************************************************************************)
(* Which missed frames the store admits to.  Frames without motion are     *)
(* given up in three ways: the collector skips them while motion-only      *)
(* capture is on, eviction takes them first outside tuning, and a purge    *)
(* deletes them.  A window that lost some must not be read as measurable,  *)
(* so each way leaves a trace - mode_changes, the eviction frontier,       *)
(* purge_spans - and Store.motion_only_spans unites the traces.            *)
(*                                                                         *)
(* The module composes CollectorManager and run_collector, the non-motion  *)
(* job of CleanupManager, the store's id axis, and the API routes that     *)
(* drive them.  A request is split wherever it lets go of a lock.          *)
(*                                                                         *)
(* A frame is its id.  skipped and deleted are history variables: the id   *)
(* after which the collector skipped a frame without motion, and the ids   *)
(* of such frames that eviction preferred or a purge deleted.              *)
(***************************************************************************)
EXTENDS Integers, Sequences, FiniteSets, FiniteSetsExt

CONSTANTS
    MaxId,        \* bound: ids given out
    MaxLog,       \* bound: rows of mode_changes
    Capacity,     \* frames under the retention cap
    PurgeSize,    \* frames of one purge batch
    Requests,     \* concurrent operator requests
    Settings,     \* what a request may ask for: [on, stage]
    Worlds        \* what may happen in a behaviour: a set of subsets of
                  \* {"toggle live", "toggle start", "purge",
                  \*  "purge tail", "wipe", "wipe live", "die",
                  \*  "count gaps"}

ASSUME MaxIdAssumption == MaxId \in Nat
ASSUME MaxLogAssumption == MaxLog \in Nat
ASSUME CapacityAssumption == Capacity \in Nat \ {0}
ASSUME PurgeSizeAssumption == PurgeSize \in Nat \ {0}
ASSUME SettingsAssumption ==
    Settings \subseteq [on : BOOLEAN, stage : {"same", "tuning", "collecting"}]

VARIABLES
    rows, still,              \* ids held, and those of them without motion
    log, purges, frontier,    \* mode_changes, purge_spans, evicted-through
    setting, stage,           \* the persisted motion_only flag and stage
    flag, running,            \* CollectorManager._motion_only, _running
    thread, seen,             \* run_collector's progress, the mode it read
    request,                  \* the toggle each operator request carries out
    wipe, wipeSeen,           \* api_clear's progress, the mode it read
    purge,                    \* the non-motion job
    skipped, deleted,
    world                     \* the member of Worlds this behaviour is in

index   == <<rows, still, frontier, deleted>>
traces  == <<log, purges>>
policy  == <<setting, stage>>
capture == <<flag, running>>
worker  == <<thread, seen>>
wiping  == <<wipe, wipeSeen>>
vars == <<rows, still, log, purges, frontier, setting, stage, flag, running,
          thread, seen, request, wipe, wipeSeen, purge, skipped, deleted, world>>

Ids == 1..MaxId
LastId == IF rows = {} THEN 0 ELSE Max(rows)

NoRequest == [pc |-> "none", on |-> FALSE, stage |-> "same", changed |-> FALSE]
NoPurge == [pc |-> "none", since |-> 0, until |-> 0, last |-> 0]

Init ==
    /\ rows = {} /\ still = {} /\ log = <<>> /\ purges = {} /\ frontier = 0
    /\ setting = FALSE /\ stage = "tuning"
    /\ flag = FALSE /\ running = FALSE
    /\ thread = "none" /\ seen = FALSE
    /\ request = [r \in Requests |-> NoRequest]
    /\ wipe = "none" /\ wipeSeen = FALSE
    /\ purge = NoPurge
    /\ skipped = {} /\ deleted = {}
    /\ world \in Worlds

-----------------------------------------------------------------------------
(* record_mode_change: the mode on holds for frames after the latest one.   *)

RecordMode(on) ==
    /\ Len(log) < MaxLog
    /\ log' = Append(log, [at |-> LastId, on |-> on])

(* motion_only_spans, one id at a time.  The log is read ordered by at,     *)
(* then by insertion; a segment switched on ends where the next entry       *)
(* switches it off, or at the end of the store.                             *)

(* Mutant: equal boundaries are read newest first. *)
PrecedesNewestFirst(i, k) == log[i].at < log[k].at \/ (log[i].at = log[k].at /\ i > k)

Precedes(i, k) == log[i].at < log[k].at \/ (log[i].at = log[k].at /\ i < k)

SwitchOffs(i) == {k \in DOMAIN log : Precedes(i, k) /\ ~log[k].on}

SegmentEnd(i) ==
    IF SwitchOffs(i) = {} THEN LastId ELSE Min({log[k].at : k \in SwitchOffs(i)})

InMotionOnlySpan(p) ==
    \E i \in DOMAIN log : log[i].on /\ log[i].at <= p /\ p <= SegmentEnd(i)

(* Mutant: the eviction frontier is not folded in. *)
UnmeasurableSpansOnly(p) ==
    \/ InMotionOnlySpan(p)
    \/ \E s \in purges : s.lo <= p /\ p <= s.hi

Unmeasurable(p) ==
    \/ InMotionOnlySpan(p)
    \/ 1 <= p /\ p <= frontier
    \/ \E s \in purges : s.lo <= p /\ p <= s.hi

-----------------------------------------------------------------------------
(* The collector.  start and stop flip running; the thread first reads the  *)
(* flag, then records it, then takes one frame of the stream at a time.     *)

Start ==
    /\ ~running /\ thread = "none"
    /\ "wipe live" \in world \/ wipe = "none"
    /\ running' = TRUE /\ thread' = "started"
    /\ UNCHANGED <<world, skipped, index, traces, policy, flag, seen, request, wiping, purge>>

Stop ==
    /\ running
    /\ running' = FALSE
    /\ UNCHANGED <<world, skipped, index, traces, policy, flag, worker, request, wiping, purge>>

ReadMode ==
    /\ thread = "started"
    /\ seen' = flag /\ thread' = "read"
    /\ UNCHANGED <<world, skipped, index, traces, policy, capture, request, wiping, purge>>

RecordStart ==
    /\ thread = "read"
    /\ RecordMode(seen)
    /\ thread' = "streaming"
    /\ UNCHANGED <<world, skipped, index, purges, policy, capture, seen, request, wiping, purge>>

ThreadEnds ==
    /\ thread = "streaming" /\ ~running
    /\ thread' = "none"
    /\ UNCHANGED <<world, skipped, index, traces, policy, capture, seen, request, wiping, purge>>

(* A boundary is late between the flip of the flag, or the wipe of the log, *)
(* and its row; what is skipped then counts only where the world says so.   *)
BoundaryIsLate ==
    wipe # "none" \/ \E r \in Requests : request[r].pc = "flipped" /\ request[r].changed

Skip ==
    /\ thread = "streaming" /\ running /\ flag
    /\ skipped' = IF BoundaryIsLate /\ "count gaps" \notin world THEN skipped
                  ELSE skipped \cup {LastId}
    /\ UNCHANGED <<world, index, traces, policy, capture, worker, request, wiping, purge>>

(* store.add, with the eviction of one victim when the store is full. *)
Collect(moving) ==
    /\ thread = "streaming" /\ running /\ (moving \/ ~flag)
    /\ LastId < MaxId
    /\ LET new    == LastId + 1
           all    == rows \cup {new}
           quiet  == IF moving THEN still ELSE still \cup {new}
           prefer == stage # "tuning" /\ quiet # {}
           gone   == IF Cardinality(all) <= Capacity THEN {}
                     ELSE IF prefer THEN {Min(quiet)} ELSE {Min(all)}
       IN /\ rows' = all \ gone
          /\ still' = quiet \ gone
          /\ deleted' = IF prefer THEN deleted \cup gone ELSE deleted
          /\ frontier' = IF prefer /\ gone # {} /\ Max(gone) > frontier
                         THEN Max(gone) ELSE frontier
    /\ UNCHANGED <<world, skipped, traces, policy, capture, worker, request, wiping, purge>>

-----------------------------------------------------------------------------
(* A toggle: the flag under the manager's lock, then the boundary, then the *)
(* setting, each in a lock hold of its own; the stage route adds the stage. *)

Flip(r, s) ==
    /\ request[r].pc = "none"
    /\ "toggle live" \in world \/ (thread = "none" /\ ~running /\ wipe = "none")
    /\ "toggle start" \in world \/ thread # "read"
    /\ request' = [request EXCEPT ![r] =
         [pc |-> "flipped", on |-> s.on, stage |-> s.stage, changed |-> s.on # flag]]
    /\ flag' = s.on
    /\ UNCHANGED <<world, skipped, index, traces, policy, running, worker, wiping, purge>>

RecordFlip(r) ==
    /\ request[r].pc = "flipped"
    /\ IF request[r].changed THEN RecordMode(request[r].on) ELSE UNCHANGED log
    /\ request' = [request EXCEPT ![r].pc = "recorded"]
    /\ UNCHANGED <<world, skipped, index, purges, policy, capture, worker, wiping, purge>>

PersistFlip(r) ==
    /\ request[r].pc = "recorded"
    /\ setting' = request[r].on
    /\ request' = IF request[r].stage = "same" THEN [request EXCEPT ![r] = NoRequest]
                  ELSE [request EXCEPT ![r].pc = "persisted"]
    /\ UNCHANGED <<world, skipped, index, traces, stage, capture, worker, wiping, purge>>

SetStage(r) ==
    /\ request[r].pc = "persisted"
    /\ stage' = request[r].stage
    /\ request' = [request EXCEPT ![r] = NoRequest]
    /\ UNCHANGED <<world, skipped, index, traces, setting, capture, worker, wiping, purge>>

-----------------------------------------------------------------------------
(* POST /api/clear: the wipe, then the mode in force if a run is live.      *)

Wipe ==
    /\ "wipe" \in world /\ wipe = "none"
    /\ "wipe live" \in world \/ (thread = "none" /\ ~running)
    /\ rows' = {} /\ still' = {} /\ log' = <<>> /\ purges' = {}
    /\ frontier' = 0 /\ skipped' = {} /\ deleted' = {}
    /\ wipe' = "wiped"
    /\ UNCHANGED <<world, policy, capture, worker, request, wipeSeen, purge>>

WipeReadsMode ==
    /\ wipe = "wiped"
    /\ wipe' = IF running THEN "read" ELSE "none"
    /\ wipeSeen' = flag
    /\ UNCHANGED <<world, skipped, index, traces, policy, capture, worker, request, purge>>

WipeRecordsMode ==
    /\ wipe = "read"
    /\ RecordMode(wipeSeen)
    /\ wipe' = "none"
    /\ UNCHANGED <<world, skipped, index, purges, policy, capture, worker, request, wipeSeen, purge>>

-----------------------------------------------------------------------------
(* The non-motion purge: a window of ids resolved by the route, batches     *)
(* under the store's lock, then one span for what was stripped.             *)

PurgeResolve(until) ==
    /\ "purge" \in world /\ purge = NoPurge /\ rows # {}
    /\ until \in rows /\ ("purge tail" \in world \/ until < LastId)
    /\ purge' = [pc |-> "running", since |-> Min(rows), until |-> until, last |-> 0]
    /\ UNCHANGED <<world, skipped, index, traces, policy, capture, worker, request, wiping>>

PurgeBatch ==
    /\ purge.pc = "running"
    /\ LET window == {i \in still : i <= purge.until}
           gone   == {i \in window : Cardinality({k \in window : k < i}) < PurgeSize}
       IN /\ gone # {}
          /\ rows' = rows \ gone /\ still' = still \ gone
          /\ deleted' = deleted \cup gone
          /\ purge' = [purge EXCEPT !.last = Max(gone)]
    /\ UNCHANGED <<world, skipped, frontier, traces, policy, capture, worker, request, wiping>>

(* The window is drained, or a cancel is seen between two batches. *)

(* Mutant: a canceled purge records no span. *)
PurgeEndsSilently(canceled) ==
    /\ purge.pc = "running"
    /\ canceled \/ {i \in still : i <= purge.until} = {}
    /\ purges' = IF purge.last = 0 \/ canceled THEN purges
                 ELSE purges \cup {[lo |-> purge.since, hi |-> purge.until]}
    /\ purge' = NoPurge
    /\ UNCHANGED <<world, skipped, index, log, policy, capture, worker, request, wiping>>

PurgeEnds(canceled) ==
    /\ purge.pc = "running"
    /\ canceled \/ {i \in still : i <= purge.until} = {}
    /\ purges' = IF purge.last = 0 THEN purges
                 ELSE purges \cup {[lo |-> purge.since,
                                    hi |-> IF canceled THEN purge.last ELSE purge.until]}
    /\ purge' = NoPurge
    /\ UNCHANGED <<world, skipped, index, log, policy, capture, worker, request, wiping>>

-----------------------------------------------------------------------------
(* The process dies and is started again: memory is seeded from the store. *)

Restart ==
    /\ "die" \in world
    /\ flag' = setting /\ running' = FALSE
    /\ thread' = "none" /\ seen' = FALSE
    /\ request' = [r \in Requests |-> NoRequest]
    /\ wipe' = "none" /\ wipeSeen' = FALSE
    /\ purge' = NoPurge
    /\ UNCHANGED <<world, skipped, index, traces, policy>>

-----------------------------------------------------------------------------
Collector ==
    \/ Start \/ Stop \/ ReadMode \/ RecordStart \/ ThreadEnds \/ Skip
    \/ \E moving \in BOOLEAN : Collect(moving)

Operator ==
    \/ \E r \in Requests, s \in Settings : Flip(r, s)
    \/ \E r \in Requests : RecordFlip(r) \/ PersistFlip(r) \/ SetStage(r)

Clearing == Wipe \/ WipeReadsMode \/ WipeRecordsMode

Purging ==
    \/ \E i \in Ids : PurgeResolve(i)
    \/ PurgeBatch \/ \E canceled \in BOOLEAN : PurgeEnds(canceled)

Next == Collector \/ Operator \/ Clearing \/ Purging \/ Restart

Spec == Init /\ [][Next]_vars

-----------------------------------------------------------------------------
TypeOK ==
    /\ rows \subseteq Ids /\ still \subseteq rows
    /\ log \in Seq([at : 0..MaxId, on : BOOLEAN]) /\ Len(log) <= MaxLog
    /\ purges \subseteq [lo : Ids, hi : Ids]
    /\ frontier \in 0..MaxId
    /\ setting \in BOOLEAN /\ stage \in {"tuning", "collecting"}
    /\ flag \in BOOLEAN /\ running \in BOOLEAN
    /\ thread \in {"none", "started", "read", "streaming"} /\ seen \in BOOLEAN
    /\ request \in [Requests -> [pc : {"none", "flipped", "recorded", "persisted"},
                                 on : BOOLEAN, stage : {"same", "tuning", "collecting"},
                                 changed : BOOLEAN]]
    /\ wipe \in {"none", "wiped", "read"} /\ wipeSeen \in BOOLEAN
    /\ purge \in [pc : {"none", "running"}, since : 0..MaxId, until : 0..MaxId,
                  last : 0..MaxId]
    /\ skipped \subseteq 0..MaxId /\ deleted \subseteq Ids
    /\ world \in Worlds

(* No request, clear or purge is under way. *)
Quiet ==
    /\ \A r \in Requests : request[r] = NoRequest
    /\ wipe = "none" /\ purge = NoPurge

(* A frame given up matters to a window that reaches across its place. *)
Matters(p, q) == \E a, b \in rows : a <= p /\ q <= b

(* motion_only_spans: "a window that spans a motion-only stretch is flagged *)
(* misses unmeasurable rather than read as perfect recall", and a purged or *)
(* preferentially evicted one with it.                                      *)
EveryLossIsFlagged ==
    Quiet =>
        /\ \A p \in skipped : Matters(p, p + 1) => Unmeasurable(p)
        /\ \A p \in deleted : Matters(p - 1, p + 1) => Unmeasurable(p)

(* While frames are collected, the last boundary in the order the log is    *)
(* read in is the mode in force, whatever order the rows were inserted in.  *)
ReadsModeInForce ==
    Quiet /\ thread = "streaming" /\ running =>
        \E i \in DOMAIN log :
            /\ \A k \in DOMAIN log \ {i} : Precedes(k, i)
            /\ log[i].on = flag
=============================================================================
