------------------------------- MODULE Labels -------------------------------
(***************************************************************************)
(* The write side of the annotation tool: the label routes of              *)
(* compute/api/app.py, the dataset_items and label_flags tables of         *)
(* compute/collection/store.py, the crop files of compute/dataset/crops.py *)
(* and the job that moves them to another crop geometry                    *)
(* (compute/tools/recut_crops.py).                                         *)
(*                                                                         *)
(* A crop's row and its file are written by different steps, and routes    *)
(* run in a thread pool beside the re-cut: requests holds how far each     *)
(* route has come, recut how far the job has.  Around them the operator    *)
(* changes the geometry, frames are evicted or wiped, a re-analysis moves  *)
(* a frame's box, and the process dies.                                    *)
(*                                                                         *)
(* A path is [cat, geometry, fid, ts] and a file's pixels are              *)
(* [ts, box, margin]: the frame they were cut from, the box, the margin.   *)
(***************************************************************************)
EXTENDS Integers, FiniteSets, FiniteSetsExt

CONSTANTS
    Loads,    \* bound: the requests and faults explored together
    MaxTime,  \* bound: frames stored, each with its own recv_ts
    Batch,    \* _BATCH: rows the re-cut moves in one transaction
    Slots,    \* bound: label routes running at once
    NULL      \* SQL's NULL, Python's None

ASSUME MaxTimeAssumption == MaxTime \in Nat
ASSUME BatchAssumption == Batch \in Nat \ {0}

(* What the routes' models let through, and what the bounds are.            *)
Ops == {"label", "relabel", "undo", "ignore", "confirm"}
Kinds == {"identified", "unknown_cat", "not_cat", "ignored"}
Budgeted == {"request", "recut", "setting", "redetect", "evict", "clear", "arrive", "fault",
             "mark", "unmark", "cancel"}
Geometries == {"legacy", "letterbox", "m10"}
ASSUME LoadsAssumption ==
    \A l \in Loads :
        /\ l.frames \in 0..MaxTime /\ l.budget \in [Budgeted -> Nat]
        /\ l.ops \subseteq Ops /\ l.targets \subseteq Geometries
        /\ \A d \in l.decisions : d.kind \in Kinds

VARIABLES
    frames,   \* the frames table: id -> [ts, box]
    clock,    \* the newest recv_ts given out
    items,    \* the dataset_items table
    files,    \* the crops on disk: path -> pixels
    flags,    \* the label_flags table
    stored,  \* the stored crop geometry, readable or not
    requests, \* the label routes in progress
    recut,    \* the re-cut job
    budget,   \* what may still happen
    load      \* the load of this behaviour

labelVars == <<frames, clock, items, files, flags, stored, requests, recut, budget, load>>

Live == DOMAIN frames
With(f, x, v) == [y \in DOMAIN f \cup {x} |-> IF y = x THEN v ELSE f[y]]
Last(S) == IF S = {} THEN 0 ELSE Max(S)

(* Legacy and letterbox are cut alike and resized apart; m10 adds a margin. *)
Margin(geometry) == IF geometry = "m10" THEN 10 ELSE 0
Twins(geometry) == {g \in Geometries : Margin(g) = Margin(geometry)}

(* _stored_crop_geometry: what cannot be read is cut and stamped as legacy. *)
StoredGeometry == IF stored \in Geometries THEN stored ELSE "legacy"

(* crop_rel_path: every kind but identified shares the unknown cat's folder. *)
Path(cat, geometry, fid, ts) == [cat |-> cat, geometry |-> geometry, fid |-> fid, ts |-> ts]

(* A row belongs to a frame by (src_frame_id, src_recv_ts): ids start again *)
(* at 1 after a clear and rows survive it.                                  *)
RowOf(i) == {r \in items : r.fid = i /\ r.ts = frames[i].ts}
Undecided == {i \in Live : RowOf(i) = {}}

Idle == [pc |-> "idle"]
NoJob == [pc |-> "idle", todo |-> {}]

LabelsInit ==
    /\ load \in Loads
    /\ frames = [i \in 1..load.frames |-> [ts |-> i, box |-> "b1"]]
    /\ clock = load.frames
    /\ items = {} /\ files = <<>> /\ flags = {} /\ stored = "legacy"
    /\ requests = [s \in Slots |-> Idle] /\ recut = NoJob
    /\ budget = load.budget

Spend(what) == budget[what] > 0 /\ budget' = [budget EXCEPT ![what] = @ - 1]
NoRoute == \A s \in Slots : requests[s].pc = "idle"
NothingRuns == NoRoute /\ recut.pc = "idle"

-----------------------------------------------------------------------------
(* Around the routes. *)

Arrive ==
    /\ Spend("arrive") /\ clock < MaxTime
    /\ clock' = clock + 1
    /\ frames' = With(frames, Last(Live) + 1, [ts |-> clock + 1, box |-> "b1"])
    /\ UNCHANGED <<items, files, flags, stored, requests, recut, load>>

(* Mutant: the rows of an evicted frame go with it. *)
EvictedItemsToo == {r \in items : r.fid # Min(Live)}

(* _evict_locked and clear leave dataset_items and the crops alone. *)
KeptItems == items

(* An eviction ends an add and leaves the frame added, but (race) where the *)
(* cap holds not even that one, or it and all that go are without motion.   *)
NewestStays == load.race \/ Last(Live) # Min(Live)

Evict ==
    /\ Live # {} /\ NewestStays /\ Spend("evict")
    /\ frames' = [i \in Live \ {Min(Live)} |-> frames[i]]
    /\ items' = KeptItems
    /\ UNCHANGED <<clock, files, flags, stored, requests, recut, load>>

Clear ==
    /\ load.race \/ NoRoute
    /\ Live # {} /\ Spend("clear")
    /\ frames' = <<>> /\ flags' = {}
    /\ items' = KeptItems
    /\ UNCHANGED <<clock, files, stored, requests, recut, load>>

(* clear_analysis and a new sweep: the detector puts the box elsewhere. *)
Redetect(i) ==
    /\ frames[i].box = "b1" /\ Spend("redetect")
    /\ frames' = [frames EXCEPT ![i].box = "b2"]
    /\ UNCHANGED <<clock, items, files, flags, stored, requests, recut, load>>

SetGeometry(value) ==
    /\ value # stored /\ Spend("setting")
    /\ stored' = value
    /\ UNCHANGED <<frames, clock, items, files, flags, requests, recut, load>>

Crash ==
    /\ ~NothingRuns /\ Spend("fault")
    /\ requests' = [s \in Slots |-> Idle] /\ recut' = NoJob
    /\ UNCHANGED <<frames, clock, items, files, flags, stored, load>>

-----------------------------------------------------------------------------
(* The label routes.  wants holds what the client sends: the frames it was  *)
(* shown, each with its box; shown is history, the frames themselves.       *)

Request(op, kind, cat, S) ==
    [pc |-> IF op \in {"relabel", "undo"} THEN "delete" ELSE IF op = "ignore" THEN "add"
            ELSE IF op = "confirm" THEN "span" ELSE "read",
     op |-> op, kind |-> kind, cat |-> cat,
     wants |-> [i \in S |-> frames[i].box], shown |-> {<<i, frames[i].ts>> : i \in S},
     geometry |-> "legacy", sources |-> <<>>, removed |-> {},
     rows |-> IF op = "ignore"
              THEN {[fid |-> i, kind |-> kind, cat |-> NULL, box |-> NULL, crop |-> NULL,
                     geometry |-> "legacy"] : i \in S}
              ELSE {}]

(* The frames an op is offered for.  A stale client repeats a label. *)
Offered(op) ==
    IF op \in {"relabel", "undo"} THEN Live \ Undecided
    ELSE IF load.stale /\ op # "confirm" THEN Live ELSE Undecided

Ask(s, op, decision, S) ==
    /\ requests[s].pc = "idle" /\ (load.alone => NothingRuns)
    /\ \A t \in Slots : t < s => requests[t].pc # "idle"
    /\ Spend("request")
    /\ S # {} /\ S \subseteq Offered(op)
    /\ requests' = [requests EXCEPT ![s] = Request(op, decision.kind, decision.cat, S)]
    /\ UNCHANGED <<frames, clock, items, files, flags, stored, recut, load>>

Asks(s) ==
    \/ \E op \in load.ops \cap {"label", "relabel"}, d \in load.decisions, S \in load.spans : Ask(s, op, d, S)
    \/ \E op \in load.ops \cap {"undo", "ignore"}, S \in load.spans :
            Ask(s, op, [kind |-> "ignored", cat |-> NULL], S)
    \/ "confirm" \in load.ops /\ Ask(s, "confirm", [kind |-> "identified", cat |-> "tom"], Undecided)

At(s, pc) == requests[s].pc = pc
Goto(s, pc) == requests' = [requests EXCEPT ![s].pc = pc]
Done(s) == requests' = [requests EXCEPT ![s] = Idle]

(* api_label_visit reads the undecided frames of the span afresh. *)
ReadSpan(s) ==
    /\ At(s, "span")
    /\ requests' = [requests EXCEPT ![s].pc = "read", ![s].wants = [i \in Undecided |-> frames[i].box],
                                    ![s].shown = {<<i, frames[i].ts>> : i \in Undecided}]
    /\ UNCHANGED <<frames, clock, items, files, flags, stored, recut, budget, load>>

(* delete_dataset_items matches the frame id alone. *)
DeleteRows(s) ==
    /\ At(s, "delete")
    /\ LET doomed == {r \in items : r.fid \in DOMAIN requests[s].wants}
       IN /\ items' = items \ doomed
          /\ requests' = [requests EXCEPT ![s].pc = "unlink", ![s].removed = doomed]
    /\ UNCHANGED <<frames, clock, files, flags, stored, recut, budget, load>>

(* Mutant: only the file the row names goes. *)
VariantsNamedOnly(row) == {p \in DOMAIN files : p = row.crop}

(* _delete_crop_files: the file of every geometry in the row's cat folder. *)
Variants(row) ==
    IF row.crop = NULL THEN {}
    ELSE {p \in DOMAIN files : p.cat = row.crop.cat /\ p.fid = row.crop.fid /\ p.ts = row.crop.ts}

Unlink(s) ==
    /\ At(s, "unlink")
    /\ files' = [p \in DOMAIN files \ UNION {Variants(r) : r \in requests[s].removed} |-> files[p]]
    /\ IF requests[s].op = "undo" THEN Done(s) ELSE Goto(s, "read")
    /\ UNCHANGED <<frames, clock, items, flags, stored, recut, budget, load>>

(* _commit_label reads the geometry and frame_sources once.  not_cat cuts   *)
(* no crop and goes straight to its rows.                                   *)
ReadSources(s) ==
    /\ At(s, "read")
    /\ LET q == requests[s]
           wanted == DOMAIN q.wants
       IN IF q.kind = "not_cat"
          THEN requests' = [requests EXCEPT ![s].pc = "add", ![s].rows =
                    {[fid |-> i, kind |-> q.kind, cat |-> NULL, box |-> NULL, crop |-> NULL,
                      geometry |-> "legacy"] : i \in wanted}]
          ELSE requests' = [requests EXCEPT ![s].pc = "cut", ![s].geometry = StoredGeometry,
                    ![s].sources = [i \in wanted \cap Live |-> frames[i].ts]]
    /\ UNCHANGED <<frames, clock, items, files, flags, stored, recut, budget, load>>

(* A frame's JPEG is there while its row is. *)
HasJpeg(i, ts) == i \in Live /\ frames[i].ts = ts

(* Mutant: the row is recorded although its crop could not be cut. *)
RecordsUncut(cut, made, row) == made \cup {row}

Records(cut, made, row) == IF cut THEN made \cup {row} ELSE made

(* The next frame: its crop is written, unless its JPEG is gone or the cut  *)
(* fails, and only then its row prepared.                                   *)
CutFrame(s) ==
    LET q == requests[s]
        i == Min(DOMAIN q.sources)
        path == Path(q.cat, q.geometry, i, q.sources[i])
        row == [fid |-> i, kind |-> q.kind, cat |-> q.cat, box |-> q.wants[i], crop |-> path,
                geometry |-> q.geometry]
        Takes(cut) ==
            /\ requests' = [requests EXCEPT ![s].rows = Records(cut, @, row),
                                            ![s].sources = [j \in DOMAIN @ \ {i} |-> @[j]]]
            /\ files' = IF cut THEN With(files, path, [ts |-> q.sources[i], box |-> q.wants[i],
                                                     margin |-> Margin(q.geometry)])
                        ELSE files
    IN  /\ At(s, "cut") /\ DOMAIN q.sources # {}
        /\ \/ HasJpeg(i, q.sources[i]) /\ Takes(TRUE) /\ UNCHANGED budget
           \/ ~HasJpeg(i, q.sources[i]) /\ Takes(FALSE) /\ UNCHANGED budget
           \/ HasJpeg(i, q.sources[i]) /\ Takes(FALSE) /\ Spend("fault")
        /\ UNCHANGED <<frames, clock, items, flags, stored, recut, load>>

CutAll(s) ==
    /\ At(s, "cut") /\ requests[s].sources = <<>>
    /\ Goto(s, "add")
    /\ UNCHANGED <<frames, clock, items, files, flags, stored, recut, budget, load>>

(* add_dataset_items: recv_ts is resolved at insert; a frame no longer live *)
(* and a pair already there are skipped.                                    *)
Fresh(row) == row.fid \in Live /\ RowOf(row.fid) = {}
Inserted(made) ==
    LET fresh == {r \in made : Fresh(r)}
        Rank(r) == Cardinality({q \in fresh : q.fid <= r.fid})
    IN  {[id |-> Last({r2.id : r2 \in items}) + Rank(r), ts |-> frames[r.fid].ts, fid |-> r.fid,
          kind |-> r.kind, cat |-> r.cat, box |-> r.box, crop |-> r.crop, geometry |-> r.geometry]
            : r \in fresh}

(* Mutant: the mark goes although nothing was recorded. *)
AfterAddAlways(q, new) == IF q.op = "confirm" THEN "flags" ELSE "idle"

AfterAdd(q, new) == IF q.op = "confirm" /\ new # {} THEN "flags" ELSE "idle"

AddRows(s) ==
    /\ At(s, "add")
    /\ LET new == Inserted(requests[s].rows)
       IN /\ items' = items \cup new
          /\ IF AfterAdd(requests[s], new) = "idle" THEN Done(s) ELSE Goto(s, "flags")
    /\ UNCHANGED <<frames, clock, files, flags, stored, recut, budget, load>>

-----------------------------------------------------------------------------
(* label_flags.  A span is [lo, hi]. *)

Overlaps(a, b) == a.hi >= b.lo /\ a.lo <= b.hi
SpanOf(S) == [lo |-> Min(S), hi |-> Max(S)]

(* add_label_flag: nothing without a live frame, nothing new over a flag. *)
Flag(lo, hi) ==
    /\ Spend("mark")
    /\ \E i \in Live : lo <= i /\ i <= hi
    /\ ~\E f \in flags : Overlaps(f, [lo |-> lo, hi |-> hi])
    /\ flags' = flags \cup {[id |-> Last({f.id : f \in flags}) + 1, lo |-> lo, hi |-> hi]}
    /\ UNCHANGED <<frames, clock, items, files, stored, requests, recut, load>>

Unmark(lo, hi) ==
    /\ Spend("unmark")
    /\ flags' = {f \in flags : ~Overlaps(f, [lo |-> lo, hi |-> hi])}
    /\ UNCHANGED <<frames, clock, items, files, stored, requests, recut, load>>

Dismiss(f) ==
    /\ Spend("unmark")
    /\ flags' = flags \ {f}
    /\ UNCHANGED <<frames, clock, items, files, stored, requests, recut, load>>

(* api_label_visit, after a recorded write: every flag over the span. *)
ClearFlags(s) ==
    /\ At(s, "flags")
    /\ flags' = {f \in flags : ~Overlaps(f, SpanOf({pair[1] : pair \in requests[s].shown}))}
    /\ Done(s)
    /\ UNCHANGED <<frames, clock, items, files, stored, recut, budget, load>>

-----------------------------------------------------------------------------
(* The re-cut job. *)

(* _route: a file at the target's path, else one of the same margin, else   *)
(* the frame; rows that can move no way stay.                               *)
Moves(row, target) ==
    LET To(g) == Path(row.crop.cat, g, row.fid, row.ts)
        twins == {g \in Twins(target) \ {target} : To(g) \in DOMAIN files}
        Plan(how, from) == {[row |-> row, how |-> how, from |-> from, to |-> To(target)]}
    IN  IF row.geometry = target THEN {}
        ELSE IF To(target) \in DOMAIN files THEN Plan("relink", NULL)
        ELSE IF twins # {} THEN {CHOOSE m \in UNION {Plan("copy", To(g)) : g \in twins} : TRUE}
        ELSE IF HasJpeg(row.fid, row.ts) THEN Plan("recut", NULL)
        ELSE {}

(* start_recut; the worker reads the plan when it runs. *)
StartRecut(target) ==
    /\ recut.pc = "idle" /\ (load.alone => NothingRuns) /\ Spend("recut")
    /\ recut' = [pc |-> "plan", target |-> target, todo |-> {}, moved |-> {}, taken |-> 0, stop |-> FALSE]
    /\ UNCHANGED <<frames, clock, items, files, flags, stored, requests, load>>

PlanRecut ==
    /\ recut.pc = "plan"
    /\ recut' = [recut EXCEPT !.pc = "move",
                    !.todo = UNION {Moves(r, recut.target) : r \in {r2 \in items : r2.crop # NULL}}]
    /\ UNCHANGED <<frames, clock, items, files, flags, stored, requests, budget, load>>

NextMove == CHOOSE m \in recut.todo : \A n \in recut.todo : m.row.id <= n.row.id

(* The pixels of one move can be put in place. *)
Movable(m) ==
    CASE m.how = "relink" -> m.to \in DOMAIN files
      [] m.how = "copy"   -> m.from \in DOMAIN files
      [] m.how = "recut"  -> HasJpeg(m.row.fid, m.row.ts)

(* Mutant: the new crop is cut as the old one was. *)
PixelsOldMargin(m) ==
    IF m.how = "copy" THEN files[m.from]
    ELSE [ts |-> m.row.ts, box |-> m.row.box, margin |-> Margin(m.row.geometry)]

Pixels(m) ==
    IF m.how = "copy" THEN files[m.from]
    ELSE [ts |-> m.row.ts, box |-> m.row.box, margin |-> Margin(recut.target)]

(* _cut_one, _copy_one or a relink's check, for one row of the batch. *)
MoveOne ==
    /\ recut.pc = "move" /\ recut.todo # {} /\ recut.taken < Batch
    /\ LET m == NextMove
           Takes(moves) ==
                recut' = [recut EXCEPT !.todo = @ \ {m}, !.taken = @ + 1,
                                       !.moved = IF moves THEN @ \cup {m} ELSE @]
       IN \/ /\ Movable(m) /\ Takes(TRUE) /\ UNCHANGED budget
             /\ files' = IF m.how = "relink" THEN files ELSE With(files, m.to, Pixels(m))
          \/ ~Movable(m) /\ Takes(FALSE) /\ UNCHANGED <<files, budget>>
          \/ m.how # "relink" /\ Takes(FALSE) /\ Spend("fault") /\ UNCHANGED files
    /\ UNCHANGED <<frames, clock, items, flags, stored, requests, load>>

(* update_dataset_geometry: one transaction, each row compared and swapped. *)
Swaps(m) == {r \in items : r.id = m.row.id /\ r.crop = m.row.crop /\ r.box = m.row.box}

WriteBatch ==
    /\ recut.pc = "move" /\ recut.taken > 0 /\ (recut.taken = Batch \/ recut.todo = {})
    /\ LET swapped(r) == {m \in recut.moved : r \in Swaps(m)}
       IN items' = {r \in items : swapped(r) = {}}
                   \cup UNION {{[r EXCEPT !.crop = m.to, !.geometry = recut.target] : m \in swapped(r)}
                                : r \in items}
    /\ recut' = IF recut.stop \/ recut.todo = {} THEN NoJob
                ELSE [recut EXCEPT !.moved = {}, !.taken = 0]
    /\ UNCHANGED <<frames, clock, files, flags, stored, requests, budget, load>>

NothingToMove ==
    /\ recut.pc = "move" /\ recut.taken = 0 /\ recut.todo = {}
    /\ recut' = NoJob
    /\ UNCHANGED <<frames, clock, items, files, flags, stored, requests, budget, load>>

CancelRecut ==
    /\ recut.pc \in {"plan", "move"} /\ ~recut.stop /\ Spend("cancel")
    /\ recut' = [recut EXCEPT !.stop = TRUE]
    /\ UNCHANGED <<frames, clock, items, files, flags, stored, requests, load>>

-----------------------------------------------------------------------------

Around ==
    \/ Arrive \/ Evict \/ Clear \/ Crash
    \/ \E i \in Live : Redetect(i)
    \/ \E value \in load.settings : SetGeometry(value)

Route(s) ==
    \/ Asks(s) \/ ReadSpan(s) \/ DeleteRows(s) \/ Unlink(s) \/ ReadSources(s)
    \/ CutFrame(s) \/ CutAll(s) \/ AddRows(s) \/ ClearFlags(s)

Marks ==
    \/ \E lo, hi \in 1..load.frames : lo <= hi /\ (Flag(lo, hi) \/ Unmark(lo, hi))
    \/ \E f \in flags : Dismiss(f)

Recutting ==
    \/ \E target \in load.targets : StartRecut(target)
    \/ PlanRecut \/ MoveOne \/ WriteBatch \/ NothingToMove \/ CancelRecut

LabelsNext == Around \/ (\E s \in Slots : Route(s)) \/ Marks \/ Recutting

LabelsSpec == LabelsInit /\ [][LabelsNext]_labelVars

-----------------------------------------------------------------------------

FrameIds == 1..MaxTime
Boxes == {"b1", "b2"}
Cats == {NULL, "tom"} \cup UNION {{d.cat : d \in l.decisions} : l \in Loads}
Paths == [cat : Cats, geometry : Geometries, fid : FrameIds, ts : FrameIds]
ASSUME NullAssumption == NULL \notin Paths

Prepared == [fid : FrameIds, kind : Kinds, cat : Cats, box : Boxes \cup {NULL},
             crop : Paths \cup {NULL}, geometry : Geometries]
Items == [id : Nat, ts : FrameIds, fid : FrameIds, kind : Kinds, cat : Cats, box : Boxes \cup {NULL},
          crop : Paths \cup {NULL}, geometry : Geometries]
Planned == [row : Items, how : {"relink", "copy", "recut"}, from : Paths \cup {NULL}, to : Paths]
ByFrame(B) == UNION {[S -> B] : S \in SUBSET FrameIds}
Routes == [pc : {"delete", "unlink", "span", "read", "cut", "add", "flags"}, op : Ops, kind : Kinds,
           cat : Cats, wants : ByFrame(Boxes), shown : SUBSET (FrameIds \X FrameIds),
           geometry : Geometries, sources : ByFrame(FrameIds), removed : SUBSET Items,
           rows : SUBSET Prepared]
Jobs == [pc : {"plan", "move"}, target : Geometries, todo : SUBSET Planned, moved : SUBSET Planned,
         taken : Nat, stop : BOOLEAN]

LabelsTypeOK ==
    /\ clock \in 0..MaxTime
    /\ Live \subseteq FrameIds /\ \A i \in Live : frames[i] \in [ts : FrameIds, box : Boxes]
    /\ items \subseteq Items
    /\ DOMAIN files \subseteq Paths
    /\ \A p \in DOMAIN files : files[p] \in [ts : FrameIds, box : Boxes \cup {NULL}, margin : {0, 10}]
    /\ flags \subseteq [id : Nat, lo : Nat, hi : Nat]
    /\ requests \in [Slots -> Routes \cup {Idle}]
    /\ recut \in Jobs \cup {NoJob}
    /\ budget \in [Budgeted -> Nat] /\ load \in Loads

(* A build skips a missing file in silence and nothing can tell pixels cut  *)
(* from another box: the file a row names is on disk, cut from the row's    *)
(* frame, at its box and the margin of its geometry, however it came there  *)
(* (cut, copied or found by a relink; the ordering contracts of             *)
(* _commit_label, _delete_crop_files and recut).                            *)
CropIsTheRows ==
    \A r \in items : r.crop # NULL =>
        /\ r.crop \in DOMAIN files
        /\ files[r.crop] = [ts |-> r.ts, box |-> r.box, margin |-> Margin(r.geometry)]

(* A human's decision about a frame is lost only to an undo or re-label of  *)
(* that very frame: not to eviction, a wipe, a crash, a second labeller or  *)
(* a re-cut.                                                                *)
Decision(r) == <<r.fid, r.ts, r.kind, r.cat, r.box>>
DurableLabels ==
    [][\A r \in items :
            \/ \E r2 \in items' : Decision(r2) = Decision(r)
            \/ \E s \in Slots : requests[s].pc = "delete" /\ <<r.fid, r.ts>> \in requests[s].shown]_labelVars

(* The household's mark outlives a tap that recorded nothing: without an    *)
(* un-mark or a wipe, a flag goes only when a frame of a span over it was   *)
(* labelled.                                                                *)
MarkedUntilLabelled ==
    [][\A f \in flags :
            \/ f \in flags' \/ frames' = <<>> \/ budget'["unmark"] < budget["unmark"]
            \/ \E r \in items : \E s \in Slots :
                    requests[s].pc = "flags" /\ <<r.fid, r.ts>> \in requests[s].shown]_labelVars

=============================================================================
