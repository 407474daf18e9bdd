----------------------------- MODULE FrameStore -----------------------------
(***************************************************************************)
(* The bounded frame store (compute/collection/store.py, class Store): a   *)
(* SQLite index of frames, one JPEG per row on disk, counters and the      *)
(* preferential-eviction frontier mirrored in memory, all under one lock.  *)
(*                                                                         *)
(* An operation that touches files is split where something outside the    *)
(* lock can see it or a failure can cut it: the file is written, the row   *)
(* inserted, each victim deleted, the frontier marked, the transaction     *)
(* committed.  phase tells where the holder of the lock is; the lock is    *)
(* free when it is "idle".  work is what the connection sees, db what it   *)
(* has committed, durable what of it a power cut spares.                   *)
(*                                                                         *)
(* A frame is named by its shot, the order of its arrival: it stands for   *)
(* recv_ts and for the path built from it.  An id is a SQLite rowid: the   *)
(* largest one in use plus one, so the id of a deleted frame comes back.   *)
(* stripped is a history variable inside the database: the ids dropped by  *)
(* the preferential path since the last clear.                             *)
(***************************************************************************)
EXTENDS Integers, FiniteSets, FiniteSetsExt, Functions

CONSTANTS
    MaxShots,     \* bound: frames that arrive in a behaviour
    Sizes,        \* bytes a JPEG may have
    MaxBytes,     \* max_bytes, the retention cap
    BatchSize,    \* rows of one purge batch
    Stages,       \* the operating stages an operator may choose
    Worlds        \* what a behaviour may hold, records of
                  \* clients: "sweep", "purge", "clear", "orphans" beside the collector
                  \* faults:  "write", "commit", "crash", "power"

ASSUME MaxShotsAssumption == MaxShots \in Nat
ASSUME SizesAssumption == Sizes \subseteq Nat \ {0}
ASSUME MaxBytesAssumption == MaxBytes \in Nat
ASSUME BatchSizeAssumption == BatchSize \in Nat \ {0}
ASSUME StagesAssumption ==
    "tuning" \in Stages /\ Stages \subseteq {"tuning", "collecting", "running"}

VARIABLES
    work, db, durable,           \* rows, verdicts, frontier, stage, stripped
    files,                       \* shots whose JPEG is on disk
    total, count, motionCount,   \* _total_bytes, _count, _motion_count
    frontier,                    \* _nonmotion_evicted_through
    phase, incoming, doomed,     \* the operation that holds the lock
    shots,                       \* frames arrived so far
    tickets,                     \* frames a sweep has read and not yet written
    candidates,                  \* files the orphan walk has yielded
    world                        \* the one of Worlds this behaviour is in

base     == <<work, db, durable>>
counters == <<total, count, motionCount>>
lock     == <<phase, incoming, doomed>>
outside  == <<shots, tickets, candidates>>
vars == <<work, db, durable, files, total, count, motionCount, frontier,
          phase, incoming, doomed, shots, tickets, candidates, world>>

Shots == 1..MaxShots
Frame == [shot : Shots, bytes : Sizes, motion : BOOLEAN]
NoFrame == [shot |-> 0, bytes |-> 0, motion |-> FALSE]

KeepsAll(stage) == stage = "tuning"

Bytes(rows) == MapThenSumSet(LAMBDA i : rows[i].bytes, DOMAIN rows)
MotionRows(rows) == {i \in DOMAIN rows : rows[i].motion}
FilesOf(rows) == {rows[i].shot : i \in DOMAIN rows}
Without(rows, S) == [i \in DOMAIN rows \ S |-> rows[i]]
NewId(rows) == IF DOMAIN rows = {} THEN 1 ELSE Max(DOMAIN rows) + 1

Empty == [i \in {} |-> NoFrame]
Fresh == [rows |-> Empty, verdicts |-> {}, frontier |-> 0,
          stage |-> "tuning", stripped |-> {}]

Init ==
    /\ work = Fresh /\ db = Fresh /\ durable = Fresh
    /\ files = {}
    /\ total = 0 /\ count = 0 /\ motionCount = 0
    /\ frontier = 0
    /\ phase = "idle" /\ incoming = NoFrame /\ doomed = {}
    /\ shots = 0
    /\ tickets = {} /\ candidates = {}
    /\ world \in Worlds

(* SELECT SUM(bytes), COUNT, SUM(motion) over the rows of the database d. *)
Resync(d) ==
    /\ total' = Bytes(d.rows)
    /\ count' = Cardinality(DOMAIN d.rows)
    /\ motionCount' = Cardinality(MotionRows(d.rows))

Release == phase' = "idle" /\ incoming' = NoFrame /\ doomed' = {}

-----------------------------------------------------------------------------
(* Eviction's victims: outside tuning non-motion frames first, by recv_ts,  *)
(* then every frame by id; each one while the total is still over the cap.  *)

Before(rows, stage, i, k) ==
    IF KeepsAll(stage) \/ (rows[i].motion /\ rows[k].motion) THEN i < k
    ELSE IF rows[i].motion = rows[k].motion THEN rows[i].shot < rows[k].shot
    ELSE ~rows[i].motion

(* Mutant: the fallback to plain oldest-first is lost outside tuning. *)
VictimsNonmotionOnly(rows, stage, bytes) ==
    {i \in DOMAIN rows :
       /\ KeepsAll(stage) \/ ~rows[i].motion
       /\ bytes - Bytes([k \in {x \in DOMAIN rows : Before(rows, stage, x, i)} |-> rows[k]])
             > MaxBytes}

(* Mutant: the stage is not consulted, victims are the smallest ids. *)
VictimsOldestFirst(rows, stage, bytes) ==
    {i \in DOMAIN rows :
       bytes - Bytes([k \in {x \in DOMAIN rows : x < i} |-> rows[k]]) > MaxBytes}

Victims(rows, stage, bytes) ==
    {i \in DOMAIN rows :
       bytes - Bytes([k \in {x \in DOMAIN rows : Before(rows, stage, x, i)} |-> rows[k]])
          > MaxBytes}

-----------------------------------------------------------------------------
(* add: file, row, victims, frontier, commit. *)

AddWrite(bytes, motion) ==
    /\ phase = "idle" /\ shots < MaxShots
    /\ shots' = shots + 1
    /\ incoming' = [shot |-> shots + 1, bytes |-> bytes, motion |-> motion]
    /\ files' = files \cup {shots + 1}
    /\ phase' = "written"
    /\ UNCHANGED <<world, base, counters, frontier, doomed, tickets, candidates>>

AddInsert ==
    /\ phase = "written"
    /\ LET id   == NewId(work.rows)
           rows == [i \in DOMAIN work.rows \cup {id} |->
                      IF i = id THEN incoming ELSE work.rows[i]]
       IN /\ work' = [work EXCEPT !.rows = rows]
          /\ total' = total + incoming.bytes
          /\ doomed' = Victims(rows, work.stage, total + incoming.bytes)
    /\ count' = count + 1
    /\ motionCount' = motionCount + (IF incoming.motion THEN 1 ELSE 0)
    /\ phase' = "evicting"
    /\ UNCHANGED <<world, db, durable, files, frontier, incoming, outside>>

(* _delete_frame_locked: file, row and verdicts go, the counters follow. *)

DeleteFrame(i) ==
    LET f == work.rows[i] IN
    /\ files' = files \ {f.shot}
    /\ work' = [work EXCEPT !.rows = Without(@, {i}),
                            !.verdicts = {v \in @ : v.id # i},
                            !.stripped = IF f.motion \/ KeepsAll(work.stage) \/ phase # "evicting"
                                         THEN @ ELSE @ \cup {i}]
    /\ total' = total - f.bytes
    /\ count' = count - 1
    /\ motionCount' = motionCount - (IF f.motion THEN 1 ELSE 0)

EvictOne(i) ==
    /\ phase = "evicting"
    /\ i \in doomed
    /\ \A k \in doomed \ {i} : Before(work.rows, work.stage, i, k)
    /\ DeleteFrame(i)
    /\ doomed' = doomed \ {i}
    /\ UNCHANGED <<world, db, durable, frontier, phase, incoming, outside>>

(* The marker advances to the highest id the preferential path dropped. *)
MarkFrontier ==
    /\ phase = "evicting" /\ doomed = {}
    /\ LET lost == work.stripped \ db.stripped
           mark == IF lost = {} THEN 0 ELSE Max(lost)
       IN IF mark > frontier
          THEN frontier' = mark /\ work' = [work EXCEPT !.frontier = mark]
          ELSE UNCHANGED <<frontier, work>>
    /\ phase' = "marked"
    /\ UNCHANGED <<world, db, durable, files, counters, incoming, doomed, outside>>

Commit ==
    /\ phase = "marked" \/ (phase = "purging" /\ doomed = {})
    /\ db' = work
    /\ Release
    /\ UNCHANGED <<world, work, durable, files, counters, frontier, outside>>

-----------------------------------------------------------------------------
(* A failure inside add or a purge batch: roll back, drop the file this add *)
(* wrote, resync the counters, and for add the frontier.                    *)

(* Mutant: the frontier in memory is left ahead of the one rolled back. *)
RecoverKeepsFrontier ==
    /\ work' = db
    /\ files' = files \ {incoming.shot}
    /\ UNCHANGED frontier
    /\ Resync(db)

(* Mutant: no rollback, the half-done transaction stays on the connection. *)
RecoverWithoutRollback ==
    /\ files' = files \ {incoming.shot}
    /\ frontier' = IF incoming = NoFrame THEN frontier ELSE db.frontier
    /\ UNCHANGED work
    /\ Resync(work)

Recover ==
    /\ work' = db
    /\ files' = files \ {incoming.shot}
    /\ frontier' = IF incoming = NoFrame THEN frontier ELSE db.frontier
    /\ Resync(db)

(* The disk is full: the file, or the INSERT, fails before any victim goes. *)
WriteFails ==
    /\ "write" \in world.faults
    /\ phase = "written"
    /\ Recover /\ Release
    /\ UNCHANGED <<world, db, durable, outside>>

(* A statement or the COMMIT fails after some victims were unlinked. *)
CommitFails ==
    /\ "commit" \in world.faults
    /\ phase \in {"evicting", "marked", "purging"}
    /\ Recover /\ Release
    /\ UNCHANGED <<world, db, durable, outside>>

-----------------------------------------------------------------------------
(* purge_nonmotion_batch: the oldest non-motion frames up to an id. *)

PurgeBatch(until) ==
    LET window == {i \in DOMAIN work.rows : ~work.rows[i].motion /\ i <= until}
    IN {i \in window : Cardinality({k \in window : k < i}) < BatchSize}

PurgeStart(until) ==
    /\ "purge" \in world.clients
    /\ phase = "idle"
    /\ PurgeBatch(until) # {}
    /\ doomed' = PurgeBatch(until)
    /\ phase' = "purging"
    /\ UNCHANGED <<world, base, files, counters, frontier, incoming, outside>>

PurgeOne(i) ==
    /\ phase = "purging"
    /\ i \in doomed /\ \A k \in doomed : i <= k
    /\ DeleteFrame(i)
    /\ doomed' = doomed \ {i}
    /\ UNCHANGED <<world, db, durable, frontier, phase, incoming, outside>>

-----------------------------------------------------------------------------
(* clear: every file, then every frame-keyed row, then the memory mirrors. *)

ClearStart ==
    /\ "clear" \in world.clients
    /\ phase = "idle"
    /\ doomed' = DOMAIN work.rows
    /\ phase' = "clearing"
    /\ UNCHANGED <<world, base, files, counters, frontier, incoming, outside>>

ClearUnlink(i) ==
    /\ phase = "clearing" /\ i \in doomed
    /\ files' = files \ {work.rows[i].shot}
    /\ doomed' = doomed \ {i}
    /\ UNCHANGED <<world, base, counters, frontier, phase, incoming, outside>>

(* Mutant: the frontier key is kept with the rest of the settings. *)
ClearCommitKeepsFrontier ==
    /\ phase = "clearing" /\ doomed = {}
    /\ work' = [Fresh EXCEPT !.stage = work.stage, !.frontier = work.frontier]
    /\ db' = work'
    /\ total' = 0 /\ count' = 0 /\ motionCount' = 0
    /\ Release
    /\ UNCHANGED <<world, durable, files, frontier, outside>>

ClearCommit ==
    /\ phase = "clearing" /\ doomed = {}
    /\ work' = [Fresh EXCEPT !.stage = work.stage]
    /\ db' = work'
    /\ total' = 0 /\ count' = 0 /\ motionCount' = 0
    /\ frontier' = 0
    /\ Release
    /\ UNCHANGED <<world, durable, files, outside>>

SetStage(s) ==
    /\ phase = "idle" /\ work.stage # s
    /\ work' = [work EXCEPT !.stage = s]
    /\ db' = work'
    /\ UNCHANGED <<world, durable, files, counters, frontier, lock, outside>>

-----------------------------------------------------------------------------
(* A sweep lists a frame under the lock, decodes it outside, and writes its *)
(* verdict under the lock again, if the id is still there.                  *)

Read(i) ==
    /\ "sweep" \in world.clients
    /\ phase = "idle" /\ i \in DOMAIN work.rows
    /\ tickets' = tickets \cup {[id |-> i, shot |-> work.rows[i].shot]}
    /\ UNCHANGED <<world, base, files, counters, frontier, lock, shots, candidates>>

(* Mutant: INSERT without the WHERE EXISTS guard. *)
WriteVerdictUnguarded(t) ==
    /\ phase = "idle" /\ t \in tickets
    /\ work' = [work EXCEPT !.verdicts = {v \in @ : v.id # t.id} \cup {t}]
    /\ db' = work'
    /\ tickets' = tickets \ {t}
    /\ UNCHANGED <<world, durable, files, counters, frontier, lock, shots, candidates>>

WriteVerdict(t) ==
    /\ phase = "idle" /\ t \in tickets
    /\ work' = IF t.id \in DOMAIN work.rows
               THEN [work EXCEPT !.verdicts = {v \in @ : v.id # t.id} \cup {t}]
               ELSE work
    /\ db' = work'
    /\ tickets' = tickets \ {t}
    /\ UNCHANGED <<world, durable, files, counters, frontier, lock, shots, candidates>>

-----------------------------------------------------------------------------
(* The orphan sweep walks the tree without the lock and deletes in batches  *)
(* under it, sparing the files a row refers to.                             *)

WalkFile(s) ==
    /\ "orphans" \in world.clients
    /\ phase # "down" /\ s \in files \ candidates
    /\ candidates' = candidates \cup {s}
    /\ UNCHANGED <<world, base, files, counters, frontier, lock, shots, tickets>>

(* Mutant: the candidates are deleted without asking the index again. *)
DeleteOrphansUnchecked ==
    /\ phase = "idle" /\ candidates # {}
    /\ files' = files \ candidates
    /\ candidates' = {}
    /\ UNCHANGED <<world, base, counters, frontier, lock, shots, tickets>>

DeleteOrphans ==
    /\ phase = "idle" /\ candidates # {}
    /\ files' = files \ {s \in candidates : s \notin FilesOf(work.rows)}
    /\ candidates' = {}
    /\ UNCHANGED <<world, base, counters, frontier, lock, shots, tickets>>

-----------------------------------------------------------------------------
(* Crashes and restarts.  A process that dies loses its open transaction; a *)
(* power cut also loses every commit since the last checkpoint of the WAL.  *)

Checkpoint ==
    /\ "power" \in world.faults /\ phase # "down" /\ durable # db
    /\ durable' = db
    /\ UNCHANGED <<world, work, db, files, counters, frontier, lock, outside>>

Die(d) ==
    /\ phase # "down"
    /\ phase' = "down" /\ incoming' = NoFrame /\ doomed' = {}
    /\ work' = d /\ db' = d /\ durable' = d
    /\ tickets' = {} /\ candidates' = {}
    /\ UNCHANGED <<world, files, counters, frontier, shots>>

Crash == "crash" \in world.faults /\ Die(db)

PowerCut == "power" \in world.faults /\ Die(durable)

Restart ==
    /\ phase = "down"
    /\ Resync(db)
    /\ frontier' = db.frontier
    /\ phase' = "idle"
    /\ UNCHANGED <<world, base, files, incoming, doomed, outside>>

-----------------------------------------------------------------------------
Ids == 1..MaxShots

Adding ==
    \/ \E b \in Sizes, m \in BOOLEAN : AddWrite(b, m)
    \/ AddInsert \/ MarkFrontier \/ Commit
    \/ \E i \in Ids : EvictOne(i)

Purging == \E i \in Ids : PurgeStart(i) \/ PurgeOne(i)

Clearing == ClearStart \/ ClearCommit \/ \E i \in Ids : ClearUnlink(i)

Sweeping == (\E i \in Ids : Read(i)) \/ (\E t \in tickets : WriteVerdict(t))

OrphanSweep == DeleteOrphans \/ \E s \in Shots : WalkFile(s)

Trouble == WriteFails \/ CommitFails \/ Crash \/ PowerCut \/ Checkpoint \/ Restart

Next ==
    \/ Adding \/ Purging \/ Clearing \/ Sweeping \/ OrphanSweep \/ Trouble
    \/ \E s \in Stages : SetStage(s)

Spec == Init /\ [][Next]_vars

-----------------------------------------------------------------------------
(* The store as its callers see it: what has been committed. *)
Index == INSTANCE FrameIndex WITH rows <- db.rows, saved <- durable.rows

-----------------------------------------------------------------------------
Ticket == [id : Ids, shot : Shots]
Base == [rows : UNION {[S -> Frame] : S \in SUBSET Ids}, verdicts : SUBSET Ticket,
         frontier : 0..MaxShots, stage : Stages, stripped : SUBSET Ids]

TypeOK ==
    /\ work \in Base /\ db \in Base /\ durable \in Base
    /\ files \in SUBSET Shots
    /\ total \in Nat /\ count \in Nat /\ motionCount \in Nat
    /\ frontier \in 0..MaxShots
    /\ phase \in {"idle", "written", "evicting", "marked", "purging", "clearing", "down"}
    /\ incoming \in Frame \cup {NoFrame}
    /\ doomed \in SUBSET Ids
    /\ shots \in 0..MaxShots
    /\ tickets \in SUBSET Ticket
    /\ candidates \in SUBSET Shots

(* What the memory mirrors, agrees with the database through adds,          *)
(* evictions, purges, failures, clears and restarts: the counters with the  *)
(* rows, the frontier with what the preferential path dropped since the     *)
(* last clear, both in memory and as a restart would load it.               *)
CountersExact ==
    phase # "down" =>
        /\ total = Bytes(work.rows)
        /\ count = Cardinality(DOMAIN work.rows)
        /\ motionCount = Cardinality(MotionRows(work.rows))

FrontierCovers ==
    phase = "idle" =>
        /\ frontier = db.frontier
        /\ db.frontier = IF db.stripped = {} THEN 0 ELSE Max(db.stripped)

MirrorsExact == CountersExact /\ FrontierCovers

(* At rest the store holds at most max_bytes of frames, whatever the stage. *)
UnderCap == phase = "idle" => Bytes(db.rows) <= MaxBytes

(* No verdict refers to a frame the index does not hold, and at rest no     *)
(* file outlives its row nor a row its file, as long as nothing fails after *)
(* the first file is unlinked.                                              *)
NothingOutlivesItsRow ==
    /\ \A v \in db.verdicts : v.id \in DOMAIN db.rows
    /\ phase = "idle" /\ world.faults \subseteq {"write"} => files = FilesOf(db.rows)

(* Outside tuning a frame with motion is evicted only when no frame without *)
(* motion is left; in tuning the victim is always the oldest row.           *)
VictimOrder ==
    [][phase = "evicting" /\ phase' = "evicting" =>
         \A i \in DOMAIN work.rows \ DOMAIN work'.rows :
             IF KeepsAll(work.stage)
             THEN \A k \in DOMAIN work.rows : i <= k
             ELSE work.rows[i].motion => MotionRows(work.rows) = DOMAIN work.rows]_vars

(* Every change of the committed index is one whole operation: nothing of a *)
(* failed or crashed one is ever kept, nothing of a successful one is lost. *)
ImplementsFrameIndex == Index!Spec

(* add's handler: a failure ANYWHERE in write, insert, evict "must leave    *)
(* the store consistent": every row still has its file.                     *)
RowsHaveFiles == phase = "idle" => FilesOf(db.rows) \subseteq files
=============================================================================
