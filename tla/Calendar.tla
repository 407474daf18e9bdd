----------------------------- MODULE Calendar -----------------------------
(***************************************************************************)
(* The memoized days of the tuning calendar (Store.tuning_calendar).  A    *)
(* request computes each local day of its window in several statements on  *)
(* a connection of its own, while the collector, the sweeps and the        *)
(* cleanup go on writing; a finished day is kept in calendar_days, and     *)
(* every write drops the days it may have changed, in its own transaction. *)
(*                                                                         *)
(* One action is one transaction: a statement of the request (which sees   *)
(* the last commit), or a whole write.  _cal_lock admits one request at a  *)
(* time.  A frame is [ts, motion]; a verdict is <<frame id, analyzer>>.    *)
(***************************************************************************)
EXTENDS Integers, FiniteSets, FiniteSetsExt, Functions

CONSTANTS
    Day, Gap,       \* _DAY_MS and _VISIT_GAP_MS
    KeepDays,       \* _CAL_KEEP_DAYS
    Analyzers,
    Windows,        \* what requests ask for: [since, until, off, want]
    Cap,            \* frames the store holds, in place of its byte cap
    Ranges,         \* bound: the id ranges that sweeps write and clear
    MaxTs,          \* bound: the clock
    StepsBack,      \* whether the wall clock may step back
    MaxWrites,      \* bound: writes
    MaxReads,       \* bound: requests
    None

ASSUME TimeAssumption == Day \in Nat \ {0} /\ Gap \in Nat /\ KeepDays \in Nat
ASSUME WindowsAssumption ==
    /\ Windows \subseteq [since : Int, until : Int, off : Int, want : SUBSET Analyzers]
    /\ \A w \in Windows : w.since <= w.until
ASSUME RangesAssumption == Ranges \subseteq Nat \X Nat /\ \A r \in Ranges : r[1] <= r[2]
ASSUME BoundsAssumption == MaxTs \in Nat /\ MaxWrites \in Nat /\ MaxReads \in Nat /\ Cap \in Nat

VARIABLES
    frames,         \* id -> [ts, motion]
    analysis,       \* verdicts
    calendar_days,  \* <<offset, day>> -> row
    request,        \* the request under way
    reads, writes,  \* counters
    quiet,          \* no write since the request under way began
    cut             \* a motion frame was evicted, or the clock stepped back

store == <<frames, analysis, writes, cut>>
vars == <<frames, analysis, calendar_days, request, reads, writes, quiet, cut>>

MaxRowId == MaxWrites + 1   \* above every id, as 2^63 - 1 is
Times == 0..MaxTs
Ids == DOMAIN frames

Midnight(k) == k[2] * Day - k[1]                      \* day_ms
InDay(k, ts) == ts \in Midnight(k)..(Midnight(k) + Day - 1)

Between(lo, hi) == {i \in Ids : frames[i].ts \in lo..hi}
Motion(S) == {i \in S : frames[i].motion}

(* ORDER BY recv_ts, the row id breaking ties.                              *)
Before(i, j) == frames[i].ts < frames[j].ts \/ (frames[i].ts = frames[j].ts /\ i < j)
Earliest(S) == CHOOSE i \in S : \A j \in S \ {i} : Before(i, j)

-----------------------------------------------------------------------------
(* A request: where it is, its window, the day under way with the span it   *)
(* reserved and the numbers so far, and the days it will return.            *)
Idle == [pc |-> "idle", window |-> None, day |-> 0, lo |-> 0, hi |-> 0,
         row |-> None, out |-> <<>>]

off == request.window.off
Key == <<off, request.day>>
LastDay == (request.window.until + off) \div Day
DayLo == Midnight(Key)
DayHi == Midnight(Key) + Day - 1
Lo == Max({DayLo, request.window.since})
Hi == Min({DayHi, request.window.until})
Whole == DayLo >= request.window.since /\ DayHi <= request.window.until

(* The request under way goes on with the next day, or returns.             *)
NextDay(out) ==
    request' = [request EXCEPT
        !.pc = IF request.day < LastDay THEN "memo" ELSE "returned",
        !.day = IF request.day < LastDay THEN @ + 1 ELSE @,
        !.lo = 0, !.hi = 0, !.row = None, !.out = out]

At(pc) == request.pc = pc

(* f with x set to v.                                                       *)
With(f, x, v) == [y \in DOMAIN f \cup {x} |-> IF y = x THEN v ELSE f[y]]

Without(keys) == Restrict(calendar_days, DOMAIN calendar_days \ keys)

(* _calendar_prune: days far outside the window, whatever their offset.     *)
Prune(first, last) ==
    {k \in DOMAIN calendar_days : k[2] < first - KeepDays \/ k[2] > last + KeepDays}

tuning_calendar(w) ==
    LET first == (w.since + w.off) \div Day
        last  == (w.until + w.off) \div Day
    IN  /\ At("idle") /\ reads < MaxReads
        /\ request' = [Idle EXCEPT !.pc = "memo", !.window = w, !.day = first]
        /\ calendar_days' = Without(Prune(first, last))
        /\ reads' = reads + 1
        /\ UNCHANGED <<quiet, store>>

(* The numbers the rows and the results have.                               *)
Numbers(row) == [since |-> row.since, until |-> row.until, frames |-> row.frames,
                 events |-> row.events, analyzed |-> Restrict(row.analyzed, request.window.want)]

Hit == /\ Key \in DOMAIN calendar_days
       /\ ~calendar_days[Key].pending
       /\ request.window.want \subseteq DOMAIN calendar_days[Key].analyzed

read_day ==
    /\ At("memo")
    /\ IF Hit
       THEN NextDay(With(request.out, request.day, Numbers(calendar_days[Key])))
       ELSE request' = [request EXCEPT !.pc = "first"]
    /\ UNCHANGED <<calendar_days, reads, quiet, store>>

(* _calendar_day_span, two seeks: the first frame from the day's start on,  *)
SeekFirst ==
    /\ At("first")
    /\ LET later == Between(Lo, MaxTs)
       IN  IF later = {} \/ frames[Earliest(later)].ts > Hi
           THEN NextDay(request.out)
           ELSE request' = [request EXCEPT !.pc = "after", !.lo = Earliest(later)]
    /\ UNCHANGED <<calendar_days, reads, quiet, store>>

(* Mutant: the second seek may find the day's own last frame.               *)
SeekAfterEnd ==
    /\ At("after")
    /\ LET later == Between(Hi, MaxTs)
       IN  request' = [request EXCEPT
             !.pc = IF Whole THEN "reserve" ELSE "count",
             !.hi = IF later = {} THEN MaxRowId ELSE Earliest(later) - 1]
    /\ UNCHANGED <<calendar_days, reads, quiet, store>>

(* and the first one after its end, or none.                                *)
SeekAfter ==
    /\ At("after")
    /\ LET later == Between(Hi + 1, MaxTs)
       IN  request' = [request EXCEPT
             !.pc = IF Whole THEN "reserve" ELSE "count",
             !.hi = IF later = {} THEN MaxRowId ELSE Earliest(later) - 1]
    /\ UNCHANGED <<calendar_days, reads, quiet, store>>

Reserve ==
    /\ At("reserve")
    /\ request' = [request EXCEPT !.pc = "count"]
    /\ calendar_days' = With(calendar_days, Key,
                              [since |-> request.lo, until |-> request.hi, frames |-> 0,
                               events |-> 0, analyzed |-> <<>>,
                               pending |-> TRUE, token |-> reads])
    /\ UNCHANGED <<reads, quiet, store>>

(* _calendar_compute, three scans.  A day emptied since the seek has no row *)
(* and leaves its reservation behind.                                       *)
Count ==
    /\ At("count")
    /\ LET ids == Between(Lo, Hi)
       IN  IF ids = {}
           THEN NextDay(request.out)
           ELSE request' = [request EXCEPT
                  !.pc = "events",
                  !.row = [since |-> Min(ids), until |-> Max(ids),
                           frames |-> Cardinality(ids), events |-> 0, analyzed |-> <<>>]]
    /\ UNCHANGED <<calendar_days, reads, quiet, store>>

(* A visit begins at a motion frame whose predecessor is too long ago; the  *)
(* scan starts one gap before the day.                                      *)
Starts(i, S) == \A j \in S : Before(j, i) => frames[i].ts - frames[j].ts > Gap

(* Mutant: the window's edge is taken for the end of a visit.               *)
EventsInDay(lo, hi) ==
    LET seen == Motion(Between(lo, hi))
    IN  Cardinality({i \in seen : Starts(i, seen)})

EventsIn(lo, hi) ==
    LET seen == Motion(Between(lo - Gap, hi))
    IN  Cardinality({i \in seen : frames[i].ts >= lo /\ Starts(i, seen)})

Events ==
    /\ At("events")
    /\ request' = [request EXCEPT !.pc = "coverage", !.row.events = EventsIn(Lo, Hi)]
    /\ UNCHANGED <<calendar_days, reads, quiet, store>>

(* Verdicts are counted over the day's ids.  A whole day whose ids stayed   *)
(* inside the reserved ones is to be stored.                                *)
Verdicts(a, lo, hi) == Cardinality({v \in analysis : v[1] \in lo..hi /\ v[2] = a})

(* Mutant: the check that the seeks were right is left out.                 *)
AnyWhole(row) == Whole

Storable(row) == Whole /\ request.lo <= row.since /\ row.until <= request.hi

Coverage ==
    /\ At("coverage")
    /\ LET row == [request.row EXCEPT
             !.analyzed = [a \in request.window.want |->
                             Verdicts(a, request.row.since, request.row.until)]]
           out == With(request.out, request.day, row)
       IN  IF Storable(row)
           THEN request' = [request EXCEPT !.pc = "store", !.row = row, !.out = out]
           ELSE NextDay(out)
    /\ UNCHANGED <<calendar_days, reads, quiet, store>>

Finished(row) == [since |-> row.since, until |-> row.until, frames |-> row.frames,
                  events |-> row.events, analyzed |-> row.analyzed,
                  pending |-> FALSE, token |-> None]

(* The UPDATE finds the reservation, if no write has dropped it.            *)
Reserved == /\ Key \in DOMAIN calendar_days
            /\ calendar_days[Key].pending /\ calendar_days[Key].token = reads

(* Mutant: INSERT OR REPLACE, as the reservation does.                      *)
StoreAnyway ==
    /\ At("store")
    /\ calendar_days' = With(calendar_days, Key, Finished(request.row))
    /\ NextDay(request.out)
    /\ UNCHANGED <<reads, quiet, store>>

Store ==
    /\ At("store")
    /\ calendar_days' =
         IF Reserved
         THEN [calendar_days EXCEPT ![Key] = Finished(request.row)]
         ELSE calendar_days
    /\ NextDay(request.out)
    /\ UNCHANGED <<reads, quiet, store>>

Return == At("returned") /\ request' = Idle /\ quiet' = TRUE
          /\ UNCHANGED <<calendar_days, reads, store>>

(* A statement raises, or the process dies: reservations stay behind.       *)
Abandon == ~At("idle") /\ ~At("returned") /\ request' = Idle /\ quiet' = TRUE
           /\ UNCHANGED <<calendar_days, reads, store>>

-----------------------------------------------------------------------------
(* Writes.  Each drops days in its own transaction.                         *)
(* Mutant: containment in place of intersection.                            *)
SpansWithin(lo, hi) ==
    {k \in DOMAIN calendar_days : calendar_days[k].since >= lo /\ calendar_days[k].until <= hi}

Spans(lo, hi) ==
    {k \in DOMAIN calendar_days : calendar_days[k].since <= hi /\ calendar_days[k].until >= lo}

(* Mutant: an insert looks for its id, as the other writes do.              *)
DaysOfNoId(ts) == Spans(MaxRowId, MaxRowId)

(* An insert has no id that a span could hold; its day is found by time.    *)
DaysOf(ts) == {k \in DOMAIN calendar_days : InDay(k, ts)}

Write == writes < MaxWrites /\ writes' = writes + 1 /\ quiet' = At("idle")
         /\ UNCHANGED <<request, reads>>

Kept(gone) == /\ frames' = Restrict(frames, Ids \ gone)
              /\ analysis' = {v \in analysis : v[1] \notin gone}

(* _evict_locked: the first frame by id, or, where a stage prefers to keep  *)
(* motion, the first without motion if there is one.                        *)
Victim(fs, prefer) ==
    LET still == {i \in DOMAIN fs : ~fs[i].motion}
        ts(i) == fs[i].ts
    IN  IF prefer /\ still # {}
        THEN CHOOSE i \in still : \A j \in still \ {i} : ts(i) < ts(j) \/ (ts(i) = ts(j) /\ i < j)
        ELSE Min(DOMAIN fs)

add(ts, motion, prefer) ==
    LET id   == Max(Ids \cup {0}) + 1
        fs   == With(frames, id, [ts |-> ts, motion |-> motion])
        back == \E i \in Ids : ts < frames[i].ts
        gone == IF Cardinality(DOMAIN fs) > Cap THEN {Victim(fs, prefer)} ELSE {}
    IN  /\ Write
        /\ StepsBack \/ ~back
        /\ frames' = Restrict(fs, DOMAIN fs \ gone)
        /\ analysis' = {v \in analysis : v[1] \notin gone}
        /\ calendar_days' = Without(DaysOf(ts) \cup UNION {Spans(i, i) : i \in gone})
        /\ cut' = (cut \/ back \/ \E i \in gone : fs[i].motion)

(* purge_nonmotion_batch: the first n frames without motion up to an id.    *)
purge_nonmotion_batch(until, n) ==
    LET still == {i \in Ids : ~frames[i].motion /\ i <= until}
        gone  == {i \in still : Cardinality({j \in still : j < i}) < n}
    IN  /\ Write /\ gone # {}
        /\ Kept(gone)
        /\ calendar_days' = Without(UNION {Spans(i, i) : i \in gone})
        /\ UNCHANGED cut

(* Verdicts on frames that may be gone by now; the days of the whole        *)
(* envelope are dropped.                                                    *)
write_analysis_batch(ids, a) ==
    /\ Write
    /\ analysis' = analysis \cup ((ids \cap Ids) \X {a})
    /\ calendar_days' = Without(Spans(Min(ids), Max(ids)))
    /\ UNCHANGED <<frames, cut>>

(* Over a range of ids, or unbounded from 0 to MaxRowId.                    *)
clear_analysis(a, lo, hi, motion_only) ==
    LET scope == {i \in lo..hi : ~motion_only \/ (i \in Ids /\ frames[i].motion)}
    IN  /\ Write
        /\ analysis' = analysis \ (scope \X {a})
        /\ calendar_days' = Without(Spans(lo, hi))
        /\ UNCHANGED <<frames, cut>>

clear ==
    /\ Write
    /\ frames' = <<>> /\ analysis' = {} /\ calendar_days' = <<>>
    /\ UNCHANGED cut

-----------------------------------------------------------------------------
Init ==
    /\ frames = <<>> /\ analysis = {} /\ calendar_days = <<>>
    /\ request = Idle /\ reads = 0 /\ writes = 0
    /\ quiet = TRUE /\ cut = FALSE

Reads ==
    \/ \E w \in Windows : tuning_calendar(w)
    \/ read_day \/ SeekFirst \/ SeekAfter \/ Reserve
    \/ Count \/ Events \/ Coverage \/ Store \/ Return \/ Abandon

Writes ==
    \/ \E ts \in Times, motion, prefer \in BOOLEAN : add(ts, motion, prefer)
    \/ \E until \in Ids, n \in 1..2 : purge_nonmotion_batch(until, n)
    \/ \E r \in Ranges, a \in Analyzers :
         \/ write_analysis_batch({r[1], r[2]}, a)
         \/ \E motion_only \in BOOLEAN : clear_analysis(a, r[1], r[2], motion_only)
    \/ clear

Next == Reads \/ Writes

Spec == Init /\ [][Next]_vars

-----------------------------------------------------------------------------
(* The sets of which the variables are members.                             *)
Maps(f, A, B) == DOMAIN f \subseteq A /\ f \in [DOMAIN f -> B]

IsDayRow(row) ==
    /\ row \in [since : Nat, until : Nat, frames : Nat, events : Nat, analyzed : {row.analyzed}]
    /\ Maps(row.analyzed, Analyzers, Nat)

IsMemo(row) ==
    /\ row \in [since : Nat, until : Nat, frames : Nat, events : Nat, analyzed : {row.analyzed},
                pending : BOOLEAN, token : Nat \cup {None}]
    /\ Maps(row.analyzed, Analyzers, Nat)

Counted == {"events", "coverage", "store"}

RequestOK ==
    /\ request \in [pc : {"idle", "memo", "first", "after", "reserve", "count", "returned"}
                         \cup Counted,
                    window : Windows \cup {None}, day : Int, lo : Nat, hi : Nat,
                    row : {request.row}, out : {request.out}]
    /\ ~At("idle") => request.window \in Windows
    /\ request.pc \in Counted => IsDayRow(request.row)
    /\ \A d \in DOMAIN request.out : d \in Int /\ IsDayRow(request.out[d])

TypeOK ==
    /\ Maps(frames, 1..writes, [ts : Times, motion : BOOLEAN]) /\ Cardinality(Ids) <= Cap
    /\ analysis \subseteq Ids \X Analyzers
    /\ \A k \in DOMAIN calendar_days : k \in Int \X Int /\ IsMemo(calendar_days[k])
    /\ RequestOK
    /\ reads \in 0..MaxReads /\ writes \in 0..MaxWrites
    /\ quiet \in BOOLEAN /\ cut \in BOOLEAN

Days == {k \in DOMAIN calendar_days : ~calendar_days[k].pending}
FramesOf(k) == {i \in Ids : InDay(k, frames[i].ts)}
InOrder == \A i, j \in Ids : i < j => frames[i].ts <= frames[j].ts

(* The visits that begin in a day, over the whole store.                    *)
VisitsOf(k) == {i \in Motion(FramesOf(k)) : Starts(i, Motion(Ids))}

(* The day's first motion may go on from a visit of the day before.         *)
OverMidnight(k) == \E i \in Motion(FramesOf(k)) : frames[i].ts < Midnight(k) + Gap

(* row says of day k what the store says now, but for a visit over the      *)
(* midnight that opens the day, once its earlier part was cut off or put in *)
(* late.                                                                    *)
Tells(row, k) ==
    LET ids == FramesOf(k) IN
    /\ ids # {}
    /\ row.since = Min(ids) /\ row.until = Max(ids) /\ row.frames = Cardinality(ids)
    /\ \A a \in DOMAIN row.analyzed :
         LET swept == Cardinality({i \in ids : <<i, a>> \in analysis})
         IN  row.analyzed[a] >= swept /\ (InOrder => row.analyzed[a] = swept)
    /\ LET d == row.events - Cardinality(VisitsOf(k))
       IN  d = 0 \/ (cut /\ OverMidnight(k) /\ d \in {-1, 1})

(* No finished day is out of date, however writes and requests interleave.  *)
MemoExact == \A k \in Days : Tells(calendar_days[k], k)

(* A request during which nothing was written returns every whole day as it *)
(* is, leaves it memoized if the ids are in order, and leaves out only days *)
(* without frames.                                                          *)
QuietRequest ==
    At("returned") /\ quiet =>
        \A d \in ((request.window.since + off) \div Day)..LastDay :
            LET k == <<off, d>>
                whole == /\ Midnight(k) >= request.window.since
                         /\ Midnight(k) + Day - 1 <= request.window.until
            IN  /\ whole /\ d \in DOMAIN request.out => Tells(request.out[d], k)
                /\ whole /\ FramesOf(k) # {} =>
                     d \in DOMAIN request.out /\ (InOrder => k \in Days)

(* Each visit is counted on one day: memoized days with the same offset add *)
(* up to the visits of the store.                                           *)
VisitsAddUp ==
    \A o \in {k[1] : k \in Days} :
        LET mine == {k \in Days : k[1] = o}
            total == MapThenSumSet(LAMBDA k : calendar_days[k].events, mine)
            all == {i \in Motion(Ids) : Starts(i, Motion(Ids))}
        IN  ~cut /\ (\A i \in Motion(Ids) : \E k \in mine : InDay(k, frames[i].ts))
              => total = Cardinality(all)
=============================================================================
