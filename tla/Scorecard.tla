----------------------------- MODULE Scorecard -----------------------------
(***************************************************************************)
(* The motion-gate tuning reads: Store.gate_scorecard with its day, night  *)
(* and missed-visit variants, the visit inbox (Store.visits), and the      *)
(* density timeline (Store.timeline_bins).                                 *)
(*                                                                         *)
(* A frame holds the live gate's reading, the re-run slot's (NULL when the *)
(* slot has no verdict for it) and the oracle's verdict and score.  Scores *)
(* are in tenths, areas in thousandths.                                    *)
(***************************************************************************)
EXTENDS Visits

CONSTANTS
    Window,            \* _VISIT_WINDOW_MS
    MinArea, MaxArea,  \* the source's own gate parameters
    Dusk               \* half the length of a day: night follows day

Night(ts) == (ts \div Dusk) % 2 = 1

(* A query: source ("live" or "slot"), floor, warmup and id scope. *)
Gate(i, q) == IF q.source = "live" THEN frames[i].live ELSE frames[i].slot
Moved(i, q) == Gate(i, q).motion
Area(i, q) == Gate(i, q).area
Score(i) == frames[i].oracle.score

(* present_core as SQL evaluates it: a positive verdict without a score is  *)
(* unknown under a floor.                                                   *)
Present(i, q) ==
    IF frames[i].oracle.verdict = 0 THEN "no"
    ELSE IF q.floor = 0 THEN "yes"
    ELSE IF Score(i) = NULL THEN "unknown"
    ELSE IF Score(i) >= q.floor THEN "yes" ELSE "no"

ScoredSet(q) ==
    {i \in Ids : InScope(i, q.scope) /\ frames[i].oracle # NULL /\ Gate(i, q) # NULL}

Scored(q) ==
    {i \in ScoredSet(q) : Cardinality({j \in ScoredSet(q) : j < i}) >= q.warmup}

NeedsRerun(q) ==
    q.source = "slot" /\ \A i \in Ids : InScope(i, q.scope) => frames[i].slot = NULL

Interesting(q) == {i \in Scored(q) : Present(i, q) = "yes" \/ Moved(i, q)}
PresentRows(q) == {i \in Interesting(q) : Present(i, q) = "yes"}
MotionRows(q) == {i \in Interesting(q) : Moved(i, q)}

(* The SQL aggregate: each column is a sum over the scored set, and a row   *)
(* whose condition is unknown or false adds nothing.                        *)
Aggregate(q) ==
    LET Missed(i) == ~Moved(i, q) /\ Present(i, q) = "yes"
        Scores(i, least) == Score(i) # NULL /\ Score(i) >= least
        Sized(i) == Missed(i) /\ Area(i, q) # NULL
        Sum(Holds(_)) == Cardinality({i \in Scored(q) : Holds(i)})
    IN  [present |-> Sum(LAMBDA i : Present(i, q) = "yes"),
         caught |-> Sum(LAMBDA i : Moved(i, q) /\ Present(i, q) = "yes"),
         missed |-> Sum(Missed),
         falseTriggers |-> Sum(LAMBDA i : Moved(i, q) /\ Present(i, q) = "no"),
         high |-> Sum(LAMBDA i : Missed(i) /\ Scores(i, 5)),
         medium |-> Sum(LAMBDA i : Missed(i) /\ Scores(i, 3) /\ ~Scores(i, 5)),
         belowMin |-> Sum(LAMBDA i : Sized(i) /\ Area(i, q) < MinArea),
         nearZero |-> Sum(LAMBDA i : Sized(i) /\ 10 * Area(i, q) < MinArea),
         aboveMax |-> Sum(LAMBDA i : Sized(i) /\ Area(i, q) > MaxArea),
         inBand |-> Sum(LAMBDA i : Sized(i) /\ Area(i, q) \in MinArea..MaxArea)]

(* Mutant: a row whose presence is unknown counts as absent. *)
TriggerUnlessPresent(i, q) == Moved(i, q) /\ Present(i, q) # "yes"

(* A row whose presence is unknown is counted on neither side. *)
FalseTrigger(i, q) == Moved(i, q) /\ Present(i, q) = "no"

(* _count_interesting: the same columns, over the interesting rows of one   *)
(* regime.                                                                  *)
CountInteresting(rows, q) ==
    LET seen == {i \in rows : Present(i, q) = "yes"}
        missed == {i \in seen : ~Moved(i, q)}
        graded == {i \in missed : Score(i) # NULL}
        high == {i \in graded : Score(i) >= 5}
        sized == {i \in missed : Area(i, q) # NULL}
        below == {i \in sized : Area(i, q) < MinArea}
        above == {i \in sized \ below : Area(i, q) > MaxArea}
        Many(S) == Cardinality(S)
    IN  [present |-> Many(seen), caught |-> Many(seen \ missed), missed |-> Many(missed),
         falseTriggers |-> Many({i \in rows : FalseTrigger(i, q)}),
         high |-> Many(high),
         medium |-> Many({i \in graded \ high : Score(i) >= 3}),
         belowMin |-> Many(below),
         nearZero |-> Many({i \in below : 10 * Area(i, q) < MinArea}),
         aboveMax |-> Many(above),
         inBand |-> Many(sized \ (below \cup above))]

(* _visit_caught: a motion frame within Window of the span. *)
Caught(run, motion) ==
    \E m \in motion : Ts(m) >= Ts(run[1]) - Window /\ Ts(m) <= Ts(Last(run)) + Window

Tally(runs, motion) ==
    LET caught == Cardinality({k \in DOMAIN runs : Caught(runs[k], motion)})
    IN  [total |-> Len(runs), caught |-> caught, whollyMissed |-> Len(runs) - caught]

(* Mutant: the rows of the regime are clustered on their own. *)
ClusterVisitsFiltered(q, night) ==
    Tally(GapSplit({i \in PresentRows(q) : Night(Ts(i)) = night}), MotionRows(q))

(* _cluster_visits_split: a visit goes whole to the bucket of its first     *)
(* present frame.                                                           *)
ClusterVisitsSplit(q, night) ==
    Tally(SelectSeq(GapSplit(PresentRows(q)), LAMBDA run : Night(Ts(run[1])) = night),
          MotionRows(q))

ClusterVisits(q) == Tally(GapSplit(PresentRows(q)), MotionRows(q))

(* classify_miss; a NULL area reads as 0. *)
ClassifyMiss(area) ==
    LET a == IF area = NULL THEN 0 ELSE area
    IN  IF a > MaxArea THEN "above_max"
        ELSE IF 10 * a < MinArea THEN "near_zero"
        ELSE IF a < MinArea THEN "below_min" ELSE "in_band"

Priority == <<"above_max", "near_zero", "below_min", "in_band">>

(* The present frame the oracle was surest of; the later one on a tie. *)
Surest(run) ==
    LET Rank(i) == IF Score(i) = NULL THEN -1 ELSE Score(i)
    IN  CHOOSE i \in ToSet(run) : \A j \in ToSet(run) :
            Rank(j) < Rank(i) \/ (Rank(j) = Rank(i) /\ j <= i)

(* _missed_visit_records: the visits no motion frame caught. *)
MissedRecord(run, q) ==
    LET buckets == [b \in ToSet(Priority) |->
                        Cardinality({i \in ToSet(run) : ClassifyMiss(Area(i, q)) = b})]
        first == CHOOSE k \in DOMAIN Priority :
                    \A n \in DOMAIN Priority :
                        \/ buckets[Priority[n]] < buckets[Priority[k]]
                        \/ buckets[Priority[n]] = buckets[Priority[k]] /\ k <= n
    IN  [start |-> run[1], end |-> Last(run), rep |-> Surest(run), buckets |-> buckets,
         reason |-> Priority[first], night |-> Night(Ts(run[1]))]

MissedVisitRecords(q) ==
    LET missed == SelectSeq(GapSplit(PresentRows(q)), LAMBDA run : ~Caught(run, MotionRows(q)))
    IN  [k \in DOMAIN missed |-> MissedRecord(missed[k], q)]

(* gate_scorecard's card for a regime, "all", "day" or "night". *)
Card(q, regime) ==
    LET night == regime = "night"
        rows == {i \in Interesting(q) : Night(Ts(i)) = night}
        records == MissedVisitRecords(q)
    IN  [counts |-> IF regime = "all" THEN Aggregate(q) ELSE CountInteresting(rows, q),
         visits |-> IF regime = "all" THEN ClusterVisits(q) ELSE ClusterVisitsSplit(q, night),
         missedVisits |-> IF regime = "all" THEN records
                          ELSE SelectSeq(records, LAMBDA r : r.night = night)]

-----------------------------------------------------------------------------
(* Store.visits, judged against the live gate and every verdict there is. *)

InboxRows(mode, scope) ==
    {i \in Ids :
        /\ InScope(i, scope) /\ frames[i].oracle # NULL
        /\ \/ mode = "missed" /\ frames[i].oracle.verdict = 1
           \/ mode = "false" /\ frames[i].oracle.verdict = 0 /\ frames[i].live.motion}

(* Mutant: only frames with a verdict can catch a visit. *)
InboxMotionScored(scope) ==
    {i \in Ids : InScope(i, scope) /\ frames[i].live.motion /\ frames[i].oracle # NULL}

InboxMotion(scope) == {i \in Ids : InScope(i, scope) /\ frames[i].live.motion}

Biggest(run) ==
    CHOOSE i \in ToSet(run) : \A j \in ToSet(run) :
        \/ frames[j].live.area < frames[i].live.area
        \/ frames[j].live.area = frames[i].live.area /\ j <= i

VisitInbox(mode, scope) ==
    LET runs == GapSplit(InboxRows(mode, scope))
    IN  {[start |-> runs[k][1], end |-> Last(runs[k]), present |-> Len(runs[k]),
          rep |-> IF mode = "missed" THEN Surest(runs[k]) ELSE Biggest(runs[k]),
          caught |-> Caught(runs[k], InboxMotion(scope))] :
            k \in DOMAIN runs}

(* timeline_bins: equal slices of the window's time, the last one closed. *)
TimelineRows(scope) == {i \in Ids : InScope(i, scope)}
Earliest(scope) == Ts(Min(TimelineRows(scope)))
Span(scope) == Ts(Max(TimelineRows(scope))) - Earliest(scope)

(* Mutant: the newest frame is not held in the last slice. *)
BinUncapped(i, scope, bins) ==
    ((Ts(i) - Earliest(scope)) * bins) \div (IF Span(scope) > 0 THEN Span(scope) ELSE 1)

Bin(i, scope, bins) ==
    LET slice == ((Ts(i) - Earliest(scope)) * bins)
                    \div (IF Span(scope) > 0 THEN Span(scope) ELSE 1)
    IN  IF slice < bins - 1 THEN slice ELSE bins - 1

TimelineBins(scope, bins) ==
    LET Verdict(i, v) == frames[i].oracle # NULL /\ frames[i].oracle.verdict = v
        Slice(b) == {i \in TimelineRows(scope) : Bin(i, scope, bins) = b}
        Start(b) == Earliest(scope) + (Span(scope) * b) \div bins
        Motion(i) == frames[i].live.motion
    IN  {[bin |-> b, t0 |-> Start(b), t1 |-> Start(b + 1), frames |-> Slice(b),
          motion |-> Cardinality({i \in Slice(b) : Motion(i)}),
          missed |-> Cardinality({i \in Slice(b) : ~Motion(i) /\ Verdict(i, 1)}),
          falseCt |-> Cardinality({i \in Slice(b) : Motion(i) /\ Verdict(i, 0)})] :
            b \in {Bin(i, scope, bins) : i \in TimelineRows(scope)}}

-----------------------------------------------------------------------------
CardAsked == load.reads = "card"

(* A card scoped to day and one scoped to night add up to the unscoped      *)
(* card, in every frame count, in the visits and in the list of wholly      *)
(* missed visits, which is as long as the card says (gate_scorecard's       *)
(* partition: frames by their own time, visits whole by their first frame). *)
ScopedCardsAddUp ==
    CardAsked /\ ~NeedsRerun(load.query) =>
        LET all == Card(load.query, "all")
            day == Card(load.query, "day")
            night == Card(load.query, "night")
        IN  /\ \A n \in DOMAIN all.counts : all.counts[n] = day.counts[n] + night.counts[n]
            /\ \A n \in DOMAIN all.visits : all.visits[n] = day.visits[n] + night.visits[n]
            /\ \A card \in {all, day, night} : Len(card.missedVisits) = card.visits.whollyMissed
            /\ ToSet(all.missedVisits) = ToSet(day.missedVisits) \cup ToSet(night.missedVisits)

(* The inbox lists the visits of an unfloored card that drops no warm-up,   *)
(* and calls none missed that the card calls caught; where every motion     *)
(* frame has a verdict the two agree on each visit (Store.visits and        *)
(* gate_scorecard judging the live gate).                                   *)
InboxMatchesCard ==
    CardAsked =>
        LET scope == load.query.scope
            q == [source |-> "live", floor |-> 0, warmup |-> 0, scope |-> scope]
            inbox == VisitInbox("missed", scope)
            spans == {<<v.start, v.end>> : v \in inbox}
            missedInbox == {<<v.start, v.end, v.rep>> : v \in {w \in inbox : ~w.caught}}
            missedCard == {<<r.start, r.end, r.rep>> : r \in ToSet(MissedVisitRecords(q))}
            unswept == {i \in Ids : InScope(i, scope) /\ frames[i].live.motion
                                    /\ frames[i].oracle = NULL}
        IN  /\ spans = {<<Min(v), Max(v)>> : v \in VisitsOf(PresentRows(q))}
            /\ missedInbox \subseteq missedCard
            /\ unswept = {} => missedInbox = missedCard
            /\ \A i \in unswept : \A v \in inbox :
                    Ts(i) >= Ts(v.start) /\ Ts(i) <= Ts(v.end) => v.caught

Total(pairs) == MapThenSumSet(LAMBDA pair : pair[2], pairs)

(* Every frame of the window is counted in one slice of the timeline, one   *)
(* whose bounds hold its time, the slices are those asked for, and their    *)
(* false triggers are the frames of the inbox's (timeline_bins' integer     *)
(* arithmetic at both ends of the window).                                  *)
TimelineCoversWindow ==
    CardAsked /\ TimelineRows(load.query.scope) # {} =>
        \A bins \in load.bins :
            LET line == TimelineBins(load.query.scope, bins)
            IN  /\ \A i \in TimelineRows(load.query.scope) :
                        Cardinality({b \in line : i \in b.frames}) = 1
                /\ \A b \in line : /\ b.bin \in 0..(bins - 1)
                                   /\ \A i \in b.frames : b.t0 <= Ts(i) /\ Ts(i) <= b.t1
                /\ \A b, c \in line : b.bin < c.bin => b.t1 <= c.t0
                /\ Total({<<b.bin, b.falseCt>> : b \in line})
                     = Total({<<v.start, v.present>> : v \in VisitInbox("false", load.query.scope)})

(* What the scorecard, the inbox and the timeline show of one table agrees. *)
CardsAgree == ScopedCardsAddUp /\ InboxMatchesCard /\ TimelineCoversWindow
=============================================================================
