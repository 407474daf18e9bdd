------------------------------ MODULE MCVisits ------------------------------
(* Loads for the reads of Scorecard, Feed and Queue. *)
EXTENDS Scorecard, Queue

Frame(motion, area, oracle) == [live |-> [motion |-> motion, area |-> area],
                                slot |-> NULL, oracle |-> oracle]
Verdict(v, score) == [verdict |-> v, score |-> score]

CardKinds ==
    {Frame(TRUE, 30, NULL), Frame(TRUE, 30, Verdict(0, NULL)),
     Frame(TRUE, 30, Verdict(1, 6)), Frame(TRUE, 40, Verdict(1, NULL)),
     Frame(FALSE, 0, Verdict(1, 6)), Frame(FALSE, 15, Verdict(1, 4)),
     Frame(FALSE, 90, Verdict(1, NULL))}

SlotKinds ==
    {[k EXCEPT !.slot = [motion |-> ~k.live.motion, area |-> 30]] :
        k \in {f \in CardKinds : f.oracle # NULL /\ f.oracle.score # NULL}}
    \cup {Frame(TRUE, 30, Verdict(1, 6)), Frame(FALSE, 15, NULL)}

CardLoad(kinds, source, floor, warmup, scope) ==
    [reads |-> "card", kinds |-> kinds, steps |-> {1, 3}, length |-> 4, bins |-> {1, 3},
     query |-> [source |-> source, floor |-> floor, warmup |-> warmup, scope |-> scope]]

CardLoads ==
    {CardLoad(CardKinds, "live", 3, 0, Everything),
     CardLoad(SlotKinds, "slot", 0, 1, Everything),
     CardLoad(SlotKinds, "slot", 5, 0, [since |-> 2, until |-> 3])}

Seen(motion, area, yolo, corrupt, ident) ==
    [motion |-> motion, area |-> area, yolo |-> yolo, corrupt |-> corrupt, ident |-> ident]
Boxes(cat, person) == [cat |-> cat, person |-> person]
Match(cat, distance) == [cat |-> cat, distance |-> distance]

(* Visits long enough to fill several pages, named or never swept. *)
PagingKinds ==
    {Seen(TRUE, 3, Boxes(6, 0), FALSE, Match("tom", 2)), Seen(TRUE, 3, NULL, FALSE, NULL)}

(* Short visits of every kind. *)
NamingKinds ==
    {Seen(TRUE, 3, Boxes(6, 0), FALSE, Match("tom", 2)),
     Seen(TRUE, 3, Boxes(2, 0), FALSE, Match("pus", 3)),
     Seen(TRUE, 1, Boxes(0, 7), TRUE, Match("pus", 6)),
     Seen(FALSE, 0, Boxes(6, 0), FALSE, Match("tom", 3)),
     Seen(TRUE, 1, Boxes(0, 0), FALSE, NULL),
     Seen(TRUE, 9, NULL, TRUE, NULL)}

FeedLoad(kinds, length, model, hours) ==
    [reads |-> "feed", kinds |-> kinds, steps |-> {1, 3}, length |-> length,
     query |-> model, hours |-> hours, cats |-> {"tom", "pus"}]

FeedLoads ==
    {FeedLoad(PagingKinds, 7, [threshold |-> 4], {6, 14}), FeedLoad(NamingKinds, 4, [threshold |-> 4], {2, 4}),
     FeedLoad(NamingKinds, 3, [threshold |-> NULL], {2, 4}), FeedLoad(NamingKinds, 3, NULL, {2, 4})}

Asked(motion, cat, area, ident, row) ==
    Seen(motion, area, IF cat = NULL THEN NULL ELSE [cat |-> cat, person |-> 0, area |-> area], FALSE, ident)
    @@ [row |-> row]
Decision(kind, cat, ghost) == [kind |-> kind, cat |-> cat, ghost |-> ghost]

QueueKinds ==
    {Asked(TRUE, 7, 10, Match("tom", 2), NULL), Asked(TRUE, 7, 5, NULL, NULL),
     Asked(TRUE, 3, 10, Match("pus", 6), Decision("not_cat", NULL, TRUE)),
     Asked(FALSE, 7, 10, Match("tom", 2), Decision("identified", "tom", FALSE)),
     Asked(TRUE, 2, 5, Match("pus", 3), NULL), Asked(TRUE, NULL, 5, NULL, NULL)}

(* Visits of one frame or more, confident or not, good or not. *)
FilterKinds ==
    {Asked(TRUE, 7, 10, Match("tom", 2), NULL), Asked(TRUE, 4, 10, Match("tom", 6), NULL),
     Asked(TRUE, 7, 10, NULL, NULL)}

QueueLoad(kinds, length, model, evicted, scopes) ==
    [reads |-> "queue", kinds |-> kinds, steps |-> {1, 3}, length |-> length, query |-> model,
     evicted |-> evicted, scopes |-> scopes, active |-> {"tom"}]

QueueLoads ==
    {QueueLoad(QueueKinds, 3, [threshold |-> 4], 0, {Everything, [since |-> 2, until |-> NULL]}),
     QueueLoad(QueueKinds, 3, [threshold |-> NULL], 1, {Everything}),
     QueueLoad(FilterKinds, 4, [threshold |-> 4], 0, {Everything}),
     QueueLoad(FilterKinds, 2, NULL, 0, {Everything})}

Crop(kind, cat, quality, geometry) ==
    [row |-> [kind |-> kind, cat |-> cat, ghost |-> FALSE, quality |-> quality, geometry |-> geometry,
              crop |-> kind # "not_cat", night |-> geometry = "m10"]]

EnrolLoads ==
    {[reads |-> "enrol", length |-> 3, steps |-> {1}, evicted |-> 0,
      kinds |-> {Crop("identified", c, q, g) : c \in {"tom", "pus", "old"}, q \in {"ok", "poor"}, g \in {"legacy", "m10"}}
                \cup {Crop("unknown_cat", NULL, "ok", "m10"), Crop("not_cat", NULL, NULL, "legacy")},
      cats |-> {"tom", "pus", "old"}, active |-> {"tom", "pus"},
      requests |-> [qualities : {NULL, {"ok"}, {}}, exclude : {{}, {"pus"}}, geometry : {NULL, "legacy", "m10"}]]}

MCLoads == CardLoads \cup FeedLoads \cup QueueLoads \cup EnrolLoads
=============================================================================
