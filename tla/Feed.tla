-------------------------------- MODULE Feed --------------------------------
(***************************************************************************)
(* The household's reads: the activity feed (Store.events), and the two    *)
(* pages that count and name visits by reusing it, the Visits page         *)
(* (Store.door_stats) and the Cats page (Store.cats_overview).             *)
(*                                                                         *)
(* A frame holds its motion flag and area, the yolo-serial row (NULL when  *)
(* never swept, else a confidence for cat and for person, in tenths), its  *)
(* corruption verdict, and the active model's identification (NULL, or a   *)
(* cat and a distance).  The query is the active model, NULL when there is *)
(* none, and its threshold is NULL when it is uncalibrated.                *)
(***************************************************************************)
EXTENDS Visits

CONSTANTS
    MaxEvents,      \* _MAX_EVENTS
    ScanFrames,     \* _EVENT_SCAN_FRAMES
    MaxStatsPages,  \* _MAX_STATS_PAGES
    Residents,      \* the cats whose roster entry says resident
    MinConf,        \* _ANNOTATE_MIN_CONF
    FloorArea, FloorFrames  \* the subject floor

Model == load.query
Hours == load.hours   \* the trailing windows, in ticks of recv_ts
MotionFrames == {i \in Ids : frames[i].motion}
Newest(S, n) == {i \in S : Cardinality({j \in S : j > i}) < n}

(* _aggregate_identity: the cat with the most frames under the threshold,   *)
(* the nearer one on a tie; far matches are an unknown cat, and so is every *)
(* match of an uncalibrated model.                                          *)
AggregateIdentity(ids) ==
    LET span == {i \in ids : frames[i].ident # NULL}
        below == {i \in span : Model.threshold # NULL /\ frames[i].ident.distance <= Model.threshold}
        Votes(c) == {i \in below : frames[i].ident.cat = c}
        Nearest(S) == Min({frames[i].ident.distance : i \in S})
        cats == {frames[i].ident.cat : i \in below}
        Beats(c, d) == \/ Cardinality(Votes(c)) > Cardinality(Votes(d))
                       \/ /\ Cardinality(Votes(c)) = Cardinality(Votes(d))
                          /\ Nearest(Votes(c)) <= Nearest(Votes(d))
    IN  IF Model = NULL \/ span = {} THEN NULL
        ELSE IF below = {} THEN [cat |-> NULL, distance |-> Nearest(span)]
        ELSE LET winner == CHOOSE c \in cats : \A d \in cats : Beats(c, d)
             IN  [cat |-> winner, distance |-> Nearest(Votes(winner))]

(* _classify_subject: what the boxes of a span say, else what its motion    *)
(* does; nothing is concluded of a span the detector never saw.             *)
ClassifySubject(ids, motion) ==
    LET swept == {i \in ids : frames[i].yolo # NULL}
        Sees(class) == \E i \in swept : frames[i].yolo[class] >= MinConf
    IN  IF Sees("cat") THEN "cat"
        ELSE IF Sees("person") THEN "person"
        ELSE IF swept = {} THEN "unanalyzed"
        ELSE IF \E i \in ids : frames[i].corrupt THEN "corrupted"
        ELSE IF \/ Max({frames[i].area : i \in motion}) >= FloorArea
                \/ Cardinality(motion) >= FloorFrames THEN "unrecognized"
        ELSE "motion_only"

(* A named match makes the visit a cat's, whatever the boxes said. *)
Named(motion, identity) ==
    [start |-> Min(motion), end |-> Max(motion), startTs |-> Ts(Min(motion)),
     n |-> Cardinality(motion), identity |-> identity,
     subject |-> IF identity = NULL THEN ClassifySubject(Min(motion)..Max(motion), motion)
                 ELSE IF identity.cat # NULL THEN "cat"
                 ELSE ClassifySubject(Min(motion)..Max(motion), motion)]

Annotate(motion) == Named(motion, AggregateIdentity(Min(motion)..Max(motion)))

(* A page of the given clusters, of which the first n may be kept. *)
Page(runs, n, capped) ==
    [events |-> [k \in 1..Min({n, MaxEvents}) |-> Annotate(ToSet(runs[k]))],
     truncated |-> capped \/ Len(runs) > MaxEvents]

Capped(rows) == Cardinality(rows) > ScanFrames
Clusters(rows) == Reverse(GapSplit(Newest(rows, ScanFrames)))
Rows(since, until) == {i \in MotionFrames : InScope(i, [since |-> since, until |-> until])}

(* Mutants: the oldest cluster of a capped scan is kept. *)
EventsKeepPartial(since, until) ==
    LET PageOf(runs, capped) == Page(runs, Len(runs), capped)
        PageOfRows(rows) == PageOf(Clusters(rows), Capped(rows))
    IN  PageOfRows(Rows(since, until))

(* events: cluster the newest ScanFrames motion frames, newest first.  When *)
(* there are more, the oldest cluster may lack its head and is dropped.     *)
Events(since, until) ==
    LET PageOf(runs, capped) == Page(runs, IF capped THEN Len(runs) - 1 ELSE Len(runs), capped)
        PageOfRows(rows) == PageOf(Clusters(rows), Capped(rows))
    IN  PageOfRows(Rows(since, until))

-----------------------------------------------------------------------------
(* cats_overview: a cat was last seen at the newest event that names it. *)
Naming(feed, cat) == {k \in DOMAIN feed : feed[k].identity # NULL /\ feed[k].identity.cat = cat}

(* Mutant: the oldest event of the page is taken. *)
LastSeenOldest(feed, cat) ==
    IF Naming(feed, cat) = {} THEN NULL ELSE feed[Max(Naming(feed, cat))].startTs

LastSeen(feed, cat) ==
    IF Naming(feed, cat) = {} THEN NULL ELSE feed[Min(Naming(feed, cat))].startTs

(* resolve_ts_range's lower bound: the first frame at or after ts. *)
ResolveSince(ts) ==
    LET at == {i \in Ids : Ts(i) >= ts} IN IF at = {} THEN NULL ELSE Min(at)

(* Mutant: the next page starts at the oldest visit shown. *)
NextUntilShown(events) == Min({events[k].start : k \in DOMAIN events})

NextUntil(events) == Min({events[k].start : k \in DOMAIN events}) - 1

(* door_stats' page loop, as the state after each page. *)
AfterPage(read, page, since) ==
    LET events == read.events \o page.events
    IN  IF ~page.truncated THEN [read EXCEPT !.events = events, !.open = FALSE]
        ELSE IF page.events = <<>>
        THEN [read EXCEPT !.events = events, !.open = FALSE, !.truncated = TRUE]
        ELSE [read EXCEPT !.events = events, !.until = NextUntil(page.events),
                          !.open = NextUntil(page.events) >= since]

ReadPages(since) ==
    LET first == [events |-> <<>>, until |-> NULL, open |-> TRUE, truncated |-> FALSE]
        Step(read, page) ==
            IF read.open THEN AfterPage(read, Events(since, read.until), since) ELSE read
        Result(last) == [events |-> last.events, truncated |-> last.truncated \/ last.open]
    IN  Result(FoldLeft(Step, first, [page \in 1..MaxStatsPages |-> page]))

(* _classify_stats_event: the bucket of a visit, and the cat it credits. *)
Bucket(event) ==
    IF event.identity # NULL
    THEN IF event.identity.cat = NULL THEN "unknown_cat"
         ELSE IF event.identity.cat \in Residents THEN "resident" ELSE "neighbour"
    ELSE IF event.subject = "unanalyzed" THEN "unanalyzed"
    ELSE IF event.subject = "cat" THEN "unidentified"
    ELSE IF event.subject \in {"person", "corrupted"} THEN "other"
    ELSE "noise"

Buckets == {"resident", "neighbour", "unknown_cat", "unanalyzed", "unidentified", "other", "noise"}

(* Mutant: only a resident's visits are credited. *)
CreditedResident(event) == IF Bucket(event) = "resident" THEN event.identity.cat ELSE NULL

Credited(event) == IF event.identity = NULL THEN NULL ELSE event.identity.cat

(* door_stats: one read of the widest window, folded into each window. *)
Tallies(read) ==
    LET In(h) == {k \in DOMAIN read.events : read.events[k].startTs >= Now - h}
    IN  [truncated |-> read.truncated,
         totals |-> [h \in Hours |-> [b \in Buckets |->
            Cardinality({k \in In(h) : Bucket(read.events[k]) = b})]],
         visits |-> [h \in Hours |-> [c \in load.cats |->
            Cardinality({k \in In(h) : Credited(read.events[k]) = c})]]]

Widest == ResolveSince(Now - Max(Hours))
DoorStats == Tallies(IF Widest = NULL THEN [events |-> <<>>, truncated |-> FALSE] ELSE ReadPages(Widest))

-----------------------------------------------------------------------------
FeedAsked == load.reads = "feed"

(* The visits of the widest window, however many pages they fill. *)
TrueEvents ==
    IF Widest = NULL THEN {}
    ELSE {Annotate(v) : v \in VisitsOf({i \in MotionFrames : i >= Widest})}

CountsAgree(stats, events) ==
    LET True(h, Holds(_)) == Cardinality({e \in events : e.startTs >= Now - h /\ Holds(e)})
        Missing(counted, h, Holds(_)) == True(h, Holds) - counted
    IN  /\ \A h \in Hours, b \in Buckets :
            LET Lost(n) == n >= 0 /\ (~stats.truncated => n = 0)
            IN  Lost(Missing(stats.totals[h][b], h, LAMBDA e : Bucket(e) = b))
        /\ \A h \in Hours, c \in load.cats :
            LET Lost(n) == n >= 0 /\ (~stats.truncated => n = 0)
            IN  Lost(Missing(stats.visits[h][c], h, LAMBDA e : Credited(e) = c))
        /\ stats.truncated => \E b \in Buckets :
            Missing(stats.totals[Max(Hours)][b], Max(Hours), LAMBDA e : Bucket(e) = b) > 0

(* The Visits page counts every visit of its windows once, in the bucket    *)
(* and for the cat its own frames call for, unless it says it is truncated; *)
(* then visits are missing and none is counted twice (door_stats walking    *)
(* Store.events in keyset pages that may cut a visit in two).               *)
StatsCountEveryVisit == FeedAsked /\ frames # <<>> => CountsAgree(DoorStats, TrueEvents)

Cut(event) == \E i \in MotionFrames : i < event.start /\ Ts(event.start) - Ts(i) <= Gap

(* The Cats page and the Visits page tell one story: a cat last seen inside *)
(* a window has a visit counted there, and where the feed shows every visit *)
(* a cat was last seen no earlier than any visit counted for it, the one    *)
(* the window's edge cuts in two excepted (cats_overview and door_stats     *)
(* each reading Store.events its own way).                                  *)
PagesAgree ==
    LET Agree(stats, page, events) ==
            \A c \in load.cats :
                LET At(seen) ==
                        /\ \A h \in Hours : seen # NULL /\ seen >= Now - h => stats.visits[h][c] > 0
                        /\ ~page.truncated =>
                            \A e \in events :
                                Credited(e) = c /\ ~Cut(e) => seen # NULL /\ seen >= e.startTs
                IN  At(LastSeen(page.events, c))
    IN  FeedAsked /\ frames # <<>> => Agree(DoorStats, Events(NULL, NULL), TrueEvents)

(* What the Activity feed, the Visits page and the Cats page show agrees. *)
FeedsAgree == StatsCountEveryVisit /\ PagesAgree

(* door_stats' docstring, store.py:7958-7960: every visit tallied was       *)
(* clustered and named as the feed does it, so Visits, Cats and Activity    *)
(* can never name the same moment differently.                              *)
OneNaming ==
    LET SameNames(page) ==
            ~page.truncated =>
                \A e \in TrueEvents : \E k \in DOMAIN page.events :
                    /\ page.events[k].start <= e.start /\ e.end <= page.events[k].end
                    /\ Credited(page.events[k]) = Credited(e)
    IN  FeedAsked => SameNames(Events(NULL, NULL))
=============================================================================
