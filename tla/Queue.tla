------------------------------- MODULE Queue -------------------------------
(***************************************************************************)
(* The reads of the annotation tool: which frames still want a label, how  *)
(* far the work has come, what the phone may confirm in one tap, what a    *)
(* flag resolves to, and what a gallery build would enrol.                 *)
(*                                                                         *)
(* A frame holds the yolo-serial row (NULL when never swept, else a cat    *)
(* confidence in tenths, 0 for no cat, and the area of the best cat box),  *)
(* the active model's identification, and the dataset_items row with its   *)
(* id (NULL when there is none).  A row is a ghost when its src_recv_ts is *)
(* another frame's: ids restart after a clear, and rows survive it.        *)
(* The oldest load.evicted frames have left the store; their rows have not.*)
(***************************************************************************)
EXTENDS Feed

CONSTANTS
    QueueScan,     \* _ANNOTATE_SCAN_FRAMES
    GalleryScore,  \* _GRADE_GALLERY_MIN_SCORE, in tenths
    PoorScore      \* _GRADE_POOR_MAX_SCORE, in tenths, rounded up

Live == {i \in Ids : i > load.evicted}
Row(i) == frames[i].row
Decided(i) == Row(i) # NULL /\ ~Row(i).ghost
BoxArea(i) == frames[i].yolo.area

(* _present_frames: the live frames with a cat box over the floor. *)
PresentFrames(scope) ==
    {i \in Live : InScope(i, scope) /\ frames[i].yolo # NULL /\ frames[i].yolo.cat >= MinConf}

Undecided(scope) == {i \in PresentFrames(scope) : ~Decided(i)}

(* seed_quality: the grade of one crop, against the largest box of its visit. *)
SeedQuality(i, peak) ==
    LET score == frames[i].yolo.cat
    IN  IF score >= GalleryScore /\ 10 * BoxArea(i) >= 7 * peak THEN "gallery"
        ELSE IF score < PoorScore \/ 10 * BoxArea(i) < 3 * peak THEN "poor"
        ELSE "ok"

(* One record of annotation_visits, labeled_visits and flagged_visits. *)
Fullest(run) ==
    CHOOSE i \in run : \A j \in run : BoxArea(j) < BoxArea(i) \/ (BoxArea(j) = BoxArea(i) /\ j <= i)
Visit(run) ==
    [frames |-> run, rep |-> Fullest(run), span |-> <<Ts(Min(run)), Ts(Max(run))>>,
     quality |-> [i \in run |-> SeedQuality(i, BoxArea(Fullest(run)))]]
VisitRecords(S) == LET runs == GapSplit(S) IN [k \in DOMAIN runs |-> Visit(ToSet(runs[k]))]

AnnotationVisits(scope) == VisitRecords(Undecided(scope))

LabelProgress(scope) ==
    LET runs == ToSet(GapSplit(PresentFrames(scope)))
    IN  [total |-> Cardinality(runs),
         decided |-> Cardinality({r \in runs : \A i \in ToSet(r) : Decided(i)}),
         crops |-> Cardinality({i \in PresentFrames(scope) : Decided(i)})]

-----------------------------------------------------------------------------
(* annotation_queue_page. *)

(* Mutant: the oldest visit of a capped scan is kept. *)
ScannedKeepsPartial(scope) == VisitRecords(Newest(Undecided(scope), QueueScan))

(* The newest undecided frames; the oldest visit of a capped scan may lack  *)
(* its head and is dropped.                                                 *)
ScanCapped(scope) == Cardinality(Undecided(scope)) > QueueScan
Scanned(scope) ==
    LET Whole(visits) == IF ScanCapped(scope) THEN Tail(visits) ELSE visits
    IN  Whole(VisitRecords(Newest(Undecided(scope), QueueScan)))

(* _attach_queue_distances: the nearest match of the visit's span, or NULL. *)
QueueDistance(visit) ==
    LET matched == {i \in Min(visit.frames)..Max(visit.frames) : frames[i].ident # NULL}
    IN  IF Model = NULL \/ matched = {} THEN NULL
        ELSE Min({frames[i].ident.distance : i \in matched})

Uncertain(visit) ==
    IF visit.distance = NULL \/ Model = NULL THEN TRUE
    ELSE IF Model.threshold = NULL THEN TRUE ELSE visit.distance > Model.threshold

(* Worst match first and unmatched last; newest first otherwise. *)
Precedes(a, b) ==
    IF a.distance = b.distance THEN a.span[1] > b.span[1]
    ELSE IF a.distance = NULL THEN FALSE
    ELSE IF b.distance = NULL THEN TRUE ELSE a.distance > b.distance

KeepConf(visit, q)    == ~q.uncertainOnly \/ Model = NULL \/ Uncertain(visit)
KeepThick(visit, q)   == Cardinality(visit.frames) >= q.minFrames
KeepGallery(visit, q) == ~q.requireGallery \/ "gallery" \in {visit.quality[i] : i \in visit.frames}

(* Mutant: what is hidden is the sum of what each control hides. *)
HiddenTotalSummed(visits, q) ==
    Cardinality({k \in DOMAIN visits : KeepThick(visits[k], q) /\ KeepGallery(visits[k], q) /\ ~KeepConf(visits[k], q)})
    + Cardinality({k \in DOMAIN visits : KeepConf(visits[k], q) /\ KeepGallery(visits[k], q) /\ ~KeepThick(visits[k], q)})
    + Cardinality({k \in DOMAIN visits : KeepConf(visits[k], q) /\ KeepThick(visits[k], q) /\ ~KeepGallery(visits[k], q)})

HiddenTotal(visits, q) ==
    Cardinality({k \in DOMAIN visits :
        ~(KeepConf(visits[k], q) /\ KeepThick(visits[k], q) /\ KeepGallery(visits[k], q))})

(* The scanned visits in the order shown, each with its distance. *)
Ordered(scope) ==
    LET WithDistances(visits) ==
            [k \in DOMAIN visits |-> visits[k] @@ [distance |-> QueueDistance(visits[k])]]
    IN  SortSeq(WithDistances(Scanned(scope)), Precedes)

Shown(visits, q) ==
    SelectSeq(visits, LAMBDA v : KeepConf(v, q) /\ KeepThick(v, q) /\ KeepGallery(v, q))

QueuePage(visits, q, capped) ==
    LET Hidden(Failed(_, _), P(_, _), R(_, _)) ==
            Cardinality({k \in DOMAIN visits :
                P(visits[k], q) /\ R(visits[k], q) /\ ~Failed(visits[k], q)})
        Limited(kept) == [visits |-> SubSeq(kept, 1, Min({Len(kept), q.limit})),
                          truncated |-> capped \/ Len(kept) > q.limit]
    IN  Limited(Shown(visits, q)) @@
        [hiddenConfident |-> Hidden(KeepConf, KeepThick, KeepGallery),
         hiddenThin |-> Hidden(KeepThick, KeepConf, KeepGallery),
         hiddenNoGallery |-> Hidden(KeepGallery, KeepConf, KeepThick),
         hiddenTotal |-> HiddenTotal(visits, q)]

-----------------------------------------------------------------------------
(* visit_label_state: may the phone confirm the span in one tap? *)

LabelReason(span) ==
    LET present == PresentFrames(span)
        identity == AggregateIdentity({i \in Live : InScope(i, span)})
    IN  IF present = {} THEN "no_crop"
        ELSE IF Undecided(span) = {} THEN "all_labelled"
        ELSE IF identity = NULL THEN "unnamed"
        ELSE IF identity.cat = NULL THEN "unnamed"
        ELSE IF identity.cat \notin load.active THEN "retired"
        ELSE "ok"

(* The decisions the span already holds: a live frame's ghost is not one,   *)
(* the row of a frame that is gone is.                                      *)
Existing(span) ==
    {[kind |-> Row(i).kind, cat |-> Row(i).cat] :
        i \in {j \in Ids : InScope(j, span) /\ Row(j) # NULL /\ (j \in Live => Decided(j))}}

LabelState(span) ==
    [reason |-> LabelReason(span), identity |-> AggregateIdentity({i \in Live : InScope(i, span)}),
     undecided |-> Cardinality(Undecided(span)), existing |-> Existing(span)]

(* labeled_visits: the decided frames with a box, however faint. *)
LabeledVisits(scope) ==
    VisitRecords({i \in Live : /\ InScope(i, scope) /\ Decided(i)
                               /\ frames[i].yolo # NULL /\ frames[i].yolo.cat > 0})

(* Mutant: a span with any verdict counts as swept. *)
FlagStateAnySwept(span) ==
    LET live == {i \in Live : InScope(i, span)}
        swept == {i \in live : frames[i].yolo # NULL}
    IN  IF live = {} THEN "gone" ELSE IF swept = {} THEN "unswept"
        ELSE IF \E i \in swept : frames[i].yolo.cat > 0 THEN "labellable" ELSE "no_detection"

(* _resolve_flag, for the span a flag names. *)
FlagState(span) ==
    LET live == {i \in Live : InScope(i, span)}
        swept == {i \in live : frames[i].yolo # NULL}
    IN  IF live = {} THEN "gone" ELSE IF swept = {} THEN "unswept"
        ELSE IF swept # live THEN "partial"
        ELSE IF \E i \in swept : frames[i].yolo.cat > 0 THEN "labellable" ELSE "no_detection"

FlagFrames(span) ==
    {i \in Live : InScope(i, span) /\ frames[i].yolo # NULL /\ frames[i].yolo.cat > 0}

(* _aggregate_flag_label: the majority decision, and whether there are others. *)
FlagLabel(span) ==
    LET decided == {i \in Live : InScope(i, span) /\ Decided(i)}
        Of(i) == [kind |-> Row(i).kind, cat |-> Row(i).cat]
        Votes(d) == Cardinality({i \in decided : Of(i) = d})
        all == {Of(i) : i \in decided}
    IN  IF decided = {} THEN NULL
        ELSE [best |-> CHOOSE d \in all : \A e \in all : Votes(e) <= Votes(d),
              mixed |-> Cardinality(all) > 1, n |-> Cardinality(decided)]

-----------------------------------------------------------------------------
(* What a gallery build would enrol.  A request names the grades (NULL for  *)
(* all), the cats left out, and the crop geometry (NULL for unfiltered).    *)

Graded(i, q) == q.qualities = NULL \/ Row(i).quality \in q.qualities
HasCrop(i) == Row(i).kind = "identified" /\ Row(i).crop
CropRows == {i \in Ids : Row(i) # NULL}

(* labeled_crops, as build_gallery and the probe ask for it: identified     *)
(* crops of active cats.  The geometry is filtered by the caller.           *)
LabeledCrops(q) ==
    {i \in CropRows : /\ HasCrop(i) /\ Graded(i, q)
                      /\ Row(i).cat \in load.active /\ Row(i).cat \notin q.exclude}

Embedded(q) == {i \in LabeledCrops(q) : q.geometry # NULL => Row(i).geometry = q.geometry}

(* count_identified_crops: the pre-check's two counts. *)
CountIdentifiedCrops(q) ==
    LET counted == {i \in CropRows : /\ HasCrop(i) /\ Graded(i, q)
                                     /\ Row(i).cat \in load.active /\ Row(i).cat \notin q.exclude
                                     /\ q.geometry # NULL => Row(i).geometry = q.geometry}
    IN  [crops |-> Cardinality(counted), cats |-> Cardinality({Row(i).cat : i \in counted})]

(* Mutant: the counts offered for a geometry are those of all geometries. *)
EnrollableAnyGeometry(q) ==
    [c \in load.active |->
        Cardinality({i \in CropRows : HasCrop(i) /\ Row(i).cat = c /\ Graded(i, q)})]

(* enrollable_cats: one count per active cat, zero included. *)
EnrollableCats(q) ==
    [c \in load.active |->
        Cardinality({i \in CropRows : /\ HasCrop(i) /\ Row(i).cat = c /\ Graded(i, q)
                                      /\ q.geometry # NULL => Row(i).geometry = q.geometry})]

(* cat_regime_coverage: every cat of the roster, by day and by night. *)
RegimeCoverage ==
    [c \in load.cats |->
        LET crops == {i \in CropRows : HasCrop(i) /\ Row(i).cat = c}
        IN  [total |-> Cardinality(crops), night |-> Cardinality({i \in crops : Row(i).night}),
             day |-> Cardinality({i \in crops : ~Row(i).night})]]

-----------------------------------------------------------------------------
QueueAsked == load.reads = "queue"

Requests == [uncertainOnly : BOOLEAN, minFrames : {1, 2}, requireGallery : BOOLEAN, limit : {1, 9}]

(* Filtered never reads as finished, and no control promises what it cannot *)
(* show: a page holds whole visits only, every visit is on it, hidden or    *)
(* beyond what it admits to have cut off, and each control's count is what  *)
(* relaxing that control alone would add (annotation_queue_page).           *)
FilteredIsNotFinished ==
    LET Adds(visits, more, q) == Len(Shown(visits, more)) - Len(Shown(visits, q))
        Honest(page, visits, q, all) ==
            /\ {[frames |-> v.frames, span |-> v.span] : v \in ToSet(page.visits)} \subseteq all
            /\ ~page.truncated => Len(page.visits) + page.hiddenTotal = Cardinality(all)
            /\ page.visits = <<>> /\ page.hiddenTotal = 0 /\ ~page.truncated => all = {}
            /\ page.hiddenConfident = Adds(visits, [q EXCEPT !.uncertainOnly = FALSE], q)
            /\ page.hiddenThin = Adds(visits, [q EXCEPT !.minFrames = 1], q)
            /\ page.hiddenNoGallery = Adds(visits, [q EXCEPT !.requireGallery = FALSE], q)
        AllHonest(visits, all, capped) ==
            \A q \in Requests : Honest(QueuePage(visits, q, capped), visits, q, all)
    IN  QueueAsked => \A scope \in load.scopes :
            AllHonest(Ordered(scope),
                      {[frames |-> v.frames, span |-> v.span] : v \in ToSet(AnnotationVisits(scope))},
                      ScanCapped(scope))

FramesIn(visits) == UNION {visits[k].frames : k \in DOMAIN visits}

(* The annotation tool's lists tell one story: every present frame is       *)
(* either still asked for or under review, never both; the progress readout *)
(* ends exactly when the queue does; what the phone may confirm is the name *)
(* on its card, and it has frames to write; a flag is called settled or     *)
(* empty only when every live frame of its span was looked at               *)
(* (annotation_visits, labeled_visits, label_progress, visit_label_state    *)
(* and flagged_visits, each with a query of its own).                       *)
ListsAgree ==
    QueueAsked =>
        /\ \A scope \in load.scopes :
            LET queue == AnnotationVisits(scope)
                review == LabeledVisits(scope)
                progress == LabelProgress(scope)
            IN  /\ FramesIn(queue) \cap FramesIn(review) = {}
                /\ PresentFrames(scope) \subseteq FramesIn(queue) \cup FramesIn(review)
                /\ progress.crops + Cardinality(FramesIn(queue)) = Cardinality(PresentFrames(scope))
                /\ (progress.decided = progress.total) <=> (queue = <<>>)
                /\ progress.total - progress.decided <= Len(queue)
        /\ \A lo \in Ids, hi \in Ids :
            LET span == [since |-> lo, until |-> hi]
                state == LabelState(span)
            IN  lo <= hi =>
                /\ state.reason = "ok" =>
                    /\ state.undecided > 0
                    /\ \A event \in ToSet(Events(NULL, NULL).events) :
                        event.start = lo /\ event.end = hi /\ load.evicted = 0 =>
                            event.identity = state.identity
                /\ state.reason = "all_labelled" => FlagLabel(span) # NULL
                /\ FlagState(span) \in {"labellable", "no_detection"} =>
                    \A i \in Live : InScope(i, span) => frames[i].yolo # NULL
                /\ FlagState(span) = "no_detection" => Undecided(span) = {} /\ FlagFrames(span) = {}
                /\ FlagLabel(span) # NULL => FlagLabel(span).best \in state.existing

EnrolAsked == load.reads = "enrol"

(* The training page's pre-check, its list of cats and the build count the  *)
(* same crops, whatever grades, cats and geometry are chosen, or a build is *)
(* waved through that finds too few (count_identified_crops,                *)
(* enrollable_cats, labeled_crops and cat_regime_coverage).                 *)
BuildGetsWhatWasCounted ==
    EnrolAsked =>
        /\ \A q \in load.requests :
            LET counts == CountIdentifiedCrops(q)
                offered == [c \in load.active \ q.exclude |-> EnrollableCats(q)[c]]
            IN  /\ counts.crops = Cardinality(Embedded(q))
                /\ counts.cats = Cardinality({Row(i).cat : i \in Embedded(q)})
                /\ counts.crops = MapThenSumSet(LAMBDA c : offered[c], DOMAIN offered)
                /\ counts.cats = Cardinality({c \in DOMAIN offered : offered[c] > 0})
        /\ \A c \in load.active :
            /\ RegimeCoverage[c].total = EnrollableCats([qualities |-> NULL, exclude |-> {}, geometry |-> NULL])[c]
            /\ RegimeCoverage[c].day + RegimeCoverage[c].night = RegimeCoverage[c].total

(* The annotation and training pages agree with the rows, with one another  *)
(* and with the build.                                                      *)
QueuesAgree == FilteredIsNotFinished /\ ListsAgree /\ BuildGetsWhatWasCounted
=============================================================================
