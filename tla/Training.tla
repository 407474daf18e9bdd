------------------------------ MODULE Training ------------------------------
(***************************************************************************)
(* TrainingManager (compute/learning/runner.py) and what its jobs leave    *)
(* behind in the store: validation runs with their report directories,     *)
(* model versions with their galleries, identifications of frames.  Around *)
(* it the routes promote and delete models and runs, frames come, are      *)
(* detected and evicted, and the process dies at any moment.               *)
(*                                                                         *)
(* One worker thread exists at a time (the argument is that of JobQueue,   *)
(* whose lock discipline this manager repeats), so step is the one thread's*)
(* program counter.  A validation run and a model version are named by the *)
(* job that made them: rows get rising ids that are never reused, and jobs *)
(* run in the order of their numbers.  dir is a job's directory on disk.   *)
(*                                                                         *)
(* recorded and promoted are history variables: the jobs whose row was     *)
(* ever inserted, and whether any model was ever made active.              *)
(***************************************************************************)
EXTENDS Integers, Sequences, FiniteSets, FiniteSetsExt

CONSTANTS
    Requests,      \* requests: records of a kind and a span of frame ids
    MaxJobs,       \* bound: jobs accepted
    MaxFrame,      \* bound: frame ids
    Page,          \* batch of iter_unidentified
    Batch,         \* frames per flush of run_identify
    Keep,          \* reports kept by prune_feasibility_reports
    MaxFaults      \* bound: steps that raise, and process exits

ASSUME LimitsAssumption ==
    /\ {Page, Batch, MaxFrame} \subseteq Nat \ {0}
    /\ {MaxJobs, Keep, MaxFaults} \subseteq Nat
ASSUME RequestsAssumption ==
    /\ Requests # {}
    /\ Requests \subseteq [kind : {"feasibility", "gallery-build", "identify", "visit-identify"},
                          span : SUBSET (1..MaxFrame)]

VARIABLES
    accepted, request,             \* jobs accepted and what each asks for
    pending, current, stop,        \* deque, running job, its stop Event
    step, pass, doomed,            \* the worker thread and its locals
    outcome,                       \* the history's word for each job
    dir,                           \* each job's directory
    status, runs, removing,        \* model_versions, feasibility_runs, and
                                   \* deletions that have yet to remove a directory
    frames, seen, detected,        \* frames, those with a verdict, a present one
    identified,                    \* identifications: frame and model
    faults,
    recorded, promoted

queue    == <<accepted, request, pending, current, stop>>
worker   == <<step, pass, doomed>>
registry == <<status, runs, removing, recorded, promoted>>
footage  == <<frames, seen, detected>>
vars == <<queue, worker, outcome, dir, registry, footage, identified, faults>>

Jobs == 1..MaxJobs
FrameIds == 1..MaxFrame
Active == {v \in Jobs : status[v] = "active"}

Kind(j) == request[j].kind
Span(j) == request[j].span

(* The locals of an identify or a visit-identify job: its model, the last  *)
(* id fetched, the rows of the page not yet taken, the batch, whether the  *)
(* listing has ended, and the frames counted at its start.                 *)
NoPass == [model |-> 0, cursor |-> 0, page |-> {}, buf |-> {},
           final |-> FALSE, owed |-> {}]

Init ==
    /\ accepted = 0
    /\ request = [j \in Jobs |-> CHOOSE r \in Requests : TRUE]
    /\ pending = <<>> /\ current = 0 /\ stop = FALSE
    /\ step = "idle" /\ pass = NoPass /\ doomed = {}
    /\ outcome = [j \in Jobs |-> "none"]
    /\ dir = [j \in Jobs |-> "none"]
    /\ status = [j \in Jobs |-> "none"]
    /\ runs = {} /\ removing = {}
    /\ frames = {} /\ seen = {} /\ detected = {} /\ identified = {}
    /\ faults = 0
    /\ recorded = {} /\ promoted = FALSE

(* A step that raises or half-fails, or an exit, draws on the bound. *)
Fault == faults < MaxFaults /\ faults' = faults + 1

-----------------------------------------------------------------------------
(* The queue.                                                              *)

(* The head of q becomes the running job, with a fresh Event. *)
Promote(q) ==
    /\ stop' = FALSE /\ pass' = NoPass /\ doomed' = {}
    /\ IF q = <<>>
       THEN current' = 0 /\ step' = "idle" /\ pending' = q
       ELSE current' = Head(q) /\ step' = "prepared" /\ pending' = Tail(q)

(* The identify route refuses while no model is active. *)
MayRequest(r) == r.kind = "identify" => \E v \in Active : dir[v] = "whole"

(* A request equal to the running job's is dropped; one that equals a      *)
(* pending job's is not.                                                   *)
Enqueue(r) ==
    /\ accepted < MaxJobs /\ MayRequest(r)
    /\ current # 0 => request[current] # r
    /\ accepted' = accepted + 1
    /\ request' = [request EXCEPT ![accepted + 1] = r]
    /\ IF current = 0
       THEN Promote(Append(pending, accepted + 1))
       ELSE /\ pending' = Append(pending, accepted + 1)
            /\ UNCHANGED <<current, stop, worker>>
    /\ UNCHANGED <<outcome, dir, registry, footage, identified, faults>>

Cancel ==
    /\ current # 0 /\ ~stop
    /\ stop' = TRUE
    /\ UNCHANGED <<accepted, request, pending, current, worker, outcome, dir,
                   registry, footage, identified, faults>>

ClearPending ==
    /\ pending # <<>>
    /\ pending' = <<>>
    /\ UNCHANGED <<accepted, request, current, stop, worker, outcome, dir,
                   registry, footage, identified, faults>>

StopAll ==
    /\ current # 0
    /\ pending' = <<>> /\ stop' = TRUE
    /\ UNCHANGED <<accepted, request, current, worker, outcome, dir,
                   registry, footage, identified, faults>>

(* Mutant: the Event is looked at before the summary. *)
OutcomeStopFirst ==
    IF step = "raised" THEN "failed"
    ELSE IF stop THEN "canceled" ELSE "done"

Outcome ==
    IF step = "raised" THEN "failed"
    ELSE IF step = "returned" THEN "done"
    ELSE IF stop THEN "canceled" ELSE "done"

(* _run's finally: record the outcome and promote the next job. *)
Finally ==
    /\ step \in {"returned", "cancelled", "abandoned", "raised"}
    /\ outcome' = [outcome EXCEPT ![current] = Outcome]
    /\ Promote(pending)
    /\ UNCHANGED <<accepted, request, dir, registry, footage, identified, faults>>

(* The worker moves on to s and leaves the store as it is. *)
GoesTo(s) ==
    /\ step' = s
    /\ UNCHANGED <<queue, doomed, outcome, registry, footage>>

StartThread ==
    /\ step = "prepared"
    /\ GoesTo(IF Kind(current) = "identify" THEN "choosing"
              ELSE IF Kind(current) = "visit-identify" THEN "detecting"
              ELSE "embedding")
    /\ UNCHANGED <<pass, dir, identified, faults>>

-----------------------------------------------------------------------------
(* Validation runs and gallery builds: embed the crops, write the          *)
(* directory, insert the row; a validation run then prunes old reports.    *)

EmbedCancelled ==
    /\ step = "embedding" /\ stop
    /\ GoesTo("cancelled")
    /\ UNCHANGED <<pass, dir, identified, faults>>

(* Too few crops or cats: a summary, no directory, no row. *)
NotEnough ==
    /\ step = "embedding"
    /\ GoesTo("returned")
    /\ UNCHANGED <<pass, dir, identified, faults>>

(* A stop set after the last boundary is not seen any more. *)
MakeDirectory ==
    /\ step = "embedding"
    /\ dir' = [dir EXCEPT ![current] = "partial"]
    /\ GoesTo("writing")
    /\ UNCHANGED <<pass, identified, faults>>

WriteArtifact ==
    /\ step = "writing"
    /\ dir' = [dir EXCEPT ![current] = "whole"]
    /\ GoesTo("written")
    /\ UNCHANGED <<pass, identified, faults>>

(* Nothing removes what a failing writer leaves. *)
WriterRaises ==
    /\ step \in {"embedding", "writing"}
    /\ Fault
    /\ GoesTo("raised")
    /\ UNCHANGED <<pass, dir, identified>>

(* add_feasibility_run or add_model_version, in one transaction. *)
InsertRow ==
    /\ step = "written"
    /\ recorded' = recorded \cup {current}
    /\ IF Kind(current) = "feasibility"
       THEN runs' = runs \cup {current} /\ step' = "recorded" /\ UNCHANGED status
       ELSE /\ status' = [status EXCEPT ![current] = "draft"]
            /\ step' = "returned" /\ UNCHANGED runs
    /\ UNCHANGED <<queue, pass, doomed, outcome, dir, removing, promoted,
                   footage, identified, faults>>

(* The directory goes with ignore_errors. *)
InsertRaises ==
    /\ step = "written"
    /\ Fault
    /\ \E rest \in {"none", "partial", "whole"} : dir' = [dir EXCEPT ![current] = rest]
    /\ GoesTo("raised")
    /\ UNCHANGED <<pass, identified>>

Newer(S, r) == {n \in S : n > r}

(* Mutant: the rows are listed oldest first. *)
AgedOutAscending == {r \in runs : Cardinality({n \in runs : n < r}) >= Keep}

AgedOut == {r \in runs : Cardinality(Newer(runs, r)) >= Keep}

(* prune_feasibility_reports lists the rows under the lock ... *)
ListAgedOut ==
    /\ step = "recorded"
    /\ doomed' = AgedOut
    /\ step' = "pruning"
    /\ UNCHANGED <<queue, pass, outcome, dir, registry, footage, identified, faults>>

(* ... and removes directories outside it; an OSError is swallowed. *)
RemoveAgedOut ==
    /\ step = "pruning"
    /\ IF doomed = {}
       THEN step' = "returned" /\ UNCHANGED <<doomed, dir, faults>>
       ELSE /\ doomed' = doomed \ {Max(doomed)}
            /\ UNCHANGED step
            /\ \/ /\ dir' = [dir EXCEPT ![Max(doomed)] = "none"]
                  /\ UNCHANGED faults
               \/ /\ Fault /\ dir[Max(doomed)] # "none"
                  /\ \E rest \in {"partial", dir[Max(doomed)]} :
                        dir' = [dir EXCEPT ![Max(doomed)] = rest]
    /\ UNCHANGED <<queue, pass, outcome, registry, footage, identified>>

-----------------------------------------------------------------------------
(* A visit-identify job first detects the frames of its span that have no   *)
(* verdict, in id order, each tried once.                                   *)

Untried == {f \in Span(current) \cap (frames \ seen) : f > pass.cursor}

DetectFrame ==
    /\ step = "detecting" /\ Untried # {}
    /\ pass' = [pass EXCEPT !.cursor = Min(Untried)]
    /\ \/ /\ seen' = seen \cup {Min(Untried)}
          /\ \E present \in {{}, {Min(Untried)}} : detected' = detected \cup present
          /\ UNCHANGED faults
       \/ Fault /\ UNCHANGED <<seen, detected>>
    /\ UNCHANGED <<queue, step, doomed, outcome, dir, registry, frames, identified>>

(* The detector returns at its end, or early when it sees the stop. *)
DetectReturns ==
    /\ step = "detecting"
    /\ Untried = {} \/ stop
    /\ GoesTo(IF stop THEN "abandoned" ELSE "choosing")
    /\ pass' = NoPass
    /\ UNCHANGED <<dir, identified, faults>>

(* active_model: the active version, unless its gallery is missing. *)
ChooseModel ==
    /\ step = "choosing"
    /\ \/ \E v \in Active :
            /\ dir[v] = "whole"
            /\ pass' = [NoPass EXCEPT !.model = v]
            /\ GoesTo("loading")
       \/ /\ \A v \in Active : dir[v] # "whole"
          /\ GoesTo(IF Kind(current) = "identify" THEN "raised" ELSE "returned")
          /\ UNCHANGED pass
    /\ UNCHANGED <<dir, identified, faults>>

LoadGallery ==
    /\ step = "loading"
    /\ GoesTo(IF dir[pass.model] = "whole" THEN "counting" ELSE "raised")
    /\ UNCHANGED <<pass, dir, identified, faults>>

(* The frames of the span with a present verdict and no row of the model. *)
Unidentified(v) == {f \in detected \cap Span(current) : <<f, v>> \notin identified}

(* count_unidentified, then the first call of progress. *)
CountFrames ==
    /\ step = "counting"
    /\ pass' = [pass EXCEPT !.owed = Unidentified(pass.model)]
    /\ GoesTo(IF stop THEN "cancelled" ELSE "fetching")
    /\ UNCHANGED <<dir, identified, faults>>

LowestOf(S, n) == {f \in S : Cardinality({g \in S : g < f}) < n}

(* The batch is filled from the page; a full batch is flushed, and so is   *)
(* what is left when the listing has ended; else another page is fetched.  *)
Refill(p) ==
    LET taken == LowestOf(p.page, Batch - Cardinality(p.buf))
    IN  [p EXCEPT !.page = p.page \ taken, !.buf = p.buf \cup taken]

AfterRefill(p) ==
    IF Cardinality(p.buf) = Batch \/ (p.final /\ p.buf # {}) THEN "matching"
    ELSE IF p.final THEN "returned" ELSE "fetching"

(* The next page of the listing, read under the lock, into the batch. *)
Fetched ==
    LET rows == LowestOf({f \in Unidentified(pass.model) : f > pass.cursor}, Page)
    IN  Refill([pass EXCEPT !.page = rows,
                            !.cursor = IF rows = {} THEN @ ELSE Max(rows),
                            !.final = (rows = {})])

(* Mutant: what is left in the batch at the end is not flushed. *)
FetchPageForgetsTail ==
    /\ step = "fetching"
    /\ pass' = Fetched
    /\ GoesTo(IF Fetched.final THEN "returned" ELSE AfterRefill(Fetched))
    /\ UNCHANGED <<dir, identified, faults>>

FetchPage ==
    /\ step = "fetching"
    /\ pass' = Fetched
    /\ GoesTo(AfterRefill(Fetched))
    /\ UNCHANGED <<dir, identified, faults>>

(* write_identifications_batch: only frames that still have a row. *)
RowsFor(S) == {<<f, pass.model>> : f \in S \cap frames}

(* The frames of the batch that were embedded get their match row; the     *)
(* others stay in the batch for their marker row.                          *)
WriteMatches ==
    /\ step = "matching"
    /\ \E embedded \in SUBSET pass.buf :
        /\ identified' = identified \cup RowsFor(embedded)
        /\ pass' = [pass EXCEPT !.buf = pass.buf \ embedded]
    /\ GoesTo("marking")
    /\ UNCHANGED <<dir, faults>>

(* Then progress is called, and the batch is filled again. *)
WriteMarkers ==
    /\ step = "marking"
    /\ identified' = identified \cup RowsFor(pass.buf)
    /\ LET p == Refill([pass EXCEPT !.buf = {}])
       IN  pass' = p /\ GoesTo(IF stop THEN "cancelled" ELSE AfterRefill(p))
    /\ UNCHANGED <<dir, faults>>

PassRaises ==
    /\ step \in {"detecting", "loading", "counting", "fetching", "matching", "marking"}
    /\ Fault
    /\ GoesTo("raised")
    /\ UNCHANGED <<pass, dir, identified>>

-----------------------------------------------------------------------------
(* The registry's routes.                                                  *)

(* Mutant: the incumbent is not retired. *)
PromoteModelAddsActive(v) ==
    /\ status[v] \in {"draft", "retired"} /\ dir[v] = "whole"
    /\ status' = [status EXCEPT ![v] = "active"]
    /\ promoted' = TRUE
    /\ UNCHANGED <<queue, worker, outcome, dir, runs, removing, recorded,
                   footage, identified, faults>>

PromoteModel(v) ==
    /\ status[v] \in {"draft", "retired"} /\ dir[v] = "whole"
    /\ status' = [w \in Jobs |-> IF w = v THEN "active"
                                 ELSE IF w \in Active THEN "retired" ELSE status[w]]
    /\ promoted' = TRUE
    /\ UNCHANGED <<queue, worker, outcome, dir, runs, removing, recorded,
                   footage, identified, faults>>

(* The row and its identifications go in one transaction; the directory    *)
(* follows after the commit.                                               *)
DeleteModel(v) ==
    /\ status[v] \in {"draft", "retired"}
    /\ status' = [status EXCEPT ![v] = "none"]
    /\ identified' = {i \in identified : i[2] # v}
    /\ removing' = removing \cup {v}
    /\ UNCHANGED <<queue, worker, outcome, dir, runs, recorded, promoted,
                   footage, faults>>

DeleteRun(r) ==
    /\ r \in runs
    /\ runs' = runs \ {r}
    /\ removing' = removing \cup {r}
    /\ UNCHANGED <<queue, worker, outcome, dir, status, recorded, promoted,
                   footage, identified, faults>>

RemoveDirectory(j) ==
    /\ j \in removing
    /\ removing' = removing \ {j}
    /\ \/ dir' = [dir EXCEPT ![j] = "none"] /\ UNCHANGED faults
       \/ /\ Fault /\ dir[j] # "none"
          /\ \E rest \in {"partial", dir[j]} : dir' = [dir EXCEPT ![j] = rest]
    /\ UNCHANGED <<queue, worker, outcome, status, runs, recorded, promoted,
                   footage, identified>>

-----------------------------------------------------------------------------
(* The store around them: frames come, the always-on worker detects them,  *)
(* eviction takes the oldest with its verdicts and identifications.        *)

Arrive ==
    /\ MaxFrame \notin frames
    /\ frames' = frames \cup {IF frames = {} THEN 1 ELSE Max(frames) + 1}
    /\ UNCHANGED <<queue, worker, outcome, dir, registry, seen, detected,
                   identified, faults>>

Detect(f) ==
    /\ f \in frames \ seen
    /\ seen' = seen \cup {f}
    /\ \E present \in {{}, {f}} : detected' = detected \cup present
    /\ UNCHANGED <<queue, worker, outcome, dir, registry, frames, identified, faults>>

Evict ==
    /\ Cardinality(frames) > 1
    /\ LET f == Min(frames)
       IN  /\ frames' = frames \ {f}
           /\ seen' = seen \ {f} /\ detected' = detected \ {f}
           /\ identified' = {i \in identified : i[1] # f}
    /\ UNCHANGED <<queue, worker, outcome, dir, registry, faults>>

(* The process exits, after the shutdown hook or in the middle of a step:  *)
(* the manager's memory is lost, the store and the disk remain.            *)
Restart ==
    /\ Fault
    /\ Promote(<<>>)
    /\ outcome' = [j \in Jobs |-> "none"]
    /\ removing' = {}
    /\ UNCHANGED <<accepted, request, dir, status, runs, recorded, promoted,
                   footage, identified>>

QueueStep == Cancel \/ ClearPending \/ StopAll \/ Finally \/ StartThread
         \/ (\E r \in Requests : Enqueue(r))

ArtifactStep == EmbedCancelled \/ NotEnough \/ MakeDirectory \/ WriteArtifact
            \/ WriterRaises \/ InsertRow \/ InsertRaises \/ ListAgedOut
            \/ RemoveAgedOut

PassStep == DetectFrame \/ DetectReturns \/ ChooseModel \/ LoadGallery \/ CountFrames
        \/ FetchPage \/ WriteMatches \/ WriteMarkers \/ PassRaises

Routes == \E j \in Jobs : PromoteModel(j) \/ DeleteModel(j) \/ DeleteRun(j)
                          \/ RemoveDirectory(j)

Around == Arrive \/ Evict \/ (\E f \in FrameIds : Detect(f)) \/ Restart

Next == QueueStep \/ ArtifactStep \/ PassStep \/ Routes \/ Around

Spec == Init /\ [][Next]_vars

-----------------------------------------------------------------------------
Steps ==
    {"idle", "prepared", "returned", "cancelled", "abandoned", "raised",
     "embedding", "writing", "written", "recorded", "pruning",
     "detecting", "choosing", "loading", "counting", "fetching", "matching", "marking"}

Passes ==
    [model : 0..MaxJobs, cursor : 0..MaxFrame, page : SUBSET FrameIds, buf : SUBSET FrameIds,
     final : BOOLEAN, owed : SUBSET FrameIds]

TypeOK ==
    /\ accepted \in 0..MaxJobs /\ request \in [Jobs -> Requests]
    /\ pending \in Seq(Jobs) /\ current \in 0..MaxJobs /\ stop \in BOOLEAN
    /\ step \in Steps /\ pass \in Passes /\ doomed \subseteq Jobs
    /\ outcome \in [Jobs -> {"none", "done", "canceled", "failed"}]
    /\ dir \in [Jobs -> {"none", "partial", "whole"}]
    /\ status \in [Jobs -> {"none", "draft", "active", "retired"}]
    /\ runs \subseteq Jobs /\ removing \subseteq Jobs
    /\ frames \subseteq FrameIds /\ seen \subseteq frames /\ detected \subseteq seen
    /\ identified \subseteq frames \X Jobs
    /\ faults \in 0..MaxFaults
    /\ recorded \subseteq Jobs /\ promoted \in BOOLEAN

(* A row never promises a file that is not there (add_model_version,       *)
(* delete_model_version, prune_feasibility_reports): each model version    *)
(* has its whole gallery, a run its report while fewer than Keep newer     *)
(* runs were ever recorded; and from the first promotion on exactly one    *)
(* version is active.  Failing writers, inserts and removals, deletions    *)
(* that stop between row and directory, and restarts included.             *)
ModelsUsable == \A v \in Jobs : status[v] # "none" => dir[v] = "whole"

RecordedRuns == {r \in recorded : Kind(r) = "feasibility"}

NewestReportsKept ==
    \A r \in runs : Cardinality(Newer(RecordedRuns, r)) < Keep => dir[r] = "whole"

OneActive == Cardinality(Active) = (IF promoted THEN 1 ELSE 0)

RegistryHonest == ModelsUsable /\ NewestReportsKept /\ OneActive

(* A validation run or a build that the history calls canceled has left no *)
(* directory and never had a row, wherever the cancel fell between its     *)
(* last batch and its bookkeeping (the comment in _run's finally).         *)
CanceledLeavesNothing ==
    \A j \in Jobs :
        outcome[j] = "canceled" /\ Kind(j) \in {"feasibility", "gallery-build"}
            => dir[j] = "none" /\ j \notin recorded

(* An identify pass that returns has left no frame it counted without a    *)
(* row of its model, although pages and batches are read and written with  *)
(* frames detected and evicted in between: the progress bar's 100 percent  *)
(* is true.  A model deleted meanwhile has no rows to owe.                 *)
PassCovers ==
    step = "returned" /\ pass.model # 0 /\ status[pass.model] # "none" =>
        \A f \in pass.owed \cap frames : <<f, pass.model>> \in identified
=============================================================================
