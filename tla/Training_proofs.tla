--------------------------- MODULE Training_proofs ---------------------------
(***************************************************************************)
(* What the training manager leaves behind is honest, for every number of  *)
(* jobs, frames, reports kept and faults, and every page and batch.        *)
(*                                                                         *)
(* The argument for the registry is that a job no worker has taken up yet  *)
(* has left no trace (Waiting), that a job has no row before it inserts    *)
(* one (Working), and that only jobs with a row are ever pruned or deleted *)
(* (Rows): so no two hands work on one directory.  For an identify pass it *)
(* is that every frame it counted has its row, is in the batch or the page *)
(* in hand, or lies past the cursor (Covering).                            *)
(***************************************************************************)
EXTENDS Training, WellFoundedInduction, FiniteSetTheorems, SequenceTheorems, TLAPS

(* A nonempty set of naturals has a least element, and a greatest one if it *)
(* is bounded.                                                              *)
LEMMA LeastNatural ==
    ASSUME NEW S, S \subseteq Nat, S # {}
    PROVE  \E m \in S : \A y \in S : m <= y
<1>1. PICK m \in S : \A y \in S : <<y, m>> \notin OpToRel(<, Nat)
  BY NatLessThanWellFounded, WFMin
<1>2. \A y \in S : y \in Nat /\ m \in Nat /\ ~(y < m)
  BY <1>1 DEF OpToRel
<1> QED BY <1>2

LEMMA MinFacts ==
    ASSUME NEW S, S \subseteq Nat, S # {}
    PROVE  Min(S) \in S /\ \A y \in S : Min(S) <= y
BY LeastNatural DEF Min

LEMMA MaxFacts ==
    ASSUME NEW n \in Nat, NEW S, S \subseteq 0..n, S # {}
    PROVE  Max(S) \in S /\ \A y \in S : y <= Max(S)
<1> DEFINE T == {n - y : y \in S}
<1>1. T \subseteq Nat
  BY \A y \in S : n - y \in Nat
<1>2. T # {}
  OBVIOUS
<1>3. PICK m \in T : \A z \in T : m <= z
  <2> HIDE DEF T
  <2> QED BY <1>1, <1>2, LeastNatural
<1>4. PICK x \in S : \A y \in S : n - x <= n - y
  BY <1>3
<1>5. Max(S) \in S /\ \A y \in S : Max(S) >= y
  <2>1. \A y \in S : x >= y
    BY <1>4
  <2> QED BY <2>1 DEF Max
<1> QED BY <1>5

-----------------------------------------------------------------------------

ArtifactKinds == {"feasibility", "gallery-build"}
ArtifactSteps == {"embedding", "writing", "written", "recorded", "pruning"}
PassSteps == {"detecting", "abandoned", "choosing", "loading", "counting",
              "fetching", "matching", "marking"}

(* A worker has a job, and an identify pass a model.                        *)
TypeInv ==
    /\ TypeOK
    /\ (step = "idle") <=> (current = 0)
    /\ step \in {"loading", "counting", "fetching", "matching", "marking"} => pass.model # 0

Waits(j) == j > accepted \/ \E i \in 1..Len(pending) : pending[i] = j
Fresh(j) == outcome[j] = "none" /\ dir[j] = "none" /\ j \notin recorded

Waiting ==
    /\ \A j \in Jobs : Waits(j) => Fresh(j) /\ j # current
    /\ \A i, k \in 1..Len(pending) : pending[i] = pending[k] => i = k
    /\ \A i \in 1..Len(pending) : pending[i] <= accepted
    /\ current <= accepted

Working ==
    /\ current # 0 => outcome[current] = "none"
    /\ step \in {"prepared", "embedding"} => dir[current] = "none"
    /\ step \in {"prepared", "embedding", "writing", "written"} => current \notin recorded
    /\ step = "written" => dir[current] = "whole"
    /\ step \in ArtifactSteps => Kind(current) \in ArtifactKinds
    /\ step \in PassSteps => Kind(current) \notin ArtifactKinds
    /\ step = "cancelled" /\ Kind(current) \in ArtifactKinds =>
          dir[current] = "none" /\ current \notin recorded

Rows ==
    /\ \A j \in Jobs : status[j] # "none" =>
          j \in recorded \ removing /\ Kind(j) # "feasibility" /\ dir[j] = "whole"
    /\ runs \subseteq RecordedRuns \ removing
    /\ removing \subseteq recorded
    /\ doomed \subseteq RecordedRuns
    /\ \A r \in doomed : ~(Cardinality(Newer(RecordedRuns, r)) < Keep)
    /\ NewestReportsKept
    /\ IF promoted THEN \E v \in Jobs : Active = {v} ELSE Active = {}

RegistryInv == Waiting /\ Working /\ Rows /\ CanceledLeavesNothing

(* The frames a pass counted and that are still there.                      *)
Owed == pass.owed \cap frames

Covered(f) ==
    \/ <<f, pass.model>> \in identified
    \/ step # "returned" /\ (f \in pass.page \cup pass.buf \/ (f > pass.cursor /\ ~pass.final))

Covering ==
    /\ \A f \in pass.owed : \E g \in frames : f <= g
    /\ current # 0 => Owed \subseteq detected \cap Span(current)
    /\ step \in {"prepared", "choosing"} \cup ArtifactSteps => pass = NoPass
    /\ step = "detecting" => pass.model = 0 /\ pass.owed = {}
    /\ step \in {"loading", "counting"} => pass = [NoPass EXCEPT !.model = pass.model]
    /\ step \in {"fetching", "matching", "marking"} =>
          \A f \in pass.page \cup pass.buf : f <= pass.cursor
    /\ step = "fetching" => pass.page = {} /\ Cardinality(pass.buf) < Batch /\ ~pass.final
    /\ step \in {"fetching", "matching", "marking", "returned"} =>
          (pass.model # 0 /\ status[pass.model] # "none" => \A f \in Owed : Covered(f))
-----------------------------------------------------------------------------
LEMMA Limits ==
    /\ Page \in Nat /\ Page > 0 /\ Batch \in Nat /\ Batch > 0
    /\ MaxJobs \in Nat /\ MaxFrame \in Nat /\ MaxFrame > 0
    /\ Keep \in Nat /\ MaxFaults \in Nat
BY LimitsAssumption

LEMMA FinalFrame ==
    ASSUME NEW S, S \subseteq FrameIds, S # {}
    PROVE  /\ Max(S) \in S /\ Min(S) \in S
           /\ \A i \in S : i \in Nat /\ Min(S) <= i /\ i <= Max(S)
<1>1. S \subseteq Nat /\ S \subseteq 0..MaxFrame /\ MaxFrame \in Nat
  BY Limits DEF FrameIds
<1>2. Max(S) \in S /\ \A i \in S : i <= Max(S)
  BY <1>1, MaxFacts
<1>3. Min(S) \in S /\ \A i \in S : Min(S) <= i
  BY <1>1, MinFacts
<1> QED BY <1>1, <1>2, <1>3

LEMMA LastJob ==
    ASSUME NEW S, S \subseteq Jobs, S # {}
    PROVE  Max(S) \in S
<1>1. S \subseteq 0..MaxJobs /\ MaxJobs \in Nat
  BY Limits DEF Jobs
<1> QED BY <1>1, MaxFacts

(* What a set of frames gives up first.                                     *)
LEMMA LowestSubset == \A S, n : LowestOf(S, n) \subseteq S
BY DEF LowestOf

LEMMA NoPassType == NoPass \in Passes /\ \A v \in Jobs : [NoPass EXCEPT !.model = v] \in Passes
<1>1. 0 \in 0..MaxJobs /\ 0 \in 0..MaxFrame /\ Jobs \subseteq 0..MaxJobs
  BY Limits DEF Jobs
<1>2. NoPass \in Passes
  BY <1>1 DEF NoPass, Passes
<1>3. \A v \in Jobs : [NoPass EXCEPT !.model = v] \in Passes
  BY <1>1, <1>2 DEF Passes
<1> QED BY <1>2, <1>3

LEMMA RefillType ==
    ASSUME NEW p \in Passes
    PROVE  /\ Refill(p) \in Passes /\ Refill(p).model = p.model /\ Refill(p).cursor = p.cursor
           /\ Refill(p).final = p.final /\ Refill(p).owed = p.owed
           /\ \E taken \in SUBSET p.page : /\ taken = LowestOf(p.page, Batch - Cardinality(p.buf))
                                           /\ Refill(p).page = p.page \ taken
                                           /\ Refill(p).buf = p.buf \cup taken
<1> DEFINE taken == LowestOf(p.page, Batch - Cardinality(p.buf))
<1>1. taken \subseteq p.page
  BY LowestSubset
<1>2. Refill(p) = [p EXCEPT !.page = p.page \ taken, !.buf = p.buf \cup taken]
  BY DEF Refill
<1> HIDE DEF taken
<1>3. p.page \subseteq FrameIds /\ p.buf \subseteq FrameIds
  BY DEF Passes
<1>4. p.page \ taken \in SUBSET FrameIds /\ p.buf \cup taken \in SUBSET FrameIds
  BY <1>1, <1>3
<1>5. /\ Refill(p) \in Passes /\ Refill(p).model = p.model /\ Refill(p).cursor = p.cursor
      /\ Refill(p).final = p.final /\ Refill(p).owed = p.owed
      /\ Refill(p).page = p.page \ taken /\ Refill(p).buf = p.buf \cup taken
  BY <1>2, <1>4 DEF Passes
<1> QED BY <1>1, <1>5 DEF taken

(* The page the listing returns, before the batch is filled from it.        *)
NextRows == LowestOf({f \in Unidentified(pass.model) : f > pass.cursor}, Page)
NextPage == [pass EXCEPT !.page = NextRows,
                         !.cursor = IF NextRows = {} THEN @ ELSE Max(NextRows),
                         !.final = (NextRows = {})]

LEMMA NextPageType ==
    ASSUME TypeOK
    PROVE  /\ Fetched = Refill(NextPage) /\ NextPage \in Passes /\ NextRows \subseteq FrameIds
           /\ NextPage.model = pass.model /\ NextPage.owed = pass.owed /\ NextPage.buf = pass.buf
           /\ NextPage.page = NextRows /\ NextPage.final = (NextRows = {})
           /\ NextPage.cursor = IF NextRows = {} THEN pass.cursor ELSE Max(NextRows)
<1>1. Fetched = Refill(NextPage)
  BY DEF Fetched, NextPage, NextRows
<1>2. NextRows \subseteq FrameIds
  <2>1. NextRows \subseteq {f \in Unidentified(pass.model) : f > pass.cursor}
    BY LowestSubset DEF NextRows
  <2> QED BY <2>1 DEF Unidentified, TypeOK
<1>3. NextRows # {} => Max(NextRows) \in 0..MaxFrame
  <2>1. FrameIds \subseteq 0..MaxFrame
    BY Limits DEF FrameIds
  <2> QED BY <1>2, <2>1, FinalFrame
<1>4. pass \in Passes
  BY DEF TypeOK
<1> HIDE DEF NextRows
<1>5. /\ NextPage \in Passes
      /\ NextPage.model = pass.model /\ NextPage.owed = pass.owed /\ NextPage.buf = pass.buf
      /\ NextPage.page = NextRows /\ NextPage.final = (NextRows = {})
      /\ NextPage.cursor = IF NextRows = {} THEN pass.cursor ELSE Max(NextRows)
  BY <1>2, <1>3, <1>4 DEF NextPage, Passes
<1> QED BY <1>1, <1>2, <1>5

QueueOK ==
    /\ accepted \in 0..MaxJobs /\ request \in [Jobs -> Requests]
    /\ pending \in Seq(Jobs) /\ current \in 0..MaxJobs /\ stop \in BOOLEAN

WorkerOK ==
    /\ step \in Steps /\ pass \in Passes /\ doomed \subseteq Jobs
    /\ (step = "idle") <=> (current = 0)
    /\ step \in {"loading", "counting", "fetching", "matching", "marking"} => pass.model # 0

StoreOK ==
    /\ outcome \in [Jobs -> {"none", "done", "canceled", "failed"}]
    /\ dir \in [Jobs -> {"none", "partial", "whole"}]
    /\ status \in [Jobs -> {"none", "draft", "active", "retired"}]
    /\ runs \subseteq Jobs /\ removing \subseteq Jobs
    /\ recorded \subseteq Jobs /\ promoted \in BOOLEAN

FootageOK ==
    /\ frames \subseteq FrameIds /\ seen \subseteq frames /\ detected \subseteq seen
    /\ identified \subseteq frames \X Jobs

LEMMA TypeParts ==
    TypeInv => QueueOK /\ WorkerOK /\ StoreOK /\ FootageOK /\ faults \in 0..MaxFaults
BY DEF TypeInv, TypeOK, QueueOK, WorkerOK, StoreOK, FootageOK

LEMMA TypeWhole ==
    QueueOK /\ WorkerOK /\ StoreOK /\ FootageOK /\ faults \in 0..MaxFaults => TypeInv
BY DEF TypeInv, TypeOK, QueueOK, WorkerOK, StoreOK, FootageOK

LEMMA TypeKept ==
    QueueOK' /\ WorkerOK' /\ StoreOK' /\ FootageOK' /\ faults' \in 0..MaxFaults => TypeInv'
BY DEF TypeInv, TypeOK, QueueOK, WorkerOK, StoreOK, FootageOK

LEMMA PromoteType ==
    ASSUME NEW q \in Seq(Jobs), Promote(q)
    PROVE  /\ pending' \in Seq(Jobs) /\ current' \in 0..MaxJobs /\ stop' \in BOOLEAN
           /\ WorkerOK'
<1>1. Jobs \subseteq Nat /\ 0 \in 0..MaxJobs /\ Jobs \subseteq 0..MaxJobs /\ 0 \notin Jobs
  BY Limits DEF Jobs
<1>2. pass' = NoPass /\ NoPass \in Passes /\ doomed' = {} /\ stop' = FALSE
  BY NoPassType DEF Promote
<1>3. CASE q = <<>>
  BY <1>1, <1>2, <1>3 DEF Promote, WorkerOK, Steps
<1>4. CASE q # <<>>
  <2>1. Head(q) \in Jobs /\ Tail(q) \in Seq(Jobs)
    BY <1>4, HeadTailProperties
  <2>2. current' = Head(q) /\ step' = "prepared" /\ pending' = Tail(q)
    BY <1>4 DEF Promote
  <2> QED BY <1>1, <1>2, <2>1, <2>2 DEF WorkerOK, Steps
<1> QED BY <1>3, <1>4

LEMMA TypeInit == Init => TypeInv
<1> SUFFICES ASSUME Init PROVE TypeInv
  OBVIOUS
<1>1. request \in [Jobs -> Requests]
  <2>1. (CHOOSE r \in Requests : TRUE) \in Requests
    BY RequestsAssumption
  <2>2. request = [j \in Jobs |-> CHOOSE r \in Requests : TRUE]
    BY DEF Init
  <2> QED BY <2>1, <2>2
<1>2. /\ accepted = 0 /\ pending = <<>> /\ current = 0 /\ stop = FALSE
      /\ step = "idle" /\ pass = NoPass /\ doomed = {}
  BY DEF Init
<1>3. <<>> \in Seq(Jobs) /\ 0 \in 0..MaxJobs /\ 0 \in 0..MaxFaults
  BY Limits
<1>4. QueueOK
  BY <1>1, <1>2, <1>3 DEF QueueOK
<1>5. WorkerOK
  BY <1>2, NoPassType DEF WorkerOK, Steps
<1>6. /\ outcome = [j \in Jobs |-> "none"] /\ dir = [j \in Jobs |-> "none"]
      /\ status = [j \in Jobs |-> "none"]
      /\ runs = {} /\ removing = {} /\ recorded = {} /\ promoted = FALSE
      /\ frames = {} /\ seen = {} /\ detected = {} /\ identified = {} /\ faults = 0
  BY DEF Init
<1>7. StoreOK
  BY <1>6 DEF StoreOK
<1>8. FootageOK
  BY <1>6 DEF FootageOK
<1> QED BY <1>3, <1>4, <1>5, <1>6, <1>7, <1>8, TypeWhole

LEMMA FaultType == faults \in 0..MaxFaults /\ Fault => faults' \in 0..MaxFaults
BY Limits DEF Fault

LEMMA QueueType ==
    ASSUME TypeInv, QueueStep \/ Restart
    PROVE  TypeInv'
<1>0. QueueOK /\ WorkerOK /\ StoreOK /\ FootageOK /\ faults \in 0..MaxFaults
  BY TypeParts
<1>1. CASE Cancel \/ ClearPending \/ StopAll
  <2>0. <<>> \in Seq(Jobs)
    OBVIOUS
  <2>1. pending' \in Seq(Jobs) /\ stop' \in BOOLEAN
    BY <1>0, <1>1, <2>0 DEF Cancel, ClearPending, StopAll, QueueOK
  <2> QED BY <1>0, <1>1, <2>1
          DEF Cancel, ClearPending, StopAll, TypeInv, TypeOK, QueueOK, WorkerOK, worker, registry, footage
<1>2. CASE Finally
  <2>1. pending' \in Seq(Jobs) /\ current' \in 0..MaxJobs /\ stop' \in BOOLEAN /\ WorkerOK'
    BY <1>0, <1>2, PromoteType DEF Finally, QueueOK
  <2>2. outcome' \in [Jobs -> {"none", "done", "canceled", "failed"}]
    <3>1. Outcome \in {"none", "done", "canceled", "failed"}
      BY DEF Outcome
    <3> QED BY <1>0, <1>2, <3>1 DEF Finally, StoreOK
  <2> QED BY <1>0, <1>2, <2>1, <2>2, TypeKept
          DEF Finally, QueueOK, StoreOK, FootageOK, registry, footage
<1>3. CASE StartThread
  <2>1. step' \in {"choosing", "detecting", "embedding"} /\ UNCHANGED <<queue, pass, doomed>>
    BY <1>3 DEF StartThread, GoesTo
  <2>2. WorkerOK'
    BY <1>0, <1>3, <2>1 DEF StartThread, WorkerOK, Steps, queue
  <2> QED BY <1>0, <1>3, <2>1, <2>2, TypeKept
          DEF StartThread, GoesTo, QueueOK, StoreOK, FootageOK, queue, registry, footage
<1>4. ASSUME NEW r \in Requests, Enqueue(r) PROVE TypeInv'
  <2>1. accepted + 1 \in Jobs /\ accepted' \in 0..MaxJobs
    BY <1>0, <1>4, Limits DEF Enqueue, QueueOK, Jobs
  <2>2. Append(pending, accepted + 1) \in Seq(Jobs)
    BY <1>0, <2>1 DEF QueueOK
  <2>3. request' \in [Jobs -> Requests]
    BY <1>0, <1>4 DEF Enqueue, QueueOK
  <2>4. pending' \in Seq(Jobs) /\ current' \in 0..MaxJobs /\ stop' \in BOOLEAN /\ WorkerOK'
    <3>1. CASE current = 0
      BY <1>4, <2>2, <3>1, PromoteType DEF Enqueue
    <3>2. CASE current # 0
      BY <1>0, <1>4, <2>2, <3>2 DEF Enqueue, QueueOK, WorkerOK, worker
    <3> QED BY <3>1, <3>2
  <2> QED BY <1>0, <1>4, <2>1, <2>3, <2>4, TypeKept
          DEF Enqueue, QueueOK, StoreOK, FootageOK, registry, footage
<1>5. CASE Restart
  <2>1. <<>> \in Seq(Jobs)
    OBVIOUS
  <2>2. pending' \in Seq(Jobs) /\ current' \in 0..MaxJobs /\ stop' \in BOOLEAN /\ WorkerOK'
    BY <1>5, <2>1, PromoteType DEF Restart
  <2>3. StoreOK'
    BY <1>0, <1>5 DEF Restart, StoreOK
  <2>4. faults' \in 0..MaxFaults
    BY <1>0, <1>5, FaultType DEF Restart
  <2> QED BY <1>0, <1>5, <2>2, <2>3, <2>4, TypeKept DEF Restart, QueueOK, FootageOK, footage
<1> QED BY <1>1, <1>2, <1>3, <1>4, <1>5 DEF QueueStep

LEMMA ArtifactType ==
    ASSUME TypeInv, ArtifactStep
    PROVE  TypeInv'
<1>0. QueueOK /\ WorkerOK /\ StoreOK /\ FootageOK /\ faults \in 0..MaxFaults
  BY TypeParts
<1>1. /\ UNCHANGED <<accepted, request, pending, current, stop, frames, seen, detected, identified>>
      /\ faults' \in 0..MaxFaults
  BY <1>0, FaultType DEF ArtifactStep, EmbedCancelled, NotEnough, MakeDirectory, WriteArtifact,
       WriterRaises, InsertRow, InsertRaises, ListAgedOut, RemoveAgedOut, GoesTo, queue, footage
<1>2. QueueOK' /\ FootageOK'
  BY <1>0, <1>1 DEF QueueOK, FootageOK
<1>3. step \in ArtifactSteps /\ current # 0
  BY <1>0 DEF ArtifactStep, EmbedCancelled, NotEnough, MakeDirectory, WriteArtifact,
       WriterRaises, InsertRow, InsertRaises, ListAgedOut, RemoveAgedOut, ArtifactSteps, WorkerOK
<1>4. WorkerOK'
  <2>1. pass' = pass /\ step' \in ArtifactSteps \cup {"returned", "cancelled", "raised"}
    BY <1>3 DEF ArtifactStep, EmbedCancelled, NotEnough, MakeDirectory, WriteArtifact,
       WriterRaises, InsertRow, InsertRaises, ListAgedOut, RemoveAgedOut, GoesTo, ArtifactSteps
  <2>2. doomed' \subseteq Jobs
    BY <1>0 DEF ArtifactStep, EmbedCancelled, NotEnough, MakeDirectory, WriteArtifact,
       WriterRaises, InsertRow, InsertRaises, ListAgedOut, RemoveAgedOut, GoesTo, WorkerOK, StoreOK,
       AgedOut
  <2> QED BY <1>0, <1>1, <1>3, <2>1, <2>2 DEF WorkerOK, Steps, ArtifactSteps
<1>5. current \in Jobs
  BY <1>0, <1>3, Limits DEF QueueOK, Jobs
<1>6. StoreOK'
  <2>1. CASE EmbedCancelled \/ NotEnough \/ WriterRaises \/ ListAgedOut
    BY <1>0, <2>1 DEF EmbedCancelled, NotEnough, WriterRaises, ListAgedOut, GoesTo, StoreOK, registry
  <2>2. CASE MakeDirectory \/ WriteArtifact \/ InsertRaises
    BY <1>0, <2>2 DEF MakeDirectory, WriteArtifact, InsertRaises, GoesTo, StoreOK, registry
  <2>3. CASE InsertRow
    BY <1>0, <1>5, <2>3 DEF InsertRow, StoreOK
  <2>4. CASE RemoveAgedOut
    <3>1. dir' \in [Jobs -> {"none", "partial", "whole"}]
      <4>1. CASE doomed = {}
        BY <1>0, <2>4, <4>1 DEF RemoveAgedOut, StoreOK
      <4>2. CASE doomed # {}
        <5>1. Max(doomed) \in Jobs
          BY <1>0, <4>2, LastJob DEF WorkerOK
        <5> QED BY <1>0, <2>4, <4>2, <5>1 DEF RemoveAgedOut, StoreOK
      <4> QED BY <4>1, <4>2
    <3> QED BY <1>0, <2>4, <3>1 DEF RemoveAgedOut, StoreOK, registry
  <2> QED BY <2>1, <2>2, <2>3, <2>4 DEF ArtifactStep
<1> QED BY <1>1, <1>2, <1>4, <1>6, TypeKept

LEMMA PassType ==
    ASSUME TypeInv, PassStep
    PROVE  TypeInv'
<1>0. QueueOK /\ WorkerOK /\ StoreOK /\ FootageOK /\ faults \in 0..MaxFaults /\ pass \in Passes
      /\ TypeOK
  BY TypeParts DEF WorkerOK, TypeInv
<1>1. /\ UNCHANGED <<accepted, request, pending, current, stop, doomed, outcome, dir, status, runs,
                     removing, recorded, promoted, frames>>
      /\ faults' \in 0..MaxFaults
  BY <1>0, FaultType DEF PassStep, DetectFrame, DetectReturns, ChooseModel, LoadGallery, CountFrames,
       FetchPage, WriteMatches, WriteMarkers, PassRaises, GoesTo, queue, registry, footage
<1>2. QueueOK' /\ StoreOK'
  BY <1>0, <1>1 DEF QueueOK, StoreOK
<1>3. step \in PassSteps /\ current # 0
  BY <1>0 DEF PassStep, DetectFrame, DetectReturns, ChooseModel, LoadGallery, CountFrames,
       FetchPage, WriteMatches, WriteMarkers, PassRaises, PassSteps, WorkerOK
<1>4. ASSUME pass' \in Passes, step' \in (PassSteps \cup {"returned", "cancelled", "raised"}),
             step' \in {"loading", "counting", "fetching", "matching", "marking"} => pass'.model # 0,
             FootageOK'
      PROVE  TypeInv'
  <2>1. WorkerOK'
    BY <1>0, <1>1, <1>3, <1>4 DEF WorkerOK, Steps, PassSteps
  <2> QED BY <1>1, <1>2, <1>4, <2>1, TypeKept
<1>5. pass.model \in 0..MaxJobs /\ pass.buf \subseteq FrameIds
  BY <1>0 DEF Passes
<1>6. CASE DetectFrame
  <2>1. Untried # {} /\ Untried \subseteq FrameIds /\ Untried \subseteq frames
    BY <1>0, <1>6 DEF DetectFrame, Untried, FootageOK
  <2>2. Min(Untried) \in FrameIds /\ Min(Untried) \in frames
    BY <2>1, FinalFrame
  <2>3. Min(Untried) \in 0..MaxFrame
    BY <2>2, Limits DEF FrameIds
  <2>4. pass' \in Passes
    BY <1>0, <1>6, <2>3 DEF DetectFrame, Passes
  <2>5. FootageOK'
    BY <1>0, <1>6, <2>2 DEF DetectFrame, FootageOK
  <2> QED BY <1>4, <1>6, <2>4, <2>5 DEF DetectFrame, PassSteps
<1>7. CASE DetectReturns \/ LoadGallery \/ PassRaises
  <2>1. pass' \in Passes /\ FootageOK'
    BY <1>0, <1>7, NoPassType
       DEF DetectReturns, LoadGallery, PassRaises, GoesTo, FootageOK, footage
  <2>2. /\ step' \in (PassSteps \cup {"returned", "cancelled", "raised"})
        /\ step' \in {"loading", "counting", "fetching", "matching", "marking"} => pass'.model # 0
    BY <1>0, <1>7 DEF DetectReturns, LoadGallery, PassRaises, GoesTo, PassSteps, WorkerOK
  <2> QED BY <1>4, <2>1, <2>2
<1>8. CASE ChooseModel
  <2>1. FootageOK'
    BY <1>0, <1>8 DEF ChooseModel, GoesTo, FootageOK, footage
  <2>2. CASE \E v \in Active : pass' = [NoPass EXCEPT !.model = v] /\ GoesTo("loading")
    <3>1. PICK v \in Active : pass' = [NoPass EXCEPT !.model = v] /\ GoesTo("loading")
      BY <2>2
    <3>2. v \in Jobs /\ v # 0
      BY DEF Active, Jobs
    <3>3. pass' \in Passes /\ pass'.model = v
      BY <3>1, <3>2, NoPassType DEF NoPass
    <3> QED BY <1>4, <2>1, <3>1, <3>2, <3>3 DEF GoesTo, PassSteps
  <2>3. CASE ~\E v \in Active : pass' = [NoPass EXCEPT !.model = v] /\ GoesTo("loading")
    <3>1. step' \in {"raised", "returned"} /\ pass' = pass
      BY <1>8, <2>3 DEF ChooseModel, GoesTo
    <3> QED BY <1>0, <1>4, <2>1, <3>1
  <2> QED BY <2>2, <2>3
<1>9. CASE CountFrames
  <2>1. Unidentified(pass.model) \subseteq FrameIds
    BY <1>0 DEF Unidentified, FootageOK
  <2>2. pass' \in Passes /\ pass'.model = pass.model
    BY <1>0, <1>9, <2>1 DEF CountFrames, Passes
  <2> QED BY <1>0, <1>4, <1>9, <2>2
          DEF CountFrames, GoesTo, PassSteps, FootageOK, footage, WorkerOK
<1>10. CASE FetchPage
  <2>1. pass' \in Passes /\ pass'.model = pass.model
    BY <1>0, <1>10, NextPageType, RefillType DEF FetchPage
  <2>2. step' \in {"matching", "returned", "fetching"}
    BY <1>10 DEF FetchPage, GoesTo, AfterRefill
  <2> QED BY <1>0, <1>4, <1>10, <2>1, <2>2
          DEF FetchPage, GoesTo, PassSteps, FootageOK, footage, WorkerOK
<1>11. ASSUME NEW S, identified' = identified \cup RowsFor(S), pass.model # 0,
              UNCHANGED <<frames, seen, detected>>
       PROVE  FootageOK'
  <2>1. pass.model \in Jobs
    BY <1>5, <1>11, Limits DEF Jobs
  <2>2. RowsFor(S) \subseteq frames \X Jobs
    BY <2>1 DEF RowsFor
  <2> QED BY <1>0, <1>11, <2>2 DEF FootageOK
<1>12. CASE WriteMatches
  <2>1. PICK embedded \in SUBSET pass.buf :
            /\ identified' = identified \cup RowsFor(embedded)
            /\ pass' = [pass EXCEPT !.buf = pass.buf \ embedded]
    BY <1>12 DEF WriteMatches
  <2>2. pass' \in Passes /\ pass'.model = pass.model
    BY <1>0, <1>5, <2>1 DEF Passes
  <2>3. pass.model # 0 /\ step' = "marking" /\ UNCHANGED <<frames, seen, detected>>
    BY <1>0, <1>12 DEF WriteMatches, WorkerOK, GoesTo, footage
  <2>4. FootageOK'
    BY <1>11, <2>1, <2>3
  <2> QED BY <1>4, <2>2, <2>3, <2>4 DEF PassSteps
<1>13. CASE WriteMarkers
  <2> DEFINE p == [pass EXCEPT !.buf = {}]
  <2>1. p \in Passes /\ p.model = pass.model
    BY <1>0 DEF Passes
  <2>2. pass' = Refill(p) /\ step' \in {"cancelled", "matching", "returned", "fetching"}
    BY <1>13 DEF WriteMarkers, GoesTo, AfterRefill
  <2> HIDE DEF p
  <2>3. pass' \in Passes /\ pass'.model = pass.model
    BY <2>1, <2>2, RefillType
  <2>4. pass.model # 0 /\ UNCHANGED <<frames, seen, detected>>
    BY <1>0, <1>13 DEF WriteMarkers, WorkerOK, GoesTo, footage
  <2>5. FootageOK'
    BY <1>11, <1>13, <2>4 DEF WriteMarkers
  <2> QED BY <1>4, <2>2, <2>3, <2>4, <2>5 DEF PassSteps
<1> QED BY <1>6, <1>7, <1>8, <1>9, <1>10, <1>12, <1>13 DEF PassStep

LEMMA AroundType ==
    ASSUME TypeInv, Routes \/ Arrive \/ Evict \/ (\E f \in FrameIds : Detect(f))
    PROVE  TypeInv'
<1>0. QueueOK /\ WorkerOK /\ StoreOK /\ FootageOK /\ faults \in 0..MaxFaults
  BY TypeParts
<1>1. UNCHANGED <<accepted, request, pending, current, stop, step, pass, doomed, outcome>>
  BY DEF Routes, PromoteModel, DeleteModel, DeleteRun, RemoveDirectory, Arrive, Evict, Detect,
         queue, worker
<1>2. QueueOK' /\ WorkerOK'
  BY <1>0, <1>1 DEF QueueOK, WorkerOK
<1>3. CASE Routes
  <2>1. PICK j \in Jobs : PromoteModel(j) \/ DeleteModel(j) \/ DeleteRun(j) \/ RemoveDirectory(j)
    BY <1>3 DEF Routes
  <2>2. StoreOK' /\ FootageOK' /\ faults' \in 0..MaxFaults
    <3>1. CASE PromoteModel(j)
      <4>1. status' \in [Jobs -> {"none", "draft", "active", "retired"}]
        BY <1>0, <3>1 DEF PromoteModel, StoreOK
      <4> QED BY <1>0, <3>1, <4>1 DEF PromoteModel, StoreOK, FootageOK, footage
    <3>2. CASE DeleteModel(j)
      BY <1>0, <3>2 DEF DeleteModel, StoreOK, FootageOK, footage
    <3>3. CASE DeleteRun(j)
      BY <1>0, <3>3 DEF DeleteRun, StoreOK, FootageOK, footage
    <3>4. CASE RemoveDirectory(j)
      BY <1>0, <3>4, FaultType DEF RemoveDirectory, StoreOK, FootageOK, footage
    <3> QED BY <2>1, <3>1, <3>2, <3>3, <3>4
  <2> QED BY <1>2, <2>2, TypeKept
<1>4. CASE Arrive
  <2>1. (IF frames = {} THEN 1 ELSE Max(frames) + 1) \in FrameIds
    <3>1. CASE frames = {}
      BY <3>1, Limits DEF FrameIds
    <3>2. CASE frames # {}
      <4>1. Max(frames) \in frames /\ Max(frames) \in Nat /\ Max(frames) # MaxFrame
        BY <1>0, <1>4, <3>2, FinalFrame DEF Arrive, FootageOK
      <4> QED BY <1>0, <3>2, <4>1, Limits DEF FootageOK, FrameIds
    <3> QED BY <3>1, <3>2
  <2> QED BY <1>0, <1>2, <1>4, <2>1, TypeKept DEF Arrive, StoreOK, FootageOK, registry
<1>5. CASE Evict
  BY <1>0, <1>2, <1>5, TypeKept DEF Evict, StoreOK, FootageOK, registry
<1>6. CASE \E f \in FrameIds : Detect(f)
  BY <1>0, <1>2, <1>6, TypeKept DEF Detect, StoreOK, FootageOK, registry
<1> QED BY <1>3, <1>4, <1>5, <1>6

LEMMA TypeStep == TypeInv /\ [Next]_vars => TypeInv'
<1> SUFFICES ASSUME TypeInv, [Next]_vars PROVE TypeInv'
  OBVIOUS
<1>1. CASE UNCHANGED vars
  BY <1>1 DEF vars, TypeInv, TypeOK, queue, worker, registry, footage
<1> QED BY <1>1, QueueType, ArtifactType, PassType, AroundType DEF Next, Around

(* Every variable keeps its type: verdicts and identifications are of       *)
(* frames that are held, and an identify pass has a model.                  *)
THEOREM TypeCorrect == Spec => []TypeInv
<1> QED BY TypeInit, TypeStep, PTL DEF Spec

-----------------------------------------------------------------------------
(* A set of jobs is finite, and a larger one has as many newer members.     *)
LEMMA NewerGrows ==
    ASSUME NEW S, NEW T, S \subseteq T, T \subseteq Jobs, NEW r
    PROVE  /\ Cardinality(Newer(S, r)) \in Nat /\ Cardinality(Newer(T, r)) \in Nat
           /\ Cardinality(Newer(S, r)) <= Cardinality(Newer(T, r))
<1>1. IsFiniteSet(1..MaxJobs)
  BY Limits, FS_Interval
<1>2. Newer(S, r) \subseteq Newer(T, r) /\ Newer(T, r) \subseteq 1..MaxJobs
  BY DEF Newer, Jobs
<1>3. IsFiniteSet(Newer(T, r)) /\ IsFiniteSet(Newer(S, r))
  BY <1>1, <1>2, FS_Subset
<1> QED BY <1>2, <1>3, FS_Subset, FS_CardinalityType

(* The job a worker takes up has left no trace yet, and the others wait on. *)
LEMMA PromoteKeeps ==
    ASSUME NEW q \in Seq(Jobs), Promote(q),
           accepted' \in Nat,
           \A j \in Jobs : j > accepted' \/ (\E i \in 1..Len(q) : q[i] = j) => Fresh(j)',
           \A i, k \in 1..Len(q) : q[i] = q[k] => i = k,
           \A i \in 1..Len(q) : q[i] <= accepted'
    PROVE  Waiting' /\ Working'
<1>1. CASE q = <<>>
  <2>1. current' = 0 /\ step' = "idle" /\ pending' = <<>>
    BY <1>1 DEF Promote
  <2>2. Len(<<>>) = 0 /\ 0 \notin Jobs
    BY DEF Jobs
  <2>3. Waiting'
    BY <2>1, <2>2 DEF Waiting, Waits
  <2> QED BY <2>1, <2>3 DEF Working, ArtifactSteps, PassSteps
<1>2. CASE q # <<>>
  <2>1. current' = Head(q) /\ step' = "prepared" /\ pending' = Tail(q)
    BY <1>2 DEF Promote
  <2>2. /\ Len(q) \in Nat /\ Len(q) >= 1 /\ Head(q) = q[1] /\ Head(q) \in Jobs
        /\ Len(Tail(q)) = Len(q) - 1
        /\ \A i \in 1..Len(Tail(q)) : Tail(q)[i] = q[i + 1]
    BY <1>2, HeadTailProperties
  <2>3. \A i \in 1..Len(Tail(q)) : i + 1 \in 1..Len(q) /\ i + 1 # 1
    BY <2>2
  <2>4. 1 \in 1..Len(q)
    BY <2>2
  <2>5. Fresh(q[1])'
    BY <2>2, <2>4
  <2>6. Waiting'
    <3>1. ASSUME NEW j \in Jobs, Waits(j)' PROVE Fresh(j)' /\ j # current'
      <4>1. CASE j > accepted'
        <5>1. q[1] <= accepted' /\ q[1] \in Nat /\ j \in Nat
          BY <2>2, <2>4 DEF Jobs
        <5> QED BY <2>1, <2>2, <4>1, <5>1
      <4>2. CASE \E i \in 1..Len(Tail(q)) : Tail(q)[i] = j
        BY <2>1, <2>2, <2>3, <2>4, <4>2
      <4> QED BY <2>1, <3>1, <4>1, <4>2 DEF Waits
    <3>2. \A i, k \in 1..Len(Tail(q)) : Tail(q)[i] = Tail(q)[k] => i = k
      <4> SUFFICES ASSUME NEW i \in 1..Len(Tail(q)), NEW k \in 1..Len(Tail(q)),
                          Tail(q)[i] = Tail(q)[k]
                   PROVE  i = k
        OBVIOUS
      <4>1. i + 1 = k + 1
        BY <2>2, <2>3
      <4> QED BY <4>1
    <3>3. \A i \in 1..Len(Tail(q)) : Tail(q)[i] <= accepted'
      BY <2>2, <2>3
    <3>4. Head(q) <= accepted'
      BY <2>2, <2>4
    <3> QED BY <2>1, <3>1, <3>2, <3>3, <3>4 DEF Waiting
  <2> QED BY <2>1, <2>2, <2>5, <2>6 DEF Working, Fresh, ArtifactSteps, PassSteps
<1> QED BY <1>1, <1>2

(* Rows hold on while the store does, whatever becomes of jobs without one. *)
LEMMA RowsStay ==
    ASSUME Rows, UNCHANGED <<dir, status, runs, recorded, promoted>>,
           removing' \subseteq removing, doomed' \subseteq doomed, recorded \subseteq Jobs,
           \A j \in recorded : Kind(j)' = Kind(j)
    PROVE  Rows'
<1>1. RecordedRuns' = RecordedRuns
  BY DEF RecordedRuns
<1>2. Active' = Active
  BY DEF Active
<1>3. NewestReportsKept'
  BY <1>1 DEF Rows, NewestReportsKept, Newer
<1> QED BY <1>1, <1>2, <1>3 DEF Rows, Newer

(* A directory that no waiting job and no row depends on may change.        *)
LEMMA DirectoryOnly ==
    ASSUME TypeInv, RegistryInv, NEW j \in Jobs, j \in recorded \/ j = current,
           status[j] = "none", j \in runs => ~(Cardinality(Newer(RecordedRuns, j)) < Keep),
           UNCHANGED <<accepted, request, pending, current, outcome, status, runs, recorded, promoted>>,
           removing' \subseteq removing, doomed' \subseteq doomed,
           \A k \in Jobs \ {j} : dir'[k] = dir[k]
    PROVE  Waiting' /\ Rows' /\ CanceledLeavesNothing'
<1>1. Waiting'
  <2>1. ASSUME NEW k \in Jobs, Waits(k) PROVE k # j
    BY <2>1 DEF RegistryInv, Waiting, Fresh
  <2> QED BY <2>1 DEF RegistryInv, Waiting, Waits, Fresh
<1>2. Rows'
  <2>1. RecordedRuns' = RecordedRuns /\ Active' = Active
    BY DEF RecordedRuns, Active, Kind
  <2>2. NewestReportsKept'
    <3> SUFFICES ASSUME NEW r \in runs, Cardinality(Newer(RecordedRuns, r)) < Keep
                 PROVE  dir'[r] = "whole"
      BY <2>1 DEF NewestReportsKept, Newer
    <3>1. r # j /\ dir[r] = "whole"
      BY DEF RegistryInv, Rows, NewestReportsKept
    <3> QED BY <3>1 DEF TypeInv, TypeOK
  <2>3. \A k \in Jobs : status'[k] # "none" =>
           k \in recorded' \ removing' /\ Kind(k)' # "feasibility" /\ dir'[k] = "whole"
    BY DEF RegistryInv, Rows, Kind
  <2>4. /\ runs' \subseteq RecordedRuns' \ removing' /\ removing' \subseteq recorded'
        /\ doomed' \subseteq RecordedRuns'
        /\ \A r \in doomed' : ~(Cardinality(Newer(RecordedRuns, r)) < Keep)
        /\ IF promoted' THEN \E v \in Jobs : Active' = {v} ELSE Active' = {}
    BY <2>1 DEF RegistryInv, Rows
  <2> QED BY <2>1, <2>2, <2>3, <2>4 DEF Rows, Newer
<1>3. CanceledLeavesNothing'
  BY DEF RegistryInv, CanceledLeavesNothing, Working, ArtifactKinds, Kind, TypeInv, TypeOK, Jobs
<1> QED BY <1>1, <1>2, <1>3

-----------------------------------------------------------------------------
LEMMA RegistryInit == Init => RegistryInv
<1> SUFFICES ASSUME Init PROVE RegistryInv
  OBVIOUS
<1>1. /\ accepted = 0 /\ pending = <<>> /\ current = 0 /\ step = "idle" /\ doomed = {}
      /\ runs = {} /\ removing = {} /\ recorded = {} /\ promoted = FALSE
      /\ outcome = [j \in Jobs |-> "none"] /\ dir = [j \in Jobs |-> "none"]
      /\ status = [j \in Jobs |-> "none"]
  BY DEF Init
<1>2. Len(pending) = 0 /\ 0 \notin Jobs
  BY <1>1 DEF Jobs
<1>3. Waiting
  BY <1>1, <1>2 DEF Waiting, Fresh
<1>4. Working
  BY <1>1 DEF Working, ArtifactSteps, PassSteps
<1>5. Rows
  <2>1. Active = {} /\ RecordedRuns = {}
    BY <1>1 DEF Active, RecordedRuns
  <2> QED BY <1>1, <2>1 DEF Rows, NewestReportsKept
<1>6. CanceledLeavesNothing
  BY <1>1 DEF CanceledLeavesNothing
<1> QED BY <1>3, <1>4, <1>5, <1>6 DEF RegistryInv

(* A step that changes neither the queue nor what is on record keeps all of *)
(* the invariant but what the worker itself has reached.                    *)
LEMMA RecordStays ==
    ASSUME TypeInv, RegistryInv, Working',
           UNCHANGED <<accepted, request, pending, current, outcome, dir, registry>>,
           doomed' \subseteq doomed
    PROVE  RegistryInv'
<1>0. UNCHANGED <<status, runs, removing, recorded, promoted>>
  BY DEF registry
<1>1. Waiting'
  BY <1>0 DEF RegistryInv, Waiting, Waits, Fresh
<1>2. Rows'
  BY <1>0, RowsStay DEF RegistryInv, Kind, TypeInv, TypeOK
<1>3. CanceledLeavesNothing'
  BY <1>0 DEF RegistryInv, CanceledLeavesNothing, Kind
<1> QED BY <1>1, <1>2, <1>3 DEF RegistryInv

LEMMA QueueRegistry ==
    ASSUME TypeInv, RegistryInv, QueueStep \/ Restart
    PROVE  RegistryInv'
<1>0. /\ accepted \in 0..MaxJobs /\ pending \in Seq(Jobs) /\ current \in 0..MaxJobs
      /\ recorded \subseteq Jobs /\ Waiting /\ Working /\ Rows /\ CanceledLeavesNothing
      /\ outcome \in [Jobs -> {"none", "done", "canceled", "failed"}]
      /\ request \in [Jobs -> Requests] /\ MaxJobs \in Nat /\ accepted \in Nat
      /\ (step = "idle") <=> (current = 0)
  BY Limits DEF TypeInv, TypeOK, RegistryInv
<1>1. CASE Cancel \/ ClearPending \/ StopAll
  <2>1. /\ UNCHANGED <<accepted, request, current, step, doomed, outcome, dir, status, runs, removing,
                       recorded, promoted>>
        /\ pending' = pending \/ pending' = <<>>
    BY <1>1 DEF Cancel, ClearPending, StopAll, worker, registry
  <2>2. Waiting'
    <3>1. Len(<<>>) = 0
      OBVIOUS
    <3> QED BY <1>0, <2>1, <3>1 DEF Waiting, Waits, Fresh
  <2>3. Working'
    BY <1>0, <2>1 DEF Working, Kind
  <2>4. Rows'
    BY <1>0, <2>1, RowsStay DEF Kind
  <2>5. CanceledLeavesNothing'
    BY <1>0, <2>1 DEF CanceledLeavesNothing, Kind
  <2> QED BY <2>2, <2>3, <2>4, <2>5 DEF RegistryInv
<1>2. CASE Finally
  <2>1. /\ UNCHANGED <<accepted, request, dir, status, runs, removing, recorded, promoted>>
        /\ Promote(pending) /\ outcome' = [outcome EXCEPT ![current] = Outcome] /\ doomed' = {}
        /\ step \in {"returned", "cancelled", "abandoned", "raised"}
    BY <1>2 DEF Finally, Promote, registry
  <2>2. Waiting' /\ Working'
    <3>1. ASSUME NEW j \in Jobs, j > accepted' \/ \E i \in 1..Len(pending) : pending[i] = j
          PROVE  Fresh(j)'
      BY <1>0, <2>1, <3>1 DEF Waiting, Waits, Fresh
    <3>2. accepted' \in Nat
      BY <1>0, <2>1
    <3>3. /\ \A i, k \in 1..Len(pending) : pending[i] = pending[k] => i = k
          /\ \A i \in 1..Len(pending) : pending[i] <= accepted'
      BY <1>0, <2>1 DEF Waiting
    <3> QED BY <1>0, <2>1, <3>1, <3>2, <3>3, PromoteKeeps
  <2>3. Rows'
    BY <1>0, <2>1, RowsStay DEF Kind
  <2>4. CanceledLeavesNothing'
    <3> SUFFICES ASSUME NEW j \in Jobs, outcome'[j] = "canceled", Kind(j) \in ArtifactKinds
                 PROVE  dir[j] = "none" /\ j \notin recorded
      BY <2>1 DEF CanceledLeavesNothing, ArtifactKinds, Kind
    <3>1. CASE j # current
      BY <1>0, <2>1, <3>1 DEF CanceledLeavesNothing, ArtifactKinds
    <3>2. CASE j = current
      <4>1. Outcome = "canceled"
        BY <1>0, <2>1, <3>2
      <4>2. step \in {"cancelled", "abandoned"}
        BY <2>1, <4>1 DEF Outcome
      <4> QED BY <1>0, <3>2, <4>2 DEF Working, PassSteps
    <3> QED BY <3>1, <3>2
  <2> QED BY <2>2, <2>3, <2>4 DEF RegistryInv
<1>3. CASE StartThread
  <2>1. /\ UNCHANGED <<accepted, request, pending, current, outcome, dir, registry, doomed>>
        /\ step = "prepared"
        /\ step' = IF Kind(current) = "identify" THEN "choosing"
                   ELSE IF Kind(current) = "visit-identify" THEN "detecting" ELSE "embedding"
    BY <1>3 DEF StartThread, GoesTo, queue
  <2>2. current \in Jobs
    BY <1>0, <2>1 DEF Jobs
  <2>3. Kind(current) \in {"feasibility", "gallery-build", "identify", "visit-identify"}
    <3>1. request[current] \in Requests
      BY <1>0, <2>2
    <3> QED BY <3>1, RequestsAssumption DEF Kind
  <2>4. Working'
    BY <1>0, <2>1, <2>3 DEF Working, Kind, ArtifactSteps, PassSteps, ArtifactKinds, registry
  <2> QED BY <2>1, <2>4, RecordStays
<1>4. ASSUME NEW r \in Requests, Enqueue(r) PROVE RegistryInv'
  <2>1. /\ accepted < MaxJobs /\ accepted' = accepted + 1
        /\ request' = [request EXCEPT ![accepted + 1] = r]
        /\ UNCHANGED <<outcome, dir, status, runs, removing, recorded, promoted>>
        /\ IF current = 0
           THEN Promote(Append(pending, accepted + 1))
           ELSE /\ pending' = Append(pending, accepted + 1)
                /\ UNCHANGED <<current, step, doomed>>
    BY <1>4 DEF Enqueue, registry, worker
  <2> DEFINE n == accepted + 1
             q == Append(pending, n)
  <2>2. n \in Jobs /\ n > accepted /\ Fresh(n) /\ n # current
    <3>1. n \in Jobs /\ n > accepted
      BY <1>0, <2>1 DEF Jobs
    <3> QED BY <1>0, <3>1 DEF Waiting, Waits
  <2>3. /\ q \in Seq(Jobs) /\ Len(q) = Len(pending) + 1 /\ Len(pending) \in Nat
        /\ \A i \in 1..Len(pending) : q[i] = pending[i]
        /\ q[Len(q)] = n
    BY <1>0, <2>2, AppendProperties
  <2>4. \A i \in 1..Len(q) : i \in 1..Len(pending) \/ i = Len(q)
    BY <2>3
  <2> HIDE DEF q
  <2>5. \A i \in 1..Len(pending) : q[i] # n
    <3>1. ASSUME NEW i \in 1..Len(pending) PROVE q[i] # n
      <4>1. pending[i] <= accepted /\ pending[i] \in Nat /\ n > accepted
        BY <1>0, <2>2 DEF Waiting, Jobs
      <4> QED BY <1>0, <2>3, <4>1
    <3> QED BY <3>1
  <2>6. \A i, k \in 1..Len(q) : q[i] = q[k] => i = k
    <3> SUFFICES ASSUME NEW i \in 1..Len(q), NEW k \in 1..Len(q), q[i] = q[k] PROVE i = k
      OBVIOUS
    <3> QED BY <1>0, <2>3, <2>4, <2>5 DEF Waiting
  <2>7. \A i \in 1..Len(q) : q[i] <= accepted'
    <3> SUFFICES ASSUME NEW i \in 1..Len(q) PROVE q[i] <= accepted'
      OBVIOUS
    <3>1. CASE i \in 1..Len(pending)
      <4>1. q[i] = pending[i] /\ pending[i] <= accepted /\ pending[i] \in Nat
        BY <1>0, <2>3, <3>1 DEF Waiting, Jobs
      <4> QED BY <1>0, <2>1, <4>1
    <3>2. CASE i = Len(q)
      BY <1>0, <2>1, <2>3, <3>2
    <3> QED BY <2>4, <3>1, <3>2
  <2>8. ASSUME NEW j \in Jobs, j > accepted' \/ \E i \in 1..Len(q) : q[i] = j
        PROVE  Fresh(j)' /\ (current # 0 => j # current)
    <3>1. Waits(j)
      <4>1. CASE j > accepted'
        <5>1. j > accepted
          BY <1>0, <2>1, <4>1 DEF Jobs
        <5> QED BY <5>1 DEF Waits
      <4>2. CASE \E i \in 1..Len(q) : q[i] = j
        BY <2>2, <2>3, <2>4, <4>2 DEF Waits
      <4> QED BY <2>8, <4>1, <4>2
    <3> QED BY <1>0, <2>1, <3>1 DEF Waiting, Fresh
  <2>9. Waiting' /\ Working'
    <3>1. CASE current = 0
      <4>1. accepted' \in Nat /\ Promote(q)
        BY <1>0, <2>1, <3>1 DEF q
      <4> QED BY <2>3, <2>6, <2>7, <2>8, <4>1, PromoteKeeps
    <3>2. CASE current # 0
      <4>1. pending' = q /\ UNCHANGED <<current, step, doomed, outcome, dir, recorded>>
        BY <2>1, <3>2 DEF q
      <4>2. Waiting'
        <5>1. ASSUME NEW j \in Jobs, Waits(j)' PROVE Fresh(j)' /\ j # current'
          BY <2>8, <3>2, <4>1, <5>1 DEF Waits
        <5>2. current' <= accepted'
          <6>1. current <= accepted
            BY <1>0 DEF Waiting
          <6> QED BY <1>0, <2>1, <4>1, <6>1
        <5> QED BY <2>6, <2>7, <4>1, <5>1, <5>2 DEF Waiting
      <4>3. Kind(current)' = Kind(current)
        BY <1>0, <2>1, <2>2, <4>1, <3>2 DEF Kind, Jobs
      <4> QED BY <1>0, <4>1, <4>2, <4>3 DEF Working
    <3> QED BY <3>1, <3>2
  <2>10. \A j \in recorded : Kind(j)' = Kind(j)
    BY <1>0, <2>1, <2>2 DEF Fresh, Kind
  <2>11. Rows'
    <3>1. doomed' \subseteq doomed
      BY <2>1 DEF Promote
    <3> QED BY <1>0, <2>1, <2>10, <3>1, RowsStay
  <2>12. CanceledLeavesNothing'
    <3>1. ASSUME NEW j \in Jobs, outcome[j] = "canceled" PROVE Kind(j)' = Kind(j)
      BY <1>0, <2>1, <2>2, <3>1 DEF Fresh, Kind
    <3> QED BY <1>0, <2>1, <3>1 DEF CanceledLeavesNothing
  <2> QED BY <2>9, <2>11, <2>12 DEF RegistryInv
<1>5. CASE Restart
  <2>1. /\ UNCHANGED <<accepted, request, dir, status, runs, recorded, promoted>>
        /\ Promote(<<>>) /\ outcome' = [j \in Jobs |-> "none"] /\ removing' = {} /\ doomed' = {}
    BY <1>5 DEF Restart, Promote
  <2>2. Waiting' /\ Working'
    <3>1. <<>> \in Seq(Jobs) /\ 1..Len(<<>>) = {} /\ accepted' \in Nat
      BY <1>0, <2>1
    <3>2. \A j \in Jobs : j > accepted' => Fresh(j)'
      BY <1>0, <2>1 DEF Waiting, Waits, Fresh
    <3> QED BY <2>1, <3>1, <3>2, PromoteKeeps
  <2>3. Rows'
    BY <1>0, <2>1, RowsStay DEF Kind
  <2>4. CanceledLeavesNothing'
    BY <2>1 DEF CanceledLeavesNothing
  <2> QED BY <2>2, <2>3, <2>4 DEF RegistryInv
<1> QED BY <1>1, <1>2, <1>3, <1>4, <1>5 DEF QueueStep

LEMMA ArtifactRegistry ==
    ASSUME TypeInv, RegistryInv, ArtifactStep
    PROVE  RegistryInv'
<1>0. /\ current \in Jobs /\ recorded \subseteq Jobs /\ runs \subseteq Jobs /\ doomed \subseteq Jobs
      /\ dir \in [Jobs -> {"none", "partial", "whole"}]
      /\ status \in [Jobs -> {"none", "draft", "active", "retired"}]
      /\ Waiting /\ Working /\ Rows /\ CanceledLeavesNothing
      /\ step \in ArtifactSteps
  <2>1. step \in ArtifactSteps
    BY DEF ArtifactStep, EmbedCancelled, NotEnough, MakeDirectory, WriteArtifact,
       WriterRaises, InsertRow, InsertRaises, ListAgedOut, RemoveAgedOut, ArtifactSteps
  <2>2. current # 0 /\ current \in 0..MaxJobs /\ MaxJobs \in Nat
    BY <2>1, Limits DEF TypeInv, TypeOK, ArtifactSteps
  <2> QED BY <2>1, <2>2 DEF TypeInv, TypeOK, RegistryInv, Jobs
<1>1. UNCHANGED <<accepted, request, pending, current, outcome>>
  BY DEF ArtifactStep, EmbedCancelled, NotEnough, MakeDirectory, WriteArtifact,
       WriterRaises, InsertRow, InsertRaises, ListAgedOut, RemoveAgedOut, GoesTo, queue
<1>2. Kind(current)' = Kind(current) /\ Kind(current) \in ArtifactKinds /\ outcome[current] = "none"
  BY <1>0, <1>1 DEF Working, Kind, Jobs
<1>3. ASSUME EmbedCancelled \/ NotEnough \/ WriterRaises
      PROVE  RegistryInv'
  <2>1. /\ UNCHANGED <<accepted, request, pending, current, outcome, dir, registry, doomed>>
        /\ step' \in {"cancelled", "returned", "raised"}
        /\ step' = "cancelled" => step = "embedding"
    BY <1>3 DEF EmbedCancelled, NotEnough, WriterRaises, GoesTo, queue
  <2>2. Working'
    BY <1>0, <1>2, <2>1 DEF Working, ArtifactSteps, PassSteps, registry
  <2> QED BY <2>1, <2>2, RecordStays
<1>4. ASSUME current \notin recorded
      PROVE  status[current] = "none" /\ current \notin runs /\ current \notin removing
  BY <1>0, <1>4 DEF Rows, RecordedRuns
<1>5. ASSUME MakeDirectory \/ WriteArtifact \/ InsertRaises
      PROVE  RegistryInv'
  <2>1. /\ step \in {"embedding", "writing", "written"}
        /\ UNCHANGED <<status, runs, removing, recorded, promoted, doomed>>
        /\ \A k \in Jobs \ {current} : dir'[k] = dir[k]
        /\ \/ step' = "writing"
           \/ step' = "written" /\ dir'[current] = "whole"
           \/ step' = "raised"
    BY <1>0, <1>5 DEF MakeDirectory, WriteArtifact, InsertRaises, GoesTo, registry
  <2>2. current \notin recorded
    BY <1>0, <2>1 DEF Working
  <2>3. Waiting' /\ Rows' /\ CanceledLeavesNothing'
    BY <1>0, <1>1, <1>4, <2>1, <2>2, DirectoryOnly
  <2>4. Working'
    BY <1>1, <1>2, <2>1, <2>2 DEF Working, ArtifactSteps, PassSteps
  <2> QED BY <2>3, <2>4 DEF RegistryInv
<1>6. ASSUME InsertRow
      PROVE  RegistryInv'
  <2>1. /\ step = "written" /\ recorded' = recorded \cup {current}
        /\ UNCHANGED <<dir, removing, promoted, doomed>>
        /\ IF Kind(current) = "feasibility"
           THEN runs' = runs \cup {current} /\ step' = "recorded" /\ UNCHANGED status
           ELSE /\ status' = [status EXCEPT ![current] = "draft"]
                /\ step' = "returned" /\ UNCHANGED runs
    BY <1>6 DEF InsertRow
  <2>2. current \notin recorded /\ dir[current] = "whole"
    BY <1>0, <2>1 DEF Working
  <2>3. status[current] = "none" /\ current \notin runs /\ current \notin removing
    BY <1>4, <2>2
  <2>4. Waiting'
    BY <1>0, <1>1, <2>1 DEF Waiting, Waits, Fresh
  <2>5. Working'
    BY <1>1, <1>2, <2>1 DEF Working, ArtifactSteps, PassSteps
  <2>6. CanceledLeavesNothing'
    BY <1>0, <1>1, <1>2, <2>1 DEF CanceledLeavesNothing, Kind
  <2>7. RecordedRuns \subseteq RecordedRuns' /\ RecordedRuns' \subseteq Jobs
    BY <1>0, <1>1, <2>1 DEF RecordedRuns, Kind
  <2>8. \A r \in Jobs : /\ Cardinality(Newer(RecordedRuns, r)) \in Nat
                        /\ Cardinality(Newer(RecordedRuns', r)) \in Nat
                        /\ Cardinality(Newer(RecordedRuns, r)) <= Cardinality(Newer(RecordedRuns', r))
    BY <2>7, NewerGrows
  <2>9. Rows'
    <3>1. /\ doomed' \subseteq RecordedRuns'
          /\ \A r \in doomed' : ~(Cardinality(Newer(RecordedRuns', r)) < Keep)
      <4>1. ASSUME NEW r \in doomed' PROVE ~(Cardinality(Newer(RecordedRuns', r)) < Keep)
        <5>1. r \in Jobs /\ ~(Cardinality(Newer(RecordedRuns, r)) < Keep)
          BY <1>0, <2>1, <4>1 DEF Rows
        <5> QED BY <2>8, <5>1, Limits
      <4> QED BY <1>0, <2>1, <2>7, <4>1 DEF Rows
    <3>2. \A r \in Jobs : Newer(RecordedRuns, r)' = Newer(RecordedRuns', r)
      BY DEF Newer
    <3>3. NewestReportsKept'
      <4> SUFFICES ASSUME NEW r \in runs', Cardinality(Newer(RecordedRuns', r)) < Keep
                   PROVE  dir[r] = "whole"
        BY <2>1 DEF NewestReportsKept, Newer
      <4>1. CASE r = current
        BY <2>2, <4>1
      <4>2. CASE r # current
        <5>1. r \in runs /\ r \in Jobs
          BY <1>0, <2>1, <4>2
        <5>2. Cardinality(Newer(RecordedRuns, r)) < Keep
          BY <2>8, <5>1, Limits
        <5> QED BY <1>0, <5>1, <5>2 DEF Rows, NewestReportsKept
      <4> QED BY <4>1, <4>2
    <3>4. runs' \subseteq RecordedRuns' \ removing' /\ removing' \subseteq recorded'
      <4>1. current \in RecordedRuns' <=> Kind(current) = "feasibility"
        BY <1>1, <1>2, <2>1 DEF RecordedRuns, Kind
      <4> QED BY <1>0, <2>1, <2>3, <2>7, <4>1 DEF Rows
    <3>5. \A j \in Jobs : status'[j] # "none" =>
              j \in recorded' \ removing' /\ Kind(j)' # "feasibility" /\ dir'[j] = "whole"
      <4> SUFFICES ASSUME NEW j \in Jobs, status'[j] # "none"
                   PROVE  j \in recorded' \ removing' /\ Kind(j) # "feasibility" /\ dir[j] = "whole"
        BY <1>1, <2>1 DEF Kind
      <4>1. CASE j = current
        BY <2>1, <2>2, <2>3, <4>1
      <4>2. CASE j # current
        <5>1. status[j] # "none"
          BY <1>0, <2>1, <4>2
        <5> QED BY <1>0, <2>1, <5>1 DEF Rows
      <4> QED BY <4>1, <4>2
    <3>6. Active' = Active
      BY <1>0, <2>1, <2>3 DEF Active
    <3>7. IF promoted' THEN \E v \in Jobs : Active' = {v} ELSE Active' = {}
      BY <1>0, <2>1, <3>6 DEF Rows
    <3> QED BY <3>1, <3>2, <3>3, <3>4, <3>5, <3>7, <1>0, <2>1 DEF Rows, Newer
  <2> QED BY <2>4, <2>5, <2>6, <2>9 DEF RegistryInv
<1>7. ASSUME ListAgedOut
      PROVE  RegistryInv'
  <2>1. /\ UNCHANGED <<dir, status, runs, removing, recorded, promoted>>
        /\ step = "recorded" /\ step' = "pruning" /\ doomed' = AgedOut
    BY <1>7 DEF ListAgedOut, registry
  <2>2. Waiting'
    BY <1>0, <1>1, <2>1 DEF Waiting, Waits, Fresh
  <2>3. Working'
    BY <1>1, <1>2, <2>1 DEF Working, ArtifactSteps, PassSteps
  <2>4. CanceledLeavesNothing'
    BY <1>0, <1>1, <2>1 DEF CanceledLeavesNothing, Kind
  <2>5. RecordedRuns' = RecordedRuns /\ Active' = Active
    BY <1>1, <2>1 DEF RecordedRuns, Active, Kind
  <2>6. NewestReportsKept'
    BY <1>0, <2>1, <2>5 DEF Rows, NewestReportsKept, Newer
  <2>7. ASSUME NEW r \in doomed' PROVE r \in RecordedRuns /\ ~(Cardinality(Newer(RecordedRuns, r)) < Keep)
    <3>1. r \in runs /\ Cardinality(Newer(runs, r)) >= Keep
      BY <2>1, <2>7 DEF AgedOut
    <3>2. runs \subseteq RecordedRuns /\ RecordedRuns \subseteq Jobs
      BY <1>0 DEF Rows, RecordedRuns
    <3>3. /\ Cardinality(Newer(runs, r)) \in Nat /\ Cardinality(Newer(RecordedRuns, r)) \in Nat
          /\ Cardinality(Newer(runs, r)) <= Cardinality(Newer(RecordedRuns, r))
      BY <3>2, NewerGrows
    <3> QED BY <3>1, <3>2, <3>3, Limits
  <2>8. \A j \in Jobs : Kind(j)' = Kind(j)
    BY <1>1 DEF Kind
  <2>9. Rows'
    BY <1>0, <2>1, <2>5, <2>6, <2>7, <2>8 DEF Rows, Newer
  <2> QED BY <2>2, <2>3, <2>4, <2>9 DEF RegistryInv
<1>8. ASSUME RemoveAgedOut
      PROVE  RegistryInv'
  <2>1. UNCHANGED <<status, runs, removing, recorded, promoted>> /\ step = "pruning"
    BY <1>8 DEF RemoveAgedOut, registry
  <2>2. CASE doomed = {}
    <3>1. step' = "returned" /\ UNCHANGED <<doomed, dir>>
      BY <1>8, <2>2 DEF RemoveAgedOut
    <3>2. Working'
      BY <1>1, <1>2, <3>1 DEF Working, ArtifactSteps, PassSteps
    <3> QED BY <1>1, <2>1, <3>1, <3>2, RecordStays DEF registry
  <2>3. CASE doomed # {}
    <3> DEFINE m == Max(doomed)
    <3>1. m \in doomed /\ m \in Jobs
      BY <1>0, <2>3, LastJob
    <3>2. /\ step' = step /\ doomed' \subseteq doomed
          /\ \A k \in Jobs \ {m} : dir'[k] = dir[k]
      BY <1>0, <1>8, <2>3, <3>1 DEF RemoveAgedOut
    <3>3. m \in RecordedRuns /\ ~(Cardinality(Newer(RecordedRuns, m)) < Keep)
      BY <1>0, <3>1 DEF Rows
    <3>4. m \in recorded /\ status[m] = "none"
      BY <1>0, <3>1, <3>3 DEF Rows, RecordedRuns
    <3> HIDE DEF m
    <3>5. Waiting' /\ Rows' /\ CanceledLeavesNothing'
      BY <1>1, <2>1, <3>1, <3>2, <3>3, <3>4, DirectoryOnly
    <3>6. Working'
      BY <1>1, <1>2, <2>1, <3>2 DEF Working, ArtifactSteps, PassSteps
    <3> QED BY <3>5, <3>6 DEF RegistryInv
  <2> QED BY <2>2, <2>3
<1> QED BY <1>3, <1>5, <1>6, <1>7, <1>8 DEF ArtifactStep

LEMMA PassRegistry ==
    ASSUME TypeInv, RegistryInv, PassStep
    PROVE  RegistryInv'
<1>1. /\ UNCHANGED <<accepted, request, pending, current, outcome, dir, registry, doomed>>
      /\ step \in PassSteps
      /\ step' \in PassSteps \cup {"returned", "cancelled", "raised"}
  <2>1. UNCHANGED <<accepted, request, pending, current, outcome, dir, registry, doomed>>
    BY DEF PassStep, DetectFrame, DetectReturns, ChooseModel, LoadGallery, CountFrames,
       FetchPage, WriteMatches, WriteMarkers, PassRaises, GoesTo, queue
  <2>2. step \in PassSteps
    BY DEF PassStep, DetectFrame, DetectReturns, ChooseModel, LoadGallery, CountFrames,
       FetchPage, WriteMatches, WriteMarkers, PassRaises, PassSteps
  <2>3. step' \in PassSteps \cup {"returned", "cancelled", "raised"}
    BY <2>2 DEF PassStep, DetectFrame, DetectReturns, ChooseModel, LoadGallery, CountFrames,
       FetchPage, WriteMatches, WriteMarkers, PassRaises, GoesTo, AfterRefill, PassSteps
  <2> QED BY <2>1, <2>2, <2>3
<1>2. Working'
  BY <1>1 DEF RegistryInv, Working, PassSteps, ArtifactSteps, Kind
<1> QED BY <1>1, <1>2, RecordStays

LEMMA AroundRegistry ==
    ASSUME TypeInv, RegistryInv, Routes \/ Arrive \/ Evict \/ (\E f \in FrameIds : Detect(f))
    PROVE  RegistryInv'
<1>0. /\ recorded \subseteq Jobs /\ runs \subseteq Jobs /\ removing \subseteq Jobs
      /\ dir \in [Jobs -> {"none", "partial", "whole"}]
      /\ status \in [Jobs -> {"none", "draft", "active", "retired"}]
      /\ Waiting /\ Working /\ Rows /\ CanceledLeavesNothing
  BY DEF TypeInv, TypeOK, RegistryInv
<1>1. UNCHANGED <<accepted, request, pending, current, outcome, step, doomed, recorded>>
  BY DEF Routes, PromoteModel, DeleteModel, DeleteRun, RemoveDirectory, Arrive, Evict, Detect,
         queue, worker, registry
<1>2. ASSUME UNCHANGED dir
      PROVE  Waiting' /\ Working' /\ CanceledLeavesNothing'
  <2>1. Waiting'
    BY <1>0, <1>1, <1>2 DEF Waiting, Waits, Fresh
  <2>2. Working'
    BY <1>0, <1>1, <1>2 DEF Working, Kind
  <2>3. CanceledLeavesNothing'
    BY <1>0, <1>1, <1>2 DEF CanceledLeavesNothing, Kind
  <2> QED BY <2>1, <2>2, <2>3
<1>3. ASSUME Arrive \/ Evict \/ (\E f \in FrameIds : Detect(f))
      PROVE  RegistryInv'
  <2>1. UNCHANGED <<dir, registry>>
    BY <1>3 DEF Arrive, Evict, Detect
  <2>2. Working'
    BY <1>2, <2>1
  <2> QED BY <1>1, <2>1, <2>2, RecordStays
<1>4. \A j \in Jobs : Kind(j)' = Kind(j)
  BY <1>1 DEF Kind
<1>5. RecordedRuns' = RecordedRuns
  BY <1>1 DEF RecordedRuns, Kind
<1>6. ASSUME NEW v \in Jobs, PromoteModel(v)
      PROVE  RegistryInv'
  <2>1. /\ status[v] # "none" /\ promoted' = TRUE
        /\ status' = [w \in Jobs |-> IF w = v THEN "active"
                                     ELSE IF w \in Active THEN "retired" ELSE status[w]]
        /\ UNCHANGED <<dir, runs, removing>>
    BY <1>6 DEF PromoteModel
  <2>2. Active' = {v}
    BY <2>1 DEF Active
  <2>3. ASSUME NEW w \in Jobs, status'[w] # "none" PROVE status[w] # "none"
    BY <2>1, <2>3 DEF Active
  <2>4. NewestReportsKept'
    BY <1>0, <1>5, <2>1 DEF Rows, NewestReportsKept, Newer
  <2>5. \A j \in Jobs : status'[j] # "none" =>
           j \in recorded' \ removing' /\ Kind(j)' # "feasibility" /\ dir'[j] = "whole"
    BY <1>0, <1>1, <1>4, <2>1, <2>3 DEF Rows
  <2>6. Rows'
    BY <1>0, <1>1, <1>5, <2>1, <2>2, <2>4, <2>5 DEF Rows, Newer
  <2> QED BY <1>2, <2>1, <2>6 DEF RegistryInv
<1>7. ASSUME NEW v \in Jobs, DeleteModel(v)
      PROVE  RegistryInv'
  <2>1. /\ status[v] \in {"draft", "retired"} /\ removing' = removing \cup {v}
        /\ status' = [status EXCEPT ![v] = "none"]
        /\ UNCHANGED <<dir, runs, promoted>>
    BY <1>7 DEF DeleteModel
  <2>2. Active' = Active
    BY <1>0, <2>1 DEF Active
  <2>3. v \in recorded /\ v \notin RecordedRuns
    BY <1>0, <2>1 DEF Rows, RecordedRuns
  <2>4. NewestReportsKept'
    BY <1>0, <1>5, <2>1 DEF Rows, NewestReportsKept, Newer
  <2>5. \A j \in Jobs : status'[j] # "none" =>
           j \in recorded' \ removing' /\ Kind(j)' # "feasibility" /\ dir'[j] = "whole"
    BY <1>0, <1>1, <1>4, <2>1 DEF Rows
  <2>6. Rows'
    BY <1>0, <1>1, <1>5, <2>1, <2>2, <2>3, <2>4, <2>5 DEF Rows, Newer
  <2> QED BY <1>2, <2>1, <2>6 DEF RegistryInv
<1>8. ASSUME NEW r \in Jobs, DeleteRun(r)
      PROVE  RegistryInv'
  <2>1. /\ r \in runs /\ runs' = runs \ {r} /\ removing' = removing \cup {r}
        /\ UNCHANGED <<dir, status, promoted>>
    BY <1>8 DEF DeleteRun
  <2>2. Active' = Active
    BY <2>1 DEF Active
  <2>3. r \in recorded /\ Kind(r) = "feasibility"
    BY <1>0, <2>1 DEF Rows, RecordedRuns
  <2>4. NewestReportsKept'
    BY <1>0, <1>5, <2>1 DEF Rows, NewestReportsKept, Newer
  <2>5. \A j \in Jobs : status'[j] # "none" =>
           j \in recorded' \ removing' /\ Kind(j)' # "feasibility" /\ dir'[j] = "whole"
    BY <1>0, <1>1, <1>4, <2>1, <2>3 DEF Rows
  <2>6. Rows'
    BY <1>0, <1>1, <1>5, <2>1, <2>2, <2>3, <2>4, <2>5 DEF Rows, Newer
  <2> QED BY <1>2, <2>1, <2>6 DEF RegistryInv
<1>9. ASSUME NEW j \in Jobs, RemoveDirectory(j)
      PROVE  RegistryInv'
  <2>1. /\ j \in removing /\ removing' = removing \ {j}
        /\ UNCHANGED <<status, runs, promoted>>
        /\ \A k \in Jobs \ {j} : dir'[k] = dir[k]
    BY <1>0, <1>9 DEF RemoveDirectory
  <2>2. j \in recorded /\ status[j] = "none" /\ j \notin runs
    BY <1>0, <2>1 DEF Rows
  <2>3. Waiting' /\ Rows' /\ CanceledLeavesNothing'
    BY <1>1, <2>1, <2>2, DirectoryOnly
  <2>4. Working'
    <3>1. j = current => /\ step \notin {"prepared", "embedding", "writing", "written"}
                         /\ ~(step = "cancelled" /\ Kind(current) \in ArtifactKinds)
      BY <1>0, <2>2 DEF Working
    <3>2. step \in {"prepared", "embedding", "written", "cancelled"} => current \in Jobs
      BY Limits DEF TypeInv, TypeOK, Jobs
    <3> QED BY <1>0, <1>1, <2>1, <3>1, <3>2 DEF Working, Kind
  <2> QED BY <2>3, <2>4 DEF RegistryInv
<1> QED BY <1>3, <1>6, <1>7, <1>8, <1>9 DEF Routes

LEMMA RegistryStep == TypeInv /\ RegistryInv /\ [Next]_vars => RegistryInv'
<1> SUFFICES ASSUME TypeInv, RegistryInv, [Next]_vars PROVE RegistryInv'
  OBVIOUS
<1>1. CASE UNCHANGED vars
  <2>1. /\ UNCHANGED <<accepted, request, pending, current, outcome, dir, registry>>
        /\ doomed' = doomed /\ step' = step /\ recorded' = recorded
    BY <1>1 DEF vars, queue, worker, registry
  <2>2. Working'
    BY <2>1 DEF RegistryInv, Working, Kind
  <2> QED BY <2>1, <2>2, RecordStays
<1> QED BY <1>1, QueueRegistry, ArtifactRegistry, PassRegistry, AroundRegistry DEF Next, Around

LEMMA RegistryIsHonest == TypeInv /\ RegistryInv => RegistryHonest
<1> SUFFICES ASSUME TypeInv, RegistryInv PROVE RegistryHonest
  OBVIOUS
<1>1. ModelsUsable /\ NewestReportsKept
  BY DEF RegistryInv, Rows, ModelsUsable
<1>2. OneActive
  <2>1. CASE promoted
    <3>1. PICK v \in Jobs : Active = {v}
      BY <2>1 DEF RegistryInv, Rows
    <3> QED BY <2>1, <3>1, FS_Singleton DEF OneActive
  <2>2. CASE ~promoted
    <3>1. Active = {}
      BY <2>2 DEF RegistryInv, Rows
    <3> QED BY <2>2, <3>1, FS_EmptySet DEF OneActive
  <2> QED BY <2>1, <2>2
<1> QED BY <1>1, <1>2 DEF RegistryHonest

(* RegistryHonest of the training run: for any number of jobs and of        *)
(* reports kept, a row never promises a file that is not there, and from    *)
(* the first promotion on exactly one version is active.                    *)
THEOREM RegistryKeepsItsWord == Spec => []RegistryHonest
<1> QED BY TypeInit, TypeStep, RegistryInit, RegistryStep, RegistryIsHonest, PTL DEF Spec

(* CanceledLeavesNothing of the training run: a job the history calls       *)
(* canceled has left no directory and no row, wherever the cancel fell.     *)
THEOREM CanceledIsCanceled == Spec => []CanceledLeavesNothing
<1>1. RegistryInv => CanceledLeavesNothing
  BY DEF RegistryInv
<1> QED BY <1>1, TypeInit, TypeStep, RegistryInit, RegistryStep, PTL DEF Spec

-----------------------------------------------------------------------------
(* The n lowest frames of a set: they are at most n, they are n unless they *)
(* are all, and every other frame comes after them.                         *)
LEMMA LowestFacts ==
    ASSUME NEW S, S \subseteq FrameIds, NEW n \in Nat
    PROVE  /\ IsFiniteSet(S) /\ IsFiniteSet(LowestOf(S, n))
           /\ Cardinality(LowestOf(S, n)) \in Nat /\ Cardinality(LowestOf(S, n)) <= n
           /\ LowestOf(S, n) # S => Cardinality(LowestOf(S, n)) >= n
           /\ \A f \in S \ LowestOf(S, n), g \in LowestOf(S, n) : g < f
           /\ S # {} /\ n > 0 => LowestOf(S, n) # {}
<1> DEFINE L == LowestOf(S, n)
           B(f) == {g \in S : g < f}
<1>1. IsFiniteSet(FrameIds)
  BY Limits, FS_Interval DEF FrameIds
<1>2. IsFiniteSet(S) /\ L \subseteq S
  BY <1>1, FS_Subset, LowestSubset
<1>3. \A T \in SUBSET S : IsFiniteSet(T) /\ Cardinality(T) \in Nat
  BY <1>2, FS_Subset, FS_CardinalityType
<1>4. \A T, U \in SUBSET S : T \subseteq U => Cardinality(T) <= Cardinality(U)
  BY <1>3, FS_Subset
<1>5. \A f \in S : f \in Nat /\ B(f) \in SUBSET S /\ (f \in L <=> Cardinality(B(f)) < n)
  BY DEF LowestOf, FrameIds
<1>6. \A T \in SUBSET S : T # {} => /\ Max(T) \in T /\ Min(T) \in T
                                    /\ \A i \in T : i \in Nat /\ Min(T) <= i /\ i <= Max(T)
  BY FinalFrame
<1>7. L \in SUBSET S /\ S \ L \in SUBSET S /\ Cardinality(L) \in Nat
  BY <1>2, <1>3
<1> HIDE DEF L
<1>8. Cardinality(L) <= n
  <2>1. CASE L = {}
    BY <2>1, FS_EmptySet
  <2>2. CASE L # {}
    <3>1. Max(L) \in L /\ Max(L) \in S /\ \A i \in L : i <= Max(L)
      BY <1>6, <1>7, <2>2
    <3>2. Cardinality(B(Max(L))) < n /\ B(Max(L)) \in SUBSET S
      BY <1>5, <3>1
    <3>3. L \ {Max(L)} \subseteq B(Max(L))
      <4> SUFFICES ASSUME NEW i \in L, i # Max(L) PROVE i \in B(Max(L))
        OBVIOUS
      <4>1. i \in S /\ i \in Nat /\ Max(L) \in Nat /\ i <= Max(L)
        BY <1>5, <1>7, <3>1
      <4> QED BY <4>1
    <3>4. Cardinality(L \ {Max(L)}) = Cardinality(L) - 1
      BY <1>3, <1>7, <3>1, FS_RemoveElement
    <3>5. Cardinality(L \ {Max(L)}) <= Cardinality(B(Max(L))) /\ Cardinality(B(Max(L))) \in Nat
      <4>1. L \ {Max(L)} \in SUBSET S
        BY <1>7
      <4> QED BY <1>3, <1>4, <3>2, <3>3, <4>1
    <3> QED BY <1>7, <3>2, <3>4, <3>5
  <2> QED BY <2>1, <2>2
<1>9. ASSUME L # S PROVE Cardinality(L) >= n
  <2>1. S \ L # {}
    BY <1>7, <1>9
  <2>2. Min(S \ L) \in S \ L /\ \A i \in S \ L : Min(S \ L) <= i
    BY <1>6, <1>7, <2>1
  <2>3. ~(Cardinality(B(Min(S \ L))) < n) /\ B(Min(S \ L)) \in SUBSET S
    BY <1>5, <2>2
  <2>4. B(Min(S \ L)) \subseteq L
    <3> SUFFICES ASSUME NEW i \in B(Min(S \ L)) PROVE i \in L
      OBVIOUS
    <3>1. i \in Nat /\ Min(S \ L) \in Nat /\ i \in S /\ i < Min(S \ L)
      BY <1>5, <2>2
    <3> QED BY <2>2, <3>1
  <2>5. Cardinality(B(Min(S \ L))) <= Cardinality(L) /\ Cardinality(B(Min(S \ L))) \in Nat
    BY <1>3, <1>4, <1>7, <2>3, <2>4
  <2> QED BY <1>7, <2>3, <2>5
<1>10. ASSUME NEW f \in S \ L, NEW g \in L PROVE g < f
  <2> SUFFICES ASSUME ~(g < f) PROVE FALSE
    OBVIOUS
  <2>1. f \in S /\ g \in S /\ f \in Nat /\ g \in Nat /\ f # g
    BY <1>5, <1>7
  <2>2. B(f) \subseteq B(g)
    <3> SUFFICES ASSUME NEW h \in B(f) PROVE h < g
      OBVIOUS
    <3>1. h \in Nat /\ h < f
      BY <1>5
    <3> QED BY <2>1, <3>1
  <2>3. Cardinality(B(f)) <= Cardinality(B(g)) /\ Cardinality(B(f)) \in Nat /\ Cardinality(B(g)) \in Nat
    BY <1>3, <1>4, <1>5, <2>1, <2>2
  <2>4. Cardinality(B(g)) < n /\ ~(Cardinality(B(f)) < n)
    BY <1>5, <2>1, <1>10
  <2> QED BY <2>3, <2>4
<1>11. ASSUME S # {}, n > 0 PROVE L # {}
  <2>1. L = {} => Cardinality(L) = 0
    BY FS_EmptySet
  <2> QED BY <1>9, <1>11, <2>1
<1> QED BY <1>2, <1>3, <1>7, <1>8, <1>9, <1>10, <1>11 DEF L

(* A batch that could not be filled has taken the whole page.               *)
LEMMA RefillFacts ==
    ASSUME NEW p \in Passes, p.page \cap p.buf = {}, Cardinality(p.buf) <= Batch
    PROVE  /\ Refill(p).page \cup Refill(p).buf = p.page \cup p.buf
           /\ p.buf \subseteq Refill(p).buf
           /\ Cardinality(Refill(p).buf) # Batch =>
                 Refill(p).page = {} /\ Cardinality(Refill(p).buf) < Batch
<1> DEFINE n == Batch - Cardinality(p.buf)
<1>1. p.page \subseteq FrameIds /\ p.buf \subseteq FrameIds
  BY DEF Passes
<1>2. IsFiniteSet(p.buf) /\ Cardinality(p.buf) \in Nat
  <2>1. IsFiniteSet(FrameIds)
    BY Limits, FS_Interval DEF FrameIds
  <2> QED BY <1>1, <2>1, FS_Subset, FS_CardinalityType
<1>3. n \in Nat
  BY <1>2, Limits
<1>4. PICK taken \in SUBSET p.page : /\ taken = LowestOf(p.page, n)
                                     /\ Refill(p).page = p.page \ taken
                                     /\ Refill(p).buf = p.buf \cup taken
  BY RefillType
<1> HIDE DEF n
<1>5. /\ IsFiniteSet(taken) /\ Cardinality(taken) \in Nat /\ Cardinality(taken) <= n
      /\ taken # p.page => Cardinality(taken) >= n
  BY <1>1, <1>3, <1>4, LowestFacts
<1>6. Cardinality(p.buf \cup taken) = Cardinality(p.buf) + Cardinality(taken)
  <2>1. Cardinality(p.buf \cap taken) = 0
    <3>1. p.buf \cap taken = {}
      OBVIOUS
    <3> QED BY <3>1, FS_EmptySet
  <2>2. /\ Cardinality(p.buf \cup taken)
             = Cardinality(p.buf) + Cardinality(taken) - Cardinality(p.buf \cap taken)
    BY <1>2, <1>5, FS_Union
  <2> QED BY <1>2, <1>5, <2>1, <2>2
<1>7. n = Batch - Cardinality(p.buf)
  BY DEF n
<1>8. Cardinality(p.buf \cup taken) # Batch =>
         p.page = taken /\ Cardinality(p.buf \cup taken) < Batch
  BY <1>2, <1>3, <1>5, <1>6, <1>7, Limits
<1> QED BY <1>4, <1>8

-----------------------------------------------------------------------------
(* Nothing is owed by a worker that has no pass.                            *)
LEMMA NoPassFacts ==
    /\ NoPass.model = 0 /\ NoPass.owed = {} /\ NoPass.page = {} /\ NoPass.buf = {}
    /\ NoPass.cursor = 0 /\ NoPass.final = FALSE
    /\ NoPass = [NoPass EXCEPT !.model = 0] /\ Cardinality({}) = 0
BY FS_EmptySet DEF NoPass

LEMMA NoPassCovers == pass = NoPass => Covering
BY NoPassFacts, Limits DEF Covering, Owed, Covered

LEMMA NoPassCoversNext == pass' = NoPass => Covering'
BY NoPassFacts, Limits DEF Covering, Owed, Covered

(* What the worker owes is kept while it rests, if no frame is taken from   *)
(* the verdicts that is held on, and no row that is owed.                   *)
LEMMA PassRests ==
    ASSUME TypeInv, Covering, UNCHANGED <<current, step, pass>>,
           current # 0 => Span(current)' = Span(current),
           pass.model # 0 /\ status'[pass.model] # "none" => status[pass.model] # "none",
           \A f \in pass.owed : \E g \in frames' : f <= g,
           \A f \in pass.owed \cap frames' : f \in frames /\ (f \in detected => f \in detected'),
           \A f \in frames' : pass.model # 0 /\ status'[pass.model] # "none"
                /\ <<f, pass.model>> \in identified => <<f, pass.model>> \in identified'
    PROVE  Covering'
<1>1. Owed' \subseteq Owed /\ Owed' \subseteq frames'
  BY DEF Owed
<1>2. current' # 0 => Owed' \subseteq detected' \cap Span(current)'
  BY <1>1 DEF Covering, Owed
<1>3. step' \in {"fetching", "matching", "marking", "returned"} =>
        (pass'.model # 0 /\ status'[pass'.model] # "none" => \A f \in Owed' : Covered(f)')
  <2> SUFFICES ASSUME step \in {"fetching", "matching", "marking", "returned"},
                      pass.model # 0, status'[pass.model] # "none", NEW f \in Owed'
               PROVE  Covered(f)'
    OBVIOUS
  <2>1. Covered(f)
    BY <1>1 DEF Covering
  <2> QED BY <1>1, <2>1 DEF Covered
<1> QED BY <1>2, <1>3 DEF Covering

LEMMA QueueCovering ==
    ASSUME TypeInv, RegistryInv, Covering, QueueStep \/ Restart
    PROVE  Covering'
<1>0. /\ frames \subseteq FrameIds
      /\ \A f \in pass.owed : \E g \in frames : f <= g
  BY DEF TypeInv, TypeOK, Covering
<1>1. CASE Cancel \/ ClearPending \/ StopAll
  <2>1. UNCHANGED <<request, current, step, pass, status, frames, detected, identified>>
    BY <1>1 DEF Cancel, ClearPending, StopAll, worker, registry, footage
  <2> QED BY <1>0, <2>1, PassRests DEF Span
<1>2. CASE Finally \/ Restart
  BY <1>2, NoPassCoversNext DEF Finally, Restart, Promote
<1>3. CASE StartThread
  <2>1. step = "prepared" /\ pass' = pass
    BY <1>3 DEF StartThread
  <2> QED BY <2>1, NoPassCoversNext DEF Covering
<1>4. ASSUME NEW r \in Requests, Enqueue(r) PROVE Covering'
  <2>1. CASE current = 0
    BY <1>4, <2>1, NoPassCoversNext DEF Enqueue, Promote
  <2>2. CASE current # 0
    <3>1. /\ UNCHANGED <<current, step, pass, status, frames, detected, identified>>
          /\ request' = [request EXCEPT ![accepted + 1] = r]
      BY <1>4, <2>2 DEF Enqueue, worker, registry, footage
    <3>2. current \in Jobs /\ current # accepted + 1
      <4>1. current \in 0..MaxJobs /\ accepted \in 0..MaxJobs /\ current <= accepted
        BY DEF TypeInv, TypeOK, RegistryInv, Waiting
      <4> QED BY <2>2, <4>1, Limits DEF Jobs
    <3>3. Span(current)' = Span(current)
      BY <3>1, <3>2 DEF Span, TypeInv, TypeOK
    <3> QED BY <1>0, <3>1, <3>3, PassRests
  <2> QED BY <2>1, <2>2
<1> QED BY <1>1, <1>2, <1>3, <1>4 DEF QueueStep

LEMMA ArtifactCovering ==
    ASSUME Covering, ArtifactStep
    PROVE  Covering'
<1>1. step \in ArtifactSteps
  BY DEF ArtifactStep, EmbedCancelled, NotEnough, MakeDirectory, WriteArtifact,
     WriterRaises, InsertRow, InsertRaises, ListAgedOut, RemoveAgedOut, ArtifactSteps
<1>2. pass' = pass
  BY DEF ArtifactStep, EmbedCancelled, NotEnough, MakeDirectory, WriteArtifact,
     WriterRaises, InsertRow, InsertRaises, ListAgedOut, RemoveAgedOut
<1> QED BY <1>1, <1>2, NoPassCoversNext DEF Covering

LEMMA AroundCovering ==
    ASSUME TypeInv, Covering, Routes \/ Arrive \/ Evict \/ (\E f \in FrameIds : Detect(f))
    PROVE  Covering'
<1>0. /\ frames \subseteq FrameIds /\ detected \subseteq frames
      /\ \A f \in pass.owed : \E g \in frames : f <= g
      /\ pass.owed \subseteq FrameIds /\ FrameIds \subseteq Nat
      /\ status \in [Jobs -> {"none", "draft", "active", "retired"}]
      /\ pass.model # 0 => pass.model \in Jobs
  <2>1. pass \in Passes
    BY DEF TypeInv, TypeOK
  <2>2. pass.owed \subseteq FrameIds /\ pass.model \in 0..MaxJobs
    BY <2>1 DEF Passes
  <2>3. FrameIds \subseteq Nat /\ (pass.model # 0 => pass.model \in Jobs)
    BY <2>2, Limits DEF FrameIds, Jobs
  <2> QED BY <2>2, <2>3 DEF TypeInv, TypeOK, Covering
<1>1. /\ UNCHANGED <<request, current, step, pass>>
      /\ Span(current)' = Span(current)
  BY DEF Routes, PromoteModel, DeleteModel, DeleteRun, RemoveDirectory, Arrive, Evict, Detect,
         queue, worker, Span
<1>2. CASE Routes
  <2>1. UNCHANGED <<frames, detected>>
    BY <1>2 DEF Routes, PromoteModel, DeleteModel, DeleteRun, RemoveDirectory, footage
  <2>2. PICK j \in Jobs : PromoteModel(j) \/ DeleteModel(j) \/ DeleteRun(j) \/ RemoveDirectory(j)
    BY <1>2 DEF Routes
  <2>3. \A v \in Jobs : status'[v] # "none" => status[v] # "none"
    BY <1>0, <2>2 DEF PromoteModel, DeleteModel, DeleteRun, RemoveDirectory, Active
  <2>4. \A f \in frames, v \in Jobs :
           status'[v] # "none" /\ <<f, v>> \in identified => <<f, v>> \in identified'
    BY <1>0, <2>2 DEF PromoteModel, DeleteModel, DeleteRun, RemoveDirectory
  <2> QED BY <1>0, <1>1, <2>1, <2>3, <2>4, PassRests
<1>3. CASE Arrive
  <2>1. PICK new \in Nat : frames' = frames \cup {new} /\ \A g \in frames : g < new
    <3>1. CASE frames = {}
      BY <1>3, <3>1 DEF Arrive
    <3>2. CASE frames # {}
      <4>1. Max(frames) \in Nat /\ \A g \in frames : g \in Nat /\ g <= Max(frames)
        BY <1>0, <3>2, FinalFrame
      <4>2. \A g \in frames : g < Max(frames) + 1
        BY <4>1
      <4> QED BY <1>3, <3>2, <4>1, <4>2 DEF Arrive
    <3> QED BY <3>1, <3>2
  <2>2. new \notin pass.owed
    <3> SUFFICES ASSUME new \in pass.owed PROVE FALSE
      OBVIOUS
    <3>1. PICK g \in frames : new <= g
      BY <1>0
    <3> QED BY <1>0, <2>1, <3>1
  <2>3. UNCHANGED <<status, detected, identified>>
    BY <1>3 DEF Arrive, registry
  <2> QED BY <1>0, <1>1, <2>1, <2>2, <2>3, PassRests
<1>4. CASE Evict
  <2>1. /\ frames' = frames \ {Min(frames)} /\ detected' = detected \ {Min(frames)}
        /\ identified' = {i \in identified : i[1] # Min(frames)}
        /\ Cardinality(frames) > 1 /\ UNCHANGED status
    BY <1>4 DEF Evict, registry
  <2>2. frames # {}
    BY <2>1, FS_EmptySet
  <2>3. Min(frames) \in frames /\ \A g \in frames : g \in Nat /\ Min(frames) <= g
    BY <1>0, <2>2, FinalFrame
  <2> DEFINE m == Min(frames)
  <2> HIDE DEF m
  <2>4. PICK h \in frames : h # m
    <3> SUFFICES ASSUME \A h \in frames : h = m PROVE FALSE
      OBVIOUS
    <3>1. frames = {m}
      BY <2>3 DEF m
    <3> QED BY <2>1, <3>1, FS_Singleton
  <2>5. \A f \in pass.owed : \E g \in frames' : f <= g
    <3> SUFFICES ASSUME NEW f \in pass.owed PROVE \E g \in frames' : f <= g
      OBVIOUS
    <3>1. PICK g \in frames : f <= g
      BY <1>0
    <3>2. CASE g # m
      BY <2>1, <3>1, <3>2 DEF m
    <3>3. CASE g = m
      <4>1. f \in Nat /\ g \in Nat /\ h \in Nat /\ g <= h
        BY <1>0, <2>3, <3>3 DEF m
      <4>2. f <= h /\ h \in frames'
        BY <2>1, <2>4, <3>1, <4>1 DEF m
      <4> QED BY <4>2
    <3> QED BY <3>2, <3>3
  <2>6. /\ \A f \in frames' : f \in frames /\ (f \in detected => f \in detected')
        /\ \A f \in frames' : <<f, pass.model>> \in identified => <<f, pass.model>> \in identified'
    BY <2>1
  <2> QED BY <1>1, <2>1, <2>5, <2>6, PassRests
<1>5. CASE \E f \in FrameIds : Detect(f)
  <2>1. UNCHANGED <<status, frames, identified>> /\ detected \subseteq detected'
    BY <1>5 DEF Detect, registry
  <2> QED BY <1>0, <1>1, <2>1, PassRests
<1> QED BY <1>2, <1>3, <1>4, <1>5

(* A fetch and a batch move what is owed along: a row that is not there yet *)
(* is in the batch or the page, or is still to be listed.                   *)
LEMMA BatchCovering ==
    ASSUME TypeInv, Covering,
           UNCHANGED <<current, request, status, frames, detected>>,
           pass.model # 0, current # 0,
           step \in {"counting", "fetching", "matching", "marking"},
           identified \subseteq identified',
           NEW p \in Passes, p.model = pass.model, p.owed \subseteq FrameIds,
           \A f \in p.owed : \E g \in frames : f <= g,
           p.owed \cap frames \subseteq detected \cap Span(current),
           p.page \cap p.buf = {}, Cardinality(p.buf) <= Batch,
           \A f \in p.page \cup p.buf : f <= p.cursor,
           status[p.model] # "none" => \A f \in p.owed \cap frames :
               \/ <<f, p.model>> \in identified'
               \/ f \in p.page \cup p.buf
               \/ f > p.cursor /\ ~p.final,
           pass' = Refill(p), step' = "cancelled" \/ step' = AfterRefill(Refill(p))
    PROVE  Covering'
<1> DEFINE r == Refill(p)
<1>1. /\ r \in Passes /\ r.model = p.model /\ r.cursor = p.cursor
      /\ r.final = p.final /\ r.owed = p.owed
  BY RefillType
<1>2. /\ r.page \cup r.buf = p.page \cup p.buf
      /\ Cardinality(r.buf) # Batch => r.page = {} /\ Cardinality(r.buf) < Batch
  BY RefillFacts
<1>3. pass' = r
  OBVIOUS
<1>4. step' \in {"cancelled", "matching", "returned", "fetching"}
  BY DEF AfterRefill
<1>5. step' = "fetching" => ~r.final /\ Cardinality(r.buf) # Batch
  BY DEF AfterRefill
<1>6. step' = "returned" => r.final /\ r.buf = {} /\ Cardinality(r.buf) # Batch
  BY DEF AfterRefill
<1> HIDE DEF r
<1>7. Owed' = p.owed \cap frames
  BY <1>1, <1>3 DEF Owed
<1>8. \A f \in pass'.owed : \E g \in frames' : f <= g
  BY <1>1, <1>3
<1>9. current' # 0 => Owed' \subseteq detected' \cap Span(current)'
  BY <1>7 DEF Span
<1>10. step' = "fetching" => pass'.page = {} /\ Cardinality(pass'.buf) < Batch /\ ~pass'.final
  BY <1>2, <1>3, <1>5
<1>11. \A f \in pass'.page \cup pass'.buf : f <= pass'.cursor
  BY <1>1, <1>2, <1>3
<1>12. ASSUME step' \in {"fetching", "matching", "returned"}, status'[pass'.model] # "none",
              NEW f \in Owed'
       PROVE  Covered(f)'
  <2>1. \/ <<f, p.model>> \in identified'
        \/ f \in r.page \cup r.buf
        \/ f > p.cursor /\ ~p.final
    <3>1. status[p.model] # "none"
      BY <1>1, <1>3, <1>12
    <3> QED BY <1>2, <1>7, <1>12, <3>1
  <2>2. CASE step' = "returned"
    <3>1. r.page \cup r.buf = {} /\ p.final
      BY <1>1, <1>2, <1>6, <2>2
    <3> QED BY <1>1, <1>3, <2>1, <3>1 DEF Covered
  <2>3. CASE step' # "returned"
    BY <1>1, <1>3, <2>1, <2>3 DEF Covered
  <2> QED BY <2>2, <2>3
<1> QED BY <1>4, <1>8, <1>9, <1>10, <1>11, <1>12 DEF Covering, ArtifactSteps

LEMMA PassCovering ==
    ASSUME TypeInv, RegistryInv, Covering, PassStep
    PROVE  Covering'
<1>0. /\ pass \in Passes /\ current \in Jobs /\ current # 0
      /\ frames \subseteq FrameIds /\ detected \subseteq frames /\ frames \subseteq Nat
      /\ \A f \in pass.owed : \E g \in frames : f <= g
      /\ Owed \subseteq detected \cap Span(current)
      /\ pass.page \subseteq FrameIds /\ pass.buf \subseteq FrameIds /\ pass.owed \subseteq FrameIds
      /\ pass.cursor \in Nat /\ FrameIds \subseteq Nat
      /\ step \in PassSteps
      /\ step \in {"loading", "counting", "fetching", "matching", "marking"} => pass.model # 0
  <2>1. step \in PassSteps
    BY DEF PassStep, DetectFrame, DetectReturns, ChooseModel, LoadGallery, CountFrames,
       FetchPage, WriteMatches, WriteMarkers, PassRaises, PassSteps
  <2>2. current # 0 /\ current \in 0..MaxJobs /\ pass \in Passes /\ MaxJobs \in Nat
    BY <2>1, Limits DEF TypeInv, TypeOK, PassSteps
  <2>3. /\ pass.page \subseteq FrameIds /\ pass.buf \subseteq FrameIds /\ pass.owed \subseteq FrameIds
        /\ pass.cursor \in 0..MaxFrame
    BY <2>2 DEF Passes
  <2>4. FrameIds \subseteq Nat /\ pass.cursor \in Nat
    BY <2>3, Limits DEF FrameIds
  <2>5. frames \subseteq FrameIds /\ detected \subseteq frames
    BY DEF TypeInv, TypeOK
  <2>6. /\ \A f \in pass.owed : \E g \in frames : f <= g
        /\ Owed \subseteq detected \cap Span(current)
    BY <2>2 DEF Covering
  <2> QED BY <2>1, <2>2, <2>3, <2>4, <2>5, <2>6 DEF TypeInv, TypeOK, Jobs
<1>1. /\ UNCHANGED <<current, request, status, frames>>
      /\ detected \subseteq detected' /\ identified \subseteq identified'
      /\ Span(current)' = Span(current)
  BY DEF PassStep, DetectFrame, DetectReturns, ChooseModel, LoadGallery, CountFrames,
     FetchPage, WriteMatches, WriteMarkers, PassRaises, GoesTo, queue, registry, footage, Span
<1>2. ASSUME pass'.owed = pass.owed, step' = "detecting" => pass'.model = 0 /\ pass'.owed = {},
             step' \in {"loading", "counting"} => pass' = [NoPass EXCEPT !.model = pass'.model],
             step' \in {"detecting", "raised", "abandoned", "cancelled", "loading", "counting"}
      PROVE  Covering'
  <2>1. Owed' = Owed
    BY <1>1, <1>2 DEF Owed
  <2> QED BY <1>0, <1>1, <1>2, <2>1 DEF Covering, ArtifactSteps
<1>3. CASE DetectFrame
  <2>1. pass'.owed = pass.owed /\ pass'.model = pass.model /\ step = "detecting" /\ step' = step
    BY <1>0, <1>3 DEF DetectFrame, Passes
  <2> QED BY <1>2, <2>1 DEF Covering
<1>4. CASE DetectReturns
  BY <1>4, NoPassCoversNext DEF DetectReturns
<1>5. CASE ChooseModel
  <2>1. pass = NoPass
    BY <1>5 DEF ChooseModel, Covering
  <2>2. CASE \E v \in Active : pass' = [NoPass EXCEPT !.model = v] /\ step' = "loading"
    <3>1. PICK v \in Active : pass' = [NoPass EXCEPT !.model = v] /\ step' = "loading"
      BY <2>2
    <3>2. pass' = [NoPass EXCEPT !.model = pass'.model] /\ pass'.owed = pass.owed
      BY <2>1, <3>1 DEF NoPass
    <3> QED BY <1>2, <3>1, <3>2
  <2>3. CASE ~\E v \in Active : pass' = [NoPass EXCEPT !.model = v] /\ step' = "loading"
    <3>1. pass' = NoPass
      BY <1>5, <2>1, <2>3 DEF ChooseModel, GoesTo
    <3> QED BY <3>1, NoPassCoversNext
  <2> QED BY <2>2, <2>3
<1>6. CASE LoadGallery
  <2>1. pass' = pass /\ step = "loading" /\ step' \in {"counting", "raised"}
    BY <1>6 DEF LoadGallery, GoesTo
  <2> QED BY <1>2, <2>1 DEF Covering
<1>7. CASE PassRaises
  <2>1. pass' = pass /\ step' = "raised"
    BY <1>7 DEF PassRaises, GoesTo
  <2> QED BY <1>2, <2>1
<1>8. CASE CountFrames
  <2> DEFINE owed == Unidentified(pass.model)
  <2>1. pass = [NoPass EXCEPT !.model = pass.model] /\ step = "counting" /\ pass.model # 0
    BY <1>0, <1>8 DEF CountFrames, Covering
  <2>2. /\ pass.page = {} /\ pass.buf = {} /\ pass.cursor = 0 /\ pass.final = FALSE
    BY <2>1 DEF NoPass
  <2>3. owed \subseteq detected \cap Span(current) /\ owed \subseteq FrameIds
    BY <1>0 DEF Unidentified
  <2> HIDE DEF owed
  <2>4. pass' = [pass EXCEPT !.owed = owed] /\ step' \in {"cancelled", "fetching"}
    BY <1>8 DEF CountFrames, GoesTo, owed
  <2>5. /\ pass'.page = {} /\ pass'.buf = {} /\ pass'.cursor = 0 /\ pass'.final = FALSE
        /\ pass'.owed = owed /\ pass'.model = pass.model
    BY <1>0, <2>2, <2>4 DEF Passes
  <2>6. Owed' \subseteq owed /\ \A f \in owed : f > 0 /\ f <= f
    BY <2>3, <2>5, Limits DEF Owed, FrameIds
  <2>7. \A f \in pass'.owed : \E g \in frames' : f <= g
    BY <1>0, <1>1, <2>3, <2>5, <2>6
  <2>8. Owed' \subseteq detected' \cap Span(current)'
    BY <1>1, <2>3, <2>6
  <2>9. \A f \in Owed' : step' = "fetching" => Covered(f)'
    BY <2>5, <2>6 DEF Covered
  <2>10. Cardinality(pass'.buf) < Batch
    BY <2>5, FS_EmptySet, Limits
  <2> QED BY <2>4, <2>5, <2>7, <2>8, <2>9, <2>10 DEF Covering, ArtifactSteps
<1>9. CASE FetchPage
  <2> DEFINE U == {f \in Unidentified(pass.model) : f > pass.cursor}
  <2>1. /\ step = "fetching" /\ pass' = Refill(NextPage) /\ step' = AfterRefill(Refill(NextPage))
        /\ UNCHANGED <<detected, identified>>
    BY <1>9, NextPageType DEF FetchPage, GoesTo, footage, TypeInv
  <2>2. /\ NextPage \in Passes /\ NextRows \subseteq FrameIds
        /\ NextPage.model = pass.model /\ NextPage.owed = pass.owed /\ NextPage.buf = pass.buf
        /\ NextPage.page = NextRows /\ NextPage.final = (NextRows = {})
        /\ NextPage.cursor = IF NextRows = {} THEN pass.cursor ELSE Max(NextRows)
    BY NextPageType DEF TypeInv
  <2>3. /\ pass.page = {} /\ Cardinality(pass.buf) <= Batch /\ ~pass.final
        /\ \A f \in pass.buf : f <= pass.cursor
    <3>1. Cardinality(pass.buf) < Batch /\ IsFiniteSet(FrameIds)
      BY <2>1, Limits, FS_Interval DEF Covering, FrameIds
    <3>2. Cardinality(pass.buf) \in Nat
      BY <1>0, <3>1, FS_Subset, FS_CardinalityType
    <3> QED BY <2>1, <3>1, <3>2, Limits DEF Covering
  <2>4. U \subseteq FrameIds /\ NextRows = LowestOf(U, Page)
    BY <1>0 DEF Unidentified, NextRows
  <2>5. /\ NextRows \subseteq U
        /\ \A f \in U \ NextRows, g \in NextRows : g < f
        /\ U # {} => NextRows # {}
    <3> HIDE DEF U
    <3>1. Page \in Nat /\ Page > 0
      BY Limits
    <3> QED BY <2>4, <3>1, LowestFacts, LowestSubset
  <2>6. NextRows # {} => Max(NextRows) \in NextRows /\ \A f \in NextRows : f <= Max(NextRows)
    BY <2>2, FinalFrame
  <2>7. \A f \in NextRows : f > pass.cursor
    BY <2>5
  <2>8. NextPage.page \cap NextPage.buf = {}
    <3> SUFFICES ASSUME NEW f \in NextRows, f \in pass.buf PROVE FALSE
      BY <2>2
    <3>1. f \in Nat /\ pass.cursor \in Nat /\ f > pass.cursor /\ f <= pass.cursor
      BY <1>0, <2>2, <2>3, <2>7
    <3> QED BY <3>1
  <2>9. \A f \in NextPage.page \cup NextPage.buf : f <= NextPage.cursor
    <3> SUFFICES ASSUME NEW f \in NextRows \cup pass.buf PROVE f <= NextPage.cursor
      BY <2>2
    <3>1. CASE NextRows = {}
      BY <2>2, <2>3, <3>1
    <3>2. CASE NextRows # {}
      <4>1. /\ f \in Nat /\ Max(NextRows) \in Nat /\ pass.cursor \in Nat
            /\ Max(NextRows) > pass.cursor
        BY <1>0, <2>2, <2>6, <2>7, <3>2
      <4>2. f <= Max(NextRows)
        BY <2>3, <2>6, <3>2, <4>1
      <4> QED BY <2>2, <3>2, <4>2
    <3> QED BY <3>1, <3>2
  <2>10. ASSUME status[pass.model] # "none", NEW f \in pass.owed \cap frames
         PROVE  \/ <<f, pass.model>> \in identified'
                \/ f \in NextPage.page \cup NextPage.buf
                \/ f > NextPage.cursor /\ ~NextPage.final
    <3>1. f \in Owed /\ f \in detected \cap Span(current) /\ f \in Nat
      BY <1>0 DEF Owed
    <3>2. Covered(f)
      BY <1>0, <2>1, <2>10, <3>1 DEF Covering
    <3>3. CASE <<f, pass.model>> \in identified
      BY <2>1, <3>3
    <3>4. CASE f \in pass.buf
      BY <2>2, <3>4
    <3>5. CASE f > pass.cursor /\ <<f, pass.model>> \notin identified
      <4>1. f \in U
        BY <3>1, <3>5 DEF Unidentified
      <4>2. CASE f \in NextRows
        BY <2>2, <4>2
      <4>3. CASE f \notin NextRows
        <5>1. NextRows # {} /\ Max(NextRows) \in NextRows
          BY <2>5, <2>6, <4>1
        <5>2. Max(NextRows) < f /\ Max(NextRows) \in Nat
          BY <1>0, <2>2, <2>5, <4>1, <4>3, <5>1
        <5> QED BY <2>2, <3>1, <5>1, <5>2
      <4> QED BY <4>2, <4>3
    <3> QED BY <2>3, <3>2, <3>3, <3>4, <3>5 DEF Covered
  <2>11. /\ pass.model # 0 /\ step' = AfterRefill(Refill(NextPage))
         /\ NextPage.owed \cap frames \subseteq detected \cap Span(current)
    BY <1>0, <2>1, <2>2 DEF Owed
  <2> HIDE DEF U
  <2> QED BY <1>0, <1>1, <2>1, <2>2, <2>3, <2>8, <2>9, <2>10, <2>11, BatchCovering
<1>10. CASE WriteMatches
  <2>1. PICK embedded \in SUBSET pass.buf :
            /\ identified' = identified \cup RowsFor(embedded)
            /\ pass' = [pass EXCEPT !.buf = pass.buf \ embedded]
    BY <1>10 DEF WriteMatches
  <2>2. step = "matching" /\ step' = "marking"
    BY <1>10 DEF WriteMatches, GoesTo
  <2>3. /\ pass'.page = pass.page /\ pass'.buf = pass.buf \ embedded /\ pass'.final = pass.final
        /\ pass'.cursor = pass.cursor /\ pass'.model = pass.model /\ pass'.owed = pass.owed
    BY <1>0, <2>1 DEF Passes
  <2>4. Owed' = Owed
    BY <1>1, <2>3 DEF Owed
  <2>5. ASSUME NEW f \in Owed, status[pass.model] # "none" PROVE Covered(f)'
    <3>1. Covered(f) /\ f \in frames
      BY <1>0, <2>2, <2>5 DEF Covering, Owed
    <3>2. f \in embedded => <<f, pass.model>> \in identified'
      BY <2>1, <3>1 DEF RowsFor
    <3> QED BY <1>1, <2>2, <2>3, <3>1, <3>2 DEF Covered
  <2> QED BY <1>0, <1>1, <2>2, <2>3, <2>4, <2>5 DEF Covering, ArtifactSteps
<1>11. CASE WriteMarkers
  <2> DEFINE p == [pass EXCEPT !.buf = {}]
  <2>1. /\ p \in Passes /\ p.model = pass.model /\ p.owed = pass.owed /\ p.page = pass.page
        /\ p.buf = {} /\ p.cursor = pass.cursor /\ p.final = pass.final
    BY <1>0 DEF Passes
  <2>2. /\ step = "marking" /\ pass' = Refill(p) /\ UNCHANGED detected
        /\ identified' = identified \cup RowsFor(pass.buf)
        /\ step' = "cancelled" \/ step' = AfterRefill(Refill(p))
    BY <1>11 DEF WriteMarkers, GoesTo, footage
  <2> HIDE DEF p
  <2>3. p.page \cap p.buf = {} /\ Cardinality(p.buf) <= Batch
    BY <2>1, FS_EmptySet, Limits
  <2>4. \A f \in p.page \cup p.buf : f <= p.cursor
    BY <2>1, <2>2 DEF Covering
  <2>5. ASSUME status[pass.model] # "none", NEW f \in pass.owed \cap frames
        PROVE  \/ <<f, pass.model>> \in identified'
               \/ f \in p.page \cup p.buf
               \/ f > p.cursor /\ ~p.final
    <3>1. f \in Owed /\ f \in frames
      BY DEF Owed
    <3>2. Covered(f)
      BY <1>0, <2>2, <2>5, <3>1 DEF Covering
    <3>3. f \in pass.buf => <<f, pass.model>> \in identified'
      BY <2>2, <3>1 DEF RowsFor
    <3> QED BY <1>1, <2>1, <3>2, <3>3 DEF Covered
  <2>6. pass.model # 0 /\ p.owed \cap frames \subseteq detected \cap Span(current)
    BY <1>0, <2>1, <2>2 DEF Owed
  <2> QED BY <1>0, <1>1, <2>1, <2>2, <2>3, <2>4, <2>5, <2>6, BatchCovering
<1> QED BY <1>3, <1>4, <1>5, <1>6, <1>7, <1>8, <1>9, <1>10, <1>11 DEF PassStep

LEMMA CoveringStep == TypeInv /\ RegistryInv /\ Covering /\ [Next]_vars => Covering'
<1> SUFFICES ASSUME TypeInv, RegistryInv, Covering, [Next]_vars PROVE Covering'
  OBVIOUS
<1>1. CASE UNCHANGED vars
  <2>1. UNCHANGED <<current, request, step, pass, status, frames, detected, identified>>
    BY <1>1 DEF vars, queue, worker, registry, footage
  <2> QED BY <2>1, PassRests DEF Covering, Span
<1> QED BY <1>1, QueueCovering, ArtifactCovering, PassCovering, AroundCovering DEF Next, Around

(* PassCovers of the training run: an identify pass that returns has left   *)
(* no frame it counted without a row of its model, for any page and batch,  *)
(* while frames come, are detected and are evicted, and models deleted.     *)
THEOREM ReturnedPassCovers == Spec => []PassCovers
<1>1. Init => Covering
  BY NoPassCovers DEF Init
<1>2. Covering => PassCovers
  BY DEF Covering, PassCovers, Owed, Covered
<1> QED BY <1>1, <1>2, TypeInit, TypeStep, RegistryInit, RegistryStep, CoveringStep, PTL DEF Spec
==============================================================================
