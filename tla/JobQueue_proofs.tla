--------------------------- MODULE JobQueue_proofs ---------------------------
(***************************************************************************)
(* The safety of AnalysisManager's queue, for every number of keys, jobs   *)
(* and frames.  The invariants the runs check are not inductive: that one  *)
(* worker exists (SerialDrain) needs the queue to hold exactly the waiting *)
(* jobs (QueueExact), that the running job owns the current Event          *)
(* (RunningIsCurrent), and that ids not drawn yet are unused (FreshIds).   *)
(***************************************************************************)
EXTENDS JobQueue, SequenceTheorems, TLAPS

RunningIsCurrent ==
    /\ running => current \in Ids /\ latest = current
    /\ ~running => current = 0

FreshIds == \A j \in Ids : j >= nextId => pc[j] = "none"

(* A set Event was set by a cancel aimed at its own job. *)
EventsAsked == stopSet \subseteq asked

IInv ==
    /\ TypeOK
    /\ SerialDrain
    /\ IdleImpliesEmpty
    /\ QueueExact
    /\ RunningIsCurrent
    /\ FreshIds
    /\ EventsAsked
    /\ CancelHitsItsTarget

-----------------------------------------------------------------------------
(* The lock-held part of a promotion: from a queue that lists exactly the   *)
(* waiting jobs of p, none of which is at work, it reaches a state where    *)
(* the head alone is at work and the rest still wait.                       *)
LEMMA PromoteFacts ==
    ASSUME TypeOK,
           NEW STATE q, q \in Seq(Ids),
           NEW STATE p, p \in [Ids -> Phases],
           \A i, k \in 1..Len(q) : q[i] = q[k] => i = k,
           \A j \in Ids : p[j] = "queued" <=> \E i \in 1..Len(q) : q[i] = j,
           \A j \in Ids : p[j] \notin Working,
           Promote(q, p)
    PROVE  /\ pc' \in [Ids -> Phases] /\ pending' \in Seq(Ids)
           /\ current' \in 0..MaxJobs /\ latest' \in 0..MaxJobs
           /\ running' \in BOOLEAN
           /\ total' \in 0..MaxFrames /\ done' \in 0..MaxFrames
           /\ SerialDrain' /\ IdleImpliesEmpty' /\ QueueExact' /\ RunningIsCurrent'
           /\ \A j \in Ids : pc'[j] = p[j] \/ (p[j] = "queued" /\ pc'[j] = "prepared")
<1>1. CASE q = <<>>
  <2>1. /\ running' = FALSE /\ current' = 0 /\ pending' = q /\ pc' = p
        /\ latest' = latest /\ total' = total /\ done' = done
    BY <1>1 DEF Promote
  <2>2. SerialDrain'
    BY <2>1 DEF SerialDrain
  <2>3. IdleImpliesEmpty' /\ QueueExact' /\ RunningIsCurrent'
    BY <2>1, <1>1 DEF IdleImpliesEmpty, QueueExact, RunningIsCurrent
  <2>4. /\ current' \in 0..MaxJobs /\ latest' \in 0..MaxJobs
        /\ total' \in 0..MaxFrames /\ done' \in 0..MaxFrames
    BY <2>1, MaxJobsAssumption DEF TypeOK
  <2>5. /\ pc' \in [Ids -> Phases] /\ pending' \in Seq(Ids) /\ running' \in BOOLEAN
        /\ \A j \in Ids : pc'[j] = p[j]
    BY <2>1
  <2> QED BY <2>2, <2>3, <2>4, <2>5
<1>2. CASE q # <<>>
  <2> DEFINE h == Head(q)
  <2>1. /\ running' = TRUE /\ current' = h /\ pending' = Tail(q)
        /\ pc' = [p EXCEPT ![h] = "prepared"]
        /\ latest' = h /\ total' = 0 /\ done' = 0
    BY <1>2 DEF Promote
  <2>2. /\ h \in Ids /\ h = q[1] /\ Len(q) \in Nat \ {0} /\ 1 \in 1..Len(q)
        /\ Tail(q) \in Seq(Ids) /\ Len(Tail(q)) = Len(q) - 1
        /\ \A i \in 1..Len(q) - 1 : Tail(q)[i] = q[i + 1]
    BY <1>2
  <2>3. p[h] = "queued"
    BY <2>2
  <2>4. SerialDrain'
    BY <2>1, <2>2 DEF SerialDrain, Working
  <2>5. IdleImpliesEmpty' /\ RunningIsCurrent'
    BY <2>1, <2>2 DEF IdleImpliesEmpty, RunningIsCurrent
  <2>6. \A i, k \in 1..Len(pending') : pending'[i] = pending'[k] => i = k
    BY <2>1, <2>2
  <2>7. \A j \in Ids : pc'[j] = "queued" <=> \E i \in 1..Len(pending') : pending'[i] = j
    <3> TAKE j \in Ids
    <3>1. CASE j = h
      <4>1. pc'[j] = "prepared"
        BY <2>1, <2>2, <3>1
      <4>2. \A i \in 1..Len(pending') : pending'[i] # j
        BY <2>1, <2>2, <3>1
      <4> QED BY <4>1, <4>2
    <3>2. CASE j # h
      <4>1. pc'[j] = p[j]
        BY <2>1, <3>2
      <4>2. ASSUME NEW i \in 1..Len(q), q[i] = j
            PROVE  i - 1 \in 1..Len(pending') /\ pending'[i - 1] = j
        BY <4>2, <2>1, <2>2, <3>2
      <4>3. ASSUME NEW i \in 1..Len(pending'), pending'[i] = j
            PROVE  i + 1 \in 1..Len(q) /\ q[i + 1] = j
        BY <4>3, <2>1, <2>2
      <4> QED BY <4>1, <4>2, <4>3
    <3> QED BY <3>1, <3>2
  <2>8. QueueExact'
    BY <2>6, <2>7 DEF QueueExact
  <2> QED BY <2>1, <2>2, <2>3, <2>4, <2>5, <2>8, MaxJobsAssumption, MaxFramesAssumption
           DEF Ids, Phases, Working
<1> QED BY <1>1, <1>2

(* Removing the i-th entry of a sequence keeps the other entries, in order. *)
LEMMA RemoveAtFacts ==
    ASSUME NEW S, NEW s \in Seq(S), NEW i \in 1..Len(s)
    PROVE  /\ RemoveAt(s, i) \in Seq(S)
           /\ Len(RemoveAt(s, i)) = Len(s) - 1
           /\ \A k \in 1..Len(s) - 1 :
                 RemoveAt(s, i)[k] = IF k < i THEN s[k] ELSE s[k + 1]
<1> DEFINE a == SubSeq(s, 1, i - 1)
           b == SubSeq(s, i + 1, Len(s))
<1>0. Len(s) \in Nat /\ i \in Nat /\ i >= 1 /\ i <= Len(s)
  BY LenProperties
<1>1. /\ a \in Seq(S) /\ Len(a) = i - 1
      /\ \A k \in 1..i - 1 : a[k] = s[k]
  BY <1>0
<1>2. /\ b \in Seq(S) /\ Len(b) = Len(s) - i
      /\ \A k \in 1..Len(s) - i : b[k] = s[i + k]
  BY <1>0
<1>3. RemoveAt(s, i) = a \o b
  BY DEF RemoveAt
<1> HIDE DEF a, b
<1>4. /\ a \o b \in Seq(S) /\ Len(a \o b) = Len(a) + Len(b)
      /\ \A k \in 1..Len(a) + Len(b) :
            (a \o b)[k] = IF k <= Len(a) THEN a[k] ELSE b[k - Len(a)]
  BY <1>1, <1>2, ConcatProperties
<1>5. ASSUME NEW k \in 1..Len(s) - 1
      PROVE  (a \o b)[k] = IF k < i THEN s[k] ELSE s[k + 1]
  <2>1. CASE k < i
    BY <2>1, <1>0, <1>1, <1>2, <1>4
  <2>2. CASE ~(k < i)
    <3> DEFINE m == k - (i - 1)
    <3>1. m \in 1..Len(s) - i /\ i + m = k + 1 /\ k \in 1..Len(a) + Len(b)
      BY <2>2, <1>0, <1>1, <1>2
    <3>2. (a \o b)[k] = b[m]
      BY <2>2, <3>1, <1>0, <1>1, <1>4
    <3>3. b[m] = s[i + m]
      BY <3>1, <1>2
    <3> QED BY <2>2, <3>1, <3>2, <3>3
  <2> QED BY <2>1, <2>2
<1>6. Len(a \o b) = Len(s) - 1
  BY <1>0, <1>1, <1>2, <1>4
<1> QED BY <1>3, <1>4, <1>5, <1>6

-----------------------------------------------------------------------------
LEMMA InitIInv == Init => IInv
<1> SUFFICES ASSUME Init PROVE IInv
  OBVIOUS
<1>1. (CHOOSE k \in Keys : TRUE) \in Keys
  BY KeysAssumption
<1>2. TypeOK
  <2>1. keyOf \in [Ids -> Keys]
    BY <1>1 DEF Init
  <2>2. pc \in [Ids -> Phases] /\ nextId \in 1..MaxJobs + 1
    BY MaxJobsAssumption DEF Init, Phases
  <2>3. /\ pending \in Seq(Ids)
        /\ history \in Seq([id : Ids, state : Outcomes, done : 0..MaxFrames])
    BY DEF Init
  <2>4. /\ current \in 0..MaxJobs /\ latest \in 0..MaxJobs
        /\ total \in 0..MaxFrames /\ done \in 0..MaxFrames
    BY MaxJobsAssumption, MaxFramesAssumption DEF Init
  <2> QED BY <2>1, <2>2, <2>3, <2>4 DEF Init, TypeOK
<1>3. SerialDrain /\ FreshIds /\ CancelHitsItsTarget
  BY DEF Init, SerialDrain, FreshIds, CancelHitsItsTarget, Working
<1>4. IdleImpliesEmpty /\ QueueExact /\ RunningIsCurrent /\ EventsAsked
  BY DEF Init, IdleImpliesEmpty, QueueExact, RunningIsCurrent, EventsAsked
<1> QED BY <1>2, <1>3, <1>4 DEF IInv

(* A step that moves one job between phases outside the queue: the manager  *)
(* keeps its queue, its running job and its Event.                          *)
LEMMA SamePlace ==
    ASSUME IInv, NEW j \in Ids, NEW ph \in Phases,
           pc' = [pc EXCEPT ![j] = ph],
           pending' = pending, current' = current, running' = running,
           latest' = latest,
           ph # "queued" /\ pc[j] # "queued",
           ph \in Working <=> pc[j] \in Working
    PROVE  /\ pc' \in [Ids -> Phases]
           /\ SerialDrain' /\ IdleImpliesEmpty' /\ QueueExact' /\ RunningIsCurrent'
<1>1. pc' \in [Ids -> Phases] /\ \A k \in Ids : pc'[k] = IF k = j THEN ph ELSE pc[k]
  BY DEF IInv, TypeOK
<1>2. SerialDrain'
  BY <1>1 DEF IInv, SerialDrain
<1>3. IdleImpliesEmpty' /\ RunningIsCurrent'
  BY DEF IInv, IdleImpliesEmpty, RunningIsCurrent
<1>4. QueueExact'
  BY <1>1 DEF IInv, QueueExact
<1> QED BY <1>1, <1>2, <1>3, <1>4

LEMMA DrawInv == ASSUME IInv, NEW k \in Keys, Draw(k) PROVE IInv'
<1>1. /\ nextId \in Ids /\ pc[nextId] = "none"
      /\ nextId' = nextId + 1 /\ pc' = [pc EXCEPT ![nextId] = "drawn"]
      /\ keyOf' = [keyOf EXCEPT ![nextId] = k] /\ handlers' = handlers \cup {nextId}
      /\ UNCHANGED <<pending, current, running, latest, stopSet, total, done,
                     history, exit, asked, swept>>
  BY DEF IInv, TypeOK, FreshIds, Draw, counters, ghosts, Ids
<1>2. /\ pc' \in [Ids -> Phases]
      /\ SerialDrain' /\ IdleImpliesEmpty' /\ QueueExact' /\ RunningIsCurrent'
  <2>1. "drawn" \in Phases \ Working /\ "none" \notin Working
    BY DEF Phases, Working
  <2> QED BY <1>1, <2>1, SamePlace
<1>3. TypeOK'
  BY <1>1, <1>2, MaxJobsAssumption DEF IInv, TypeOK, Ids
<1>4. FreshIds' /\ CancelHitsItsTarget' /\ EventsAsked'
  BY <1>1, <1>3 DEF IInv, TypeOK, FreshIds, CancelHitsItsTarget, EventsAsked, Ids
<1> QED BY <1>2, <1>3, <1>4 DEF IInv

LEMMA EnqueueDuplicateInv == ASSUME IInv, NEW j \in Ids, EnqueueDuplicate(j) PROVE IInv'
<1>1. /\ pc[j] = "drawn" /\ pc' = [pc EXCEPT ![j] = "deduped"]
      /\ handlers' = handlers \ {j}
      /\ UNCHANGED <<nextId, keyOf, pending, current, running, latest, stopSet,
                     total, done, history, exit, asked, swept>>
  BY DEF EnqueueDuplicate, counters, ghosts
<1>2. /\ pc' \in [Ids -> Phases]
      /\ SerialDrain' /\ IdleImpliesEmpty' /\ QueueExact' /\ RunningIsCurrent'
  <2>1. "deduped" \in Phases \ Working /\ "drawn" \notin Working
    BY DEF Phases, Working, Ended, Outcomes
  <2> QED BY <1>1, <2>1, SamePlace
<1>3. TypeOK'
  BY <1>1, <1>2 DEF IInv, TypeOK
<1>4. FreshIds' /\ CancelHitsItsTarget' /\ EventsAsked'
  BY <1>1 DEF IInv, TypeOK, FreshIds, CancelHitsItsTarget, EventsAsked
<1> QED BY <1>2, <1>3, <1>4 DEF IInv

LEMMA EnqueueBehindInv == ASSUME IInv, NEW j \in Ids, EnqueueBehind(j) PROVE IInv'
<1>1. /\ pc[j] = "drawn" /\ running /\ pending' = Append(pending, j)
      /\ pc' = [pc EXCEPT ![j] = "queued"] /\ handlers' = handlers \ {j}
      /\ UNCHANGED <<nextId, keyOf, current, running, latest, stopSet, total, done,
                     history, exit, asked, swept>>
  BY DEF EnqueueBehind, counters, ghosts
<1>2. /\ pc' \in [Ids -> Phases]
      /\ \A k \in Ids : pc'[k] = IF k = j THEN "queued" ELSE pc[k]
  BY <1>1 DEF IInv, TypeOK, Phases
<1>3. /\ pending' \in Seq(Ids) /\ Len(pending') = Len(pending) + 1
      /\ \A i \in 1..Len(pending) : pending'[i] = pending[i]
      /\ pending'[Len(pending) + 1] = j /\ Len(pending) \in Nat
  BY <1>1 DEF IInv, TypeOK
<1>4. TypeOK'
  BY <1>1, <1>2, <1>3 DEF IInv, TypeOK
<1>5. SerialDrain' /\ FreshIds' /\ CancelHitsItsTarget'
  BY <1>1, <1>2 DEF IInv, SerialDrain, FreshIds, CancelHitsItsTarget, Working
<1>6. IdleImpliesEmpty' /\ RunningIsCurrent' /\ EventsAsked'
  BY <1>1 DEF IInv, IdleImpliesEmpty, RunningIsCurrent, EventsAsked
<1>7. QueueExact'
  <2>1. \A i \in 1..Len(pending) : pending[i] # j
    BY <1>1 DEF IInv, QueueExact
  <2>2. \A i, k \in 1..Len(pending') : pending'[i] = pending'[k] => i = k
    BY <1>3, <2>1 DEF IInv, QueueExact
  <2>3. \A k \in Ids : pc'[k] = "queued" <=> \E i \in 1..Len(pending') : pending'[i] = k
    <3> TAKE k \in Ids
    <3>1. ASSUME NEW i \in 1..Len(pending), pending[i] = k
          PROVE  i \in 1..Len(pending') /\ pending'[i] = k
      BY <3>1, <1>3
    <3>2. Len(pending) + 1 \in 1..Len(pending')
      BY <1>3
    <3>3. ASSUME NEW i \in 1..Len(pending'), pending'[i] = k, k # j
          PROVE  i \in 1..Len(pending) /\ pending[i] = k
      BY <3>3, <1>3
    <3> QED BY <1>2, <1>3, <3>1, <3>2, <3>3 DEF IInv, QueueExact
  <2> QED BY <2>2, <2>3 DEF QueueExact
<1> QED BY <1>4, <1>5, <1>6, <1>7 DEF IInv

LEMMA EnqueueIdleInv == ASSUME IInv, NEW j \in Ids, EnqueueIdle(j) PROVE IInv'
<1> DEFINE q == Append(pending, j)
           p == [pc EXCEPT ![j] = "queued"]
<1>1. /\ pc[j] = "drawn" /\ ~running /\ Promote(q, p)
      /\ UNCHANGED <<nextId, keyOf, handlers, stopSet, history, exit, asked, swept>>
  BY DEF EnqueueIdle, jobs, ghosts
<1>2. pending = <<>> /\ q = <<j>>
  BY <1>1 DEF IInv, IdleImpliesEmpty
<1>3. /\ q \in Seq(Ids) /\ Len(q) = 1 /\ q[1] = j
      /\ p \in [Ids -> Phases] /\ \A k \in Ids : p[k] = IF k = j THEN "queued" ELSE pc[k]
  BY <1>2 DEF IInv, TypeOK, Phases
<1>4. \A i, k \in 1..Len(q) : q[i] = q[k] => i = k
  BY <1>3
<1>5. \A k \in Ids : p[k] = "queued" <=> \E i \in 1..Len(q) : q[i] = k
  BY <1>2, <1>3 DEF IInv, QueueExact
<1>6. \A k \in Ids : p[k] \notin Working
  BY <1>1, <1>3 DEF IInv, SerialDrain, Working
<1>7. TypeOK
  BY DEF IInv
<1> HIDE DEF q, p
<1>8. /\ pc' \in [Ids -> Phases] /\ pending' \in Seq(Ids)
      /\ current' \in 0..MaxJobs /\ latest' \in 0..MaxJobs /\ running' \in BOOLEAN
      /\ total' \in 0..MaxFrames /\ done' \in 0..MaxFrames
      /\ SerialDrain' /\ IdleImpliesEmpty' /\ QueueExact' /\ RunningIsCurrent'
      /\ \A k \in Ids : pc'[k] = p[k] \/ (p[k] = "queued" /\ pc'[k] = "prepared")
  BY <1>1, <1>3, <1>4, <1>5, <1>6, <1>7, PromoteFacts
<1>9. TypeOK'
  BY <1>1, <1>7, <1>8 DEF TypeOK
<1>10. FreshIds' /\ CancelHitsItsTarget' /\ EventsAsked'
  BY <1>1, <1>3, <1>8 DEF IInv, FreshIds, CancelHitsItsTarget, EventsAsked
<1> QED BY <1>8, <1>9, <1>10 DEF IInv

LEMMA StartThreadInv == ASSUME IInv, NEW j \in Ids, StartThread(j) PROVE IInv'
<1>1. /\ pc[j] = "prepared" /\ pc' = [pc EXCEPT ![j] = "sweeping"]
      /\ handlers' = handlers \ {j} /\ total' \in 0..MaxFrames
      /\ UNCHANGED <<nextId, keyOf, pending, current, running, latest, stopSet,
                     done, history, exit, asked, swept>>
  BY DEF StartThread, ghosts
<1>2. /\ pc' \in [Ids -> Phases]
      /\ SerialDrain' /\ IdleImpliesEmpty' /\ QueueExact' /\ RunningIsCurrent'
  <2>1. "sweeping" \in Phases \cap Working /\ "prepared" \in Working
    BY DEF Phases, Working
  <2> QED BY <1>1, <2>1, SamePlace
<1>3. TypeOK'
  BY <1>1, <1>2 DEF IInv, TypeOK
<1>4. FreshIds' /\ CancelHitsItsTarget' /\ EventsAsked'
  BY <1>1 DEF IInv, TypeOK, FreshIds, CancelHitsItsTarget, EventsAsked
<1> QED BY <1>2, <1>3, <1>4 DEF IInv

LEMMA SweepFrameInv == ASSUME IInv, NEW j \in Ids, SweepFrame(j) PROVE IInv'
<1>1. /\ done < total /\ done' = done + 1
      /\ UNCHANGED <<nextId, keyOf, pc, handlers, pending, current, running, latest,
                     stopSet, total, history, exit, asked, swept>>
  BY DEF SweepFrame, jobs, ghosts
<1>2. TypeOK'
  BY <1>1, MaxFramesAssumption DEF IInv, TypeOK
<1> QED BY <1>1, <1>2 DEF IInv, SerialDrain, IdleImpliesEmpty, QueueExact,
                          RunningIsCurrent, FreshIds, CancelHitsItsTarget, EventsAsked

LEMMA SweepReturnInv ==
    ASSUME IInv, NEW j \in Ids, NEW how \in {"completed", "stopped", "raised"},
           SweepReturn(j, how)
    PROVE  IInv'
<1>1. /\ pc[j] = "sweeping" /\ pc' = [pc EXCEPT ![j] = how]
      /\ swept' \in SUBSET Ids
      /\ UNCHANGED <<nextId, keyOf, handlers, pending, current, running, latest,
                     stopSet, total, done, history, exit, asked>>
  BY DEF SweepReturn, jobs, counters, IInv, TypeOK
<1>2. /\ pc' \in [Ids -> Phases]
      /\ SerialDrain' /\ IdleImpliesEmpty' /\ QueueExact' /\ RunningIsCurrent'
  <2>1. how \in Phases \cap Working /\ "sweeping" \in Working /\ how # "queued"
    BY DEF Phases, Working
  <2> QED BY <1>1, <2>1, SamePlace
<1>3. TypeOK'
  BY <1>1, <1>2 DEF IInv, TypeOK
<1>4. FreshIds' /\ CancelHitsItsTarget' /\ EventsAsked'
  BY <1>1 DEF IInv, TypeOK, FreshIds, CancelHitsItsTarget, EventsAsked
<1> QED BY <1>2, <1>3, <1>4 DEF IInv

LEMMA FinallyInv == ASSUME IInv, NEW j \in Ids, Finally(j) PROVE IInv'
<1> DEFINE o == Outcome(j)
           p == [pc EXCEPT ![j] = o]
<1>1. /\ pc[j] \in {"completed", "stopped", "raised"} /\ Promote(pending, p)
      /\ UNCHANGED <<nextId, keyOf, handlers, stopSet, exit, asked, swept>>
  BY DEF Finally, jobs, ghosts
<1>2. o \in Outcomes /\ o \in Phases \ Working /\ o # "queued" /\ o # "none"
  BY DEF Outcome, Outcomes, Phases, Working, Ended
<1>3. p \in [Ids -> Phases] /\ \A k \in Ids : p[k] = IF k = j THEN o ELSE pc[k]
  BY <1>2 DEF IInv, TypeOK
<1>4. running /\ current = j /\ latest = j
  BY <1>1 DEF IInv, SerialDrain, RunningIsCurrent, Working
<1>5. o = "canceled" => j \in asked
  BY <1>4 DEF IInv, EventsAsked, Outcome, Stopping
<1>6. \A k \in Ids : p[k] \notin Working
  BY <1>2, <1>3, <1>4 DEF IInv, SerialDrain
<1>7. /\ pending \in Seq(Ids)
      /\ \A i, k \in 1..Len(pending) : pending[i] = pending[k] => i = k
  BY DEF IInv, TypeOK, QueueExact
<1>8. \A k \in Ids : p[k] = "queued" <=> \E i \in 1..Len(pending) : pending[i] = k
  <2>1. pc[j] # "queued"
    BY <1>1
  <2> QED BY <1>2, <1>3, <2>1 DEF IInv, QueueExact
<1>9. TypeOK
  BY DEF IInv
<1>10. history' \in Seq([id : Ids, state : Outcomes, done : 0..MaxFrames])
  <2> DEFINE R == [id : Ids, state : Outcomes, done : 0..MaxFrames]
             s == <<[id |-> j, state |-> o, done |-> done]>> \o history
             n == IF Len(history) < HistoryLimit THEN Len(history) + 1 ELSE HistoryLimit
  <2>1. [id |-> j, state |-> o, done |-> done] \in R
    BY <1>2 DEF IInv, TypeOK
  <2>2. /\ history \in Seq(R) /\ Len(history) \in Nat
    BY DEF IInv, TypeOK
  <2>3. s \in Seq(R) /\ Len(s) = Len(history) + 1
    BY <2>1, <2>2
  <2>4. n \in 1..Len(s) /\ history' = SubSeq(s, 1, n)
    BY <2>2, <2>3, HistoryLimitAssumption DEF Finally
  <2> HIDE DEF s, n, R
  <2>5. SubSeq(s, 1, n) \in Seq(R)
    BY <2>3, <2>4
  <2> QED BY <2>4, <2>5 DEF R
<1> HIDE DEF p, o
<1>11. /\ pc' \in [Ids -> Phases] /\ pending' \in Seq(Ids)
       /\ current' \in 0..MaxJobs /\ latest' \in 0..MaxJobs /\ running' \in BOOLEAN
       /\ total' \in 0..MaxFrames /\ done' \in 0..MaxFrames
       /\ SerialDrain' /\ IdleImpliesEmpty' /\ QueueExact' /\ RunningIsCurrent'
       /\ \A k \in Ids : pc'[k] = p[k] \/ (p[k] = "queued" /\ pc'[k] = "prepared")
  BY <1>1, <1>3, <1>6, <1>7, <1>8, <1>9, PromoteFacts
<1>12. TypeOK'
  BY <1>1, <1>9, <1>10, <1>11 DEF TypeOK
<1>13. FreshIds' /\ EventsAsked'
  BY <1>1, <1>2, <1>3, <1>11 DEF IInv, FreshIds, EventsAsked
<1>14. CancelHitsItsTarget'
  BY <1>1, <1>3, <1>5, <1>11 DEF IInv, CancelHitsItsTarget
<1> QED BY <1>11, <1>12, <1>13, <1>14 DEF IInv

LEMMA CancelJobInv == ASSUME IInv, NEW j \in Ids, CancelJob(j) PROVE IInv'
<1>1. /\ running /\ latest = current
      /\ stopSet' = stopSet \cup {latest} /\ asked' = asked \cup {current}
      /\ UNCHANGED <<nextId, keyOf, pc, handlers, pending, current, running, latest,
                     total, done, history, exit, swept>>
  BY DEF CancelJob, StopRunning, jobs, counters, IInv, RunningIsCurrent
<1>2. TypeOK'
  BY <1>1 DEF IInv, TypeOK
<1> QED BY <1>1, <1>2 DEF IInv, SerialDrain, IdleImpliesEmpty, QueueExact,
                          RunningIsCurrent, FreshIds, CancelHitsItsTarget, EventsAsked

LEMMA CancelPendingInv ==
    ASSUME IInv, NEW i \in 1..Len(pending), CancelPending(i) PROVE IInv'
<1> DEFINE j == pending[i]
<1>0. pending \in Seq(Ids) /\ Len(pending) \in Nat /\ j \in Ids /\ pc[j] = "queued"
  BY DEF IInv, TypeOK, QueueExact
<1>1. /\ pc' = [pc EXCEPT ![j] = "dropped"] /\ pending' = RemoveAt(pending, i)
      /\ UNCHANGED <<nextId, keyOf, handlers, current, running, latest, stopSet,
                     total, done, history, exit, asked, swept>>
  BY DEF CancelPending, jobs, counters, ghosts
<1>2. /\ pc' \in [Ids -> Phases]
      /\ \A k \in Ids : pc'[k] = IF k = j THEN "dropped" ELSE pc[k]
  BY <1>0, <1>1 DEF IInv, TypeOK, Phases, Ended
<1>3. /\ pending' \in Seq(Ids) /\ Len(pending') = Len(pending) - 1
      /\ \A k \in 1..Len(pending) - 1 :
            pending'[k] = IF k < i THEN pending[k] ELSE pending[k + 1]
  BY <1>0, <1>1, RemoveAtFacts
<1>4. TypeOK'
  BY <1>1, <1>2, <1>3 DEF IInv, TypeOK
<1>5. SerialDrain' /\ FreshIds' /\ CancelHitsItsTarget'
  <2>1. "dropped" \notin Working /\ "queued" \notin Working
    BY DEF Working
  <2> QED BY <1>0, <1>1, <1>2, <2>1 DEF IInv, SerialDrain, FreshIds, CancelHitsItsTarget
<1>6. RunningIsCurrent' /\ EventsAsked'
  BY <1>1 DEF IInv, RunningIsCurrent, EventsAsked
<1>7. IdleImpliesEmpty'
  BY <1>0, <1>1 DEF IInv, IdleImpliesEmpty
<1>8. QueueExact'
  <2>1. \A k \in 1..Len(pending') : pending'[k] # j
    BY <1>0, <1>3 DEF IInv, QueueExact
  <2>2. \A k, l \in 1..Len(pending') : pending'[k] = pending'[l] => k = l
    BY <1>0, <1>3 DEF IInv, QueueExact
  <2>3. \A x \in Ids : pc'[x] = "queued" <=> \E k \in 1..Len(pending') : pending'[k] = x
    <3> TAKE x \in Ids
    <3>1. ASSUME NEW k \in 1..Len(pending), pending[k] = x, x # j
          PROVE  \E l \in 1..Len(pending') : pending'[l] = x
      <4>1. CASE k < i
        BY <4>1, <3>1, <1>0, <1>3
      <4>2. CASE k > i
        <5>1. k - 1 \in 1..Len(pending') /\ ~(k - 1 < i) /\ (k - 1) + 1 = k
          BY <4>2, <1>0, <1>3
        <5>2. pending'[k - 1] = x
          BY <5>1, <3>1, <1>3
        <5> QED BY <5>1, <5>2
      <4>3. k # i
        BY <3>1
      <4> QED BY <4>1, <4>2, <4>3, <1>0
    <3>2. ASSUME NEW k \in 1..Len(pending'), pending'[k] = x
          PROVE  \E l \in 1..Len(pending) : pending[l] = x
      <4>1. k \in 1..Len(pending) /\ k + 1 \in 1..Len(pending)
        BY <1>0, <1>3
      <4> QED BY <4>1, <3>2, <1>3
    <3>3. x = j => pc'[x] = "dropped" /\ ~\E k \in 1..Len(pending') : pending'[k] = x
      BY <1>2, <2>1
    <3>4. x # j => (pc'[x] = "queued" <=> \E k \in 1..Len(pending) : pending[k] = x)
      BY <1>2 DEF IInv, QueueExact
    <3> QED BY <3>1, <3>2, <3>3, <3>4
  <2> QED BY <2>2, <2>3 DEF QueueExact
<1> QED BY <1>4, <1>5, <1>6, <1>7, <1>8 DEF IInv

(* The effect ClearPending, StopAll and Shutdown share on the queue. *)
LEMMA DropAllFacts ==
    ASSUME IInv, DropAll, current' = current, running' = running, latest' = latest
    PROVE  /\ pc' \in [Ids -> Phases] /\ pending' \in Seq(Ids)
           /\ SerialDrain' /\ IdleImpliesEmpty' /\ QueueExact' /\ RunningIsCurrent'
           /\ \A j \in Ids : pc'[j] = pc[j] \/ (pc[j] = "queued" /\ pc'[j] = "dropped")
<1>1. /\ pc' \in [Ids -> Phases] /\ pending' = <<>>
      /\ \A j \in Ids : pc'[j] = IF pc[j] = "queued" THEN "dropped" ELSE pc[j]
  BY DEF IInv, TypeOK, DropAll, Phases, Ended
<1>2. SerialDrain'
  <2>1. "dropped" \notin Working /\ "queued" \notin Working
    BY DEF Working
  <2> QED BY <1>1, <2>1 DEF IInv, SerialDrain
<1>3. IdleImpliesEmpty' /\ RunningIsCurrent'
  BY <1>1 DEF IInv, IdleImpliesEmpty, RunningIsCurrent
<1>4. QueueExact'
  BY <1>1 DEF QueueExact
<1> QED BY <1>1, <1>2, <1>3, <1>4

LEMMA ClearPendingInv == ASSUME IInv, ClearPending PROVE IInv'
<1>1. /\ DropAll
      /\ UNCHANGED <<nextId, keyOf, handlers, current, running, latest, stopSet,
                     total, done, history, exit, asked, swept>>
  BY DEF ClearPending, jobs, counters, ghosts
<1>2. /\ pc' \in [Ids -> Phases] /\ pending' \in Seq(Ids)
      /\ SerialDrain' /\ IdleImpliesEmpty' /\ QueueExact' /\ RunningIsCurrent'
      /\ \A j \in Ids : pc'[j] = pc[j] \/ (pc[j] = "queued" /\ pc'[j] = "dropped")
  BY <1>1, DropAllFacts
<1>3. TypeOK'
  BY <1>1, <1>2 DEF IInv, TypeOK
<1>4. FreshIds' /\ CancelHitsItsTarget' /\ EventsAsked'
  BY <1>1, <1>2 DEF IInv, FreshIds, CancelHitsItsTarget, EventsAsked
<1> QED BY <1>2, <1>3, <1>4 DEF IInv

(* stop_all, by itself or from the shutdown hook. *)
LEMMA StopAllInv ==
    ASSUME IInv, DropAll, StopRunning,
           exit' \in {"up", "joining", "closed", "joinRaised"},
           UNCHANGED <<nextId, keyOf, handlers, current, running, latest, total, done,
                       history, swept>>
    PROVE  IInv'
<1>1. /\ pc' \in [Ids -> Phases] /\ pending' \in Seq(Ids)
      /\ SerialDrain' /\ IdleImpliesEmpty' /\ QueueExact' /\ RunningIsCurrent'
      /\ \A j \in Ids : pc'[j] = pc[j] \/ (pc[j] = "queued" /\ pc'[j] = "dropped")
  BY DropAllFacts
<1>2. /\ stopSet' \subseteq asked' /\ asked \subseteq asked'
      /\ stopSet' \in SUBSET (0..MaxJobs) /\ asked' \in SUBSET (0..MaxJobs)
  BY DEF IInv, TypeOK, RunningIsCurrent, EventsAsked, StopRunning
<1>3. TypeOK'
  BY <1>1, <1>2 DEF IInv, TypeOK
<1>4. FreshIds' /\ CancelHitsItsTarget' /\ EventsAsked'
  BY <1>1, <1>2 DEF IInv, FreshIds, CancelHitsItsTarget, EventsAsked
<1> QED BY <1>1, <1>3, <1>4 DEF IInv

LEMMA JoinInv == ASSUME IInv, Join PROVE IInv'
<1>1. /\ exit' \in {"joinRaised", "closed"}
      /\ UNCHANGED <<nextId, keyOf, pc, handlers, pending, current, running, latest,
                     stopSet, total, done, history, asked, swept>>
  BY DEF Join, jobs, counters, ghosts
<1>2. TypeOK'
  BY <1>1 DEF IInv, TypeOK
<1> QED BY <1>1, <1>2 DEF IInv, SerialDrain, IdleImpliesEmpty, QueueExact,
                          RunningIsCurrent, FreshIds, CancelHitsItsTarget, EventsAsked

LEMMA StepIInv == IInv /\ [Next]_vars => IInv'
<1> SUFFICES ASSUME IInv, [Next]_vars PROVE IInv'
  OBVIOUS
<1>1. ASSUME NEW k \in Keys, Draw(k) PROVE IInv'
  BY <1>1, DrawInv
<1>2. ASSUME NEW j \in Ids, Handler(j) PROVE IInv'
  BY <1>2, EnqueueDuplicateInv, EnqueueBehindInv, EnqueueIdleInv DEF Handler
<1>3. ASSUME NEW j \in Ids, Worker(j) PROVE IInv'
  BY <1>3, StartThreadInv, SweepFrameInv, SweepReturnInv, FinallyInv DEF Worker
<1>4. ASSUME NEW j \in Ids, CancelJob(j) PROVE IInv'
  BY <1>4, CancelJobInv
<1>5. ASSUME NEW i \in 1..Len(pending), CancelPending(i) PROVE IInv'
  BY <1>5, CancelPendingInv
<1>6. CASE ClearPending
  BY <1>6, ClearPendingInv
<1>7. CASE StopAll
  BY <1>7, StopAllInv DEF StopAll, jobs, counters
<1>8. CASE Shutdown
  BY <1>8, StopAllInv DEF Shutdown, jobs, counters
<1>9. CASE Join
  BY <1>9, JoinInv
<1>10. CASE UNCHANGED vars
  BY <1>10 DEF vars, IInv, TypeOK, SerialDrain, IdleImpliesEmpty, QueueExact,
               RunningIsCurrent, FreshIds, CancelHitsItsTarget, EventsAsked
<1> QED BY <1>1, <1>2, <1>3, <1>4, <1>5, <1>6, <1>7, <1>8, <1>9, <1>10
        DEF Next, Operator

-----------------------------------------------------------------------------
(* The strengthening of the invariants holds in every reachable state.      *)
THEOREM Invariance == Spec => []IInv
<1> QED BY InitIInv, StepIInv, PTL DEF Spec

(* Every variable keeps its type, however requests, cancels, sweeps and the *)
(* shutdown hook interleave.                                                *)
THEOREM TypeCorrect == Spec => []TypeOK
<1> QED BY Invariance, PTL DEF IInv

(* Exactly one job has a worker thread whenever running is set, and none    *)
(* otherwise: enqueue and promotion never start two workers.                *)
THEOREM OneWorker == Spec => []SerialDrain
<1> QED BY Invariance, PTL DEF IInv

(* An idle manager has nothing queued: no accepted sweep is stranded.       *)
THEOREM NothingStranded == Spec => []IdleImpliesEmpty
<1> QED BY Invariance, PTL DEF IInv

(* The deque and the jobs' phases agree: no job is queued twice or lost.    *)
THEOREM QueueAgrees == Spec => []QueueExact
<1> QED BY Invariance, PTL DEF IInv

(* A sweep that is archived as canceled was itself cancelled: a cancel is   *)
(* never inherited by the job promoted after it.                            *)
THEOREM NoInheritedCancel == Spec => []CancelHitsItsTarget
<1> QED BY Invariance, PTL DEF IInv

-----------------------------------------------------------------------------
(* The jobs in hand: the one at work and those that wait behind it.         *)
InHand == {x \in Ids : pc[x] \in Working \cup {"queued"}}

(* A promotion takes no job in hand that was not: it starts one that waited. *)
LEMMA PromotePhases ==
    ASSUME NEW STATE q, q \in Seq(Ids), NEW STATE p, p \in [Ids -> Phases],
           \A i \in 1..Len(q) : p[q[i]] = "queued",
           Promote(q, p)
    PROVE  InHand' \subseteq {x \in Ids : p[x] \in Working \cup {"queued"}}
<1>1. CASE q = <<>>
  BY <1>1 DEF Promote, InHand
<1>2. CASE q # <<>>
  <2>1. Head(q) \in Ids /\ 1 \in 1..Len(q) /\ Head(q) = q[1]
    BY <1>2
  <2>2. p[Head(q)] = "queued"
    BY <2>1
  <2>3. \A k \in Ids : pc'[k] = IF k = Head(q) THEN "prepared" ELSE p[k]
    BY <1>2, <2>1 DEF Promote
  <2> QED BY <2>2, <2>3 DEF InHand
<1> QED BY <1>1, <1>2

(* A step that takes no new job in hand makes no duplicate.                 *)
LEMMA NoneTaken ==
    ASSUME NoDuplicateWork, InHand' \subseteq InHand, \A x \in InHand : keyOf'[x] = keyOf[x]
    PROVE  NoDuplicateWork'
BY DEF NoDuplicateWork, InHand

(* A job that has passed the look for duplicates makes none: what that look *)
(* compares with, the running job and the queue, is all that is in hand.    *)
LEMMA TakenIsNew ==
    ASSUME IInv, NoDuplicateWork, NEW j \in Ids, ~IsDuplicate(j),
           InHand' \subseteq InHand \cup {j}, keyOf' = keyOf
    PROVE  NoDuplicateWork'
<1>1. ASSUME NEW x \in InHand PROVE keyOf[x] # keyOf[j]
  <2>1. CASE pc[x] \in Working
    <3>1. running /\ current = x /\ current # 0
      BY <1>1, <2>1, MaxJobsAssumption DEF IInv, SerialDrain, InHand, Ids
    <3> QED BY <3>1 DEF IsDuplicate
  <2>2. CASE pc[x] = "queued"
    <3>1. \E i \in 1..Len(pending) : pending[i] = x
      BY <1>1, <2>2 DEF IInv, QueueExact, InHand
    <3> QED BY <3>1 DEF IsDuplicate
  <2> QED BY <1>1, <2>1, <2>2 DEF InHand
<1> QED BY <1>1 DEF NoDuplicateWork, InHand

LEMMA NoDuplicateStep == IInv /\ NoDuplicateWork /\ [Next]_vars => NoDuplicateWork'
<1> SUFFICES ASSUME IInv, NoDuplicateWork, [Next]_vars PROVE NoDuplicateWork'
  OBVIOUS
<1> USE DEF Working
<1>0. pc \in [Ids -> Phases] /\ pending \in Seq(Ids)
  BY DEF IInv, TypeOK
<1>1. ASSUME NEW k \in Keys, Draw(k) PROVE NoDuplicateWork'
  <2>1. nextId \in Ids /\ pc[nextId] = "none"
        /\ pc' = [pc EXCEPT ![nextId] = "drawn"] /\ keyOf' = [keyOf EXCEPT ![nextId] = k]
    BY <1>1 DEF Draw, IInv, TypeOK, FreshIds, Ids
  <2>2. InHand' \subseteq InHand /\ \A x \in InHand : keyOf'[x] = keyOf[x]
    BY <1>0, <2>1 DEF InHand, IInv, TypeOK
  <2> QED BY <2>2, NoneTaken
<1>2. ASSUME NEW j \in Ids, EnqueueBehind(j) PROVE NoDuplicateWork'
  <2>1. ~IsDuplicate(j) /\ keyOf' = keyOf /\ pc' = [pc EXCEPT ![j] = "queued"]
    BY <1>2 DEF EnqueueBehind
  <2>2. InHand' \subseteq InHand \cup {j}
    BY <1>0, <2>1 DEF InHand
  <2> QED BY <2>1, <2>2, TakenIsNew
<1>3. ASSUME NEW j \in Ids, EnqueueIdle(j) PROVE NoDuplicateWork'
  <2> DEFINE q == Append(pending, j)
             p == [pc EXCEPT ![j] = "queued"]
  <2>1. ~IsDuplicate(j) /\ ~running /\ keyOf' = keyOf /\ Promote(q, p)
    BY <1>3 DEF EnqueueIdle, jobs
  <2>2. q = <<j>>
    BY <2>1 DEF IInv, IdleImpliesEmpty
  <2>3. /\ q \in Seq(Ids) /\ p \in [Ids -> Phases]
        /\ \A i \in 1..Len(q) : p[q[i]] = "queued"
    BY <1>0, <2>2 DEF Phases
  <2>4. {x \in Ids : p[x] \in Working \cup {"queued"}} \subseteq InHand \cup {j}
    BY <1>0 DEF InHand
  <2> HIDE DEF q, p
  <2>5. InHand' \subseteq InHand \cup {j}
    BY <2>1, <2>3, <2>4, PromotePhases
  <2> QED BY <2>1, <2>5, TakenIsNew
<1>4. ASSUME NEW j \in Ids, Finally(j) PROVE NoDuplicateWork'
  <2> DEFINE o == Outcome(j)
             p == [pc EXCEPT ![j] = o]
  <2>1. pc[j] \in {"completed", "stopped", "raised"} /\ Promote(pending, p) /\ keyOf' = keyOf
    BY <1>4 DEF Finally, jobs
  <2>2. o \in Phases /\ o \notin Working \cup {"queued"}
    BY DEF Outcome, Phases, Ended, Outcomes
  <2>3. /\ p \in [Ids -> Phases]
        /\ {x \in Ids : p[x] \in Working \cup {"queued"}} \subseteq InHand
    BY <1>0, <2>2 DEF InHand
  <2>4. \A i \in 1..Len(pending) : p[pending[i]] = "queued"
    <3>1. \A i \in 1..Len(pending) : pending[i] \in Ids /\ pc[pending[i]] = "queued"
      BY <1>0 DEF IInv, QueueExact
    <3> QED BY <1>0, <2>1, <3>1
  <2> HIDE DEF p, o
  <2>5. InHand' \subseteq InHand
    BY <1>0, <2>1, <2>3, <2>4, PromotePhases
  <2> QED BY <2>1, <2>5, NoneTaken
<1>5. ASSUME NEW j \in Ids, NEW ph \in Phases,
             pc' = [pc EXCEPT ![j] = ph], keyOf' = keyOf,
             ph \in Working \cup {"queued"} => pc[j] \in Working
      PROVE  NoDuplicateWork'
  <2>1. InHand' \subseteq InHand
    BY <1>0, <1>5 DEF InHand
  <2> QED BY <1>5, <2>1, NoneTaken
<1>6. ASSUME NEW j \in Ids, EnqueueDuplicate(j) PROVE NoDuplicateWork'
  BY <1>5, <1>6 DEF EnqueueDuplicate, Phases, Ended
<1>7. ASSUME NEW j \in Ids, StartThread(j) PROVE NoDuplicateWork'
  BY <1>5, <1>7 DEF StartThread, Phases
<1>8. ASSUME NEW j \in Ids, NEW how \in {"completed", "stopped", "raised"}, SweepReturn(j, how)
      PROVE  NoDuplicateWork'
  <2>1. /\ how \in Phases /\ pc' = [pc EXCEPT ![j] = how] /\ keyOf' = keyOf
        /\ pc[j] \in Working
    BY <1>8 DEF SweepReturn, jobs, Phases
  <2> QED BY <1>5, <2>1
<1>9. ASSUME NEW i \in 1..Len(pending), CancelPending(i) PROVE NoDuplicateWork'
  <2>1. /\ pending[i] \in Ids /\ pc' = [pc EXCEPT ![pending[i]] = "dropped"] /\ keyOf' = keyOf
    BY <1>0, <1>9 DEF CancelPending, jobs
  <2>2. InHand' \subseteq InHand
    BY <1>0, <2>1 DEF InHand
  <2> QED BY <2>1, <2>2, NoneTaken
<1>10. CASE ClearPending \/ StopAll \/ Shutdown
  <2>1. keyOf' = keyOf /\ pc' = [j \in Ids |-> IF pc[j] = "queued" THEN "dropped" ELSE pc[j]]
    BY <1>10 DEF ClearPending, StopAll, Shutdown, DropAll, jobs
  <2>2. InHand' \subseteq InHand
    BY <1>0, <2>1 DEF InHand
  <2> QED BY <2>1, <2>2, NoneTaken
<1>11. CASE pc' = pc /\ keyOf' = keyOf
  BY <1>11, NoneTaken DEF InHand
<1>12. ASSUME NEW j \in Ids, SweepFrame(j) \/ CancelJob(j) PROVE pc' = pc /\ keyOf' = keyOf
  BY <1>12 DEF SweepFrame, CancelJob, jobs
<1>13. CASE Join \/ UNCHANGED vars
  BY <1>11, <1>13 DEF Join, vars, jobs
<1> QED BY <1>1, <1>2, <1>3, <1>4, <1>6, <1>7, <1>8, <1>9, <1>10, <1>11, <1>12, <1>13
        DEF Next, Operator, Handler, Worker

(* No two jobs in hand, at work or waiting, are one piece of work: a double *)
(* click or a repeated request never sweeps a window twice.                 *)
THEOREM NoDoubleSweep == Spec => []NoDuplicateWork
<1>1. Init => NoDuplicateWork
  BY DEF Init, NoDuplicateWork, Working
<1> QED BY <1>1, Invariance, NoDuplicateStep, PTL DEF Spec

-----------------------------------------------------------------------------
(* What a returned sweep says is so, until its worker's finally archives    *)
(* it: the counters are not the successor's yet, and a stop is not undone.  *)
ReturnsHonest ==
    \A j \in Ids : /\ pc[j] = "completed" => j \in swept /\ done = total
                   /\ pc[j] = "stopped" => Stopping

Returned == {"completed", "stopped"}

LEMMA ReturnsKept ==
    ASSUME ReturnsHonest,
           \A x \in Ids : pc'[x] \in Returned =>
               pc[x] = pc'[x] /\ done' = done /\ total' = total /\ latest' = latest,
           stopSet \subseteq stopSet', swept \subseteq swept'
    PROVE  ReturnsHonest'
<1> SUFFICES ASSUME NEW x \in Ids, pc'[x] \in Returned
             PROVE  /\ pc'[x] = "completed" => x \in swept' /\ done' = total'
                    /\ pc'[x] = "stopped" => Stopping'
  BY DEF ReturnsHonest, Returned
<1>1. pc[x] = pc'[x] /\ done' = done /\ total' = total /\ latest' = latest
  OBVIOUS
<1> QED BY <1>1 DEF ReturnsHonest, Stopping

LEMMA PromoteStarts ==
    ASSUME NEW STATE q, q \in Seq(Ids), NEW STATE p, p \in [Ids -> Phases], Promote(q, p)
    PROVE  \A x \in Ids : pc'[x] = p[x] \/ pc'[x] = "prepared"
<1>1. CASE q = <<>>
  BY <1>1 DEF Promote
<1>2. CASE q # <<>>
  <2>1. pc' = [p EXCEPT ![Head(q)] = "prepared"]
    BY <1>2 DEF Promote
  <2> QED BY <2>1
<1> QED BY <1>1, <1>2

LEMMA ReturnsStep == IInv /\ ReturnsHonest /\ [Next]_vars => ReturnsHonest'
<1> SUFFICES ASSUME IInv, ReturnsHonest, [Next]_vars PROVE ReturnsHonest'
  OBVIOUS
<1>0. /\ pc \in [Ids -> Phases] /\ pending \in Seq(Ids) /\ nextId \in Nat
      /\ \A j, k \in Ids : pc[j] \in Working /\ pc[k] \in Working => j = k
  BY MaxJobsAssumption DEF IInv, TypeOK, SerialDrain
<1>1. Returned \subseteq Working /\ "prepared" \notin Returned /\ "sweeping" \notin Returned
  BY DEF Returned, Working
(* A job moved outside a sweep's return, the counters and Event in place.   *)
<1>2. ASSUME NEW j \in Ids, NEW ph \in Phases \ Returned, pc' = [pc EXCEPT ![j] = ph],
             \/ pc[j] \in Working
             \/ done' = done /\ total' = total,
             latest' = latest, stopSet' = stopSet, swept' = swept
      PROVE  ReturnsHonest'
  <2>1. ASSUME NEW x \in Ids, pc'[x] \in Returned
        PROVE  pc[x] = pc'[x] /\ done' = done /\ total' = total /\ latest' = latest
    <3>1. x # j /\ pc[x] = pc'[x]
      BY <1>0, <1>2, <2>1
    <3>2. pc[j] \notin Working
      BY <1>0, <1>1, <2>1, <3>1
    <3> QED BY <1>2, <3>1, <3>2
  <2> QED BY <1>2, <2>1, ReturnsKept
(* No step of the queue returns a sweep.                                    *)
<1>3. ASSUME \A x \in Ids : pc'[x] = pc[x] \/ pc'[x] \notin Returned,
             done' = done, total' = total, latest' = latest,
             stopSet \subseteq stopSet', swept' = swept
      PROVE  ReturnsHonest'
  BY <1>3, ReturnsKept
(* A promotion leaves nobody returned.                                      *)
<1>4. ASSUME \A x \in Ids : pc'[x] \notin Returned
      PROVE  ReturnsHonest'
  BY <1>4 DEF ReturnsHonest, Returned
<1>5. ASSUME NEW k \in Keys, Draw(k) PROVE ReturnsHonest'
  <2>1. /\ nextId \in Ids /\ pc' = [pc EXCEPT ![nextId] = "drawn"]
        /\ done' = done /\ total' = total /\ latest' = latest
        /\ stopSet' = stopSet /\ swept' = swept
    BY <1>5 DEF Draw, counters, ghosts
  <2>2. \A x \in Ids : pc'[x] = pc[x] \/ pc'[x] \notin Returned
    BY <1>0, <2>1 DEF Returned
  <2> QED BY <1>3, <2>1, <2>2
<1>6. ASSUME NEW j \in Ids, EnqueueDuplicate(j) \/ EnqueueBehind(j) PROVE ReturnsHonest'
  <2>1. /\ \E ph \in {"deduped", "queued"} : pc' = [pc EXCEPT ![j] = ph]
        /\ done' = done /\ total' = total /\ latest' = latest
        /\ stopSet' = stopSet /\ swept' = swept
    BY <1>6 DEF EnqueueDuplicate, EnqueueBehind, counters, ghosts
  <2>2. \A x \in Ids : pc'[x] = pc[x] \/ pc'[x] \notin Returned
    BY <1>0, <2>1 DEF Returned
  <2> QED BY <1>3, <2>1, <2>2
<1>7. ASSUME NEW j \in Ids, EnqueueIdle(j) PROVE ReturnsHonest'
  <2> DEFINE q == Append(pending, j)
             p == [pc EXCEPT ![j] = "queued"]
  <2>1. ~running /\ Promote(q, p)
    BY <1>7 DEF EnqueueIdle
  <2>2. q \in Seq(Ids) /\ p \in [Ids -> Phases]
    BY <1>0 DEF Phases
  <2>3. \A x \in Ids : p[x] \notin Returned
    BY <1>0, <1>1, <2>1 DEF IInv, SerialDrain, Returned
  <2> HIDE DEF q, p
  <2>4. \A x \in Ids : pc'[x] = p[x] \/ pc'[x] = "prepared"
    BY <2>1, <2>2, PromoteStarts
  <2> QED BY <1>1, <1>4, <2>3, <2>4
<1>8. ASSUME NEW j \in Ids, Finally(j) PROVE ReturnsHonest'
  <2> DEFINE o == Outcome(j)
             p == [pc EXCEPT ![j] = o]
  <2>1. pc[j] \in Working /\ Promote(pending, p)
    BY <1>8 DEF Finally, Working
  <2>2. o \in Phases \ Returned
    BY DEF Outcome, Phases, Ended, Outcomes, Returned
  <2>3. p \in [Ids -> Phases] /\ \A x \in Ids : p[x] \notin Returned
    <3>1. p \in [Ids -> Phases] /\ \A x \in Ids : p[x] = IF x = j THEN o ELSE pc[x]
      BY <1>0, <2>2
    <3>2. \A x \in Ids : x # j => pc[x] \notin Returned
      BY <1>0, <1>1, <2>1
    <3> QED BY <2>2, <3>1, <3>2
  <2> HIDE DEF p, o
  <2>4. \A x \in Ids : pc'[x] = p[x] \/ pc'[x] = "prepared"
    BY <1>0, <2>1, <2>3, PromoteStarts
  <2> QED BY <1>1, <1>4, <2>3, <2>4
<1>9. ASSUME NEW j \in Ids, StartThread(j) PROVE ReturnsHonest'
  <2>1. /\ pc[j] \in Working /\ pc' = [pc EXCEPT ![j] = "sweeping"]
        /\ latest' = latest /\ stopSet' = stopSet /\ swept' = swept
        /\ "sweeping" \in Phases \ Returned
    BY <1>9 DEF StartThread, ghosts, Working, Phases, Returned
  <2> QED BY <1>2, <2>1
<1>10. ASSUME NEW j \in Ids, SweepFrame(j) PROVE ReturnsHonest'
  <2>1. pc[j] = "sweeping" /\ pc' = pc
    BY <1>10 DEF SweepFrame
  <2>2. \A x \in Ids : pc'[x] \notin Returned
    BY <1>0, <1>1, <2>1 DEF Working
  <2> QED BY <1>4, <2>2
<1>11. ASSUME NEW j \in Ids, NEW how \in {"completed", "stopped", "raised"}, SweepReturn(j, how)
       PROVE  ReturnsHonest'
  <2>1. /\ pc[j] = "sweeping" /\ pc' = [pc EXCEPT ![j] = how]
        /\ done' = done /\ total' = total /\ latest' = latest /\ stopSet' = stopSet
        /\ swept' = IF how = "completed" THEN swept \cup {j} ELSE swept
        /\ how = "completed" => done = total
        /\ how = "stopped" => Stopping
    BY <1>11 DEF SweepReturn, counters
  <2>2. \A x \in Ids : pc'[x] = IF x = j THEN how ELSE pc[x]
    BY <1>0, <2>1
  <2>3. \A x \in Ids : x # j => pc'[x] \notin Returned
    BY <1>0, <1>1, <2>1, <2>2 DEF Working
  <2> QED BY <2>1, <2>2, <2>3 DEF ReturnsHonest, Returned, Stopping
<1>12. ASSUME NEW j \in Ids, CancelJob(j) PROVE ReturnsHonest'
  BY <1>3, <1>12 DEF CancelJob, StopRunning, counters
<1>13. ASSUME NEW i \in 1..Len(pending), CancelPending(i) PROVE ReturnsHonest'
  <2>1. /\ pc' = [pc EXCEPT ![pending[i]] = "dropped"]
        /\ done' = done /\ total' = total /\ latest' = latest
        /\ stopSet' = stopSet /\ swept' = swept
    BY <1>13 DEF CancelPending, counters, ghosts
  <2>2. \A x \in Ids : pc'[x] = pc[x] \/ pc'[x] \notin Returned
    BY <1>0, <2>1 DEF Returned
  <2> QED BY <1>3, <2>1, <2>2
<1>14. CASE ClearPending \/ StopAll \/ Shutdown
  <2>1. /\ pc' = [j \in Ids |-> IF pc[j] = "queued" THEN "dropped" ELSE pc[j]]
        /\ done' = done /\ total' = total /\ latest' = latest
        /\ stopSet \subseteq stopSet' /\ swept' = swept
    BY <1>14 DEF ClearPending, StopAll, Shutdown, DropAll, StopRunning, counters, ghosts
  <2>2. \A x \in Ids : pc'[x] = pc[x] \/ pc'[x] \notin Returned
    BY <2>1 DEF Returned
  <2> QED BY <1>3, <2>1, <2>2
<1>15. CASE Join \/ UNCHANGED vars
  BY <1>3, <1>15 DEF Join, vars, counters, ghosts
<1> QED BY <1>5, <1>6, <1>7, <1>8, <1>9, <1>10, <1>11, <1>12, <1>13, <1>14, <1>15
        DEF Next, Operator, Handler, Worker

(* A job is archived as done by its own finally, and what is archived is    *)
(* its own count: all of its frames.                                        *)
ArchivedOwn ==
    \A j \in Ids : pc[j] \in Working /\ pc'[j] = "done"
        => /\ j \in swept
           /\ history'[1] = [id |-> j, state |-> "done", done |-> total]

LEMMA ArchiveStep ==
    ASSUME IInv, ReturnsHonest, NEW j \in Ids, Finally(j), Outcome(j) = "done"
    PROVE  /\ j \in swept
           /\ history'[1] = [id |-> j, state |-> "done", done |-> total]
<1> DEFINE e == [id |-> j, state |-> "done", done |-> done]
           n == IF Len(history) < HistoryLimit THEN Len(history) + 1 ELSE HistoryLimit
           S == [id : Ids, state : Outcomes, done : 0..MaxFrames]
<1>1. pc[j] = "completed"
  BY DEF Finally, Outcome, ReturnsHonest
<1>2. j \in swept /\ done = total
  BY <1>1 DEF ReturnsHonest
<1>3. history' = SubSeq(<<e>> \o history, 1, n)
  BY DEF Finally
<1>4. history \in Seq(S) /\ e \in S /\ Len(history) \in Nat /\ n \in Nat /\ 1 <= n
      /\ n <= Len(history) + 1
  BY HistoryLimitAssumption DEF IInv, TypeOK, Outcomes
<1> HIDE DEF e, n, S
<1>5. <<e>> \in Seq(S) /\ Len(<<e>>) = 1 /\ <<e>>[1] = e
  BY <1>4
<1>6. /\ <<e>> \o history \in Seq(S) /\ Len(<<e>> \o history) = Len(history) + 1
      /\ (<<e>> \o history)[1] = e
  <2>1. /\ <<e>> \o history \in Seq(S) /\ Len(<<e>> \o history) = Len(<<e>>) + Len(history)
        /\ \A k \in 1..Len(<<e>>) + Len(history) :
              (<<e>> \o history)[k] = IF k <= Len(<<e>>) THEN <<e>>[k] ELSE history[k - Len(<<e>>)]
    BY <1>4, <1>5, ConcatProperties
  <2>2. 1 \in 1..Len(<<e>>) + Len(history)
    BY <1>4, <1>5
  <2> QED BY <1>4, <1>5, <2>1, <2>2
<1>7. history'[1] = e
  BY <1>3, <1>4, <1>6
<1> QED BY <1>2, <1>7 DEF e

LEMMA ArchivedOwnStep ==
    ASSUME IInv, ReturnsHonest, [Next]_vars
    PROVE  ArchivedOwn
<1> SUFFICES ASSUME NEW j \in Ids, pc[j] \in Working, pc'[j] = "done"
             PROVE  /\ j \in swept
                    /\ history'[1] = [id |-> j, state |-> "done", done |-> total]
  BY DEF ArchivedOwn
<1>0. pc \in [Ids -> Phases] /\ pending \in Seq(Ids) /\ "done" \notin Working
      /\ \A k \in Ids : pc[k] \in Working => k = j
  BY DEF IInv, TypeOK, SerialDrain, Working
<1>1. ASSUME NEW k \in Ids, Finally(k)
      PROVE  /\ j \in swept
             /\ history'[1] = [id |-> j, state |-> "done", done |-> total]
  <2>1. k = j
    BY <1>0, <1>1 DEF Finally, Working
  <2> DEFINE o == Outcome(j)
             p == [pc EXCEPT ![j] = o]
  <2>2. Promote(pending, p)
    BY <1>1, <2>1 DEF Finally
  <2>3. p \in [Ids -> Phases] /\ p[j] = o
    BY <1>0 DEF Outcome, Phases, Ended, Outcomes
  <2> HIDE DEF p, o
  <2>4. pc'[j] = o
    BY <1>0, <2>2, <2>3, PromoteStarts
  <2>5. Outcome(j) = "done"
    BY <2>4 DEF o
  <2> QED BY <1>1, <2>1, <2>5, ArchiveStep
<1>2. CASE pc'[j] = pc[j]
  BY <1>0, <1>2
<1>3. ASSUME NEW k \in Ids, NEW ph, ph # "done", pc' = [pc EXCEPT ![k] = ph] PROVE FALSE
  BY <1>0, <1>3
<1>4. ASSUME NEW k \in Keys, Draw(k) PROVE FALSE
  BY <1>0, <1>4 DEF Draw
<1>5. ASSUME NEW k \in Ids, EnqueueDuplicate(k) \/ EnqueueBehind(k) PROVE FALSE
  BY <1>0, <1>5 DEF EnqueueDuplicate, EnqueueBehind
<1>6. ASSUME NEW k \in Ids, EnqueueIdle(k) PROVE FALSE
  BY <1>0, <1>6 DEF EnqueueIdle, IInv, SerialDrain
<1>7. ASSUME NEW k \in Ids, StartThread(k) PROVE FALSE
  BY <1>3, <1>7 DEF StartThread
<1>8. ASSUME NEW k \in Ids, NEW how \in {"completed", "stopped", "raised"}, SweepReturn(k, how)
      PROVE  FALSE
  BY <1>3, <1>8 DEF SweepReturn
<1>9. ASSUME NEW k \in Ids, SweepFrame(k) \/ CancelJob(k) PROVE FALSE
  BY <1>0, <1>9 DEF SweepFrame, CancelJob
<1>10. ASSUME NEW i \in 1..Len(pending), CancelPending(i) PROVE FALSE
  BY <1>0, <1>10 DEF CancelPending
<1>11. CASE ClearPending \/ StopAll \/ Shutdown
  <2>1. pc'[j] = IF pc[j] = "queued" THEN "dropped" ELSE pc[j]
    BY <1>11 DEF ClearPending, StopAll, Shutdown, DropAll
  <2> QED BY <1>0, <2>1
<1>12. CASE Join \/ UNCHANGED vars
  BY <1>0, <1>12 DEF Join, vars
<1> QED BY <1>1, <1>4, <1>5, <1>6, <1>7, <1>8, <1>9, <1>10, <1>11, <1>12
        DEF Next, Operator, Handler, Worker

(* A sweep is archived as done with its own counters, after every one of    *)
(* its frames, never with its successor's or after a stop.                  *)
THEOREM ArchivesItsOwn == Spec => ArchivedCounters
<1>1. Init => ReturnsHonest
  BY DEF Init, ReturnsHonest
<1>2. Spec => []ReturnsHonest
  BY <1>1, Invariance, ReturnsStep, PTL DEF Spec
<1>3. IInv /\ ReturnsHonest /\ [Next]_vars => [ArchivedOwn]_vars
  BY ArchivedOwnStep
<1>4. Spec => [][ArchivedOwn]_vars
  BY <1>2, <1>3, Invariance, PTL DEF Spec
<1> QED BY <1>4 DEF ArchivedCounters, ArchivedOwn

-----------------------------------------------------------------------------
(* The refinement: the jobs over, and the steps of SerialQueue.             *)
Over    == {j \in Ids : pc[j] \in Outcomes \cup {"dropped"}}
Waiting == {pending[i] : i \in 1..Len(pending)}

LEMMA WaitingIsQueued == ASSUME IInv PROVE Waiting = {j \in Ids : pc[j] = "queued"}
<1>1. \A i \in 1..Len(pending) : pending[i] \in Ids
  BY DEF IInv, TypeOK
<1> QED BY <1>1 DEF IInv, QueueExact, Waiting

(* Steps that neither submit, finish nor drop a job are stuttering steps.   *)
LEMMA StutterStep ==
    ASSUME IInv, NEW j \in Ids, NEW ph \in Phases,
           pc' = [pc EXCEPT ![j] = ph], current' = current, pending' = pending,
           {pc[j], ph} \cap (Outcomes \cup {"dropped"}) = {}
    PROVE  UNCHANGED Queue!vars
<1>1. \A k \in Ids : pc'[k] = IF k = j THEN ph ELSE pc[k]
  BY DEF IInv, TypeOK
<1>2. Over' = Over
  BY <1>1 DEF Over
<1> QED BY <1>2 DEF Queue!vars, Over

(* A promotion takes the head of the queue it is given and ends no job.     *)
LEMMA PromoteRefines ==
    ASSUME NEW STATE q, q \in Seq(Ids), NEW STATE p, p \in [Ids -> Phases],
           \A i \in 1..Len(q) : p[q[i]] = "queued",
           Promote(q, p)
    PROVE  /\ Over' = {k \in Ids : p[k] \in Outcomes \cup {"dropped"}}
           /\ q = <<>> => current' = 0 /\ pending' = q
           /\ q # <<>> => current' = Head(q) /\ pending' = Tail(q)
<1>1. CASE q = <<>>
  BY <1>1 DEF Promote, Over
<1>2. CASE q # <<>>
  <2>1. Head(q) \in Ids /\ 1 \in 1..Len(q) /\ Head(q) = q[1]
    BY <1>2
  <2>2. p[Head(q)] = "queued"
    BY <2>1
  <2>3. /\ current' = Head(q) /\ pending' = Tail(q)
        /\ \A k \in Ids : pc'[k] = IF k = Head(q) THEN "prepared" ELSE p[k]
    BY <1>2, <2>1 DEF Promote
  <2>4. "prepared" \notin Outcomes \cup {"dropped"} /\ "queued" \notin Outcomes \cup {"dropped"}
    BY DEF Outcomes
  <2>5. Over' = {k \in Ids : p[k] \in Outcomes \cup {"dropped"}}
    BY <2>2, <2>3, <2>4 DEF Over
  <2> QED BY <1>2, <2>3, <2>5
<1> QED BY <1>1, <1>2

LEMMA SubmitRefines ==
    ASSUME IInv, NEW j \in Ids, EnqueueBehind(j) \/ EnqueueIdle(j)
    PROVE  Queue!Submit(j)
<1>0. /\ pc[j] = "drawn" /\ j \notin Waiting \cup Over
      /\ "drawn" \notin Working
  BY WaitingIsQueued DEF EnqueueBehind, EnqueueIdle, Over, Outcomes, Working
<1>1. CASE EnqueueBehind(j)
  <2>1. /\ running /\ current # 0 /\ current' = current /\ j # current
        /\ pending' = Append(pending, j)
    BY <1>0, <1>1, MaxJobsAssumption DEF EnqueueBehind, IInv, RunningIsCurrent, SerialDrain, Ids
  <2>2. \A k \in Ids : pc'[k] = IF k = j THEN "queued" ELSE pc[k]
    BY <1>1 DEF EnqueueBehind, IInv, TypeOK
  <2>3. Over' = Over
    BY <1>0, <2>2 DEF Over, Outcomes
  <2> QED BY <1>0, <2>1, <2>3 DEF Queue!Submit, Queue!Queued, Waiting, Over
<1>2. CASE EnqueueIdle(j)
  <2> DEFINE q == Append(pending, j)
             p == [pc EXCEPT ![j] = "queued"]
  <2>1. Promote(q, p) /\ ~running /\ current = 0
    BY <1>2 DEF EnqueueIdle, IInv, RunningIsCurrent
  <2>2. pending = <<>> /\ q = <<j>>
    BY <2>1 DEF IInv, IdleImpliesEmpty
  <2>3. /\ q \in Seq(Ids) /\ Len(q) = 1 /\ q[1] = j /\ q # <<>> /\ Head(q) = j /\ Tail(q) = <<>>
        /\ p \in [Ids -> Phases] /\ \A k \in Ids : p[k] = IF k = j THEN "queued" ELSE pc[k]
    BY <2>2 DEF IInv, TypeOK, Phases
  <2>4. \A i \in 1..Len(q) : p[q[i]] = "queued"
    BY <2>3
  <2> HIDE DEF q, p
  <2>5. Over' = {k \in Ids : p[k] \in Outcomes \cup {"dropped"}} /\ current' = j /\ pending' = <<>>
    BY <2>1, <2>3, <2>4, PromoteRefines
  <2>6. Over' = Over
    BY <1>0, <2>3, <2>5 DEF Over, Outcomes
  <2>7. j # 0
    BY MaxJobsAssumption DEF Ids
  <2> QED BY <1>0, <2>1, <2>2, <2>5, <2>6, <2>7 DEF Queue!Submit, Queue!Queued, Waiting, Over
<1> QED BY <1>1, <1>2

LEMMA FinishRefines == ASSUME IInv, NEW j \in Ids, Finally(j) PROVE Queue!Finish
<1> DEFINE o == Outcome(j)
           p == [pc EXCEPT ![j] = o]
<1>1. pc[j] \in {"completed", "stopped", "raised"} /\ Promote(pending, p)
  BY DEF Finally
<1>2. current = j /\ j # 0
  BY <1>1, MaxJobsAssumption DEF IInv, SerialDrain, Working, Ids
<1>3. o \in Outcomes /\ o \in Phases
  BY DEF Outcome, Outcomes, Phases, Ended
<1>4. p \in [Ids -> Phases] /\ \A k \in Ids : p[k] = IF k = j THEN o ELSE pc[k]
  BY <1>3 DEF IInv, TypeOK
<1>5. pending \in Seq(Ids) /\ pc[j] # "queued" /\ pc[j] \notin Outcomes \cup {"dropped"}
  BY <1>1 DEF IInv, TypeOK, Outcomes
<1>6. \A i \in 1..Len(pending) : p[pending[i]] = "queued"
  BY <1>4, <1>5 DEF IInv, QueueExact
<1>7. {k \in Ids : p[k] \in Outcomes \cup {"dropped"}} = Over \cup {j}
  BY <1>3, <1>4, <1>5 DEF Over
<1> HIDE DEF p, o
<1>8. /\ Over' = Over \cup {j}
      /\ pending = <<>> => current' = 0 /\ pending' = pending
      /\ pending # <<>> => current' = Head(pending) /\ pending' = Tail(pending)
  BY <1>1, <1>4, <1>5, <1>6, <1>7, PromoteRefines
<1> QED BY <1>2, <1>8 DEF Queue!Finish, Over

LEMMA DropRefines ==
    ASSUME IInv, NEW i \in 1..Len(pending), CancelPending(i)
    PROVE  Queue!Drop(i)
<1>1. pending[i] \in Ids /\ pc[pending[i]] = "queued"
  BY DEF IInv, TypeOK, QueueExact
<1>2. \A k \in Ids : pc'[k] = IF k = pending[i] THEN "dropped" ELSE pc[k]
  BY <1>1 DEF CancelPending, IInv, TypeOK
<1>3. Over' = Over \cup {pending[i]}
  BY <1>1, <1>2 DEF Over, Outcomes
<1> QED BY <1>3 DEF CancelPending, RemoveAt, Queue!RemoveAt, Queue!Drop, Over

LEMMA DropAllRefines ==
    ASSUME IInv, DropAll, current' = current
    PROVE  Queue!DropAll
<1>1. \A k \in Ids : pc'[k] = IF pc[k] = "queued" THEN "dropped" ELSE pc[k]
  BY DEF DropAll
<1>2. Over' = Over \cup {j \in Ids : pc[j] = "queued"}
  BY <1>1 DEF Over, Outcomes
<1>3. Over' = Over \cup Waiting
  BY <1>2, WaitingIsQueued
<1> QED BY <1>3 DEF DropAll, Queue!DropAll, Queue!Queued, Over, Waiting

LEMMA StepRefines == IInv /\ [Next]_vars => [Queue!Next]_(Queue!vars)
<1> SUFFICES ASSUME IInv, [Next]_vars PROVE [Queue!Next]_(Queue!vars)
  OBVIOUS
<1>1. ASSUME NEW k \in Keys, Draw(k) PROVE UNCHANGED Queue!vars
  <2>1. nextId \in Ids /\ pc[nextId] = "none" /\ current' = current /\ pending' = pending
        /\ pc' = [pc EXCEPT ![nextId] = "drawn"]
    BY <1>1 DEF Draw, IInv, TypeOK, FreshIds, Ids
  <2>2. "drawn" \in Phases /\ {"none", "drawn"} \cap (Outcomes \cup {"dropped"}) = {}
    BY DEF Phases, Outcomes
  <2> QED BY <2>1, <2>2, StutterStep
<1>2. ASSUME NEW j \in Ids, EnqueueDuplicate(j) PROVE UNCHANGED Queue!vars
  <2>1. "deduped" \in Phases /\ {"deduped", "drawn"} \cap (Outcomes \cup {"dropped"}) = {}
    BY DEF Phases, Outcomes, Ended
  <2> QED BY <1>2, <2>1, StutterStep DEF EnqueueDuplicate
<1>3. ASSUME NEW j \in Ids, EnqueueBehind(j) \/ EnqueueIdle(j) PROVE Queue!Next
  BY <1>3, SubmitRefines DEF Queue!Next
<1>4. ASSUME NEW j \in Ids, StartThread(j) PROVE UNCHANGED Queue!vars
  <2>1. "sweeping" \in Phases /\ {"sweeping", "prepared"} \cap (Outcomes \cup {"dropped"}) = {}
    BY DEF Phases, Working, Outcomes
  <2> QED BY <1>4, <2>1, StutterStep DEF StartThread
<1>5. ASSUME NEW j \in Ids, SweepFrame(j) PROVE UNCHANGED Queue!vars
  BY <1>5 DEF SweepFrame, Queue!vars
<1>6. ASSUME NEW j \in Ids, NEW how \in {"completed", "stopped", "raised"}, SweepReturn(j, how)
      PROVE  UNCHANGED Queue!vars
  <2>1. how \in Phases /\ {"sweeping", how} \cap (Outcomes \cup {"dropped"}) = {}
    BY DEF Phases, Working, Outcomes
  <2> QED BY <1>6, <2>1, StutterStep DEF SweepReturn
<1>7. ASSUME NEW j \in Ids, Finally(j) PROVE Queue!Next
  BY <1>7, FinishRefines DEF Queue!Next
<1>8. ASSUME NEW j \in Ids, CancelJob(j) PROVE UNCHANGED Queue!vars
  BY <1>8 DEF CancelJob, Queue!vars
<1>9. ASSUME NEW i \in 1..Len(pending), CancelPending(i) PROVE Queue!Next
  BY <1>9, DropRefines DEF Queue!Next
<1>10. ASSUME ClearPending \/ StopAll \/ Shutdown PROVE Queue!Next
  BY <1>10, DropAllRefines DEF ClearPending, StopAll, Shutdown, Queue!Next
<1>11. CASE Join \/ UNCHANGED vars
  BY <1>11 DEF Join, vars, Queue!vars
<1> QED BY <1>1, <1>2, <1>3, <1>4, <1>5, <1>6, <1>7, <1>8, <1>9, <1>10, <1>11
        DEF Next, Operator, Handler, Worker

(* The manager's steps are steps of a serial queue or stutter: whatever the *)
(* interleaving, callers see jobs wait their turn, run one at a time in the *)
(* order they were handed in, and end.                                      *)
THEOREM RefinesSerialQueue == Spec => Queue!Safety
<1>1. Init => Queue!Init
  BY DEF Init, Queue!Init, Outcomes
<1> QED BY <1>1, Invariance, StepRefines, PTL DEF Spec, Queue!Safety
=============================================================================
