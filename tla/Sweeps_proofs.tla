---------------------------- MODULE Sweeps_proofs ----------------------------
(***************************************************************************)
(* What is proved of the two ways frames are analysed: by one sweep over a *)
(* scope (RunAnalysis) and by the worker that follows the newest frames    *)
(* (TailSweep).                                                            *)
(*                                                                         *)
(* The windowed path of a sweep feeds the analyzer in strict time order    *)
(* and, when it returns, has stored exactly what it counted: for every     *)
(* number of frames and every lookahead, pool and write batch.  Then, for  *)
(* both paths, the promise of Sweep.tla.                                   *)
(***************************************************************************)
EXTENDS RunAnalysis, TailSweep, Sequences, WellFoundedInduction, FiniteSetTheorems, TLAPS

Elems(s) == {s[i] : i \in DOMAIN s}
Counted == written \cup Elems(pending)

Types ==
    /\ cursor \in 1..(N + 1)
    /\ current \in 0..N /\ (pc = "awaiting" => current \in 1..N)
    /\ inflight \in Seq(1..N)
    /\ pending \in Seq(1..N)
    /\ seen \in Seq(1..N)
    /\ written \subseteq 1..N

(* The deque continues the frame popped last, without a gap, to the cursor. *)
Contiguous ==
    /\ current = cursor - Len(inflight) - 1
    /\ \A i \in 1..Len(inflight) : inflight[i] = current + i

(* What was analysed or counted is no later than the frame popped last, and *)
(* not that frame while its verdict is awaited.                             *)
Behind ==
    \A f \in Elems(seen) \cup Counted : f <= current /\ (pc = "awaiting" => f < current)

Ledger == recorded = Cardinality(Counted)

(* Nothing is pending after the last flush, and the end is the end. *)
Flushed ==
    /\ pc = "returning" \/ result = "returned" => pending = <<>>
    /\ result # "none" => pc = "ended"

InOrder == \A i, j \in DOMAIN seen : i < j => seen[i] < seen[j]

WInv == Types /\ Contiguous /\ Behind /\ Ledger /\ Flushed /\ InOrder

RunInv ==
    /\ windowed \in BOOLEAN
    /\ windowed => WInv
    /\ ~windowed => seen = <<>>

LEMMA ElemsOfAppend ==
    ASSUME NEW S, NEW s \in Seq(S), NEW x \in S
    PROVE  Elems(Append(s, x)) = Elems(s) \cup {x}
<1>1. /\ DOMAIN Append(s, x) = 1..(Len(s) + 1)
      /\ \A i \in 1..(Len(s) + 1) : Append(s, x)[i] = IF i <= Len(s) THEN s[i] ELSE x
      /\ DOMAIN s = 1..Len(s) /\ Len(s) \in Nat
  OBVIOUS
<1>2. ASSUME NEW y \in Elems(Append(s, x)) PROVE y \in Elems(s) \cup {x}
  BY <1>1, <1>2 DEF Elems
<1>3. ASSUME NEW y \in Elems(s) PROVE y \in Elems(Append(s, x))
  <2>1. PICK i \in 1..Len(s) : y = s[i]
    BY <1>1, <1>3 DEF Elems
  <2>2. i \in DOMAIN Append(s, x) /\ Append(s, x)[i] = y
    BY <1>1, <2>1
  <2> QED BY <2>2 DEF Elems
<1>4. x \in Elems(Append(s, x))
  <2>1. (Len(s) + 1) \in DOMAIN Append(s, x) /\ Append(s, x)[Len(s) + 1] = x
    BY <1>1
  <2> QED BY <2>1 DEF Elems
<1> QED BY <1>2, <1>3, <1>4

LEMMA ElemsOfSeq == ASSUME NEW S, NEW s \in Seq(S) PROVE Elems(s) \subseteq S
<1>1. ASSUME NEW i \in DOMAIN s PROVE s[i] \in S
  OBVIOUS
<1> QED BY <1>1 DEF Elems

LEMMA ElemsOfEmpty == Elems(<<>>) = {}
BY DEF Elems

LEMMA CountedFrames == Types => Elems(seen) \subseteq 1..N /\ Counted \subseteq 1..N
<1> SUFFICES ASSUME Types PROVE Elems(seen) \subseteq 1..N /\ Counted \subseteq 1..N
  OBVIOUS
<1>1. Elems(seen) \subseteq 1..N /\ Elems(pending) \subseteq 1..N
  BY ElemsOfSeq DEF Types
<1> QED BY <1>1 DEF Types, Counted

(* What the pool is topped up with keeps the deque without a gap, the frame *)
(* popped last being p and the deque left after it q.                       *)
LEMMA SubmitFacts ==
    ASSUME NEW STATE q, q \in Seq(1..N), NEW STATE p, p \in 0..N, cursor \in 1..(N + 1),
           p = cursor - Len(q) - 1, \A i \in 1..Len(q) : q[i] = p + i, W!Submit(q)
    PROVE  /\ cursor' \in 1..(N + 1) /\ inflight' \in Seq(1..N)
           /\ p = cursor' - Len(inflight') - 1
           /\ \A i \in 1..Len(inflight') : inflight'[i] = p + i
<1> N \in Nat BY ScopeAssumption
<1>1. CASE cursor <= N
  <2>1. inflight' = Append(q, cursor) /\ cursor' = cursor + 1
    BY <1>1 DEF W!Submit
  <2>2. inflight' \in Seq(1..N) /\ cursor' \in 1..(N + 1) /\ Len(inflight') = Len(q) + 1
    BY <2>1, <1>1
  <2>3. \A i \in 1..Len(inflight') : inflight'[i] = IF i <= Len(q) THEN q[i] ELSE cursor
    BY <2>1, <2>2
  <2>4. \A i \in 1..Len(inflight') : inflight'[i] = p + i
    <3>1. Len(q) \in Nat /\ cursor = p + Len(q) + 1
      OBVIOUS
    <3> TAKE i \in 1..Len(inflight')
    <3>2. CASE i <= Len(q)
      BY <2>2, <2>3, <3>1, <3>2
    <3>3. CASE ~(i <= Len(q))
      <4>1. i = Len(q) + 1
        BY <2>2, <3>1, <3>3
      <4>2. inflight'[i] = cursor
        BY <2>3, <3>3
      <4> QED BY <3>1, <4>1, <4>2
    <3> QED BY <3>2, <3>3
  <2> QED BY <2>1, <2>2, <2>4
<1>2. CASE ~(cursor <= N)
  BY <1>2 DEF W!Submit
<1> QED BY <1>1, <1>2

LEMMA FillInv == ASSUME WInv, W!Fill PROVE WInv'
<1> N \in Nat BY ScopeAssumption
<1>1. UNCHANGED <<current, pending, seen, written, recorded, result>> /\ pc = "filling"
  BY DEF W!Fill
<1>2. pc' \in {"filling", "looping"}
  BY DEF W!Fill
<1>3. /\ cursor' \in 1..(N + 1) /\ inflight' \in Seq(1..N)
      /\ current = cursor' - Len(inflight') - 1
      /\ \A i \in 1..Len(inflight') : inflight'[i] = current + i
  <2>1. CASE Len(inflight) < Lookahead /\ cursor <= N
    <3>1. W!Submit(inflight)
      BY <2>1 DEF W!Fill
    <3> QED BY <3>1, SubmitFacts DEF WInv, Types, Contiguous
  <2>2. CASE ~(Len(inflight) < Lookahead /\ cursor <= N)
    BY <2>2 DEF W!Fill, WInv, Types, Contiguous
  <2> QED BY <2>1, <2>2
<1>4. Types' /\ Contiguous'
  BY <1>1, <1>2, <1>3 DEF WInv, Types, Contiguous
<1>5. Behind' /\ Ledger' /\ InOrder'
  BY <1>1, <1>2 DEF WInv, Behind, Ledger, InOrder, Counted
<1>6. Flushed'
  BY <1>1, <1>2 DEF WInv, Flushed
<1> QED BY <1>4, <1>5, <1>6 DEF WInv

LEMMA TurnInv == ASSUME WInv, W!Turn PROVE WInv'
<1> N \in Nat BY ScopeAssumption
<1>1. UNCHANGED <<pending, seen, written, recorded, result>> /\ pc = "looping"
  BY DEF W!Turn
<1>2. Flushed' /\ Ledger' /\ InOrder'
  BY <1>1 DEF WInv, Flushed, Ledger, InOrder, Counted, W!Turn
<1>3. CASE inflight = <<>> \/ stop
  <2>1. pc' = "flushing" /\ UNCHANGED <<cursor, inflight, current>>
    BY <1>3 DEF W!Turn
  <2>2. Types' /\ Contiguous' /\ Behind'
    BY <1>1, <2>1 DEF WInv, Types, Contiguous, Behind, Counted
  <2> QED BY <1>2, <2>2 DEF WInv
<1>4. CASE ~(inflight = <<>> \/ stop)
  <2>1. current' = Head(inflight) /\ pc' = "awaiting" /\ W!Submit(Tail(inflight))
    BY <1>4 DEF W!Turn
  <2>2. inflight \in Seq(1..N) /\ inflight # <<>> /\ cursor \in 1..(N + 1) /\ current \in 0..N
    BY <1>4 DEF WInv, Types
  <2>3. /\ Len(inflight) \in Nat \ {0} /\ Tail(inflight) \in Seq(1..N)
        /\ Len(Tail(inflight)) = Len(inflight) - 1
        /\ \A i \in 1..Len(Tail(inflight)) : Tail(inflight)[i] = inflight[i + 1]
        /\ Head(inflight) = inflight[1]
    BY <2>2
  <2>4. current = cursor - Len(inflight) - 1 /\ \A i \in 1..Len(inflight) : inflight[i] = current + i
    BY DEF WInv, Contiguous
  <2>5. current' = current + 1 /\ current' \in 1..N
    BY <2>1, <2>2, <2>3, <2>4
  <2>6. /\ current + 1 = cursor - Len(Tail(inflight)) - 1
        /\ \A i \in 1..Len(Tail(inflight)) : Tail(inflight)[i] = (current + 1) + i
    BY <2>2, <2>3, <2>4
  <2>7. current + 1 \in 0..N
    BY <2>5
  <2>8. /\ cursor' \in 1..(N + 1) /\ inflight' \in Seq(1..N)
        /\ current + 1 = cursor' - Len(inflight') - 1
        /\ \A i \in 1..Len(inflight') : inflight'[i] = (current + 1) + i
    BY <2>1, <2>2, <2>3, <2>6, <2>7, SubmitFacts
  <2>9. Types' /\ Contiguous'
    BY <1>1, <2>5, <2>8 DEF WInv, Types, Contiguous
  <2>10. Elems(seen) \cup Counted \subseteq 1..N
    BY CountedFrames DEF WInv
  <2>11. Behind'
    <3>1. \A f \in Elems(seen) \cup Counted : f <= current
      BY DEF WInv, Behind
    <3>2. \A f \in Elems(seen) \cup Counted : f < current'
      BY <2>2, <2>5, <2>10, <3>1
    <3> QED BY <1>1, <2>10, <2>5, <3>2 DEF Behind, Counted
  <2> QED BY <1>2, <2>9, <2>11 DEF WInv
<1> QED BY <1>3, <1>4

(* The frame popped last enters seen, later than all before it. *)
LEMMA SeenInOrder ==
    ASSUME WInv, pc = "awaiting", seen' = Append(seen, current)
    PROVE  seen' \in Seq(1..N) /\ InOrder' /\ Elems(seen') = Elems(seen) \cup {current}
<1> N \in Nat BY ScopeAssumption
<1>1. seen \in Seq(1..N) /\ current \in 1..N
  BY DEF WInv, Types
<1>2. Elems(seen') = Elems(seen) \cup {current}
  BY <1>1, ElemsOfAppend
<1>3. seen' \in Seq(1..N) /\ Len(seen') = Len(seen) + 1 /\ Len(seen) \in Nat
  BY <1>1
<1>4. \A i \in 1..Len(seen') : seen'[i] = IF i <= Len(seen) THEN seen[i] ELSE current
  BY <1>1, <1>3
<1>5. \A i \in 1..Len(seen) : seen[i] \in 1..N /\ seen[i] < current
  BY <1>1 DEF WInv, Behind, Elems
<1>6. \A i, j \in 1..Len(seen) : i < j => seen[i] < seen[j]
  BY <1>1 DEF WInv, InOrder
<1>7. \A i, j \in 1..Len(seen') : i < j => seen'[i] < seen'[j]
  <2> TAKE i, j \in 1..Len(seen')
  <2> HAVE i < j
  <2>1. i <= Len(seen) /\ seen'[i] = seen[i]
    BY <1>3, <1>4
  <2>2. CASE j <= Len(seen)
    BY <1>3, <1>4, <1>6, <2>1, <2>2
  <2>3. CASE ~(j <= Len(seen))
    <3>1. seen'[j] = current
      BY <1>4, <2>3
    <3>2. seen[i] < current
      BY <1>3, <1>5, <2>1
    <3> QED BY <2>1, <3>1, <3>2
  <2> QED BY <2>2, <2>3
<1> QED BY <1>2, <1>3, <1>7 DEF InOrder

LEMMA SkipFrameInv == ASSUME WInv, W!SkipFrame PROVE WInv'
<1> N \in Nat BY ScopeAssumption
<1>1. /\ pc = "awaiting" /\ pc' = "looping"
      /\ UNCHANGED <<cursor, inflight, current, pending, recorded, written, result>>
  BY DEF W!SkipFrame
<1>2. CASE seen' = seen
  <2>1. Types' /\ Contiguous' /\ Behind' /\ Ledger' /\ Flushed' /\ InOrder'
    BY <1>1, <1>2 DEF WInv, Types, Contiguous, Behind, Ledger, Flushed, InOrder, Counted
  <2> QED BY <2>1 DEF WInv
<1>3. CASE seen' = Append(seen, current)
  <2>1. seen' \in Seq(1..N) /\ InOrder' /\ Elems(seen') = Elems(seen) \cup {current}
    BY <1>1, <1>3, SeenInOrder
  <2>2. Types' /\ Contiguous' /\ Ledger' /\ Flushed'
    BY <1>1, <2>1 DEF WInv, Types, Contiguous, Ledger, Flushed, Counted
  <2>3. Behind'
    <3>1. current <= current
      BY DEF WInv, Types
    <3> QED BY <1>1, <2>1, <3>1 DEF WInv, Behind, Counted
  <2> QED BY <2>1, <2>2, <2>3 DEF WInv
<1> QED BY <1>2, <1>3 DEF W!SkipFrame

LEMMA AnalyzeInv == ASSUME WInv, W!Analyze PROVE WInv'
<1> N \in Nat BY ScopeAssumption
<1>1. /\ pc = "awaiting" /\ pc' \in {"writing", "looping"}
      /\ seen' = Append(seen, current)
      /\ pending' = Append(pending, current) /\ recorded' = recorded + 1
      /\ UNCHANGED <<cursor, inflight, current, written, result>>
  BY DEF W!Analyze
<1>2. seen' \in Seq(1..N) /\ InOrder' /\ Elems(seen') = Elems(seen) \cup {current}
  BY <1>1, SeenInOrder
<1>3. pending \in Seq(1..N) /\ written \subseteq 1..N /\ current \in 1..N
  BY <1>1 DEF WInv, Types
<1>4. pending' \in Seq(1..N) /\ Elems(pending') = Elems(pending) \cup {current}
  BY <1>1, <1>3, ElemsOfAppend
<1>5. Counted' = Counted \cup {current}
  BY <1>1, <1>4 DEF Counted
<1>6. Counted \subseteq 1..N
  BY CountedFrames DEF WInv
<1>7. current \notin Counted
  <2>1. \A f \in Counted : f < current
    BY <1>1 DEF WInv, Behind
  <2> QED BY <1>3, <2>1
<1>8. IsFiniteSet(Counted)
  <2>1. IsFiniteSet(1..N)
    BY FS_Interval
  <2> QED BY <1>6, <2>1, FS_Subset
<1>9. Ledger'
  <2>1. Cardinality(Counted \cup {current}) = Cardinality(Counted) + 1
    BY <1>7, <1>8, FS_AddElement
  <2> QED BY <1>1, <1>5, <2>1 DEF WInv, Ledger
<1>10. Types' /\ Contiguous'
  BY <1>1, <1>2, <1>4 DEF WInv, Types, Contiguous
<1>11. Behind'
  BY <1>1, <1>2, <1>5 DEF WInv, Behind
<1>12. Flushed'
  BY <1>1 DEF WInv, Flushed
<1> QED BY <1>2, <1>9, <1>10, <1>11, <1>12 DEF WInv

LEMMA WriteInv == ASSUME WInv, W!Write PROVE WInv'
<1> N \in Nat BY ScopeAssumption
<1>1. /\ pc \in {"writing", "flushing"} /\ pc' \in {"looping", "returning"}
      /\ written' = Counted /\ pending' = <<>>
      /\ UNCHANGED <<cursor, inflight, current, recorded, result, seen>>
  BY DEF W!Write, W!Elems, Counted, Elems
<1>2. Counted' = Counted
  BY <1>1, ElemsOfEmpty DEF Counted
<1>3. Counted \subseteq 1..N
  BY CountedFrames DEF WInv
<1>4. Types'
  BY <1>1, <1>3 DEF WInv, Types
<1>5. Contiguous' /\ InOrder' /\ Ledger'
  BY <1>1, <1>2 DEF WInv, Contiguous, InOrder, Ledger
<1>6. Behind'
  BY <1>1, <1>2 DEF WInv, Behind
<1>7. Flushed'
  BY <1>1 DEF WInv, Flushed
<1> QED BY <1>4, <1>5, <1>6, <1>7 DEF WInv

(* The steps that neither pop, analyse nor write. *)
LEMMA OtherInv ==
    ASSUME WInv, UNCHANGED <<cursor, inflight, current, pending, recorded, written, seen>>,
           \/ UNCHANGED <<pc, result>>
           \/ pc = "returning" /\ pc' = "ended" /\ result' = "returned"
           \/ pc' = "ended" /\ result' = "raised"
    PROVE  WInv'
<1>1. Types' /\ Contiguous' /\ Ledger' /\ InOrder'
  BY DEF WInv, Types, Contiguous, Ledger, InOrder, Counted
<1>2. Behind'
  BY DEF WInv, Behind, Counted
<1>3. Flushed'
  BY DEF WInv, Flushed
<1> QED BY <1>1, <1>2, <1>3 DEF WInv

LEMMA WindowedStep == ASSUME WInv, W!Next PROVE WInv'
<1>1. CASE W!Working
  <2>1. CASE W!Return
    BY <2>1, OtherInv DEF W!Return
  <2> QED BY <1>1, <2>1, FillInv, TurnInv, SkipFrameInv, AnalyzeInv, WriteInv DEF W!Working
<1>2. CASE W!Decode
  BY <1>2, OtherInv DEF W!Decode
<1>3. CASE W!IteratorRaises
  BY <1>3, OtherInv DEF W!IteratorRaises
<1>4. CASE W!WriteRaises
  BY <1>4, OtherInv DEF W!WriteRaises
<1>5. CASE W!RequestStop
  BY <1>5, OtherInv DEF W!RequestStop
<1>6. CASE W!Over
  BY <1>6, OtherInv DEF W!Over, W!vars
<1> QED BY <1>1, <1>2, <1>3, <1>4, <1>5, <1>6 DEF W!Next

LEMMA RunInvInit == RunInit => RunInv
<1> SUFFICES ASSUME RunInit PROVE RunInv
  OBVIOUS
<1> N \in Nat BY ScopeAssumption
<1>1. /\ windowed \in BOOLEAN
      /\ cursor = 1 /\ inflight = <<>> /\ current = 0 /\ pc = "filling"
      /\ pending = <<>> /\ recorded = 0 /\ written = {} /\ result = "none" /\ seen = <<>>
  BY DEF RunInit, W!Init
<1>2. Counted = {} /\ Elems(seen) = {}
  BY <1>1, ElemsOfEmpty DEF Counted
<1>3. Len(inflight) = 0 /\ DOMAIN seen = {}
  BY <1>1
<1>4. Types
  BY <1>1 DEF Types
<1>5. Contiguous
  <2>1. current = cursor - Len(inflight) - 1
    <3>1. cursor = 1 /\ current = 0
      BY <1>1
    <3> QED BY <1>3, <3>1
  <2>2. \A i \in 1..Len(inflight) : inflight[i] = current + i
    BY <1>3
  <2> QED BY <2>1, <2>2 DEF Contiguous
<1>6. InOrder
  BY <1>3 DEF InOrder
<1>7. Behind /\ Flushed
  BY <1>1, <1>2 DEF Behind, Flushed
<1>8. Ledger
  BY <1>1, <1>2, FS_EmptySet DEF Ledger
<1> QED BY <1>1, <1>7, <1>8, <1>4, <1>5, <1>6 DEF RunInv, WInv

LEMMA RunInvStep == RunInv /\ [RunNext]_runVars => RunInv'
<1> SUFFICES ASSUME RunInv, [RunNext]_runVars PROVE RunInv'
  OBVIOUS
<1>1. CASE Stateless(B!Next)
  BY <1>1 DEF RunInv, Stateless, inOrder
<1>2. CASE Windowed(W!Next)
  <2>1. windowed /\ windowed' = windowed /\ W!Next
    BY <1>2 DEF Windowed
  <2> QED BY <2>1, WindowedStep DEF RunInv
<1>3. CASE UNCHANGED runVars
  <2>1. /\ windowed' = windowed
        /\ UNCHANGED <<cursor, inflight, current, pending, recorded, written, seen, pc, result>>
    BY <1>3 DEF runVars, inOrder
  <2>2. WInv => WInv'
    BY <2>1, OtherInv
  <2> QED BY <2>1, <2>2 DEF RunInv
<1> QED BY <1>1, <1>2, <1>3 DEF RunNext

(* The deque of decoded frames stays without a gap and the ledger exact,    *)
(* whichever path the sweep takes (run_analysis, _run_windowed).            *)
THEOREM Invariance == RunSpec => []RunInv
<1> QED BY RunInvInit, RunInvStep, PTL DEF RunSpec

(* The analyzer's rolling background sees the frames in time order, however *)
(* many decodes run ahead and in whatever order they finish.                *)
THEOREM SeenInTimeOrder == RunSpec => []StrictTimeOrder
<1>1. RunInv => StrictTimeOrder
  BY DEF RunInv, WInv, InOrder, StrictTimeOrder, W!StrictTimeOrder
<1> QED BY <1>1, Invariance, PTL

(* A windowed sweep that returns, canceled or not, has stored exactly the   *)
(* verdicts it counted as done.                                             *)
THEOREM DoneIsStored == RunSpec => []CountedIsStored
<1>1. RunInv => CountedIsStored
  <2> SUFFICES ASSUME RunInv, windowed PROVE W!CountedIsStored
    BY DEF CountedIsStored
  <2>1. result = "returned" => pending = <<>>
    BY DEF RunInv, WInv, Flushed
  <2>2. pending = <<>> => Counted = written
    BY ElemsOfEmpty DEF Counted
  <2>3. recorded = Cardinality(Counted)
    BY DEF RunInv, WInv, Ledger
  <2>4. W!Cardinality(written) = Cardinality(written)
    BY DEF W!Cardinality, Cardinality
  <2> QED BY <2>1, <2>2, <2>3, <2>4 DEF W!CountedIsStored
<1> QED BY <1>1, Invariance, PTL

-----------------------------------------------------------------------------
(* A sweep is over only after its producer. *)
Joined == result # "none" => producer = "ended"

LEMMA JoinedStep == ASSUME Joined, B!Next PROVE Joined'
<1>1. CASE B!Producing
  <2>1. result' = result /\ producer # "ended"
    BY <1>1 DEF B!Producing, B!Read, B!LeaveLoop, B!Put, B!GiveUp, B!PutClose, B!outcome
  <2> QED BY <2>1 DEF Joined
<1>2. CASE B!IteratorBreaks
  <2>1. result' = result /\ producer # "ended"
    BY <1>2 DEF B!IteratorBreaks, B!outcome
  <2> QED BY <2>1 DEF Joined
<1>3. CASE B!TakeMarker \/ B!TakeFrame \/ B!TakeBoundary \/ B!TakeClose \/ B!Flush \/ B!Check \/ B!Abort \/ B!Drain
  <2>1. result' = result /\ producer' = producer
    BY <1>3 DEF B!TakeMarker, B!TakeFrame, B!TakeBoundary, B!TakeClose, B!Flush, B!Check, B!Abort,
                B!Drain, B!production, B!outcome
  <2> QED BY <2>1 DEF Joined
<1>4. CASE B!Join
  BY <1>4 DEF Joined, B!Join, B!production
<1>5. CASE B!WriteRaises \/ B!RequestStop \/ B!Over
  <2>1. result' = result /\ producer' = producer
    BY <1>5 DEF B!WriteRaises, B!RequestStop, B!Over, B!vars, B!production, B!outcome
  <2> QED BY <2>1 DEF Joined
<1> QED BY <1>1, <1>2, <1>3, <1>4, <1>5 DEF B!Next, B!Consuming

(* The producer ends before the sweep does: "no path may leave a running    *)
(* producer".                                                               *)
THEOREM ProducerJoined == RunSpec => []NoProducerLeftBehind
<1>1. RunInit => NoProducerLeftBehind
  BY DEF RunInit, B!Init, NoProducerLeftBehind, B!NoProducerLeftBehind
<1>2. NoProducerLeftBehind /\ [RunNext]_runVars => NoProducerLeftBehind'
  <2> SUFFICES ASSUME NoProducerLeftBehind, [RunNext]_runVars PROVE NoProducerLeftBehind'
    OBVIOUS
  <2>1. CASE Stateless(B!Next)
    <3>1. ~windowed /\ B!Next
      BY <2>1 DEF Stateless
    <3>2. Joined
      BY <3>1 DEF Joined, NoProducerLeftBehind, B!NoProducerLeftBehind
    <3>3. Joined'
      BY <3>1, <3>2, JoinedStep
    <3> QED BY <3>3 DEF Joined, NoProducerLeftBehind, B!NoProducerLeftBehind
  <2>2. CASE Windowed(W!Next)
    BY <2>2 DEF Windowed, NoProducerLeftBehind
  <2>3. CASE UNCHANGED runVars
    BY <2>3 DEF runVars, batched, NoProducerLeftBehind, B!NoProducerLeftBehind
  <2> QED BY <2>1, <2>2, <2>3 DEF RunNext
<1> QED BY <1>1, <1>2, PTL DEF RunSpec

(* After the batch that was in hand when the stop came, the worker is on    *)
(* its way out.                                                             *)
OnTheWayOut ==
    /\ late \in {0, 1}
    /\ late = 1 => stop /\ consumer \in {"checking", "leaving", "draining", "joining", "ended"}

LEMMA OnTheWayOutStep == ASSUME OnTheWayOut, B!Next PROVE OnTheWayOut'
<1>1. CASE B!Producing
  BY <1>1 DEF OnTheWayOut, B!Producing, B!Read, B!LeaveLoop, B!Put, B!GiveUp, B!PutClose, B!consumption
<1>2. CASE B!TakeMarker \/ B!TakeFrame \/ B!TakeBoundary \/ B!TakeClose
  BY <1>2 DEF OnTheWayOut, B!TakeMarker, B!TakeFrame, B!TakeBoundary, B!TakeClose, B!consumption
<1>3. CASE B!Flush
  <2>1. late = 0 /\ stop' = stop
    BY <1>3 DEF OnTheWayOut, B!Flush
  <2>2. late' = 1 => stop /\ consumer' = "checking"
    BY <1>3, <2>1 DEF B!Flush
  <2>3. late' \in {0, 1}
    BY <1>3, <2>1 DEF B!Flush
  <2> QED BY <2>1, <2>2, <2>3 DEF OnTheWayOut
<1>4. CASE B!Check \/ B!Abort \/ B!Drain \/ B!Join
  BY <1>4 DEF OnTheWayOut, B!Check, B!Abort, B!Drain, B!Join
<1>5. CASE B!IteratorBreaks \/ B!WriteRaises \/ B!RequestStop \/ B!Over
  BY <1>5 DEF OnTheWayOut, B!IteratorBreaks, B!WriteRaises, B!RequestStop, B!Over, B!vars, B!consumption
<1> QED BY <1>1, <1>2, <1>3, <1>4, <1>5 DEF B!Next, B!Consuming

(* "A cancel takes effect promptly at the next boundary": no second full    *)
(* batch is analysed after a stop.                                          *)
THEOREM CancelIsPrompt == RunSpec => []CancelAtNextBoundary
<1>1. RunInit => OnTheWayOut
  BY DEF RunInit, B!Init, OnTheWayOut
<1>2. OnTheWayOut /\ [RunNext]_runVars => OnTheWayOut'
  <2> SUFFICES ASSUME OnTheWayOut, [RunNext]_runVars PROVE OnTheWayOut'
    OBVIOUS
  <2>1. CASE Stateless(B!Next)
    BY <2>1, OnTheWayOutStep DEF Stateless
  <2>2. CASE Windowed(W!Next)
    <3>1. late' = late /\ consumer' = consumer /\ W!Next
      BY <2>2 DEF Windowed, batched
    <3>2. stop => stop'
      BY <3>1 DEF W!Next, W!Working, W!Fill, W!Turn, W!SkipFrame, W!Analyze, W!Write, W!Return, W!Decode,
                  W!IteratorRaises, W!WriteRaises, W!RequestStop, W!Over, W!vars
    <3> QED BY <3>1, <3>2 DEF OnTheWayOut
  <2>3. CASE UNCHANGED runVars
    BY <2>3 DEF runVars, batched, OnTheWayOut
  <2> QED BY <2>1, <2>2, <2>3 DEF RunNext
<1>3. OnTheWayOut => CancelAtNextBoundary
  BY DEF OnTheWayOut, CancelAtNextBoundary, B!CancelAtNextBoundary
<1> QED BY <1>1, <1>2, <1>3, PTL DEF RunSpec
-----------------------------------------------------------------------------
(***************************************************************************)
(* Both paths of run_analysis keep the safety part of Sweep.tla: no frame  *)
(* is settled twice, nothing is settled or reported after the end, a sweep *)
(* returns only when every frame is settled or a stop was requested, and   *)
(* never as a success after a failed write or a broken listing.            *)
(***************************************************************************)

Done == written \cup skipped

(* The windowed path: every frame popped is counted or skipped, never both, *)
(* and the loop ends on a stop or with nothing left to pop.                 *)
WSettled ==
    /\ skipped \subseteq 1..N
    /\ \A f \in skipped : f <= current /\ (pc = "awaiting" => f < current)
    /\ Elems(pending) \cap Done = {}
    /\ \A f \in 1..current :
          f \in Counted \cup skipped \/ (pc = "awaiting" /\ f = current)

WEnding ==
    /\ pc \notin {"filling", "ended"} /\ inflight = <<>> => cursor = N + 1
    /\ pc \in {"flushing", "returning"} => stop \/ inflight = <<>>
    /\ failing => pc = "ended"

-----------------------------------------------------------------------------
(* The stateless path.  Got is what the worker has taken off the queue.     *)
Got == Done \cup B!FramesOf(batch) \cup B!FramesOf(inHand)
Queued == B!FramesOf(queue)

BTypes ==
    /\ cursor \in 1..(N + 1)
    /\ holding \in Seq(B!Item) /\ batch \in Seq(B!Item) /\ inHand \in Seq(B!Item)
    /\ queue \in Seq(B!Item \cup {B!Closing})
    /\ written \subseteq 1..N /\ skipped \subseteq 1..N

Holding ==
    IF producer = "putting" THEN holding = <<holding[1]>> /\ holding[1].frame = cursor - 1
    ELSE holding = <<>>

(* Frames travel in order: what is taken, what is queued, what is held. *)
InStep ==
    /\ \A f \in Got, g \in Queued : f < g
    /\ \A f \in Got \cup Queued : f < (IF producer = "putting" THEN cursor - 1 ELSE cursor)
    /\ \A i, j \in 1..Len(queue) :
          i < j => queue[i].frame # 0 /\ (queue[j].frame # 0 => queue[i].frame < queue[j].frame)

(* A frame is taken once. *)
Apart ==
    /\ B!FramesOf(batch) \cap Done = {}
    /\ B!FramesOf(inHand) \cap (Done \cup B!FramesOf(batch)) = {}
    /\ consumer \in {"getting", "full", "last", "checking"} => inHand = <<>>

(* Until the abort, no frame that was read is lost. *)
NoneLost ==
    /\ ~abort => 1..(cursor - 1) \subseteq Got \cup Queued \cup B!FramesOf(holding)
    /\ abort <=> consumer \in {"draining", "joining", "ended"}

(* The sentinel is the last thing put, and no one leaves before it for      *)
(* nothing.                                                                 *)
Exhausted == cursor = N + 1 \/ stop \/ broke

BEnding ==
    /\ producer \in {"closing", "ended"} => Exhausted \/ abort
    /\ \A i \in 1..Len(queue) : queue[i].frame = 0 => producer = "ended"
    /\ consumer = "last" => Exhausted /\ queue = <<>> /\ producer = "ended"
    /\ consumer \in {"leaving", "draining", "joining"} =>
          stop \/ failing \/ broke \/ 1..N \subseteq Done
    /\ result # "none" => consumer = "ended"

BInv == BTypes /\ Holding /\ InStep /\ Apart /\ NoneLost /\ BEnding

JInv ==
    /\ windowed => WSettled /\ WEnding /\ broke = FALSE
    /\ ~windowed => BInv

-----------------------------------------------------------------------------
(* The windowed path's steps.                                               *)

LEMMA WSameSettled ==
    ASSUME WSettled, UNCHANGED <<written, skipped, pending, current>>,
           pc' = "awaiting" <=> pc = "awaiting"
    PROVE  WSettled'
BY DEF WSettled, Done, Counted

LEMMA WFill == ASSUME WInv, WSettled, WEnding, W!Fill PROVE WSettled' /\ WEnding'
<1> N \in Nat /\ Lookahead \in Nat \ {0} BY ScopeAssumption, KnobsAssumption
<1>1. WSettled'
  BY WSameSettled DEF W!Fill
<1>2. CASE Len(inflight) < Lookahead /\ cursor <= N
  <2>1. pc = "filling" /\ UNCHANGED <<pc, failing>>
    BY <1>2 DEF W!Fill
  <2> QED BY <1>1, <2>1 DEF WEnding
<1>3. CASE ~(Len(inflight) < Lookahead /\ cursor <= N)
  <2>1. pc = "filling" /\ pc' = "looping" /\ UNCHANGED <<cursor, inflight, failing>>
    BY <1>3 DEF W!Fill
  <2>2. inflight = <<>> => cursor = N + 1
    <3>1. inflight = <<>> => Len(inflight) = 0
      OBVIOUS
    <3>2. cursor \in 1..(N + 1)
      BY DEF WInv, Types
    <3> QED BY <1>3, <3>1, <3>2
  <2> QED BY <1>1, <2>1, <2>2 DEF WEnding
<1> QED BY <1>2, <1>3

LEMMA WTurn == ASSUME WInv, WSettled, WEnding, W!Turn PROVE WSettled' /\ WEnding'
<1> N \in Nat BY ScopeAssumption
<1>1. pc = "looping" /\ UNCHANGED <<pending, written, skipped, stop, failing>> /\ ~failing
  BY DEF W!Turn, WEnding
<1>2. CASE inflight = <<>> \/ stop
  <2>1. pc' = "flushing" /\ UNCHANGED <<cursor, inflight, current>>
    BY <1>2 DEF W!Turn
  <2>2. WSettled'
    BY <1>1, <2>1, WSameSettled
  <2>3. WEnding'
    BY <1>1, <1>2, <2>1 DEF WEnding
  <2> QED BY <2>2, <2>3
<1>3. CASE ~(inflight = <<>> \/ stop)
  <2>1. current' = Head(inflight) /\ pc' = "awaiting" /\ W!Submit(Tail(inflight))
    BY <1>3 DEF W!Turn
  <2>2. /\ inflight \in Seq(1..N) /\ Len(inflight) \in Nat \ {0}
        /\ Head(inflight) = inflight[1] /\ inflight[1] = current + 1
        /\ current \in 0..N /\ cursor \in 1..(N + 1)
    <3>1. inflight \in Seq(1..N) /\ inflight # <<>>
      BY <1>3 DEF WInv, Types
    <3>2. Len(inflight) \in Nat \ {0} /\ Head(inflight) = inflight[1]
      BY <3>1
    <3> QED BY <3>1, <3>2 DEF WInv, Types, Contiguous
  <2>3. current' = current + 1
    BY <2>1, <2>2
  <2>4. WSettled'
    <3>1. skipped \subseteq 1..N /\ \A f \in skipped : f <= current
      BY DEF WSettled
    <3>2. \A f \in skipped : f <= current' /\ f < current'
      BY <2>2, <2>3, <3>1
    <3>3. \A f \in 1..current : f \in Counted \cup skipped
      BY <1>1 DEF WSettled
    <3>4. \A f \in 1..current' : f \in Counted \cup skipped \/ f = current'
      BY <2>2, <2>3, <3>3
    <3> QED BY <1>1, <2>1, <3>1, <3>2, <3>4 DEF WSettled, Done, Counted
  <2>5. inflight' = <<>> => cursor' = N + 1
    <3>1. cursor <= N => inflight' = Append(Tail(inflight), cursor)
      BY <2>1 DEF W!Submit
    <3>2. Append(Tail(inflight), cursor) # <<>>
      <4>1. Tail(inflight) \in Seq(1..N)
        BY <2>2
      <4> QED BY <4>1
    <3>3. ~(cursor <= N) => cursor' = cursor
      BY <2>1 DEF W!Submit
    <3> QED BY <2>2, <3>1, <3>2, <3>3
  <2>6. WEnding'
    BY <1>1, <2>1, <2>5 DEF WEnding
  <2> QED BY <2>4, <2>6
<1> QED BY <1>2, <1>3

LEMMA WSkip ==
    ASSUME WInv, WSettled, WEnding, W!SkipFrame
    PROVE  WSettled' /\ WEnding' /\ current \in 1..N /\ current \notin Done
<1> N \in Nat BY ScopeAssumption
<1>1. /\ pc = "awaiting" /\ pc' = "looping" /\ skipped' = skipped \cup {current}
      /\ UNCHANGED <<cursor, inflight, current, pending, written, stop, failing>>
  BY DEF W!SkipFrame
<1>2. current \in 1..N
  BY <1>1 DEF WInv, Types
<1>3. current \notin Counted /\ current \notin skipped
  <2>1. \A f \in Counted \cup skipped : f < current
    BY <1>1 DEF WInv, Behind, WSettled
  <2> QED BY <1>2, <2>1
<1>4. WSettled'
  <2>1. Counted' = Counted /\ current <= current
    BY <1>1, <1>2 DEF Counted
  <2>2. skipped' \subseteq 1..N /\ \A f \in skipped' : f <= current
    BY <1>1, <1>2, <2>1 DEF WSettled
  <2>3. Elems(pending) \cap Done' = {}
    BY <1>1, <1>3 DEF WSettled, Done, Counted
  <2>4. \A f \in 1..current : f \in Counted \cup skipped'
    BY <1>1 DEF WSettled
  <2> QED BY <1>1, <2>1, <2>2, <2>3, <2>4 DEF WSettled
<1>5. WEnding'
  BY <1>1 DEF WEnding
<1> QED BY <1>2, <1>3, <1>4, <1>5 DEF Done, Counted

LEMMA WAnalyze == ASSUME WInv, WSettled, WEnding, W!Analyze PROVE WSettled' /\ WEnding'
<1> N \in Nat BY ScopeAssumption
<1>1. /\ pc = "awaiting" /\ pc' \in {"writing", "looping"}
      /\ pending' = Append(pending, current)
      /\ UNCHANGED <<cursor, inflight, current, written, skipped, stop, failing>>
  BY DEF W!Analyze
<1>2. current \in 1..N /\ pending \in Seq(1..N)
  BY <1>1 DEF WInv, Types
<1>3. Elems(pending') = Elems(pending) \cup {current}
  BY <1>1, <1>2, ElemsOfAppend
<1>4. current \notin Done
  <2>1. \A f \in Counted \cup skipped : f < current
    BY <1>1 DEF WInv, Behind, WSettled
  <2> QED BY <1>2, <2>1 DEF Done, Counted
<1>5. Counted' = Counted \cup {current} /\ Done' = Done
  BY <1>1, <1>3 DEF Counted, Done
<1>6. WSettled'
  BY <1>1, <1>3, <1>4, <1>5 DEF WSettled
<1>7. WEnding'
  BY <1>1 DEF WEnding
<1> QED BY <1>6, <1>7

LEMMA WWrite == ASSUME WInv, WSettled, WEnding, W!Write PROVE WSettled' /\ WEnding'
<1>1. /\ pc \in {"writing", "flushing"} /\ pc' = IF pc = "writing" THEN "looping" ELSE "returning"
      /\ written' = Counted /\ pending' = <<>>
      /\ UNCHANGED <<cursor, inflight, current, skipped, stop, failing>>
  BY DEF W!Write, W!Elems, Counted, Elems
<1>2. Counted' = Counted /\ Elems(pending') = {}
  BY <1>1, ElemsOfEmpty DEF Counted
<1>3. WSettled'
  BY <1>1, <1>2 DEF WSettled
<1>4. WEnding'
  BY <1>1 DEF WEnding
<1> QED BY <1>3, <1>4

(* Raising and returning: the end. *)
LEMMA WEnd ==
    ASSUME WSettled, WEnding, UNCHANGED <<written, skipped, pending, current>>,
           pc # "awaiting", pc' = "ended"
    PROVE  WSettled' /\ WEnding'
<1>1. WSettled'
  BY WSameSettled
<1>2. WEnding'
  BY DEF WEnding
<1> QED BY <1>1, <1>2

LEMMA WStay ==
    ASSUME WSettled, WEnding,
           UNCHANGED <<written, skipped, pending, current, pc, inflight, cursor, failing>>,
           stop => stop'
    PROVE  WSettled' /\ WEnding'
<1>1. WSettled'
  BY WSameSettled
<1>2. WEnding'
  BY DEF WEnding
<1> QED BY <1>1, <1>2

LEMMA WStep == ASSUME WInv, WSettled, WEnding, W!Next PROVE WSettled' /\ WEnding'
<1>1. CASE W!Working
  <2>1. CASE W!Return
    BY <2>1, WEnd DEF W!Return
  <2> QED BY <1>1, <2>1, WFill, WTurn, WSkip, WAnalyze, WWrite DEF W!Working
<1>2. CASE W!Decode
  BY <1>2, WStay DEF W!Decode
<1>3. CASE W!IteratorRaises
  BY <1>3, WEnd DEF W!IteratorRaises
<1>4. CASE W!WriteRaises
  BY <1>4, WEnd DEF W!WriteRaises
<1>5. CASE W!RequestStop
  BY <1>5, WStay DEF W!RequestStop
<1>6. CASE W!Over
  BY <1>6, WStay DEF W!Over, W!vars
<1> QED BY <1>1, <1>2, <1>3, <1>4, <1>5, <1>6 DEF W!Next

-----------------------------------------------------------------------------
(* The steps of Sweep.tla.                                                  *)

LEMMA PStutter ==
    ASSUME UNCHANGED <<written, skipped, stop, failing, broke, result>>
    PROVE  UNCHANGED Promise!vars
BY DEF Promise!vars

LEMMA PSettle ==
    ASSUME NEW STATE good, NEW STATE bad, result = "none",
           good \subseteq 1..N, bad \subseteq 1..N, good \cap bad = {},
           good \cap Done = {}, bad \cap Done = {},
           written' = written \cup good, skipped' = skipped \cup bad,
           UNCHANGED <<stop, failing, broke, result>>
    PROVE  Promise!Next
<1>1. good \in SUBSET Promise!Left /\ bad \in SUBSET Promise!Left
  BY DEF Promise!Left, Done
<1>2. Promise!Settle(good, bad)
  BY DEF Promise!Settle
<1> QED BY <1>1, <1>2 DEF Promise!Next

LEMMA PFail ==
    ASSUME failing' = TRUE \/ broke' = TRUE, UNCHANGED <<written, skipped, stop, result>>
    PROVE  Promise!Next
<1>1. (failing' \/ broke') = TRUE
  OBVIOUS
<1> QED BY <1>1 DEF Promise!Next, Promise!Fail

LEMMA PRaise ==
    ASSUME result = "none", result' = "raised", failing' \/ broke', UNCHANGED <<written, skipped, stop>>
    PROVE  Promise!Next
<1>1. (failing' \/ broke') = TRUE
  OBVIOUS
<1> QED BY <1>1 DEF Promise!Next, Promise!Raise

LEMMA PReturn ==
    ASSUME result = "none", result' = "returned", ~(failing \/ broke), 1..N \subseteq Done \/ stop,
           UNCHANGED <<written, skipped, stop, failing, broke>>
    PROVE  Promise!Next
<1>1. Promise!Left = {} \/ stop
  BY DEF Promise!Left, Done
<1>2. (failing' \/ broke') = (failing \/ broke)
  OBVIOUS
<1> QED BY <1>1, <1>2 DEF Promise!Next, Promise!Return

LEMMA PRequestStop ==
    ASSUME stop' = TRUE, UNCHANGED <<written, skipped, failing, broke, result>>
    PROVE  Promise!Next
<1>2. (failing' \/ broke') = (failing \/ broke)
  OBVIOUS
<1> QED BY <1>2 DEF Promise!Next, Promise!RequestStop

LEMMA WKeepsPromise ==
    ASSUME WInv, WSettled, WEnding, broke = FALSE, UNCHANGED broke, W!Next
    PROVE  [Promise!Next]_(Promise!vars)
<1> N \in Nat BY ScopeAssumption
<1>1. CASE W!Fill
  BY <1>1, PStutter DEF W!Fill
<1>2. CASE W!Turn
  BY <1>2, PStutter DEF W!Turn
<1>3. CASE W!SkipFrame
  <2>1. current \in 1..N /\ current \notin Done
    BY <1>3, WSkip
  <2>2. /\ result = "none" /\ written' = written \cup {} /\ skipped' = skipped \cup {current}
        /\ UNCHANGED <<stop, failing, broke, result>>
    BY <1>3 DEF W!SkipFrame, WInv, Flushed
  <2>3. {} \subseteq 1..N /\ {current} \subseteq 1..N /\ {} \cap {current} = {}
        /\ {} \cap Done = {} /\ {current} \cap Done = {}
    BY <2>1
  <2> QED BY <2>2, <2>3, PSettle
<1>4. CASE W!Analyze
  BY <1>4, PStutter DEF W!Analyze
<1>5. CASE W!Write
  <2>1. Elems(pending) \subseteq 1..N /\ Elems(pending) \cap Done = {}
    <3>1. Types
      BY DEF WInv
    <3> QED BY <3>1, CountedFrames DEF Counted, WSettled
  <2>2. /\ result = "none" /\ written' = written \cup Elems(pending) /\ skipped' = skipped \cup {}
        /\ UNCHANGED <<stop, failing, broke, result>>
    BY <1>5 DEF W!Write, WInv, Flushed, W!Elems, Elems
  <2>3. {} \subseteq 1..N /\ Elems(pending) \cap {} = {} /\ {} \cap Done = {}
    OBVIOUS
  <2> QED BY <2>1, <2>2, <2>3, PSettle
<1>6. CASE W!Return
  <2>1. /\ pc = "returning" /\ result' = "returned" /\ pending = <<>> /\ result = "none"
        /\ UNCHANGED <<written, skipped, stop, failing>> /\ ~failing
    BY <1>6 DEF W!Return, WInv, Flushed, WEnding
  <2>2. CASE stop
    BY <2>1, <2>2, PReturn
  <2>3. CASE ~stop
    <3>1. inflight = <<>> /\ cursor = N + 1
      BY <2>1, <2>3 DEF WEnding
    <3>2. current = N
      <4>1. Len(inflight) = 0
        BY <3>1
      <4>2. current = cursor - Len(inflight) - 1
        BY DEF WInv, Contiguous
      <4>3. cursor = N + 1
        BY <3>1
      <4> QED BY <4>1, <4>2, <4>3
    <3>3. Counted = written
      BY <2>1, ElemsOfEmpty DEF Counted
    <3>4. 1..N \subseteq Done
      BY <2>1, <3>2, <3>3 DEF WSettled, Done
    <3> QED BY <2>1, <3>4, PReturn
  <2> QED BY <2>2, <2>3
<1>7. CASE W!Decode
  BY <1>7, PStutter DEF W!Decode
<1>8. CASE W!IteratorRaises
  BY <1>8, PRaise DEF W!IteratorRaises, WInv, Flushed
<1>9. CASE W!WriteRaises
  BY <1>9, PRaise DEF W!WriteRaises, WInv, Flushed
<1>10. CASE W!RequestStop
  BY <1>10, PRequestStop DEF W!RequestStop
<1>11. CASE W!Over
  BY <1>11, PStutter DEF W!Over, W!vars
<1> QED BY <1>1, <1>2, <1>3, <1>4, <1>5, <1>6, <1>7, <1>8, <1>9, <1>10, <1>11
        DEF W!Next, W!Working

-----------------------------------------------------------------------------
(* The frames of a sequence of items.                                       *)

LEMMA InFramesOf ==
    ASSUME NEW S, NEW s \in Seq(S), NEW f
    PROVE  f \in B!FramesOf(s) <=> f # 0 /\ \E i \in 1..Len(s) : f = s[i].frame
BY DEF B!FramesOf

LEMMA FramesOfEmpty == B!FramesOf(<<>>) = {}
BY DEF B!FramesOf

LEMMA FramesOfAppend ==
    ASSUME NEW S, NEW s \in Seq(S), NEW x \in S
    PROVE  B!FramesOf(Append(s, x)) = B!FramesOf(s) \cup ({x.frame} \ {0})
<1>1. /\ Append(s, x) \in Seq(S) /\ Len(Append(s, x)) = Len(s) + 1 /\ Len(s) \in Nat
      /\ \A i \in 1..(Len(s) + 1) : Append(s, x)[i] = IF i <= Len(s) THEN s[i] ELSE x
  OBVIOUS
<1>2. ASSUME NEW f \in B!FramesOf(Append(s, x)) PROVE f \in B!FramesOf(s) \cup ({x.frame} \ {0})
  <2>1. PICK i \in 1..Len(Append(s, x)) : f = Append(s, x)[i].frame
    BY <1>1, InFramesOf
  <2>2. f # 0
    BY <1>1, InFramesOf
  <2>3. CASE i <= Len(s)
    BY <1>1, <2>1, <2>2, <2>3, InFramesOf
  <2>4. CASE ~(i <= Len(s))
    BY <1>1, <2>1, <2>2, <2>4
  <2> QED BY <2>3, <2>4
<1>3. ASSUME NEW f \in B!FramesOf(s) PROVE f \in B!FramesOf(Append(s, x))
  <2>1. PICK i \in 1..Len(s) : f = s[i].frame
    BY InFramesOf
  <2>2. i \in 1..(Len(s) + 1) /\ f = Append(s, x)[i].frame /\ f # 0
    BY <1>1, <2>1, InFramesOf
  <2> QED BY <1>1, <2>2, InFramesOf
<1>4. ASSUME x.frame # 0 PROVE x.frame \in B!FramesOf(Append(s, x))
  <2>1. (Len(s) + 1) \in 1..Len(Append(s, x)) /\ Append(s, x)[Len(s) + 1] = x
    BY <1>1
  <2> QED BY <1>1, <1>4, <2>1, InFramesOf
<1> QED BY <1>2, <1>3, <1>4

LEMMA FramesOfOne == ASSUME NEW x PROVE B!FramesOf(<<x>>) = {x.frame} \ {0}
BY DEF B!FramesOf

LEMMA FramesOfTail ==
    ASSUME NEW S, NEW s \in Seq(S), s # <<>>
    PROVE  /\ B!FramesOf(s) = B!FramesOf(Tail(s)) \cup ({Head(s).frame} \ {0})
           /\ Tail(s) \in Seq(S) /\ Head(s) \in S /\ Head(s) = s[1]
           /\ Len(s) \in Nat \ {0} /\ Len(Tail(s)) = Len(s) - 1
           /\ \A i \in 1..Len(Tail(s)) : Tail(s)[i] = s[i + 1]
<1>1. /\ Tail(s) \in Seq(S) /\ Head(s) \in S /\ Head(s) = s[1]
      /\ Len(s) \in Nat \ {0} /\ Len(Tail(s)) = Len(s) - 1
      /\ \A i \in 1..Len(Tail(s)) : Tail(s)[i] = s[i + 1]
  OBVIOUS
<1>2. ASSUME NEW f \in B!FramesOf(s) PROVE f \in B!FramesOf(Tail(s)) \cup ({Head(s).frame} \ {0})
  <2>1. PICK i \in 1..Len(s) : f = s[i].frame
    BY InFramesOf
  <2>2. f # 0
    BY InFramesOf
  <2>3. CASE i = 1
    BY <1>1, <2>1, <2>2, <2>3
  <2>4. CASE i # 1
    <3>1. i - 1 \in 1..Len(Tail(s)) /\ Tail(s)[i - 1] = s[i]
      BY <1>1, <2>4
    <3> QED BY <1>1, <2>1, <2>2, <3>1, InFramesOf
  <2> QED BY <2>3, <2>4
<1>3. ASSUME NEW f \in B!FramesOf(Tail(s)) PROVE f \in B!FramesOf(s)
  <2>1. PICK i \in 1..Len(Tail(s)) : f = Tail(s)[i].frame
    BY <1>1, InFramesOf
  <2>2. f # 0
    BY <1>1, InFramesOf
  <2>3. i + 1 \in 1..Len(s)
    BY <1>1
  <2>4. f = s[i + 1].frame
    BY <1>1, <2>1
  <2> QED BY <2>2, <2>3, <2>4, InFramesOf
<1>4. ASSUME Head(s).frame # 0 PROVE Head(s).frame \in B!FramesOf(s)
  <2>1. 1 \in 1..Len(s) /\ s[1].frame # 0
    BY <1>1, <1>4
  <2> QED BY <1>1, <2>1, InFramesOf
<1> QED BY <1>1, <1>2, <1>3, <1>4

(* Only the sentinel holds no frame. *)
LEMMA ItemFrame ==
    /\ \A x \in B!Item : x.frame \in 1..N /\ x.frame # 0
    /\ \A x \in B!Item \cup {B!Closing} : x.frame # 0 => x \in B!Item
    /\ B!Closing.frame = 0
    /\ \A x \in B!Item : x.shape # B!Closing.shape
    /\ \A x \in B!Item \cup {B!Closing} : x.shape \in Shapes \cup {NoShape} => x \in B!Item
<1> N \in Nat BY ScopeAssumption
<1> QED BY ShapesAssumption DEF B!Item, B!Closing, B!Frames

LEMMA FramesOfItems == ASSUME NEW s \in Seq(B!Item \cup {B!Closing}) PROVE B!FramesOf(s) \subseteq 1..N
<1>1. ASSUME NEW f \in B!FramesOf(s) PROVE f \in 1..N
  <2>1. PICK i \in 1..Len(s) : f = s[i].frame
    BY InFramesOf
  <2>2. s[i] \in B!Item \cup {B!Closing} /\ f # 0
    BY InFramesOf
  <2> QED BY <2>1, <2>2, ItemFrame
<1> QED BY <1>1

LEMMA BRanges ==
    ASSUME BTypes
    PROVE  Got \subseteq 1..N /\ Queued \subseteq 1..N /\ Done \subseteq 1..N
           /\ B!FramesOf(batch) \subseteq 1..N /\ B!FramesOf(inHand) \subseteq 1..N
<1>1. \A s \in Seq(B!Item) : s \in Seq(B!Item \cup {B!Closing})
  OBVIOUS
<1>2. B!FramesOf(batch) \subseteq 1..N /\ B!FramesOf(inHand) \subseteq 1..N
  BY <1>1, FramesOfItems DEF BTypes
<1>3. Queued \subseteq 1..N
  BY FramesOfItems DEF BTypes, Queued
<1> QED BY <1>2, <1>3 DEF BTypes, Got, Done

-----------------------------------------------------------------------------
(* The producer's steps.                                                    *)

LEMMA BSame ==
    ASSUME BTypes, Holding, InStep,
           UNCHANGED <<cursor, holding, batch, inHand, queue, written, skipped>>,
           producer' = "putting" <=> producer = "putting"
    PROVE  /\ BTypes' /\ Holding' /\ InStep'
           /\ Got' = Got /\ Queued' = Queued /\ Done' = Done
<1>1. Got' = Got /\ Queued' = Queued /\ Done' = Done
  BY DEF Got, Queued, Done
<1>2. BTypes' /\ Holding'
  BY DEF BTypes, Holding
<1>3. InStep'
  BY <1>1 DEF InStep
<1> QED BY <1>1, <1>2, <1>3

LEMMA BRead == ASSUME BInv, B!Read PROVE BInv'
<1> N \in Nat BY ScopeAssumption
<1>1. /\ producer = "reading" /\ producer' = "putting" /\ cursor <= N /\ cursor' = cursor + 1
      /\ UNCHANGED <<broke, queue, abort, batch, inHand, consumer, failing, stop,
                     written, skipped, result>>
  BY DEF B!Read, B!consumption, B!outcome
<1>2. PICK s \in Shapes \cup {NoShape} : holding' = <<[frame |-> cursor, shape |-> s]>>
  BY DEF B!Read
<1>3. cursor \in 1..N /\ cursor' = cursor + 1 /\ cursor' \in 1..(N + 1)
  BY <1>1 DEF BInv, BTypes
<1>4. [frame |-> cursor, shape |-> s] \in B!Item
  BY <1>3 DEF B!Item, B!Frames
<1>5. holding' \in Seq(B!Item) /\ holding' = <<holding'[1]>> /\ holding'[1].frame = cursor
  BY <1>2, <1>4
<1>6. BTypes' /\ Holding'
  BY <1>1, <1>3, <1>5 DEF BInv, BTypes, Holding
<1>7. Got' = Got /\ Queued' = Queued /\ Done' = Done
  BY <1>1 DEF Got, Queued, Done
<1>8. InStep'
  BY <1>1, <1>3, <1>7 DEF BInv, InStep
<1>9. Apart'
  BY <1>1, <1>7 DEF BInv, Apart
<1>10. NoneLost'
  <2>1. B!FramesOf(holding') = {cursor}
    BY <1>2, <1>3, FramesOfOne
  <2>2. holding = <<>>
    BY <1>1 DEF BInv, Holding
  <2>3. ~abort => 1..(cursor - 1) \subseteq Got \cup Queued
    BY <2>2, FramesOfEmpty DEF BInv, NoneLost
  <2>4. \A f \in 1..(cursor' - 1) : f \in 1..(cursor - 1) \/ f = cursor
    BY <1>3
  <2>5. ~abort' => 1..(cursor' - 1) \subseteq Got' \cup Queued' \cup B!FramesOf(holding')
    BY <1>1, <1>7, <2>1, <2>3, <2>4
  <2> QED BY <1>1, <2>5 DEF BInv, NoneLost
<1>11. BEnding'
  <2>1. \A i \in 1..Len(queue) : queue[i].frame # 0
    BY <1>1 DEF BInv, BEnding
  <2>2. consumer # "last"
    BY <1>1 DEF BInv, BEnding
  <2> QED BY <1>1, <1>7, <2>1, <2>2 DEF BInv, BEnding
<1> QED BY <1>6, <1>8, <1>9, <1>10, <1>11 DEF BInv

LEMMA BToClosing ==
    ASSUME BInv, producer = "reading", producer' = "closing",
           Exhausted' \/ abort, broke => broke',
           UNCHANGED <<cursor, holding, batch, inHand, queue, written, skipped, abort, consumer,
                       failing, stop, result>>
    PROVE  BInv'
<1>1. /\ BTypes' /\ Holding' /\ InStep' /\ Got' = Got /\ Queued' = Queued /\ Done' = Done
  BY BSame DEF BInv
<1>2. Apart' /\ NoneLost'
  BY <1>1 DEF BInv, Apart, NoneLost
<1>3. BEnding'
  BY <1>1 DEF BInv, BEnding
<1> QED BY <1>1, <1>2, <1>3 DEF BInv

LEMMA BLeaveLoop == ASSUME BInv, B!LeaveLoop PROVE BInv'
<1> N \in Nat BY ScopeAssumption
<1>1. cursor > N => cursor = N + 1
  BY DEF BInv, BTypes
<1>2. Exhausted' \/ abort
  BY <1>1 DEF B!LeaveLoop, Exhausted
<1> QED BY <1>2, BToClosing DEF B!LeaveLoop, B!consumption, B!outcome

LEMMA BIteratorBreaks == ASSUME BInv, B!IteratorBreaks PROVE BInv'
<1>1. Exhausted' \/ abort
  BY DEF B!IteratorBreaks, Exhausted
<1> QED BY <1>1, BToClosing DEF B!IteratorBreaks, B!consumption, B!outcome

LEMMA BPut == ASSUME BInv, B!Put PROVE BInv'
<1> N \in Nat BY ScopeAssumption
<1>1. /\ producer = "putting" /\ producer' = "reading" /\ holding' = <<>>
      /\ queue' = queue \o holding
      /\ UNCHANGED <<cursor, broke, abort, batch, inHand, consumer, failing, stop,
                     written, skipped, result>>
  BY DEF B!Put, B!consumption, B!outcome
<1> DEFINE x == holding[1]
           I == B!Item \cup {B!Closing}
<1>2. /\ holding = <<x>> /\ x \in B!Item /\ x.frame = cursor - 1
      /\ queue \in Seq(I) /\ cursor \in 1..(N + 1)
  <2>1. holding \in Seq(B!Item) /\ holding = <<x>> /\ x.frame = cursor - 1
    BY <1>1 DEF BInv, BTypes, Holding
  <2>2. x \in B!Item
    <3>1. 1 \in 1..Len(holding)
      BY <2>1
    <3> QED BY <2>1, <3>1
  <2> QED BY <2>1, <2>2 DEF BInv, BTypes
<1>3. x \in I /\ x.frame # 0 /\ x.frame \in 1..N
  BY <1>2, ItemFrame
<1> HIDE DEF x, I
<1>4. queue' = Append(queue, x)
  BY <1>1, <1>2
<1>5. /\ queue' \in Seq(I) /\ Len(queue') = Len(queue) + 1 /\ Len(queue) \in Nat
      /\ \A i \in 1..Len(queue') : queue'[i] = IF i <= Len(queue) THEN queue[i] ELSE x
  BY <1>2, <1>3, <1>4
<1>6. Queued' = Queued \cup {x.frame}
  BY <1>2, <1>3, <1>4, FramesOfAppend DEF Queued
<1>7. Got' = Got /\ Done' = Done /\ B!FramesOf(holding) = {x.frame} /\ B!FramesOf(holding') = {}
  BY <1>1, <1>2, <1>3, FramesOfOne, FramesOfEmpty DEF Got, Done
<1>8. BTypes' /\ Holding'
  BY <1>1, <1>5 DEF BInv, BTypes, Holding, I
<1>9. Got \subseteq 1..N /\ Queued \subseteq 1..N
  BY BRanges DEF BInv
<1>10. \A f \in Got \cup Queued : f < cursor - 1
  BY <1>1 DEF BInv, InStep
<1>11. \A i \in 1..Len(queue) : queue[i].frame # 0
  BY <1>1 DEF BInv, BEnding
<1>12. \A i \in 1..Len(queue) : queue[i].frame \in Queued
  BY <1>2, <1>11, InFramesOf DEF Queued
<1>13. InStep'
  <2>1. \A f \in Got', g \in Queued' : f < g
    BY <1>2, <1>6, <1>7, <1>10 DEF BInv, InStep
  <2>2. \A f \in Got' \cup Queued' : f < cursor
    BY <1>2, <1>3, <1>6, <1>7, <1>9, <1>10
  <2>3. ASSUME NEW i \in 1..Len(queue'), NEW j \in 1..Len(queue'), i < j
        PROVE  queue'[i].frame # 0 /\ (queue'[j].frame # 0 => queue'[i].frame < queue'[j].frame)
    <3>1. i \in 1..Len(queue) /\ queue'[i] = queue[i]
      BY <1>5, <2>3
    <3>2. CASE j \in 1..Len(queue)
      BY <1>5, <2>3, <3>1, <3>2 DEF BInv, InStep
    <3>3. CASE j \notin 1..Len(queue)
      <4>1. queue'[j] = x
        BY <1>5, <3>3
      <4> QED BY <1>2, <1>10, <1>11, <1>12, <3>1, <4>1
    <3> QED BY <3>2, <3>3
  <2> QED BY <1>1, <2>1, <2>2, <2>3 DEF InStep
<1>14. Apart'
  BY <1>1, <1>7 DEF BInv, Apart
<1>15. NoneLost'
  BY <1>1, <1>6, <1>7 DEF BInv, NoneLost
<1>16. BEnding'
  <2>1. \A i \in 1..Len(queue') : queue'[i].frame # 0
    BY <1>3, <1>5, <1>11
  <2>2. consumer # "last"
    BY <1>1 DEF BInv, BEnding
  <2> QED BY <1>1, <1>7, <2>1, <2>2 DEF BInv, BEnding
<1> QED BY <1>8, <1>13, <1>14, <1>15, <1>16 DEF BInv

LEMMA BGiveUp == ASSUME BInv, B!GiveUp PROVE BInv'
<1> N \in Nat BY ScopeAssumption
<1>1. /\ producer = "putting" /\ producer' = "closing" /\ abort /\ holding' = <<>>
      /\ UNCHANGED <<cursor, broke, queue, abort, batch, inHand, consumer, failing, stop,
                     written, skipped, result>>
  BY DEF B!GiveUp, B!consumption, B!outcome
<1>2. Got' = Got /\ Queued' = Queued /\ Done' = Done
  BY <1>1 DEF Got, Queued, Done
<1>3. BTypes' /\ Holding'
  BY <1>1 DEF BInv, BTypes, Holding
<1>4. InStep'
  <2>1. Got \subseteq 1..N /\ Queued \subseteq 1..N /\ cursor \in 1..(N + 1)
    BY BRanges DEF BInv, BTypes
  <2>2. \A f \in Got \cup Queued : f < cursor - 1
    BY <1>1 DEF BInv, InStep
  <2>3. \A f \in Got \cup Queued : f < cursor
    BY <2>1, <2>2
  <2> QED BY <1>1, <1>2, <2>3 DEF BInv, InStep
<1>5. Apart' /\ NoneLost'
  BY <1>1, <1>2 DEF BInv, Apart, NoneLost
<1>6. BEnding'
  <2>1. \A i \in 1..Len(queue) : queue[i].frame # 0
    BY <1>1 DEF BInv, BEnding
  <2> QED BY <1>1, <1>2, <2>1 DEF BInv, BEnding
<1> QED BY <1>3, <1>4, <1>5, <1>6 DEF BInv

LEMMA BPutClose == ASSUME BInv, B!PutClose PROVE BInv'
<1> N \in Nat BY ScopeAssumption
<1> DEFINE I == B!Item \cup {B!Closing}
<1>1. /\ producer = "closing" /\ producer' = "ended"
      /\ queue' = Append(queue, B!Closing) \/ (abort /\ queue' = queue)
      /\ UNCHANGED <<cursor, holding, broke, abort, batch, inHand, consumer, failing, stop,
                     written, skipped, result>>
  BY DEF B!PutClose, B!consumption, B!outcome
<1>2. queue \in Seq(I) /\ B!Closing \in I /\ B!Closing.frame = 0
  BY ItemFrame DEF BInv, BTypes
<1> HIDE DEF I
<1>3. \A i \in 1..Len(queue) : queue[i].frame # 0
  BY <1>1 DEF BInv, BEnding
<1>4. consumer # "last"
  BY <1>1 DEF BInv, BEnding
<1>5. /\ queue' \in Seq(I) /\ Len(queue) \in Nat
      /\ Queued' = Queued
      /\ \A i \in 1..Len(queue') :
            \/ i \in 1..Len(queue) /\ queue'[i] = queue[i]
            \/ i = Len(queue) + 1 /\ i = Len(queue') /\ queue'[i].frame = 0
  <2>1. CASE queue' = Append(queue, B!Closing)
    <3>1. /\ Append(queue, B!Closing) \in Seq(I) /\ Len(queue) \in Nat
          /\ Len(Append(queue, B!Closing)) = Len(queue) + 1
          /\ \A i \in 1..(Len(queue) + 1) : Append(queue, B!Closing)[i] =
                IF i <= Len(queue) THEN queue[i] ELSE B!Closing
      BY <1>2
    <3>2. B!FramesOf(Append(queue, B!Closing)) = B!FramesOf(queue) \cup ({B!Closing.frame} \ {0})
      BY <1>2, FramesOfAppend
    <3>3. Queued' = Queued
      BY <1>2, <2>1, <3>2 DEF Queued
    <3> QED BY <1>2, <2>1, <3>1, <3>3
  <2>2. CASE queue' = queue
    BY <1>2, <2>2 DEF Queued
  <2> QED BY <1>1, <2>1, <2>2
<1>6. Got' = Got /\ Done' = Done
  BY <1>1 DEF Got, Done
<1>7. BTypes' /\ Holding'
  BY <1>1, <1>5 DEF BInv, BTypes, Holding, I
<1>8. InStep'
  <2>1. ASSUME NEW i \in 1..Len(queue'), NEW j \in 1..Len(queue'), i < j
        PROVE  queue'[i].frame # 0 /\ (queue'[j].frame # 0 => queue'[i].frame < queue'[j].frame)
    <3>1. i \in 1..Len(queue) /\ queue'[i] = queue[i] /\ queue[i].frame # 0
      BY <1>3, <1>5, <2>1
    <3>2. CASE queue'[j].frame # 0
      <4>1. j \in 1..Len(queue) /\ queue'[j] = queue[j]
        BY <1>5, <3>2
      <4> QED BY <2>1, <3>1, <4>1 DEF BInv, InStep
    <3> QED BY <3>1, <3>2
  <2> QED BY <1>1, <1>5, <1>6, <2>1 DEF BInv, InStep
<1>9. Apart' /\ NoneLost'
  BY <1>1, <1>5, <1>6 DEF BInv, Apart, NoneLost
<1>10. BEnding'
  BY <1>1, <1>4, <1>6 DEF BInv, BEnding, Exhausted
<1> QED BY <1>7, <1>8, <1>9, <1>10 DEF BInv

-----------------------------------------------------------------------------
(* The worker's steps.                                                      *)

(* What is left of the queue when its head is taken. *)
LEMMA BTook ==
    ASSUME BInv, queue # <<>>, queue' = Tail(queue)
    PROVE  /\ queue' \in Seq(B!Item \cup {B!Closing})
           /\ Queued = Queued' \cup ({Head(queue).frame} \ {0})
           /\ Head(queue) \in B!Item \cup {B!Closing}
           /\ \A i \in 1..Len(queue') : i + 1 \in 1..Len(queue) /\ queue'[i] = queue[i + 1]
           /\ \A i, j \in 1..Len(queue') :
                 i < j => queue'[i].frame # 0 /\ (queue'[j].frame # 0 => queue'[i].frame < queue'[j].frame)
           /\ Head(queue).frame # 0 => \A g \in Queued' : Head(queue).frame < g
           /\ Head(queue).frame = 0 => queue' = <<>>
<1> DEFINE I == B!Item \cup {B!Closing}
<1>1. queue \in Seq(I)
  BY DEF BInv, BTypes
<1> HIDE DEF I
<1>2. /\ B!FramesOf(queue) = B!FramesOf(Tail(queue)) \cup ({Head(queue).frame} \ {0})
      /\ Tail(queue) \in Seq(I) /\ Head(queue) \in I /\ Head(queue) = queue[1]
      /\ Len(queue) \in Nat \ {0} /\ Len(Tail(queue)) = Len(queue) - 1
      /\ \A i \in 1..Len(Tail(queue)) : Tail(queue)[i] = queue[i + 1]
  BY <1>1, FramesOfTail
<1>3. Queued = Queued' \cup ({Head(queue).frame} \ {0})
  BY <1>2 DEF Queued
<1>4. \A i \in 1..Len(queue') : i + 1 \in 1..Len(queue) /\ queue'[i] = queue[i + 1]
  BY <1>2
<1>5. \A i, j \in 1..Len(queue) :
          i < j => queue[i].frame # 0 /\ (queue[j].frame # 0 => queue[i].frame < queue[j].frame)
  BY DEF BInv, InStep
<1>6. \A i, j \in 1..Len(queue') :
          i < j => queue'[i].frame # 0 /\ (queue'[j].frame # 0 => queue'[i].frame < queue'[j].frame)
  <2> TAKE i, j \in 1..Len(queue')
  <2> HAVE i < j
  <2>1. i + 1 \in 1..Len(queue) /\ j + 1 \in 1..Len(queue) /\ i + 1 < j + 1
    BY <1>4
  <2> QED BY <1>4, <1>5, <2>1
<1>7. ASSUME Head(queue).frame # 0, NEW g \in Queued' PROVE Head(queue).frame < g
  <2> DEFINE rest == Tail(queue)
  <2>1. g \in B!FramesOf(rest) /\ rest \in Seq(I)
    BY <1>2 DEF Queued
  <2> HIDE DEF rest
  <2>2. g # 0 /\ \E i \in 1..Len(rest) : g = rest[i].frame
    BY <2>1, InFramesOf
  <2>3. PICK i \in 1..Len(queue') : g = queue'[i].frame /\ g # 0
    BY <2>2 DEF rest
  <2>4. i + 1 \in 1..Len(queue) /\ 1 \in 1..Len(queue) /\ 1 < i + 1 /\ g = queue[i + 1].frame
    BY <1>2, <1>4, <2>3
  <2> QED BY <1>2, <1>5, <2>3, <2>4
<1>8. ASSUME Head(queue).frame = 0 PROVE queue' = <<>>
  <2>1. Len(queue) < 2
    <3> SUFFICES ASSUME ~(Len(queue) < 2) PROVE FALSE
      OBVIOUS
    <3>1. 1 \in 1..Len(queue) /\ 2 \in 1..Len(queue) /\ 1 < 2
      BY <1>2
    <3> QED BY <1>2, <1>5, <1>8, <3>1
  <2>2. Len(queue') = 0 /\ queue' \in Seq(I)
    BY <1>2, <2>1
  <2> QED BY <2>2
<1> QED BY <1>2, <1>3, <1>4, <1>6, <1>7, <1>8 DEF I

(* A frame taken off the queue is not yet settled nor in the batch, and is  *)
(* later than every other the worker has.                                   *)
LEMMA BTake ==
    ASSUME BInv, consumer = "getting", queue # <<>>, Head(queue) \in B!Item, queue' = Tail(queue)
    PROVE  /\ Head(queue).frame \in 1..N
           /\ Head(queue).frame \notin Got
           /\ inHand = <<>> /\ B!FramesOf(inHand) = {}
<1> N \in Nat BY ScopeAssumption
<1>1. Head(queue).frame \in 1..N /\ Head(queue).frame # 0
  BY ItemFrame
<1>2. Head(queue).frame \in Queued
  BY <1>1, BTook
<1>3. Head(queue).frame \notin Got
  BY <1>1, <1>2 DEF BInv, InStep
<1>4. inHand = <<>>
  BY DEF BInv, Apart
<1> QED BY <1>1, <1>3, <1>4, FramesOfEmpty

LEMMA BTakeInv ==
    ASSUME BInv, consumer = "getting", queue # <<>>, Head(queue) \in B!Item, queue' = Tail(queue),
           UNCHANGED <<cursor, holding, producer, broke, abort, failing, stop, result>>,
           consumer' \in {"getting", "full", "boundary"},
           Got' = Got \cup {Head(queue).frame}, Apart',
           batch' \in Seq(B!Item), inHand' \in Seq(B!Item), written' \subseteq 1..N, skipped' \subseteq 1..N
    PROVE  BInv'
<1> N \in Nat BY ScopeAssumption
<1> DEFINE f == Head(queue).frame
<1>1. f \in 1..N /\ f # 0
  BY ItemFrame
<1>2. /\ Queued = Queued' \cup {f} /\ \A g \in Queued' : f < g
      /\ queue' \in Seq(B!Item \cup {B!Closing})
      /\ \A i \in 1..Len(queue') : i + 1 \in 1..Len(queue) /\ queue'[i] = queue[i + 1]
      /\ \A i, j \in 1..Len(queue') :
            i < j => queue'[i].frame # 0 /\ (queue'[j].frame # 0 => queue'[i].frame < queue'[j].frame)
  BY <1>1, BTook
<1> HIDE DEF f
<1>3. BTypes' /\ Holding'
  BY <1>2 DEF BInv, BTypes, Holding
<1>4. InStep'
  <2>1. \A g \in Got', h \in Queued' : g < h
    BY <1>2 DEF BInv, InStep, f
  <2>2. Got' \cup Queued' = Got \cup Queued
    BY <1>2 DEF f
  <2>3. \A g \in Got' \cup Queued' : g < (IF producer' = "putting" THEN cursor' - 1 ELSE cursor')
    BY <2>2 DEF BInv, InStep
  <2> QED BY <1>2, <2>1, <2>3 DEF InStep
<1>5. ~abort /\ ~abort'
  BY DEF BInv, NoneLost
<1>6. NoneLost'
  <2>1. 1..(cursor - 1) \subseteq Got' \cup Queued' \cup B!FramesOf(holding)
    BY <1>2, <1>5 DEF BInv, NoneLost, f
  <2> QED BY <1>5, <2>1 DEF NoneLost
<1>7. BEnding'
  <2>1. \A i \in 1..Len(queue') : queue'[i].frame = 0 => producer' = "ended"
    BY <1>2 DEF BInv, BEnding
  <2>2. result = "none"
    BY DEF BInv, BEnding
  <2> QED BY <2>1, <2>2 DEF BInv, BEnding, Exhausted
<1> QED BY <1>3, <1>4, <1>6, <1>7 DEF BInv

LEMMA BTakeMarker ==
    ASSUME BInv, B!TakeMarker
    PROVE  BInv' /\ Head(queue).frame \in 1..N /\ Head(queue).frame \notin Done
<1>1. /\ consumer = "getting" /\ queue # <<>> /\ Head(queue).shape = NoShape /\ queue' = Tail(queue)
      /\ skipped' = skipped \cup {Head(queue).frame}
      /\ UNCHANGED <<cursor, holding, producer, broke, abort, batch, inHand, consumer, failing, stop,
                     written, result>>
  BY DEF B!TakeMarker, B!Took, B!production, B!consumption
<1>2. Head(queue) \in B!Item
  BY <1>1, BTook, ItemFrame
<1>3. /\ Head(queue).frame \in 1..N /\ Head(queue).frame \notin Got
      /\ inHand = <<>> /\ B!FramesOf(inHand) = {}
  BY <1>1, <1>2, BTake
<1>4. Got' = Got \cup {Head(queue).frame} /\ Done' = Done \cup {Head(queue).frame}
  BY <1>1 DEF Got, Done
<1>5. Apart'
  BY <1>1, <1>3, <1>4 DEF BInv, Apart, Got
<1>6. BInv'
  BY <1>1, <1>2, <1>3, <1>4, <1>5, BTakeInv DEF BInv, BTypes
<1> QED BY <1>3, <1>6 DEF Got

LEMMA BTakeFrame == ASSUME BInv, B!TakeFrame PROVE BInv'
<1>1. /\ consumer = "getting" /\ queue # <<>> /\ Head(queue).shape \in Shapes /\ queue' = Tail(queue)
      /\ batch' = Append(batch, Head(queue)) /\ consumer' \in {"getting", "full"}
      /\ UNCHANGED <<cursor, holding, producer, broke, abort, inHand, failing, stop,
                     written, skipped, result>>
  BY DEF B!TakeFrame, B!Took, B!production, B!outcome, B!FullOrGetting
<1>2. Head(queue) \in B!Item
  BY <1>1, BTook, ItemFrame
<1>3. /\ Head(queue).frame \in 1..N /\ Head(queue).frame \notin Got
      /\ inHand = <<>> /\ B!FramesOf(inHand) = {}
  BY <1>1, <1>2, BTake
<1>4. batch \in Seq(B!Item) /\ inHand \in Seq(B!Item) /\ written \subseteq 1..N /\ skipped \subseteq 1..N
  BY DEF BInv, BTypes
<1>5. batch' \in Seq(B!Item)
  BY <1>1, <1>2, <1>4
<1>6. B!FramesOf(batch') = B!FramesOf(batch) \cup {Head(queue).frame}
  BY <1>1, <1>2, <1>4, FramesOfAppend, ItemFrame
<1>7. Got' = Got \cup {Head(queue).frame} /\ Done' = Done
  BY <1>1, <1>6 DEF Got, Done
<1>8. Apart'
  BY <1>1, <1>3, <1>6, <1>7 DEF BInv, Apart, Got
<1> QED BY <1>1, <1>2, <1>4, <1>5, <1>7, <1>8, BTakeInv

LEMMA BTakeBoundary == ASSUME BInv, B!TakeBoundary PROVE BInv'
<1>1. /\ consumer = "getting" /\ queue # <<>> /\ Head(queue).shape \in Shapes /\ queue' = Tail(queue)
      /\ inHand' = <<Head(queue)>> /\ consumer' = "boundary"
      /\ UNCHANGED <<cursor, holding, producer, broke, abort, batch, failing, stop,
                     written, skipped, result>>
  BY DEF B!TakeBoundary, B!Took, B!production, B!outcome
<1>2. Head(queue) \in B!Item
  BY <1>1, BTook, ItemFrame
<1>3. /\ Head(queue).frame \in 1..N /\ Head(queue).frame \notin Got
      /\ inHand = <<>> /\ B!FramesOf(inHand) = {}
  BY <1>1, <1>2, BTake
<1>4. batch \in Seq(B!Item) /\ written \subseteq 1..N /\ skipped \subseteq 1..N
  BY DEF BInv, BTypes
<1>5. inHand' \in Seq(B!Item)
  BY <1>1, <1>2
<1>6. B!FramesOf(inHand') = {Head(queue).frame}
  BY <1>1, <1>2, FramesOfOne, ItemFrame
<1>7. Got' = Got \cup {Head(queue).frame} /\ Done' = Done
  BY <1>1, <1>3, <1>6 DEF Got, Done
<1>8. Apart'
  BY <1>1, <1>3, <1>6, <1>7 DEF BInv, Apart, Got
<1> QED BY <1>1, <1>2, <1>4, <1>5, <1>7, <1>8, BTakeInv

LEMMA BTakeClose == ASSUME BInv, B!TakeClose PROVE BInv'
<1>1. /\ consumer = "getting" /\ consumer' = "last" /\ queue # <<>> /\ Head(queue) = B!Closing
      /\ queue' = Tail(queue)
      /\ UNCHANGED <<cursor, holding, producer, broke, abort, batch, inHand, failing, stop,
                     written, skipped, result>>
  BY DEF B!TakeClose, B!Took, B!production, B!outcome
<1>2. Head(queue).frame = 0
  BY <1>1, ItemFrame
<1>3. queue' = <<>> /\ Queued' = Queued
  BY <1>1, <1>2, BTook
<1>4. ~abort /\ producer = "ended" /\ result = "none"
  <2>1. 1 \in 1..Len(queue) /\ queue[1] = Head(queue)
    <3>1. queue \in Seq(B!Item \cup {B!Closing})
      BY DEF BInv, BTypes
    <3> QED BY <1>1, <3>1
  <2> QED BY <1>1, <1>2, <2>1 DEF BInv, NoneLost, BEnding
<1>5. Exhausted
  BY <1>4 DEF BInv, BEnding
<1>6. Got' = Got /\ Done' = Done
  BY <1>1 DEF Got, Done
<1>7. BTypes' /\ Holding'
  BY <1>1, <1>3 DEF BInv, BTypes, Holding
<1>8. InStep'
  <2>1. \A i \in 1..Len(queue') : FALSE
    BY <1>3
  <2> QED BY <1>1, <1>3, <1>6, <2>1 DEF BInv, InStep
<1>9. Apart' /\ NoneLost'
  BY <1>1, <1>3, <1>4, <1>6 DEF BInv, Apart, NoneLost
<1>10. BEnding'
  <2>1. \A i \in 1..Len(queue') : FALSE
    BY <1>3
  <2> QED BY <1>1, <1>3, <1>4, <1>5, <2>1 DEF BEnding, Exhausted
<1> QED BY <1>7, <1>8, <1>9, <1>10 DEF BInv

(* One flush settles the batch, each frame one way or the other. *)
LEMMA BFlush ==
    ASSUME BInv, B!Flush
    PROVE  /\ BInv'
           /\ \E bad \in SUBSET B!FramesOf(batch) :
                 /\ skipped' = skipped \cup bad
                 /\ written' = written \cup (B!FramesOf(batch) \ bad)
           /\ B!FramesOf(batch) \cap Done = {}
<1> N \in Nat BY ScopeAssumption
<1>1. /\ consumer \in {"boundary", "full", "last"}
      /\ batch' = inHand /\ inHand' = <<>>
      /\ consumer' = CASE consumer = "boundary" -> B!FullOrGetting(inHand)
                       [] consumer = "full"     -> "checking"
                       [] consumer = "last"     -> "leaving"
      /\ UNCHANGED <<cursor, holding, producer, broke, queue, abort, failing, stop, result>>
  BY DEF B!Flush, B!production
<1>2. PICK bad \in SUBSET B!FramesOf(batch) :
          /\ skipped' = skipped \cup bad
          /\ written' = written \cup (B!FramesOf(batch) \ bad)
  BY DEF B!Flush
<1>3. /\ consumer = "boundary" => consumer' \in {"getting", "full"}
      /\ consumer = "full" => consumer' = "checking"
      /\ consumer = "last" => consumer' = "leaving"
  BY <1>1 DEF B!FullOrGetting
<1>4. Done' = Done \cup B!FramesOf(batch)
  BY <1>2 DEF Done
<1>5. B!FramesOf(batch') = B!FramesOf(inHand) /\ B!FramesOf(inHand') = {}
  BY <1>1, FramesOfEmpty
<1>6. Got' = Got /\ Queued' = Queued
  BY <1>1, <1>4, <1>5 DEF Got, Queued, Done
<1>7. B!FramesOf(batch) \subseteq 1..N
  BY BRanges DEF BInv
<1>8. BTypes' /\ Holding'
  BY <1>1, <1>2, <1>7 DEF BInv, BTypes, Holding
<1>9. InStep'
  BY <1>1, <1>6 DEF BInv, InStep
<1>10. Apart'
  BY <1>1, <1>4, <1>5 DEF BInv, Apart
<1>11. ~abort
  BY <1>1 DEF BInv, NoneLost
<1>12. NoneLost'
  BY <1>1, <1>3, <1>6, <1>11 DEF BInv, NoneLost
<1>13. consumer = "last" => stop \/ broke \/ 1..N \subseteq Done'
  <2> SUFFICES ASSUME consumer = "last", cursor = N + 1 PROVE 1..N \subseteq Done'
    BY DEF BInv, BEnding, Exhausted
  <2>1. Queued = {} /\ B!FramesOf(holding) = {} /\ B!FramesOf(inHand) = {}
    BY FramesOfEmpty DEF BInv, BEnding, Holding, Apart, Queued
  <2>2. Got = Done'
    BY <1>4, <2>1 DEF Got
  <2>3. 1..(cursor - 1) \subseteq Done'
    BY <1>11, <2>1, <2>2 DEF BInv, NoneLost
  <2>4. cursor - 1 = N
    OBVIOUS
  <2> QED BY <2>3, <2>4
<1>14. BEnding'
  <2>1. result = "none"
    BY <1>1 DEF BInv, BEnding
  <2> QED BY <1>1, <1>3, <1>13, <2>1 DEF BInv, BEnding, Exhausted
<1>15. B!FramesOf(batch) \cap Done = {}
  BY DEF BInv, Apart
<1> QED BY <1>2, <1>8, <1>9, <1>10, <1>12, <1>14, <1>15 DEF BInv

(* The steps that move neither a frame nor the producer. *)
LEMMA BMove ==
    ASSUME BInv,
           UNCHANGED <<cursor, holding, producer, broke, queue, batch, inHand, written, skipped>>,
           stop => stop', failing => failing', abort => abort',
           consumer' \in {"getting", "full", "last", "checking"} => inHand = <<>>,
           abort' <=> consumer' \in {"draining", "joining", "ended"},
           consumer' = "last" => consumer = "last",
           consumer' \in {"leaving", "draining", "joining"} =>
              \/ consumer \in {"leaving", "draining", "joining"}
              \/ stop' \/ failing',
           result' # "none" => consumer' = "ended"
    PROVE  BInv'
<1>1. /\ BTypes' /\ Holding' /\ InStep' /\ Got' = Got /\ Queued' = Queued /\ Done' = Done
  BY BSame DEF BInv
<1>2. Apart'
  BY <1>1 DEF BInv, Apart
<1>3. NoneLost'
  BY <1>1 DEF BInv, NoneLost
<1>4. BEnding'
  <2>1. Exhausted => Exhausted'
    BY DEF Exhausted
  <2> QED BY <1>1, <2>1 DEF BInv, BEnding
<1> QED BY <1>1, <1>2, <1>3, <1>4 DEF BInv

LEMMA BDrain == ASSUME BInv, B!Drain PROVE BInv'
<1>1. /\ consumer = "draining"
      /\ UNCHANGED <<cursor, holding, producer, broke, abort, batch, inHand, failing, stop,
                     written, skipped, result>>
  BY DEF B!Drain, B!production, B!outcome
<1>2. CASE queue = <<>>
  <2>1. consumer' = "joining" /\ queue' = queue
    BY <1>2 DEF B!Drain
  <2> QED BY <1>1, <2>1, BMove DEF BInv, NoneLost, BEnding
<1>3. CASE queue # <<>>
  <2>1. queue' = Tail(queue) /\ consumer' = consumer
    BY <1>3 DEF B!Drain, B!Took
  <2>2. /\ queue' \in Seq(B!Item \cup {B!Closing})
        /\ Queued' \subseteq Queued
        /\ \A i \in 1..Len(queue') : i + 1 \in 1..Len(queue) /\ queue'[i] = queue[i + 1]
        /\ \A i, j \in 1..Len(queue') :
              i < j => queue'[i].frame # 0 /\ (queue'[j].frame # 0 => queue'[i].frame < queue'[j].frame)
    BY <1>3, <2>1, BTook
  <2>3. Got' = Got /\ Done' = Done
    BY <1>1 DEF Got, Done
  <2>4. BTypes' /\ Holding'
    BY <1>1, <2>2 DEF BInv, BTypes, Holding
  <2>5. InStep'
    BY <1>1, <2>2, <2>3 DEF BInv, InStep
  <2>6. Apart'
    BY <1>1, <2>1, <2>3 DEF BInv, Apart
  <2>7. abort
    BY <1>1 DEF BInv, NoneLost
  <2>8. NoneLost'
    BY <1>1, <2>1, <2>7 DEF BInv, NoneLost
  <2>9. BEnding'
    <3>1. \A i \in 1..Len(queue') : queue'[i].frame = 0 => producer' = "ended"
      BY <1>1, <2>2 DEF BInv, BEnding
    <3> QED BY <1>1, <2>1, <2>3, <3>1 DEF BInv, BEnding, Exhausted
  <2> QED BY <2>4, <2>5, <2>6, <2>8, <2>9 DEF BInv
<1> QED BY <1>2, <1>3

LEMMA BStep == ASSUME BInv, B!Next PROVE BInv'
<1>1. CASE B!Producing
  BY <1>1, BRead, BLeaveLoop, BPut, BGiveUp, BPutClose DEF B!Producing
<1>2. CASE B!IteratorBreaks
  BY <1>2, BIteratorBreaks
<1>3. CASE B!Consuming
  <2>1. CASE B!Check
    BY <2>1, BMove DEF B!Check, B!production, B!outcome, BInv, Apart, NoneLost, BEnding
  <2>2. CASE B!Abort
    BY <2>2, BMove DEF B!Abort, B!production, B!outcome, BInv, Apart, NoneLost, BEnding
  <2>3. CASE B!Join
    BY <2>3, BMove DEF B!Join, B!production, BInv, Apart, NoneLost, BEnding
  <2> QED BY <1>3, <2>1, <2>2, <2>3, BTakeMarker, BTakeFrame, BTakeBoundary, BTakeClose, BFlush, BDrain
          DEF B!Consuming
<1>4. CASE B!WriteRaises
  BY <1>4, BMove DEF B!WriteRaises, B!production, B!outcome, BInv, Apart, NoneLost, BEnding
<1>5. CASE B!RequestStop
  BY <1>5, BMove DEF B!RequestStop, B!production, B!consumption, B!outcome, BInv, Apart, NoneLost, BEnding
<1>6. CASE B!Over
  BY <1>6, BMove DEF B!Over, B!vars, BInv, Apart, NoneLost, BEnding
<1> QED BY <1>1, <1>2, <1>3, <1>4, <1>5, <1>6 DEF B!Next

LEMMA BKeepsPromise ==
    ASSUME BInv, B!Next
    PROVE  [Promise!Next]_(Promise!vars)
<1> N \in Nat BY ScopeAssumption
<1>1. CASE B!Producing
  BY <1>1, PStutter DEF B!Producing, B!Read, B!LeaveLoop, B!Put, B!GiveUp, B!PutClose,
                        B!consumption, B!outcome
<1>2. CASE B!IteratorBreaks
  BY <1>2, PFail DEF B!IteratorBreaks, B!consumption, B!outcome
<1>3. CASE B!TakeMarker
  <2>1. Head(queue).frame \in 1..N /\ Head(queue).frame \notin Done
    BY <1>3, BTakeMarker
  <2>2. /\ result = "none" /\ written' = written \cup {} /\ skipped' = skipped \cup {Head(queue).frame}
        /\ UNCHANGED <<stop, failing, broke, result>>
    BY <1>3 DEF B!TakeMarker, B!production, B!consumption, BInv, BEnding
  <2>3. {} \subseteq 1..N /\ {Head(queue).frame} \subseteq 1..N /\ {} \cap {Head(queue).frame} = {}
        /\ {} \cap Done = {} /\ {Head(queue).frame} \cap Done = {}
    BY <2>1
  <2> QED BY <2>2, <2>3, PSettle
<1>4. CASE B!Flush
  <2>1. PICK bad \in SUBSET B!FramesOf(batch) :
            /\ skipped' = skipped \cup bad
            /\ written' = written \cup (B!FramesOf(batch) \ bad)
    BY <1>4, BFlush
  <2>2. B!FramesOf(batch) \cap Done = {} /\ B!FramesOf(batch) \subseteq 1..N
    BY <1>4, BFlush, BRanges DEF BInv
  <2>3. result = "none" /\ UNCHANGED <<stop, failing, broke, result>>
    BY <1>4 DEF B!Flush, B!production, BInv, BEnding
  <2> DEFINE good == B!FramesOf(batch) \ bad
  <2>4. /\ good \subseteq 1..N /\ bad \subseteq 1..N /\ good \cap bad = {}
        /\ good \cap Done = {} /\ bad \cap Done = {} /\ written' = written \cup good
    BY <2>1, <2>2
  <2> HIDE DEF good
  <2> QED BY <2>1, <2>3, <2>4, PSettle
<1>5. CASE B!Join
  <2>1. /\ consumer = "joining" /\ result = "none" /\ result' = IF failing \/ broke THEN "raised" ELSE "returned"
        /\ UNCHANGED <<written, skipped, stop, failing, broke>>
    BY <1>5 DEF B!Join, B!production, BInv, BEnding
  <2>2. CASE failing \/ broke
    BY <2>1, <2>2, PRaise
  <2>3. CASE ~(failing \/ broke)
    <3>1. stop \/ 1..N \subseteq Done
      BY <2>1, <2>3 DEF BInv, BEnding
    <3> QED BY <2>1, <2>3, <3>1, PReturn
  <2> QED BY <2>2, <2>3
<1>6. CASE B!TakeFrame \/ B!TakeBoundary \/ B!TakeClose \/ B!Check \/ B!Abort \/ B!Drain
  BY <1>6, PStutter DEF B!TakeFrame, B!TakeBoundary, B!TakeClose, B!Check, B!Abort, B!Drain,
                        B!production, B!outcome
<1>7. CASE B!WriteRaises
  BY <1>7, PFail DEF B!WriteRaises, B!production, B!outcome
<1>8. CASE B!RequestStop
  BY <1>8, PRequestStop DEF B!RequestStop, B!production, B!consumption, B!outcome
<1>9. CASE B!Over
  BY <1>9, PStutter DEF B!Over, B!vars
<1> QED BY <1>1, <1>2, <1>3, <1>4, <1>5, <1>6, <1>7, <1>8, <1>9 DEF B!Next, B!Consuming

-----------------------------------------------------------------------------
LEMMA InitJInv == RunInit => JInv
<1> SUFFICES ASSUME RunInit PROVE JInv
  OBVIOUS
<1> N \in Nat BY ScopeAssumption
<1>1. /\ cursor = 1 /\ inflight = <<>> /\ current = 0 /\ pc = "filling" /\ pending = <<>>
      /\ holding = <<>> /\ producer = "reading" /\ broke = FALSE /\ queue = <<>> /\ abort = FALSE
      /\ batch = <<>> /\ inHand = <<>> /\ consumer = "getting" /\ failing = FALSE
      /\ written = {} /\ skipped = {} /\ result = "none"
  BY DEF RunInit, B!Init, W!Init
<1>2. /\ Counted = {} /\ Done = {} /\ Got = {} /\ Queued = {} /\ Elems(pending) = {}
      /\ B!FramesOf(batch) = {} /\ B!FramesOf(inHand) = {}
  BY <1>1, ElemsOfEmpty, FramesOfEmpty DEF Counted, Done, Got, Queued
<1>3. WSettled
  <2>1. \A f \in 1..current : FALSE
    BY <1>1
  <2> QED BY <1>1, <1>2, <2>1 DEF WSettled
<1>4. WEnding
  BY <1>1 DEF WEnding
<1>5. BTypes /\ Holding
  BY <1>1 DEF BTypes, Holding
<1>6. InStep /\ BEnding
  <2>1. \A i \in 1..Len(queue) : FALSE
    BY <1>1
  <2> QED BY <1>1, <1>2, <2>1 DEF InStep, BEnding
<1>7. Apart
  BY <1>1, <1>2 DEF Apart
<1>8. NoneLost
  <2>1. \A f \in 1..(cursor - 1) : FALSE
    BY <1>1
  <2> QED BY <1>1, <2>1 DEF NoneLost
<1> QED BY <1>1, <1>3, <1>4, <1>5, <1>6, <1>7, <1>8 DEF JInv, BInv

LEMMA SameJInv == ASSUME JInv, UNCHANGED runVars PROVE JInv'
<1>1. UNCHANGED <<windowed, cursor, stop, failing, written, skipped, result>>
      /\ UNCHANGED <<holding, producer, broke, queue, abort, batch, inHand, consumer>>
      /\ UNCHANGED <<inflight, current, pc, pending>>
  BY DEF runVars, batched, inOrder
<1>2. WSettled /\ WEnding => WSettled' /\ WEnding'
  BY <1>1, WStay
<1>3. BInv => BInv'
  BY <1>1, BMove DEF BInv, Apart, NoneLost, BEnding
<1> QED BY <1>1, <1>2, <1>3 DEF JInv

LEMMA StepJInv == RunInv /\ JInv /\ [RunNext]_runVars => JInv'
<1> SUFFICES ASSUME RunInv, JInv, [RunNext]_runVars PROVE JInv'
  OBVIOUS
<1>1. CASE Stateless(B!Next)
  <2>1. ~windowed /\ windowed' = windowed /\ B!Next
    BY <1>1 DEF Stateless
  <2> QED BY <2>1, BStep DEF JInv
<1>2. CASE Windowed(W!Next)
  <2>1. windowed /\ windowed' = windowed /\ broke' = broke /\ W!Next
    BY <1>2 DEF Windowed, batched
  <2> QED BY <2>1, WStep DEF RunInv, JInv
<1>3. CASE UNCHANGED runVars
  BY <1>3, SameJInv
<1> QED BY <1>1, <1>2, <1>3 DEF RunNext

(* Every step of either path is a step of Sweep.tla or a stutter.           *)
LEMMA StepKeepsPromise == RunInv /\ JInv /\ [RunNext]_runVars => [Promise!Next]_(Promise!vars)
<1> SUFFICES ASSUME RunInv, JInv, [RunNext]_runVars PROVE [Promise!Next]_(Promise!vars)
  OBVIOUS
<1>1. CASE Stateless(B!Next)
  <2>1. ~windowed /\ B!Next
    BY <1>1 DEF Stateless
  <2> QED BY <2>1, BKeepsPromise DEF JInv
<1>2. CASE Windowed(W!Next)
  <2>1. windowed /\ broke' = broke /\ W!Next
    BY <1>2 DEF Windowed, batched
  <2> QED BY <2>1, WKeepsPromise DEF RunInv, JInv
<1>3. CASE UNCHANGED runVars
  BY <1>3, PStutter DEF runVars, batched
<1> QED BY <1>1, <1>2, <1>3 DEF RunNext

(* Whichever path run_analysis takes and whatever its batches, pools and    *)
(* queues, it settles each frame at most once, reports once, returns only   *)
(* with nothing left or after a stop, and raises whenever it failed.        *)
THEOREM PromiseKept == RunSpec => Promise!Safety
<1>1. RunInit => Promise!Init
  BY DEF RunInit, B!Init, Promise!Init
<1>2. RunSpec => [](RunInv /\ JInv)
  BY RunInvInit, RunInvStep, InitJInv, StepJInv, PTL DEF RunSpec
<1> QED BY <1>1, <1>2, StepKeepsPromise, PTL DEF RunSpec, Promise!Safety

-----------------------------------------------------------------------------
(* The oracle worker never passes a frame over, whatever the number of      *)
(* frames, threads, jobs, faults and clears.  NothingPassedOver speaks of   *)
(* the watermark alone; that it survives a step needs what every thread     *)
(* may still do to it: a tick of the present epoch starts where the         *)
(* watermark stands and has settled what it is about to pass, a tick of an  *)
(* older epoch cannot write, and of the threads alive at once only the      *)
(* newest gets as far as an advance.                                        *)

(* A nonempty set of naturals has a least element, and a greatest one if it *)
(* is bounded.                                                              *)
LEMMA LeastNatural ==
    ASSUME NEW S, S \subseteq Nat, S # {}
    PROVE  \E m \in S : \A y \in S : m <= y
<1>1. PICK m \in S : \A y \in S : <<y, m>> \notin OpToRel(<, Nat)
  BY NatLessThanWellFounded, WFMin
<1>2. \A y \in S : y \in Nat /\ m \in Nat /\ ~(y < m)
  BY <1>1 DEF OpToRel
<1> QED BY <1>2

LEMMA MinFacts ==
    ASSUME NEW S, S \subseteq Nat, S # {}
    PROVE  Min(S) \in S /\ \A y \in S : Min(S) <= y
BY LeastNatural DEF Min

LEMMA MaxFacts ==
    ASSUME NEW n \in Nat, NEW S, S \subseteq 0..n, S # {}
    PROVE  Max(S) \in S /\ \A y \in S : y <= Max(S)
<1> DEFINE T == {n - y : y \in S}
<1>1. T \subseteq Nat
  BY \A y \in S : n - y \in Nat
<1>2. T # {}
  OBVIOUS
<1>3. PICK m \in T : \A z \in T : m <= z
  <2> HIDE DEF T
  <2> QED BY <1>1, <1>2, LeastNatural
<1>4. PICK x \in S : \A y \in S : n - x <= n - y
  BY <1>3
<1>5. Max(S) \in S /\ \A y \in S : Max(S) >= y
  <2>1. \A y \in S : x >= y
    BY <1>4
  <2> QED BY <2>1 DEF Max
<1> QED BY <1>5

(* The last id of a set of frames numbered from 1.                          *)
LastOf(S) == IF S = {} THEN 0 ELSE Max(S)

LEMMA LastFacts ==
    ASSUME NEW n \in Nat
    PROVE  \A S \in SUBSET (1..n) : /\ LastOf(S) \in 0..n
                                    /\ \A i \in S : i <= LastOf(S)
                                    /\ S # {} => LastOf(S) \in S
<1>1. ASSUME NEW S \in SUBSET (1..n), S # {} PROVE Max(S) \in S /\ \A i \in S : i <= Max(S)
  <2>1. S \subseteq 0..n
    OBVIOUS
  <2> QED BY <1>1, <2>1, MaxFacts
<1>2. \A S \in SUBSET (1..n) : S # {} => LastOf(S) \in 1..n
  BY <1>1 DEF LastOf
<1> QED BY <1>1, <1>2 DEF LastOf

-----------------------------------------------------------------------------

(* A chunk ends within its window, a running worker has a thread, and one   *)
(* that is starting has a thread to start.                                  *)
StepsOK ==
    /\ \A w \in ThreadIds : tick[w].pc \in {"detecting", "swept"} => tick[w].hi <= tick[w].until
    /\ starting # "none" => latest < Threads
    /\ running => latest > 0

UsedOK == used \in [arrivals : 0..MaxArrivals, jobs : 0..MaxJobs, faults : 0..MaxFaults,
                    clears : 0..MaxClears]

TypeInv == TypeOK /\ StepsOK

(* What the property is claimed for: a purge of the newest frames does not  *)
(* fall into a run, and a start and a clear do not overlap.                 *)
Orderly == "purge" \notin Allowed /\ "overlap" \notin Allowed

(* All threads but the one in charge are told to stop.                      *)
OneInCharge ==
    /\ stopped = IF running THEN 1..(latest - 1) ELSE 1..latest
    /\ running => starting = "none"
    /\ \A w \in ThreadIds : w > latest => tick[w] = Resting
    /\ starting = "none" \/ clearing = "none"

EpochsPast == \A w \in ThreadIds : tick[w].epoch <= epoch

(* A horizon read and not yet seeded lies within the store.                 *)
HorizonsHeld ==
    /\ starting = "read" => horizon <= LastId
    /\ clearing = "read" /\ running => clearTo <= LastId

(* From the seed of a start to the stop, clears apart.                      *)
Promised == clearing = "none" /\ (running \/ starting = "seeded")

Tried(i) == i \in swept \cup failed

WatermarkHonest ==
    Promised => /\ watermark <= LastId
                /\ \A i \in due : i <= watermark => Tried(i)

Settling(w) ==
    LET t == tick[w]
    IN  /\ t.pc = "snapped" => t.lo <= watermark
        /\ t.pc \in {"chunk", "detecting", "swept"} => t.lo - 1 <= watermark /\ t.until <= LastId
        /\ t.pc = "detecting" => \A i \in due : t.lo <= i /\ i <= t.hi => Tried(i) \/ i \in t.batch
        /\ t.pc = "swept" => \A i \in due : t.lo <= i /\ i <= t.hi => Tried(i)

TickHonest(w) ==
    Promised /\ tick[w].epoch = epoch =>
        /\ tick[w].pc = "snapped" => tick[w].lo <= LastId
        /\ w \in stopped => tick[w].pc \notin {"detecting", "swept"}
        /\ w \notin stopped => Settling(w)

TicksHonest == \A w \in ThreadIds : TickHonest(w)

IInv == OneInCharge /\ EpochsPast /\ HorizonsHeld /\ WatermarkHonest /\ TicksHonest

-----------------------------------------------------------------------------
LEMMA LastIdFacts ==
    ASSUME TypeOK
    PROVE  /\ LastId \in 0..MaxId
           /\ \A i \in rows : i <= LastId
           /\ rows # {} => LastId \in rows
<1>1. LastId = LastOf(rows) /\ rows \in SUBSET (1..MaxId)
  BY DEF LastId, LastOf, TypeOK, Ids
<1> QED BY <1>1, LastFacts, BoundsAssumption

LEMMA LastIdFactsNext ==
    ASSUME TypeOK'
    PROVE  /\ LastId' \in 0..MaxId
           /\ \A i \in rows' : i <= LastId'
           /\ rows' # {} => LastId' \in rows'
<1>1. LastId' = LastOf(rows') /\ rows' \in SUBSET (1..MaxId)
  BY DEF LastId, LastOf, TypeOK, Ids
<1> QED BY <1>1, LastFacts, BoundsAssumption

-----------------------------------------------------------------------------
LEMMA TypeInit == Init => TypeInv
<1> SUFFICES ASSUME Init PROVE TypeInv
  OBVIOUS
<1> USE BoundsAssumption, ThreadsAssumption DEF UsedOK
<1>1. Resting \in Ticks
  BY DEF Resting, Ticks
<1>2. tick \in [ThreadIds -> Ticks] /\ \A w \in ThreadIds : tick[w].pc = "none"
  BY <1>1 DEF Init, Resting
<1>3. UsedOK
  BY DEF Init
<1>4. TypeOK
  <2>1. MaxId \in Nat /\ Threads \in Nat
    OBVIOUS
  <2>2. watermark \in 0..MaxId /\ horizon \in 0..MaxId /\ clearTo \in 0..MaxId
    BY <2>1 DEF Init
  <2>3. latest \in 0..Threads /\ epoch \in Nat
    BY <2>1 DEF Init
  <2> QED BY <1>2, <1>3, <2>2, <2>3 DEF TypeOK, Init
<1>5. StepsOK
  BY <1>2 DEF StepsOK, Init
<1> QED BY <1>4, <1>5 DEF TypeInv

(* What a step of thread w leaves: the other threads where they were.       *)
Moves(w, t) == t \in Ticks /\ (t.pc \in {"detecting", "swept"} => t.hi <= t.until) /\ To(w, t)

LEMMA MovesType ==
    ASSUME TypeInv, NEW w \in ThreadIds, NEW t, Moves(w, t)
    PROVE  /\ tick' \in [ThreadIds -> Ticks]
           /\ \A u \in ThreadIds : tick'[u].pc \in {"detecting", "swept"} => tick'[u].hi <= tick'[u].until
           /\ tick'[w] = t
           /\ \A u \in ThreadIds : u # w => tick'[u] = tick[u]
<1>1. tick \in [ThreadIds -> Ticks] /\ t \in Ticks /\ tick' = [tick EXCEPT ![w] = t]
  BY DEF TypeInv, TypeOK, Moves, To
<1>2. tick'[w] = t /\ \A u \in ThreadIds : u # w => tick'[u] = tick[u]
  BY <1>1
<1>3. tick' \in [ThreadIds -> Ticks]
  BY <1>1
<1>4. \A u \in ThreadIds : tick'[u].pc \in {"detecting", "swept"} => tick'[u].hi <= tick'[u].until
  BY <1>2 DEF TypeInv, StepsOK, Moves
<1> QED BY <1>2, <1>3, <1>4

LEMMA RestMoves ==
    ASSUME TypeInv, NEW w \in ThreadIds
    PROVE  /\ Rest(w) => Moves(w, [Resting EXCEPT !.pc = "waiting"])
           /\ To(w, Resting) => Moves(w, Resting)
<1>1. Resting \in Ticks /\ [Resting EXCEPT !.pc = "waiting"] \in Ticks
  BY BoundsAssumption DEF Resting, Ticks
<1>2. Resting.pc = "none" /\ [Resting EXCEPT !.pc = "waiting"].pc = "waiting"
  BY DEF Resting
<1> QED BY <1>1, <1>2 DEF Moves, Rest

LEMMA PcMoves ==
    ASSUME TypeInv, NEW w \in ThreadIds, NEW p \in {"waiting", "awake", "swept"},
           p = "swept" => tick[w].pc = "detecting"
    PROVE  Moves(w, [tick[w] EXCEPT !.pc = p]) <=> To(w, [tick[w] EXCEPT !.pc = p])
BY DEF Moves, TypeInv, TypeOK, StepsOK, Ticks

(* The index after a re-seed, or after frames have gone.                    *)
IndexOK == rows \subseteq Ids /\ swept \subseteq rows /\ due \subseteq rows /\ failed \subseteq due

LEMMA StoreType ==
    ASSUME TypeInv, Arrive \/ Evict \/ PurgeNewest
    PROVE  TypeInv'
<1> USE BoundsAssumption, SlicesAssumption, ThreadsAssumption DEF UsedOK
<1>1. CASE Arrive
  <2>1. LastId \in 0..MaxId
    BY LastIdFacts DEF TypeInv
  <2>2. IndexOK'
    BY <1>1, <2>1 DEF Arrive, IndexOK, TypeInv, TypeOK, Ids
  <2>3. UsedOK'
    BY <1>1 DEF Arrive, TypeInv, TypeOK
  <2> QED BY <1>1, <2>2, <2>3
          DEF Arrive, IndexOK, TypeInv, TypeOK, StepsOK, mark, manager, routes
<1>2. ASSUME NEW i, Delete(i) PROVE TypeInv'
  <2>1. IndexOK'
    BY <1>2 DEF Delete, IndexOK, TypeInv, TypeOK
  <2> QED BY <1>2, <2>1 DEF Delete, IndexOK, TypeInv, TypeOK, StepsOK, mark, manager, routes
<1> QED BY <1>1, <1>2 DEF Evict, PurgeNewest

LEMMA RoutesType ==
    ASSUME TypeInv, Starting \/ Stop \/ Clearing
    PROVE  TypeInv'
<1> USE BoundsAssumption, SlicesAssumption, ThreadsAssumption DEF UsedOK
<1>0. LastId \in 0..MaxId
  BY LastIdFacts DEF TypeInv
<1>1. ASSUME NEW v \in 0..MaxId, Seed(v), UNCHANGED <<rows, swept>>
      PROVE  IndexOK' /\ watermark' \in 0..MaxId /\ epoch' \in Nat
  BY <1>1 DEF Seed, IndexOK, TypeInv, TypeOK
<1>2. CASE StartReads
  BY <1>0, <1>2 DEF StartReads, TypeInv, TypeOK, StepsOK, index, mark, manager
<1>3. CASE StartSeeds
  <2>1. IndexOK' /\ watermark' \in 0..MaxId /\ epoch' \in Nat
    BY <1>1, <1>3 DEF StartSeeds, TypeInv, TypeOK
  <2> QED BY <1>3, <2>1 DEF StartSeeds, IndexOK, TypeInv, TypeOK, StepsOK, manager
<1>4. CASE StartSpawns
  <2>1. latest + 1 \in ThreadIds /\ latest' \in 0..Threads
    BY <1>4 DEF StartSpawns, TypeInv, TypeOK, StepsOK, ThreadIds
  <2>2. Moves(latest + 1, [Resting EXCEPT !.pc = "waiting"])
    BY <1>4, <2>1, RestMoves DEF StartSpawns, Rest, To
  <2>3. /\ tick' \in [ThreadIds -> Ticks]
        /\ \A u \in ThreadIds : tick'[u].pc \in {"detecting", "swept"} => tick'[u].hi <= tick'[u].until
    BY <2>1, <2>2, MovesType
  <2> QED BY <1>4, <2>1, <2>3 DEF StartSpawns, TypeInv, TypeOK, StepsOK, index, mark
<1>5. CASE Stop
  <2>1. latest \in ThreadIds
    BY <1>5 DEF Stop, TypeInv, TypeOK, StepsOK, ThreadIds
  <2> QED BY <1>5, <2>1 DEF Stop, TypeInv, TypeOK, StepsOK, index, mark, routes
<1>6. CASE ClearWipes
  <2>1. IndexOK'
    BY <1>6 DEF ClearWipes, IndexOK
  <2>2. UsedOK'
    BY <1>6 DEF ClearWipes, TypeInv, TypeOK
  <2> QED BY <1>6, <2>1, <2>2 DEF ClearWipes, IndexOK, TypeInv, TypeOK, StepsOK, mark, manager
<1>7. CASE ClearReads
  BY <1>0, <1>7 DEF ClearReads, TypeInv, TypeOK, StepsOK, index, mark, manager
<1>8. CASE ClearResets
  <2>1. IndexOK' /\ watermark' \in 0..MaxId /\ epoch' \in Nat
    BY <1>1, <1>8 DEF ClearResets, TypeInv, TypeOK
  <2> QED BY <1>8, <2>1 DEF ClearResets, IndexOK, TypeInv, TypeOK, StepsOK, manager
<1> QED BY <1>2, <1>3, <1>4, <1>5, <1>6, <1>7, <1>8 DEF Starting, Clearing

LEMMA TicksType ==
    ASSUME TypeInv, NEW w \in ThreadIds, Ticking(w) \/ FrameFails(w) \/ DetectRaises(w)
    PROVE  TypeInv'
<1> USE BoundsAssumption, SlicesAssumption, ThreadsAssumption DEF UsedOK
<1>0. LastId \in 0..MaxId /\ tick[w] \in Ticks /\ epoch \in Nat /\ watermark \in 0..MaxId
  BY LastIdFacts DEF TypeInv, TypeOK
<1>1. ASSUME NEW t, Moves(w, t),
             IndexOK', watermark' \in 0..MaxId,
             UsedOK',
             UNCHANGED <<epoch, manager, routes, busy>>
      PROVE  TypeInv'
  <2>1. /\ tick' \in [ThreadIds -> Ticks]
        /\ \A u \in ThreadIds : tick'[u].pc \in {"detecting", "swept"} => tick'[u].hi <= tick'[u].until
    BY <1>1, MovesType
  <2> QED BY <1>1, <2>1 DEF TypeInv, TypeOK, StepsOK, IndexOK, manager, routes
<1>2. ASSUME NEW t, Moves(w, t), UNCHANGED <<index, mark, manager, routes, busy, used>>
      PROVE  TypeInv'
  <2>1. IndexOK' /\ watermark' \in 0..MaxId
    BY <1>2 DEF IndexOK, TypeInv, TypeOK, index, mark
  <2>2. UsedOK'
    BY <1>2 DEF TypeInv, TypeOK
  <2> QED BY <1>1, <1>2, <2>1, <2>2 DEF mark
<1>3. CASE Exit(w) \/ Skip(w) \/ Yield(w)
  BY <1>2, <1>3, RestMoves DEF Exit, Skip, Yield
<1>4. CASE Wake(w)
  BY <1>2, <1>4, PcMoves DEF Wake
<1>5. CASE Snapshot(w)
  <2>1. Moves(w, [tick[w] EXCEPT !.pc = "snapped", !.epoch = epoch, !.lo = watermark])
    BY <1>0, <1>5 DEF Snapshot, Moves, Ticks
  <2> QED BY <1>2, <1>5, <2>1 DEF Snapshot
<1>6. CASE Window(w)
  <2> DEFINE until == Smaller(LastId, tick[w].lo + PerTick)
             t == [tick[w] EXCEPT !.pc = "chunk", !.lo = @ + 1, !.until = until]
  <2>1. CASE until = tick[w].lo
    BY <1>2, <1>6, <2>1, RestMoves DEF Window
  <2>2. CASE until # tick[w].lo
    <3>1. until \in 0..MaxId /\ tick[w].lo + 1 \in 0..MaxId
      BY <1>0, <1>6, <2>2 DEF Window, Smaller, Ticks
    <3>2. To(w, t)
      BY <1>6, <2>2 DEF Window
    <3> HIDE DEF until
    <3>3. Moves(w, t)
      BY <1>0, <3>1, <3>2 DEF Moves, Ticks
    <3> QED BY <1>2, <1>6, <3>3 DEF Window
  <2> QED BY <2>1, <2>2
<1>7. CASE Clamp(w)
  <2>1. IndexOK' /\ watermark' \in 0..MaxId
    BY <1>0, <1>7 DEF Clamp, Advance, IndexOK, TypeInv, TypeOK, index
  <2>2. UsedOK'
    BY <1>7 DEF Clamp, TypeInv, TypeOK
  <2> QED BY <1>1, <1>7, <2>1, <2>2, RestMoves DEF Clamp
<1>8. CASE Detect(w)
  <2> DEFINE hi == Smaller(tick[w].lo + Chunk - 1, tick[w].until)
             b == {i \in rows \ swept : tick[w].lo <= i /\ i <= hi}
  <2>1. hi \in 0..MaxId /\ hi <= tick[w].until /\ b \in SUBSET Ids
    BY <1>0 DEF Smaller, Ticks, TypeInv, TypeOK
  <2>2. To(w, [tick[w] EXCEPT !.pc = "detecting", !.hi = hi, !.batch = b])
    BY <1>8 DEF Detect
  <2> HIDE DEF hi, b
  <2>3. Moves(w, [tick[w] EXCEPT !.pc = "detecting", !.hi = hi, !.batch = b])
    BY <1>0, <2>1, <2>2 DEF Moves, Ticks
  <2> QED BY <1>2, <1>8, <2>3 DEF Detect
<1>9. CASE Write(w) \/ FrameFails(w)
  <2> DEFINE i == Min(tick[w].batch)
  <2>1. IndexOK'
    BY <1>9 DEF Write, FrameFails, IndexOK, TypeInv, TypeOK, mark
  <2>2. watermark' \in 0..MaxId
    BY <1>9 DEF Write, FrameFails, TypeInv, TypeOK, mark
  <2>3. UsedOK'
    BY <1>9 DEF Write, FrameFails, TypeInv, TypeOK
  <2>4. To(w, [tick[w] EXCEPT !.batch = @ \ {i}]) /\ tick[w].pc = "detecting"
    BY <1>9 DEF Write, FrameFails
  <2> HIDE DEF i
  <2>5. Moves(w, [tick[w] EXCEPT !.batch = @ \ {i}])
    BY <1>0, <2>4 DEF Moves, Ticks, TypeInv, StepsOK
  <2> QED BY <1>1, <1>9, <2>1, <2>2, <2>3, <2>5 DEF Write, FrameFails, mark
<1>10. CASE DetectReturns(w)
  <2>1. CASE w \in stopped
    BY <1>2, <1>10, <2>1, RestMoves DEF DetectReturns
  <2>2. CASE w \notin stopped
    <3>1. To(w, [tick[w] EXCEPT !.pc = "swept", !.batch = {}]) /\ tick[w].pc = "detecting"
      BY <1>10, <2>2 DEF DetectReturns
    <3>2. Moves(w, [tick[w] EXCEPT !.pc = "swept", !.batch = {}])
      BY <1>0, <3>1 DEF Moves, Ticks, TypeInv, StepsOK
    <3> QED BY <1>2, <1>10, <3>2 DEF DetectReturns
  <2> QED BY <2>1, <2>2
<1>11. CASE DetectRaises(w)
  <2>1. IndexOK' /\ watermark' \in 0..MaxId
    BY <1>11 DEF DetectRaises, IndexOK, TypeInv, TypeOK, index, mark
  <2>2. UsedOK'
    BY <1>11 DEF DetectRaises, TypeInv, TypeOK
  <2> QED BY <1>1, <1>11, <2>1, <2>2, RestMoves DEF DetectRaises, mark
<1>12. CASE ChunkDone(w)
  <2>1. tick[w].hi \in 0..MaxId /\ tick[w].until \in 0..MaxId /\ tick[w].hi <= tick[w].until
    BY <1>0, <1>12 DEF ChunkDone, Ticks, TypeInv, StepsOK
  <2>2. IndexOK' /\ watermark' \in 0..MaxId
    BY <1>0, <1>12, <2>1 DEF ChunkDone, Advance, IndexOK, TypeInv, TypeOK, index
  <2>3. UsedOK'
    BY <1>12 DEF ChunkDone, TypeInv, TypeOK
  <2>4. CASE tick[w].epoch # epoch \/ tick[w].hi = tick[w].until
    BY <1>1, <1>12, <2>2, <2>3, <2>4, RestMoves DEF ChunkDone
  <2>5. CASE ~(tick[w].epoch # epoch \/ tick[w].hi = tick[w].until)
    <3>1. tick[w].hi + 1 \in 0..MaxId
      BY <2>1, <2>5
    <3>2. Moves(w, [tick[w] EXCEPT !.pc = "chunk", !.lo = tick[w].hi + 1])
      BY <1>0, <1>12, <2>5, <3>1 DEF ChunkDone, Moves, Ticks
    <3> QED BY <1>1, <1>12, <2>2, <2>3, <3>2 DEF ChunkDone
  <2> QED BY <2>4, <2>5
<1> QED BY <1>3, <1>4, <1>5, <1>6, <1>7, <1>8, <1>9, <1>10, <1>11, <1>12 DEF Ticking

LEMMA TypeStep == TypeInv /\ [Next]_vars => TypeInv'
<1> SUFFICES ASSUME TypeInv, [Next]_vars PROVE TypeInv'
  OBVIOUS
<1> USE BoundsAssumption DEF UsedOK
<1>1. CASE JobStarts
  <2>1. UsedOK'
    BY <1>1 DEF JobStarts, TypeInv, TypeOK
  <2> QED BY <1>1, <2>1 DEF JobStarts, TypeInv, TypeOK, StepsOK, index, mark, manager, routes
<1>2. CASE JobEnds
  BY <1>2 DEF JobEnds, TypeInv, TypeOK, StepsOK, index, mark, manager, routes
<1>3. CASE UNCHANGED vars
  BY <1>3 DEF vars, TypeInv, TypeOK, StepsOK
<1> QED BY <1>1, <1>2, <1>3, StoreType, RoutesType, TicksType DEF Next

(* Every variable keeps its type: every step stays within what the code's   *)
(* counters, ids and threads can be.                                        *)
THEOREM TypeCorrect == Spec => []TypeInv
<1> QED BY TypeInit, TypeStep, PTL DEF Spec

-----------------------------------------------------------------------------
LEMMA InitIInv == Init => IInv
<1> SUFFICES ASSUME Init PROVE IInv
  OBVIOUS
<1>1. ~Promised
  BY DEF Init, Promised
<1>2. OneInCharge /\ EpochsPast /\ HorizonsHeld
  BY DEF Init, OneInCharge, EpochsPast, HorizonsHeld, Resting
<1> QED BY <1>1, <1>2 DEF IInv, WatermarkHonest, TicksHonest, TickHonest

(* A frame due after a step was due before and keeps what it had, or is     *)
(* newer than every frame there was.                                        *)
DueKept ==
    \A i \in due' : (i \in due /\ (Tried(i) => Tried(i)')) \/ i > LastId

LEMMA TickStays ==
    ASSUME TypeInv, TypeInv', TicksHonest, NEW u \in ThreadIds,
           Promised' => Promised,
           UNCHANGED <<epoch, stopped>>, tick'[u] = tick[u],
           LastId <= LastId', u \notin stopped => watermark <= watermark', DueKept
    PROVE  TickHonest(u)'
<1> SUFFICES ASSUME Promised', tick'[u].epoch = epoch'
             PROVE  /\ tick'[u].pc = "snapped" => tick'[u].lo <= LastId'
                    /\ u \in stopped' => tick'[u].pc \notin {"detecting", "swept"}
                    /\ u \notin stopped' => Settling(u)'
  BY DEF TickHonest
<1>1. /\ tick[u] \in Ticks
      /\ LastId \in Nat /\ LastId' \in Nat /\ watermark \in Nat /\ watermark' \in Nat
      /\ due \subseteq Ids /\ due' \subseteq Ids
  BY LastIdFacts, LastIdFactsNext DEF TypeInv, TypeOK
<1>2. /\ tick[u].pc = "snapped" => tick[u].lo <= LastId
      /\ u \in stopped => tick[u].pc \notin {"detecting", "swept"}
      /\ u \notin stopped => Settling(u)
  BY DEF TicksHonest, TickHonest
<1>3. tick'[u].pc = "snapped" => tick'[u].lo <= LastId'
  BY <1>1, <1>2 DEF Ticks
<1>4. ASSUME u \notin stopped PROVE Settling(u)'
  <2>1. /\ tick'[u].pc = "snapped" => tick'[u].lo <= watermark'
        /\ tick'[u].pc \in {"chunk", "detecting", "swept"} =>
              tick'[u].lo - 1 <= watermark' /\ tick'[u].until <= LastId'
    BY <1>1, <1>2, <1>4 DEF Settling, Ticks
  <2>2. ASSUME tick[u].pc \in {"detecting", "swept"}, NEW i \in due', i <= tick[u].hi
        PROVE  i \in due /\ (Tried(i) => Tried(i)')
    <3>1. tick[u].hi <= tick[u].until /\ tick[u].until <= LastId
      BY <1>2, <1>4, <2>2 DEF TypeInv, StepsOK, Settling
    <3>2. i \in Nat
      BY <1>1 DEF Ids
    <3>3. ~(i > LastId)
      BY <1>1, <2>2, <3>1, <3>2 DEF Ticks
    <3> QED BY <3>3 DEF DueKept
  <2>3. tick'[u].pc = "detecting" =>
          \A i \in due' : tick'[u].lo <= i /\ i <= tick'[u].hi => Tried(i)' \/ i \in tick'[u].batch
    BY <1>2, <1>4, <2>2 DEF Settling
  <2>4. tick'[u].pc = "swept" =>
          \A i \in due' : tick'[u].lo <= i /\ i <= tick'[u].hi => Tried(i)'
    BY <1>2, <1>4, <2>2 DEF Settling
  <2> QED BY <2>1, <2>3, <2>4 DEF Settling
<1> QED BY <1>2, <1>3, <1>4

LEMMA WatermarkStays ==
    ASSUME TypeInv, TypeInv', WatermarkHonest,
           Promised' => Promised, watermark' = watermark, LastId <= LastId', DueKept
    PROVE  WatermarkHonest'
<1> SUFFICES ASSUME Promised'
             PROVE  /\ watermark' <= LastId'
                    /\ \A i \in due' : i <= watermark' => Tried(i)'
  BY DEF WatermarkHonest
<1>1. /\ LastId \in Nat /\ LastId' \in Nat /\ watermark \in Nat /\ due' \subseteq Nat
  BY LastIdFacts, LastIdFactsNext DEF TypeInv, TypeOK, Ids
<1>2. watermark <= LastId /\ \A i \in due : i <= watermark => Tried(i)
  BY DEF WatermarkHonest
<1>3. ASSUME NEW i \in due', i <= watermark' PROVE Tried(i)'
  <2>1. i \in Nat /\ ~(i > LastId)
    BY <1>1, <1>2, <1>3
  <2> QED BY <1>2, <1>3, <2>1 DEF DueKept
<1> QED BY <1>1, <1>2, <1>3

-----------------------------------------------------------------------------
(* An eviction leaves the newest frame.                                     *)
LEMMA EvictKeepsLast ==
    ASSUME TypeOK, TypeOK', Evict
    PROVE  LastId <= LastId'
<1>1. rows \subseteq Ids /\ Cardinality(rows) > 1 /\ rows' = rows \ {Min(rows)}
  BY DEF Evict, Delete, TypeOK
<1>2. rows # {}
  BY <1>1, FS_EmptySet
<1>3. Min(rows) \in rows /\ \A y \in rows : Min(rows) <= y
  <2>1. rows \subseteq Nat
    BY <1>1 DEF Ids
  <2> QED BY <1>2, <2>1, MinFacts
<1>4. LastId \in rows /\ \A i \in rows : i <= LastId
  BY <1>2, LastIdFacts
<1>5. LastId # Min(rows)
  <2> SUFFICES ASSUME LastId = Min(rows) PROVE FALSE
    OBVIOUS
  <2>1. \A i \in rows : i = LastId
    <3> TAKE i \in rows
    <3>1. i \in Nat /\ LastId \in Nat /\ i <= LastId /\ LastId <= i
      BY <1>1, <1>3, <1>4 DEF Ids
    <3> QED BY <3>1
  <2>2. rows = {LastId}
    BY <1>4, <2>1
  <2>3. Cardinality(rows) = 1
    BY <2>2, FS_Singleton
  <2> QED BY <1>1, <2>3
<1>6. LastId \in rows'
  BY <1>1, <1>4, <1>5
<1> QED BY <1>6, LastIdFactsNext

LEMMA StoreKeeps ==
    ASSUME TypeInv, TypeInv', IInv, Orderly, Arrive \/ Evict \/ PurgeNewest
    PROVE  IInv'
<1> USE DEF IInv
<1>0. /\ UNCHANGED <<mark, manager, routes, tick>>
      /\ Promised' <=> Promised
  BY DEF Arrive, Evict, PurgeNewest, Delete, Promised, manager, routes
<1>1. OneInCharge' /\ EpochsPast'
  BY <1>0 DEF OneInCharge, EpochsPast, mark, manager, routes
<1>2. CASE Arrive \/ Evict
  <2>1. LastId <= LastId'
    <3>1. CASE Arrive
      <4>1. LastId + 1 \in rows'
        BY <3>1 DEF Arrive
      <4>2. LastId \in Nat /\ LastId' \in Nat /\ LastId + 1 <= LastId'
        BY <4>1, LastIdFacts, LastIdFactsNext DEF TypeInv
      <4> QED BY <4>2
    <3> QED BY <1>2, <3>1, EvictKeepsLast DEF TypeInv
  <2>2. DueKept
    <3>1. LastId \in Nat
      BY LastIdFacts DEF TypeInv
    <3> QED BY <1>2, <3>1 DEF DueKept, Tried, Arrive, Evict, Delete
  <2>3. HorizonsHeld'
    <3>1. LastId \in Nat /\ LastId' \in Nat /\ horizon \in Nat /\ clearTo \in Nat
      BY LastIdFacts, LastIdFactsNext DEF TypeInv, TypeOK
    <3> QED BY <1>0, <2>1, <3>1 DEF HorizonsHeld, routes, manager
  <2>4. WatermarkHonest'
    BY <1>0, <2>1, <2>2, WatermarkStays DEF mark
  <2>5. ASSUME NEW u \in ThreadIds PROVE TickHonest(u)'
    <3>1. watermark <= watermark'
      BY <1>0 DEF mark, TypeInv, TypeOK
    <3> QED BY <1>0, <2>1, <2>2, <3>1, TickStays DEF mark, manager
  <2> QED BY <1>1, <2>3, <2>4, <2>5 DEF TicksHonest
<1>3. CASE PurgeNewest
  <2>1. ~running /\ starting = "none"
    BY <1>3 DEF PurgeNewest, Orderly
  <2>2. ~Promised'
    BY <1>0, <2>1 DEF Promised
  <2>3. HorizonsHeld'
    BY <1>0, <2>1 DEF HorizonsHeld, routes, manager
  <2> QED BY <1>1, <2>2, <2>3 DEF WatermarkHonest, TicksHonest, TickHonest
<1> QED BY <1>2, <1>3

(* A re-seed at a horizon the store reaches: what is due lies beyond it,    *)
(* and no tick under way is of the new epoch.                               *)
LEMMA SeedPromises ==
    ASSUME TypeInv, TypeInv', EpochsPast, NEW v \in 0..MaxId, Seed(v),
           UNCHANGED <<rows, tick>>, Promised' => v <= LastId
    PROVE  EpochsPast' /\ WatermarkHonest' /\ TicksHonest'
<1>1. /\ epoch \in Nat /\ epoch' = epoch + 1 /\ watermark' = v /\ LastId' = LastId
      /\ due' = {i \in due : i > v} /\ v \in Nat /\ due \subseteq Nat
  BY BoundsAssumption DEF Seed, LastId, TypeInv, TypeOK, Ids
<1>2. \A w \in ThreadIds : tick'[w].epoch \in Nat /\ tick'[w].epoch < epoch'
  BY <1>1 DEF EpochsPast, TypeInv, TypeOK, Ticks
<1>3. EpochsPast'
  BY <1>1, <1>2 DEF EpochsPast
<1>4. TicksHonest'
  BY <1>1, <1>2 DEF TicksHonest, TickHonest
<1>5. \A i \in due' : ~(i <= watermark')
  BY <1>1
<1>6. WatermarkHonest'
  BY <1>1, <1>5 DEF WatermarkHonest
<1> QED BY <1>3, <1>4, <1>6

LEMMA StartingKeeps ==
    ASSUME TypeInv, TypeInv', IInv, Orderly, Starting
    PROVE  IInv'
<1> USE DEF IInv
<1>1. CASE StartReads
  <2>1. ~Promised' /\ LastId' = LastId /\ LastId \in Nat
    BY <1>1, LastIdFacts DEF StartReads, Orderly, Promised, manager, index, LastId, TypeInv
  <2>2. OneInCharge' /\ EpochsPast' /\ HorizonsHeld'
    BY <1>1, <2>1 DEF StartReads, Orderly, OneInCharge, EpochsPast, HorizonsHeld, mark, manager
  <2> QED BY <2>1, <2>2 DEF WatermarkHonest, TicksHonest, TickHonest
<1>2. CASE StartSeeds
  <2>1. OneInCharge' /\ HorizonsHeld'
    BY <1>2 DEF StartSeeds, OneInCharge, HorizonsHeld, manager, LastId
  <2>2. horizon <= LastId /\ horizon \in 0..MaxId
    BY <1>2 DEF StartSeeds, HorizonsHeld, TypeInv, TypeOK
  <2>3. EpochsPast' /\ WatermarkHonest' /\ TicksHonest'
    BY <1>2, <2>2, SeedPromises DEF StartSeeds
  <2> QED BY <2>1, <2>3
<1>3. CASE StartSpawns
  <2> DEFINE n == latest + 1
  <2>1. /\ n \in ThreadIds /\ latest \in Nat /\ ~running
        /\ latest' = n /\ running' /\ starting' = "none" /\ clearing = "none"
        /\ UNCHANGED <<index, mark, stopped, clearing, clearTo, horizon>>
    BY <1>3 DEF StartSpawns, TypeInv, TypeOK, StepsOK, OneInCharge, ThreadIds
  <2>2. Moves(n, [Resting EXCEPT !.pc = "waiting"])
    BY <1>3, <2>1, RestMoves DEF StartSpawns, Rest, To
  <2>3. /\ tick'[n] = [Resting EXCEPT !.pc = "waiting"]
        /\ \A u \in ThreadIds : u # n => tick'[u] = tick[u]
    BY <2>1, <2>2, MovesType
  <2>4. tick'[n].pc = "waiting" /\ tick'[n].epoch = 0
    BY <2>3 DEF Resting
  <2>5. OneInCharge'
    <3>1. stopped = 1..latest
      BY <2>1 DEF OneInCharge
    <3>2. stopped' = 1..(latest' - 1)
      BY <2>1, <3>1
    <3>3. ASSUME NEW w \in ThreadIds, w > latest' PROVE tick'[w] = Resting
      <4>1. w \in Nat /\ w > latest /\ w # n
        BY <2>1, <3>3 DEF ThreadIds
      <4> QED BY <2>3, <4>1 DEF OneInCharge
    <3> QED BY <2>1, <3>2, <3>3 DEF OneInCharge
  <2>6. EpochsPast'
    <3>1. epoch' = epoch /\ epoch \in Nat
      BY <2>1 DEF mark, TypeInv, TypeOK
    <3>2. ASSUME NEW w \in ThreadIds PROVE tick'[w].epoch <= epoch'
      <4>1. CASE w = n
        BY <2>4, <3>1, <4>1
      <4>2. CASE w # n
        BY <2>3, <3>1, <4>2 DEF EpochsPast
      <4> QED BY <4>1, <4>2
    <3> QED BY <3>2 DEF EpochsPast
  <2>7. LastId' = LastId /\ LastId \in Nat /\ watermark \in Nat /\ watermark' = watermark /\ DueKept
    BY <2>1, LastIdFacts DEF index, mark, LastId, DueKept, Tried, TypeInv, TypeOK
  <2>8. HorizonsHeld'
    BY <2>1 DEF HorizonsHeld
  <2>9. Promised
    BY <1>3, <2>1 DEF Promised, StartSpawns
  <2>10. WatermarkHonest'
    BY <2>7, <2>9, WatermarkStays
  <2>11. ASSUME NEW u \in ThreadIds PROVE TickHonest(u)'
    <3>1. CASE u = n
      BY <2>4, <3>1 DEF TickHonest, Settling
    <3>2. CASE u # n
      BY <2>1, <2>3, <2>7, <2>9, <3>2, TickStays DEF mark
    <3> QED BY <3>1, <3>2
  <2> QED BY <2>5, <2>6, <2>8, <2>10, <2>11 DEF TicksHonest
<1> QED BY <1>1, <1>2, <1>3 DEF Starting

LEMMA StopKeeps ==
    ASSUME TypeInv, TypeInv', IInv, Stop
    PROVE  IInv'
<1> USE DEF IInv
<1>1. /\ running /\ ~running' /\ stopped' = stopped \cup {latest} /\ latest' = latest
      /\ UNCHANGED <<index, mark, routes, tick>>
  BY DEF Stop
<1>2. ~Promised'
  BY <1>1 DEF OneInCharge, Promised, routes
<1>3. stopped' = 1..latest'
  <2>1. latest \in Nat /\ latest > 0 /\ stopped = 1..(latest - 1)
    BY <1>1 DEF OneInCharge, TypeInv, TypeOK, StepsOK
  <2> QED BY <1>1, <2>1
<1>4. OneInCharge' /\ EpochsPast'
  BY <1>1, <1>3 DEF OneInCharge, EpochsPast, mark, routes
<1>5. HorizonsHeld'
  BY <1>1 DEF HorizonsHeld, routes, index, LastId
<1> QED BY <1>2, <1>4, <1>5 DEF WatermarkHonest, TicksHonest, TickHonest

LEMMA ClearingKeeps ==
    ASSUME TypeInv, TypeInv', IInv, Orderly, Clearing
    PROVE  IInv'
<1> USE DEF IInv
<1>1. CASE ClearWipes \/ ClearReads
  <2>1. /\ clearing' \in {"wiped", "read"} /\ UNCHANGED <<mark, manager, starting, horizon, tick>>
        /\ starting = "none"
    BY <1>1 DEF ClearWipes, ClearReads, OneInCharge, Orderly
  <2>2. ~Promised'
    BY <2>1 DEF Promised
  <2>3. OneInCharge' /\ EpochsPast'
    BY <2>1 DEF OneInCharge, EpochsPast, mark, manager
  <2>4. LastId' \in Nat
    BY LastIdFactsNext DEF TypeInv
  <2>5. HorizonsHeld'
    BY <1>1, <2>1, <2>4 DEF HorizonsHeld, ClearWipes, ClearReads, index, LastId
  <2> QED BY <2>2, <2>3, <2>5 DEF WatermarkHonest, TicksHonest, TickHonest
<1>2. CASE ClearResets
  <2>1. /\ UNCHANGED <<rows, manager, starting, horizon, tick>> /\ clearing = "read" /\ clearing' = "none"
        /\ Seed(clearTo) /\ starting = "none"
    BY <1>2 DEF ClearResets, OneInCharge
  <2>2. OneInCharge'
    BY <2>1 DEF OneInCharge, manager
  <2>3. HorizonsHeld'
    BY <2>1 DEF HorizonsHeld
  <2>4. clearTo \in 0..MaxId /\ (Promised' => clearTo <= LastId)
    BY <2>1 DEF HorizonsHeld, Promised, manager, TypeInv, TypeOK
  <2>5. EpochsPast' /\ WatermarkHonest' /\ TicksHonest'
    BY <2>1, <2>4, SeedPromises
  <2> QED BY <2>2, <2>3, <2>5
<1> QED BY <1>1, <1>2 DEF Clearing

-----------------------------------------------------------------------------
(* A step of thread w: what is left to show is what it makes of its own     *)
(* tick and of the watermark.                                               *)
LEMMA ThreadKeeps ==
    ASSUME TypeInv, TypeInv', IInv, NEW w \in ThreadIds, NEW t, Moves(w, t),
           tick[w].pc # "none", t.epoch <= epoch,
           UNCHANGED <<rows, due, epoch, manager, routes>>,
           swept \subseteq swept', failed \subseteq failed',
           watermark' = watermark \/ w \notin stopped \/ ~Promised,
           TickHonest(w)', WatermarkHonest'
    PROVE  IInv'
<1> USE DEF IInv
<1>1. /\ \A u \in ThreadIds : u # w => tick'[u] = tick[u]
      /\ tick'[w] = t
  BY MovesType
<1>2. LastId' = LastId /\ LastId \in Nat /\ (Promised' <=> Promised)
  BY LastIdFacts DEF LastId, Promised, manager, routes, TypeInv
<1>3. ~(w > latest)
  BY DEF OneInCharge, Resting
<1>4. OneInCharge'
  <2>1. \A u \in ThreadIds : u > latest => tick'[u] = Resting
    BY <1>1, <1>3 DEF OneInCharge
  <2> QED BY <2>1 DEF OneInCharge, manager, routes
<1>5. EpochsPast'
  BY <1>1 DEF EpochsPast
<1>6. HorizonsHeld'
  BY <1>2 DEF HorizonsHeld, manager, routes
<1>7. DueKept
  BY DEF DueKept, Tried
<1>8. watermark \in Nat /\ watermark' \in Nat
  BY DEF TypeInv, TypeOK
<1>9. ASSUME NEW u \in ThreadIds, u # w PROVE TickHonest(u)'
  <2>1. CASE u \in stopped \/ watermark' = watermark
    BY <1>1, <1>2, <1>7, <1>8, <1>9, <2>1, TickStays DEF manager
  <2>2. CASE ~Promised
    BY <1>2, <2>2 DEF TickHonest
  <2>3. CASE u \notin stopped /\ w \notin stopped
    <3>1. latest \in Nat /\ u \in Nat /\ w \in Nat /\ w <= latest /\ w > 0 /\ u > 0
      BY <1>3 DEF TypeInv, TypeOK, ThreadIds
    <3>2. u > latest
      BY <1>9, <2>3, <3>1 DEF OneInCharge
    <3>3. tick'[u].pc = "none"
      BY <1>1, <1>9, <3>2 DEF OneInCharge, Resting
    <3> QED BY <3>3 DEF TickHonest, Settling
  <2> QED BY <2>1, <2>2, <2>3
<1> QED BY <1>4, <1>5, <1>6, <1>9 DEF TicksHonest

(* The same, where the watermark is left alone.                             *)
LEMMA ThreadKeepsMark ==
    ASSUME TypeInv, TypeInv', IInv, NEW w \in ThreadIds, NEW t, Moves(w, t),
           tick[w].pc # "none", t.epoch <= epoch,
           UNCHANGED <<rows, due, mark, manager, routes>>,
           swept \subseteq swept', failed \subseteq failed',
           TickHonest(w)'
    PROVE  IInv'
<1>1. LastId' = LastId /\ LastId \in Nat /\ (Promised' <=> Promised) /\ DueKept
  BY LastIdFacts DEF LastId, Promised, DueKept, Tried, manager, routes, TypeInv
<1>2. WatermarkHonest'
  BY <1>1, WatermarkStays DEF IInv, mark
<1> QED BY <1>2, ThreadKeeps DEF mark

(* A thread that gives its tick up.                                         *)
LEMMA RestKeeps ==
    ASSUME TypeInv, TypeInv', IInv, NEW w \in ThreadIds, Rest(w) \/ To(w, Resting),
           tick[w].pc # "none", UNCHANGED <<index, mark, manager, routes>>
    PROVE  IInv'
<1>1. PICK t \in {[Resting EXCEPT !.pc = "waiting"], Resting} : Moves(w, t)
  BY RestMoves
<1>2. t.pc \in {"none", "waiting"} /\ t.epoch = 0 /\ tick'[w] = t
  BY <1>1, MovesType DEF Resting
<1>3. TickHonest(w)'
  BY <1>2 DEF TickHonest, Settling
<1>4. t.epoch <= epoch
  BY <1>2 DEF TypeInv, TypeOK
<1> QED BY <1>1, <1>3, <1>4, ThreadKeepsMark DEF index

LEMMA ThreadSteps ==
    ASSUME TypeInv, TypeInv', IInv, NEW w \in ThreadIds,
           Ticking(w) \/ FrameFails(w) \/ DetectRaises(w)
    PROVE  IInv'
<1> USE BoundsAssumption, SlicesAssumption
<1>0. /\ tick[w] \in Ticks /\ tick[w].epoch <= epoch /\ epoch \in Nat /\ watermark \in Nat
      /\ LastId \in Nat /\ due \subseteq rows /\ rows \subseteq Ids /\ tick[w].lo \in Nat
      /\ \A i \in rows : i <= LastId
  BY LastIdFacts DEF TypeInv, TypeOK, Ticks, IInv, EpochsPast
<1>1. TickHonest(w)
  BY DEF IInv, TicksHonest
<1>2. UNCHANGED <<rows, manager, routes>> =>
        /\ LastId' = LastId
        /\ Promised' <=> Promised
        /\ stopped' = stopped
  BY DEF LastId, Promised, manager, routes
<1>3. CASE Exit(w) \/ Skip(w) \/ Yield(w) \/ DetectRaises(w)
  BY <1>3, RestKeeps DEF Exit, Skip, Yield, DetectRaises
<1>4. CASE Wake(w)
  <2> DEFINE t == [tick[w] EXCEPT !.pc = "awake"]
  <2>1. Moves(w, t)
    BY <1>4, PcMoves DEF Wake
  <2>2. t.pc = "awake" /\ t.epoch = tick[w].epoch
    BY <1>0 DEF Ticks
  <2> HIDE DEF t
  <2>3. tick'[w] = t
    BY <2>1, MovesType
  <2>4. TickHonest(w)'
    BY <2>2, <2>3 DEF TickHonest, Settling
  <2> QED BY <1>0, <1>4, <2>1, <2>2, <2>4, ThreadKeepsMark DEF Wake, index
<1>5. CASE Snapshot(w)
  <2> DEFINE t == [tick[w] EXCEPT !.pc = "snapped", !.epoch = epoch, !.lo = watermark]
  <2>1. Moves(w, t)
    BY <1>0, <1>5 DEF Snapshot, Moves, Ticks, TypeInv, TypeOK
  <2>2. t.pc = "snapped" /\ t.epoch = epoch /\ t.lo = watermark
    BY <1>0 DEF Ticks
  <2> HIDE DEF t
  <2>3. tick'[w] = t /\ UNCHANGED <<rows, manager, routes, watermark>>
    BY <1>5, <2>1, MovesType DEF Snapshot, index, mark
  <2>4. Promised' => watermark <= LastId'
    BY <1>2, <2>3 DEF IInv, WatermarkHonest
  <2>5. TickHonest(w)'
    BY <1>0, <2>2, <2>3, <2>4 DEF TickHonest, Settling
  <2> QED BY <1>0, <1>5, <2>1, <2>2, <2>5, ThreadKeepsMark DEF Snapshot, index
<1>6. CASE Window(w)
  <2> DEFINE until == Smaller(LastId, tick[w].lo + PerTick)
             t == [tick[w] EXCEPT !.pc = "chunk", !.lo = @ + 1, !.until = until]
  <2>1. CASE until = tick[w].lo
    BY <1>6, <2>1, RestKeeps DEF Window
  <2>2. CASE until # tick[w].lo
    <3>1. /\ until \in 0..MaxId /\ until <= LastId /\ tick[w].lo + 1 \in 0..MaxId
      BY <1>0, <1>6, <2>2, LastIdFacts DEF Window, Smaller, Ticks, TypeInv
    <3>2. To(w, t)
      BY <1>6, <2>2 DEF Window
    <3> HIDE DEF until
    <3>3. /\ Moves(w, t) /\ t.pc = "chunk" /\ t.lo = tick[w].lo + 1 /\ t.until = until
          /\ t.epoch = tick[w].epoch
      BY <1>0, <3>1, <3>2 DEF Moves, Ticks
    <3> HIDE DEF t
    <3>4. tick'[w] = t /\ UNCHANGED <<rows, manager, routes, watermark, epoch>>
      BY <1>6, <3>3, MovesType DEF Window, index, mark
    <3>5. t.lo - 1 = tick[w].lo
      BY <1>0, <3>3
    <3>6. TickHonest(w)'
      BY <1>1, <1>2, <1>6, <3>1, <3>3, <3>4, <3>5 DEF TickHonest, Settling, Window
    <3> QED BY <1>0, <1>6, <3>3, <3>6, ThreadKeepsMark DEF Window, index
  <2> QED BY <2>1, <2>2
<1>7. CASE Clamp(w)
  <2> DEFINE t == [Resting EXCEPT !.pc = "waiting"]
  <2>1. Moves(w, t) /\ t.pc = "waiting" /\ t.epoch = 0
    BY <1>7, RestMoves DEF Clamp, Resting
  <2> HIDE DEF t
  <2>2. tick'[w] = t /\ UNCHANGED <<rows, swept, due, failed, epoch, manager, routes>>
    BY <1>7, <2>1, MovesType DEF Clamp, index
  <2>3. TickHonest(w)'
    BY <2>1, <2>2 DEF TickHonest, Settling
  <2>4. Promised => watermark' = watermark
    <3>1. Promised => tick[w].epoch # epoch
      BY <1>0, <1>1, <1>7 DEF Clamp, TickHonest
    <3> QED BY <1>7, <3>1 DEF Clamp, Advance
  <2>5. WatermarkHonest'
    BY <1>2, <2>2, <2>4 DEF IInv, WatermarkHonest, Tried
  <2> QED BY <1>0, <1>7, <2>1, <2>2, <2>3, <2>4, <2>5, ThreadKeeps DEF Clamp
<1>8. CASE Detect(w)
  <2> DEFINE hi == Smaller(tick[w].lo + Chunk - 1, tick[w].until)
             b == {i \in rows \ swept : tick[w].lo <= i /\ i <= hi}
             t == [tick[w] EXCEPT !.pc = "detecting", !.hi = hi, !.batch = b]
  <2>1. hi \in 0..MaxId /\ hi <= tick[w].until /\ b \in SUBSET Ids
    BY <1>0 DEF Smaller, Ticks
  <2>2. To(w, t)
    BY <1>8 DEF Detect
  <2>3. \A i \in due : tick[w].lo <= i /\ i <= hi => i \in swept \/ i \in b
    BY <1>0
  <2> HIDE DEF hi, b
  <2>4. /\ Moves(w, t) /\ t.pc = "detecting" /\ t.lo = tick[w].lo /\ t.hi = hi
        /\ t.until = tick[w].until /\ t.epoch = tick[w].epoch /\ t.batch = b
    BY <1>0, <2>1, <2>2 DEF Moves, Ticks
  <2> HIDE DEF t
  <2>5. /\ tick'[w] = t /\ UNCHANGED <<rows, due, manager, routes, watermark, epoch, swept, failed>>
        /\ w \notin stopped /\ tick[w].pc = "chunk"
    BY <1>8, <2>4, MovesType DEF Detect, index, mark
  <2>6. TickHonest(w)'
    BY <1>1, <1>2, <2>3, <2>4, <2>5 DEF TickHonest, Settling, Tried
  <2> QED BY <1>0, <1>8, <2>4, <2>6, ThreadKeepsMark DEF Detect, index
<1>9. CASE Write(w) \/ FrameFails(w)
  <2> DEFINE i == Min(tick[w].batch)
             t == [tick[w] EXCEPT !.batch = @ \ {i}]
  <2>1. To(w, t) /\ tick[w].pc = "detecting"
    BY <1>9 DEF Write, FrameFails
  <2>2. UNCHANGED <<rows, due, mark, manager, routes>>
    BY <1>9 DEF Write, FrameFails
  <2>3. swept \subseteq swept' /\ failed \subseteq failed'
    BY <1>9 DEF Write, FrameFails
  <2>4. i \in due => i \in swept' \cup failed'
    <3> HIDE DEF i
    <3>1. CASE Write(w)
      <4>1. swept' = IF i \in rows THEN swept \cup {i} ELSE swept
        BY <3>1 DEF Write, i
      <4> QED BY <1>0, <4>1
    <3>2. CASE FrameFails(w)
      <4>1. failed' = failed \cup ({i} \cap due)
        BY <3>2 DEF FrameFails, i
      <4> QED BY <4>1
    <3> QED BY <1>9, <3>1, <3>2
  <2> HIDE DEF i
  <2>5. /\ Moves(w, t) /\ t.pc = "detecting" /\ t.lo = tick[w].lo /\ t.hi = tick[w].hi
        /\ t.until = tick[w].until /\ t.epoch = tick[w].epoch /\ t.batch = tick[w].batch \ {i}
    BY <1>0, <2>1 DEF Moves, Ticks, TypeInv, StepsOK
  <2> HIDE DEF t
  <2>6. tick'[w] = t
    BY <2>5, MovesType
  <2>7. \A j \in due : (Tried(j) \/ j \in tick[w].batch) => Tried(j)' \/ j \in t.batch
    BY <2>3, <2>4, <2>5 DEF Tried
  <2>8. TickHonest(w)'
    BY <1>1, <1>2, <2>1, <2>2, <2>5, <2>6, <2>7 DEF TickHonest, Settling, mark
  <2> QED BY <1>0, <2>1, <2>2, <2>3, <2>5, <2>8, ThreadKeepsMark
<1>10. CASE DetectReturns(w)
  <2>1. CASE w \in stopped
    BY <1>10, <2>1, RestKeeps DEF DetectReturns
  <2>2. CASE w \notin stopped
    <3> DEFINE t == [tick[w] EXCEPT !.pc = "swept", !.batch = {}]
    <3>1. To(w, t) /\ tick[w].pc = "detecting" /\ tick[w].batch = {}
      BY <1>10, <2>2 DEF DetectReturns
    <3>2. /\ Moves(w, t) /\ t.pc = "swept" /\ t.lo = tick[w].lo /\ t.hi = tick[w].hi
          /\ t.until = tick[w].until /\ t.epoch = tick[w].epoch
      BY <1>0, <3>1 DEF Moves, Ticks, TypeInv, StepsOK
    <3> HIDE DEF t
    <3>3. /\ tick'[w] = t
          /\ UNCHANGED <<rows, due, manager, routes, watermark, epoch, swept, failed>>
      BY <1>10, <3>2, MovesType DEF DetectReturns, index, mark
    <3>4. TickHonest(w)'
      BY <1>1, <1>2, <3>1, <3>2, <3>3, <2>2 DEF TickHonest, Settling, Tried
    <3> QED BY <1>0, <1>10, <3>2, <3>3, <3>4, ThreadKeepsMark DEF DetectReturns
  <2> QED BY <2>1, <2>2
<1>11. CASE ChunkDone(w)
  <2>0. /\ tick[w].pc = "swept" /\ UNCHANGED <<rows, due, swept, failed, epoch, manager, routes>>
        /\ tick[w].hi \in Nat /\ tick[w].until \in Nat
        /\ tick[w].hi <= tick[w].until
    BY <1>0, <1>11 DEF ChunkDone, index, Ticks, TypeInv, StepsOK
  <2> DEFINE live == Promised /\ tick[w].epoch = epoch
  <2>1. live => w \notin stopped /\ Settling(w)
    BY <1>1, <2>0 DEF TickHonest
  <2>2. Promised /\ ~live => watermark' = watermark
    BY <1>11 DEF ChunkDone, Advance
  <2>3. live => watermark' = tick[w].hi
    BY <1>11 DEF ChunkDone, Advance
  <2>4. WatermarkHonest'
    <3> SUFFICES ASSUME Promised
                 PROVE  /\ watermark' <= LastId
                        /\ \A i \in due : i <= watermark' => Tried(i)
      BY <1>2, <2>0 DEF WatermarkHonest, Tried
    <3>1. watermark <= LastId /\ \A i \in due : i <= watermark => Tried(i)
      BY DEF IInv, WatermarkHonest
    <3>2. CASE ~live
      BY <2>2, <3>1, <3>2
    <3>3. CASE live
      <4>1. /\ tick[w].lo - 1 <= watermark /\ tick[w].until <= LastId
            /\ \A i \in due : tick[w].lo <= i /\ i <= tick[w].hi => Tried(i)
        BY <2>0, <2>1, <3>3 DEF Settling
      <4>2. ASSUME NEW i \in due, i <= tick[w].hi PROVE Tried(i)
        <5>1. i \in Nat
          BY <1>0 DEF Ids
        <5>2. CASE tick[w].lo <= i
          BY <4>1, <4>2, <5>2
        <5>3. CASE ~(tick[w].lo <= i)
          <6>1. i <= watermark
            BY <1>0, <4>1, <5>1, <5>3
          <6> QED BY <3>1, <6>1
        <5> QED BY <5>2, <5>3
      <4> QED BY <1>0, <2>0, <2>3, <3>3, <4>1, <4>2
    <3> QED BY <3>2, <3>3
  <2>5. watermark' = watermark \/ w \notin stopped \/ ~Promised
    BY <2>1, <2>2
  <2>6. CASE tick[w].epoch # epoch \/ tick[w].hi = tick[w].until
    <3> DEFINE t == [Resting EXCEPT !.pc = "waiting"]
    <3>1. Moves(w, t) /\ t.pc = "waiting" /\ t.epoch = 0
      BY <1>11, <2>6, RestMoves DEF ChunkDone, Resting
    <3> HIDE DEF t
    <3>2. tick'[w] = t
      BY <3>1, MovesType
    <3>3. TickHonest(w)'
      BY <3>1, <3>2 DEF TickHonest, Settling
    <3> QED BY <1>0, <2>0, <2>4, <2>5, <3>1, <3>3, ThreadKeeps
  <2>7. CASE ~(tick[w].epoch # epoch \/ tick[w].hi = tick[w].until)
    <3> DEFINE t == [tick[w] EXCEPT !.pc = "chunk", !.lo = tick[w].hi + 1]
    <3>1. tick[w].hi + 1 \in 0..MaxId /\ tick[w].hi + 1 - 1 = tick[w].hi
      BY <1>0, <2>0, <2>7 DEF Ticks
    <3>2. To(w, t)
      BY <1>11, <2>7 DEF ChunkDone
    <3>3. /\ Moves(w, t) /\ t.pc = "chunk" /\ t.lo = tick[w].hi + 1
          /\ t.until = tick[w].until /\ t.epoch = tick[w].epoch
      BY <1>0, <3>1, <3>2 DEF Moves, Ticks
    <3> HIDE DEF t
    <3>4. tick'[w] = t
      BY <3>3, MovesType
    <3>5. live => t.lo - 1 <= watermark' /\ t.until <= LastId
      BY <2>0, <2>1, <2>3, <3>1, <3>3 DEF Settling
    <3>6. TickHonest(w)'
      BY <1>2, <2>0, <2>1, <3>3, <3>4, <3>5 DEF TickHonest, Settling
    <3> QED BY <1>0, <2>0, <2>4, <2>5, <3>3, <3>6, ThreadKeeps
  <2> QED BY <2>6, <2>7
<1> QED BY <1>3, <1>4, <1>5, <1>6, <1>7, <1>8, <1>9, <1>10, <1>11 DEF Ticking

LEMMA StepIInv == Orderly /\ TypeInv /\ TypeInv' /\ IInv /\ [Next]_vars => IInv'
<1> SUFFICES ASSUME Orderly, TypeInv, TypeInv', IInv, [Next]_vars PROVE IInv'
  OBVIOUS
<1>1. CASE JobStarts \/ JobEnds \/ UNCHANGED vars
  <2>1. UNCHANGED <<index, mark, manager, routes, tick>>
    BY <1>1 DEF JobStarts, JobEnds, vars, index, mark, manager, routes
  <2>2. LastId' = LastId /\ (Promised' <=> Promised)
    BY <2>1 DEF LastId, Promised, index, manager, routes
  <2>3. OneInCharge' /\ EpochsPast' /\ HorizonsHeld'
    BY <2>1, <2>2 DEF IInv, OneInCharge, EpochsPast, HorizonsHeld, mark, manager, routes
  <2>4. WatermarkHonest' /\ TicksHonest'
    BY <2>1, <2>2 DEF IInv, WatermarkHonest, TicksHonest, TickHonest, Settling, Tried,
                      index, mark, manager
  <2> QED BY <2>3, <2>4 DEF IInv
<1> QED BY <1>1, StoreKeeps, StartingKeeps, StopKeeps, ClearingKeeps, ThreadSteps DEF Next

(* The watermark never passes a frame the worker promised to cover and has  *)
(* neither swept nor tried, for any number of frames, threads, manual jobs, *)
(* failures and clears, as long as a purge of the newest frames does not    *)
(* fall into a run and a start and a clear do not overlap: there the code   *)
(* does pass frames over, and the invariant is false.                       *)
THEOREM NeverPassedOver ==
    ASSUME Orderly
    PROVE  Spec => []NothingPassedOver
<1>1. IInv => NothingPassedOver
  BY DEF IInv, WatermarkHonest, NothingPassedOver, Settled, Promised, Tried
<1>2. TypeInv /\ TypeInv' /\ IInv /\ [Next]_vars => IInv'
  BY StepIInv
<1> QED BY <1>1, <1>2, InitIInv, TypeCorrect, PTL DEF Spec
=============================================================================
