------------------------------- MODULE Visits -------------------------------
(***************************************************************************)
(* The frames table as the read-only queries of compute/collection/        *)
(* store.py see it, and the one clustering primitive they share.  Frames   *)
(* arrive one by one; Scorecard.tla and Feed.tla translate the queries and *)
(* state what they promise in every table that can arise.                  *)
(*                                                                         *)
(* A load says which kinds of frames arrive, how far apart and how many,   *)
(* and which query is asked of them.  recv_ts never decreases with the id: *)
(* Store.add stamps frames in the order it numbers them.                   *)
(***************************************************************************)
EXTENDS Integers, Sequences, FiniteSets, FiniteSetsExt, SequencesExt

CONSTANTS
    Gap,    \* _VISIT_GAP_MS
    Loads,  \* bound: the tables explored, and the query asked of each
    NULL    \* SQL's NULL, Python's None

ASSUME GapAssumption == Gap \in Nat

VARIABLES
    frames, \* the frames table: frames[id]
    load    \* the load of this behaviour

vars == <<frames, load>>

Ids == DOMAIN frames
Ts(i) == frames[i].ts
Now == IF frames = <<>> THEN 0 ELSE Ts(Len(frames))

Init == frames = <<>> /\ load \in Loads

Add(kind, later) ==
    /\ Len(frames) < load.length
    /\ frames' = Append(frames, kind @@ [ts |-> Now + later])
    /\ UNCHANGED load

Next == \E kind \in load.kinds, later \in load.steps : Add(kind, later)

Spec == Init /\ [][Next]_vars

-----------------------------------------------------------------------------
(* An id scope is [since, until], each NULL when that side is open. *)

InScope(i, scope) ==
    /\ scope.since = NULL \/ i >= scope.since
    /\ scope.until = NULL \/ i <= scope.until

Everything == [since |-> NULL, until |-> NULL]

InOrder(S) == SelectSeq([i \in Ids |-> i], LAMBDA i : i \in S)

(* _gap_split: one pass over the rows in recv_ts order. *)
GapSplit(S) ==
    LET Take(runs, i) ==
            IF runs # <<>> /\ Ts(i) - Ts(Last(Last(runs))) <= Gap
            THEN [runs EXCEPT ![Len(runs)] = Append(@, i)]
            ELSE Append(runs, <<i>>)
    IN  FoldLeft(Take, <<>>, InOrder(S))

(* Reference: the visits of a set of frames, each a set of ids.  A visit    *)
(* opens at a frame with no other in the Gap before it, and holds the       *)
(* frames up to the next one that opens.                                    *)
Opens(S) == {i \in S : \A j \in S : j < i => Ts(i) - Ts(j) > Gap}
VisitsOf(S) ==
    {{j \in S : j >= i /\ \A k \in Opens(S) : ~(i < k /\ k <= j)} : i \in Opens(S)}

=============================================================================
