----------------------------- MODULE FrameIndex -----------------------------
(***************************************************************************)
(* The store as its callers see it: an index of frames that changes by one *)
(* whole operation at a time.  A frame enters under an id no held frame    *)
(* has, and whatever the store gives up for it goes in the same step; a    *)
(* purge takes frames without motion only; a clear takes everything.  A    *)
(* power cut brings back a state the index was in, the last one saved or   *)
(* the present one.                                                        *)
(***************************************************************************)
CONSTANTS Ids, Frame

VARIABLES rows, saved
vars == <<rows, saved>>

Empty == [i \in {} |-> {}]

Keep(f, S) == [i \in DOMAIN f \cap S |-> f[i]]

With(f, id, frame) == [i \in DOMAIN f \cup {id} |-> IF i = id THEN frame ELSE f[i]]

Init == rows = Empty /\ saved = Empty

Add(id, frame) ==
    /\ id \notin DOMAIN rows
    /\ \E S \in SUBSET Ids : rows' = Keep(With(rows, id, frame), S)
    /\ UNCHANGED saved

Purge ==
    \E S \in SUBSET Ids :
        /\ \A i \in DOMAIN rows \ S : ~rows[i].motion
        /\ rows' = Keep(rows, S)
        /\ UNCHANGED saved

Clear == rows' = Empty /\ UNCHANGED saved

Save == saved' = rows /\ UNCHANGED rows

Lose == rows' = saved /\ UNCHANGED saved

Next ==
    \/ Purge \/ Clear \/ Save \/ Lose
    \/ \E id \in Ids, frame \in Frame : Add(id, frame)

Spec == Init /\ [][Next]_vars
=============================================================================
