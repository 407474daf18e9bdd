------------------------------- MODULE Sweep -------------------------------
(***************************************************************************)
(* What run_analysis promises whoever calls it, whatever threads and       *)
(* batches it uses: every frame of its scope is settled once, by a verdict *)
(* or by being skipped; it returns when nothing is left or a stop was      *)
(* requested, raises when a write or the listing failed, and some day it   *)
(* does one or the other.                                                  *)
(***************************************************************************)
CONSTANT Frames

VARIABLES verdicts, skipped, stop, fault, result
vars == <<verdicts, skipped, stop, fault, result>>

Left == Frames \ (verdicts \cup skipped)

Init == verdicts = {} /\ skipped = {} /\ stop = FALSE /\ fault = FALSE
    /\ result = "none"

Settle(good, bad) ==
    /\ result = "none"
    /\ verdicts' = verdicts \cup good /\ skipped' = skipped \cup bad
    /\ UNCHANGED <<stop, fault, result>>

RequestStop == stop' = TRUE /\ UNCHANGED <<verdicts, skipped, fault, result>>

Fail == fault' = TRUE /\ UNCHANGED <<verdicts, skipped, stop, result>>

Return ==
    /\ result = "none" /\ ~fault /\ (Left = {} \/ stop)
    /\ result' = "returned"
    /\ UNCHANGED <<verdicts, skipped, stop, fault>>

Raise ==
    /\ result = "none"
    /\ result' = "raised" /\ fault' = TRUE
    /\ UNCHANGED <<verdicts, skipped, stop>>

Next ==
    \/ \E good, bad \in SUBSET Left : good \cap bad = {} /\ Settle(good, bad)
    \/ RequestStop \/ Fail \/ Return \/ Raise

Safety == Init /\ [][Next]_vars

Spec == Safety /\ WF_vars(Return \/ Raise)
=============================================================================
