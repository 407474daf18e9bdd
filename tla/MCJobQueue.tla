----------------------------- MODULE MCJobQueue -----------------------------
(* Three jobs with three keys can all be in hand, two of them waiting.      *)
EXTENDS JobQueue
CONSTANTS k1, k2, k3
MCKeys == {k1, k2}
ThreeKeys == {k1, k2, k3}
=============================================================================
