----------------------------- MODULE MCTraining -----------------------------
EXTENDS Training

(* Two kinds that leave a directory, the whole store and one visit. *)
AllKinds ==
    { [kind |-> "feasibility", span |-> {}], [kind |-> "gallery-build", span |-> {}],
      [kind |-> "identify", span |-> FrameIds], [kind |-> "visit-identify", span |-> {1, 2}] }
=============================================================================
