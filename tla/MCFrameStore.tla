--------------------------- MODULE MCFrameStore ---------------------------
(* A store of at most three small frames, or a large and a small one.      *)
EXTENDS FrameStore

TwoSizes == {1, 2}
TwoStages == {"tuning", "collecting"}

(* Each fault beside the clients it can hurt, and the two clients that work *)
(* without the lock beside what they race.                                  *)
AllWorlds ==
    {[clients |-> {"purge", "clear"}, faults |-> {"write", "commit", "crash"}],
     [clients |-> {"purge", "clear"}, faults |-> {"power"}],
     [clients |-> {"sweep", "purge", "clear"}, faults |-> {"commit"}],
     [clients |-> {"orphans", "purge", "clear"}, faults |-> {"write"}]}

FailingCommits == {[clients |-> {}, faults |-> {"commit"}]}
=============================================================================
