---------------------------- MODULE SerialQueue ----------------------------
(***************************************************************************)
(* What a serial job manager promises its callers, whatever its locks and  *)
(* threads: each job handed in waits its turn, behind every job that was   *)
(* handed in before it, until it is the active one or is dropped; at most  *)
(* one is active, an idle manager has nothing waiting, and the active job  *)
(* is over some day.                                                       *)
(***************************************************************************)
EXTENDS Integers, Sequences, SequencesExt

CONSTANTS
    Jobs,
    None   \* no job; not an element of Jobs

VARIABLES waiting, active, over
vars == <<waiting, active, over>>

Queued == {waiting[i] : i \in 1..Len(waiting)}

Init == waiting = <<>> /\ active = None /\ over = {}

Submit(j) ==
    /\ j \notin Queued \cup over /\ j # active
    /\ IF active = None
       THEN active' = j /\ UNCHANGED waiting
       ELSE waiting' = Append(waiting, j) /\ UNCHANGED active
    /\ UNCHANGED over

Finish ==
    /\ active # None
    /\ over' = over \cup {active}
    /\ IF waiting = <<>>
       THEN active' = None /\ UNCHANGED waiting
       ELSE active' = Head(waiting) /\ waiting' = Tail(waiting)

Drop(i) ==
    /\ waiting' = RemoveAt(waiting, i)
    /\ over' = over \cup {waiting[i]}
    /\ UNCHANGED active

DropAll ==
    /\ waiting' = <<>>
    /\ over' = over \cup Queued
    /\ UNCHANGED active

Next ==
    \/ Finish \/ DropAll
    \/ \E j \in Jobs : Submit(j)
    \/ \E i \in 1..Len(waiting) : Drop(i)

Safety == Init /\ [][Next]_vars
Spec == Safety /\ WF_vars(Finish)
=============================================================================
