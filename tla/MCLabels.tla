------------------------------ MODULE MCLabels ------------------------------
(* Loads for Labels: what the routes, the job and the store may do. *)
EXTENDS Labels

Nothing == [request |-> 0, recut |-> 0, setting |-> 0, redetect |-> 0, evict |-> 0, clear |-> 0,
            arrive |-> 0, fault |-> 0, mark |-> 0, unmark |-> 0, cancel |-> 0]

Tom == [kind |-> "identified", cat |-> "tom"]
Pus == [kind |-> "identified", cat |-> "pus"]
NotCat == [kind |-> "not_cat", cat |-> NULL]
Nameless == [kind |-> "unknown_cat", cat |-> NULL]

(* Two labellers and a re-cut at once, over evictions, crashes and wipes. *)
Together ==
    [frames |-> 2, spans |-> {{1}, {1, 2}}, ops |-> {"label"}, decisions |-> {Tom, Pus},
     alone |-> FALSE, stale |-> TRUE, race |-> FALSE, settings |-> {"m10"}, targets |-> {"m10", "letterbox"},
     budget |-> [Nothing EXCEPT !.request = 2, !.recut = 1, !.setting = 1, !.evict = 1, !.clear = 1,
                                !.arrive = 1, !.fault = 1]]

(* One thing at a time, while the detector moves the boxes. *)
InTurn ==
    [frames |-> 2, spans |-> {{1}, {1, 2}}, ops |-> {"label", "relabel", "undo", "ignore"},
     decisions |-> {Tom, Nameless, NotCat},
     alone |-> TRUE, stale |-> FALSE, race |-> FALSE, settings |-> {"m10", "foreign"},
     targets |-> {"legacy", "letterbox", "m10"},
     budget |-> [Nothing EXCEPT !.request = 3, !.recut = 2, !.setting = 1, !.redetect = 1, !.evict = 1,
                                !.cancel = 1]]

(* The phone confirms and marks while the desk ignores. *)
Marking ==
    [frames |-> 3, spans |-> {{1}, {2, 3}}, ops |-> {"confirm", "ignore"}, decisions |-> {},
     alone |-> FALSE, stale |-> TRUE, race |-> FALSE, settings |-> {}, targets |-> {},
     budget |-> [Nothing EXCEPT !.request = 2, !.evict = 2, !.mark = 2, !.unmark = 1, !.fault = 1]]

(* A crash anywhere, one thing at a time. *)
Crashing ==
    [InTurn EXCEPT !.decisions = {Tom, Pus}, !.settings = {"m10"}, !.targets = {"m10", "letterbox"},
        !.budget = [Nothing EXCEPT !.request = 3, !.recut = 1, !.setting = 1, !.fault = 1]]

(* A frame re-labelled as the same cat while the re-cut holds its batch. *)
RelabelBesideRecut ==
    [InTurn EXCEPT !.ops = {"label", "relabel"}, !.decisions = {Tom}, !.alone = FALSE, !.targets = {"m10"},
        !.budget = [Nothing EXCEPT !.request = 2, !.recut = 1]]

(* An undo while a second labeller labels the same frame. *)
UndoBesideLabel ==
    [InTurn EXCEPT !.alone = FALSE, !.ops = {"label", "undo"}, !.decisions = {Tom}, !.stale = TRUE,
        !.budget = [Nothing EXCEPT !.request = 3]]

(* A stale client repeats a label after the box has moved. *)
RepeatedLabel ==
    [InTurn EXCEPT !.ops = {"label"}, !.decisions = {Tom}, !.stale = TRUE,
        !.budget = [Nothing EXCEPT !.request = 2, !.redetect = 1]]

(* A crash in mid-commit, and a relink of what it left. *)
AdoptedOrphan ==
    [InTurn EXCEPT !.ops = {"label"}, !.decisions = {Tom},
        !.budget = [Nothing EXCEPT !.request = 2, !.redetect = 1, !.setting = 1, !.recut = 1, !.fault = 1]]

(* A wipe between the reads of a commit and its insert. *)
ClearBesideLabel ==
    [InTurn EXCEPT !.ops = {"label"}, !.decisions = {Tom}, !.race = TRUE,
        !.budget = [Nothing EXCEPT !.request = 1, !.clear = 1, !.arrive = 1]]

(* An undo of a frame that has the id of a labelled one before the wipe. *)
UndoAfterClear ==
    [InTurn EXCEPT !.ops = {"label", "undo"}, !.decisions = {Tom},
        !.budget = [Nothing EXCEPT !.request = 3, !.clear = 1, !.arrive = 1]]

Disagreements == {RelabelBesideRecut}
MCLoads == {Together, InTurn, Crashing, Marking}
=============================================================================
