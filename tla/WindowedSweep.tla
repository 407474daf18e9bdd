--------------------------- MODULE WindowedSweep ---------------------------
(***************************************************************************)
(* The windowed path of run_analysis (compute/analysis/runner.py): the     *)
(* frames of the scope go through the analyzer strictly in time order,     *)
(* while a small thread pool decodes ahead of it; verdicts are counted     *)
(* one by one and written in batches.                                      *)
(*                                                                         *)
(* Frames are 1..N in the order iter_time_order lists them.  seen is a     *)
(* history variable: the frames the analyzer was given, in that order.     *)
(***************************************************************************)
EXTENDS Integers, Sequences, FiniteSets

CONSTANTS
    N,          \* frames in the scope
    Lookahead,  \* _DECODE_LOOKAHEAD
    Workers,    \* _DECODE_WORKERS
    WriteBatch  \* _WRITE_BATCH

VARIABLES
    cursor,              \* the next frame of the iterator
    inflight, decoded,   \* the deque of frames submitted; how each decode went
    current, pc,         \* the frame popped, and the worker's progress
    pending, recorded,   \* verdicts not yet written; the manager's done
    written, skipped, stop, failing, result, seen

vars == <<cursor, inflight, decoded, current, pc, pending, recorded, written,
          skipped, stop, failing, result, seen>>

Frames == 1..N
Elems(s) == {s[i] : i \in DOMAIN s}

Init ==
    /\ cursor = 1 /\ inflight = <<>> /\ decoded = [f \in Frames |-> "no"]
    /\ current = 0 /\ pc = "filling"
    /\ pending = <<>> /\ recorded = 0
    /\ written = {} /\ skipped = {} /\ stop = FALSE /\ failing = FALSE
    /\ result = "none" /\ seen = <<>>

(* _submit_next onto what is left of the deque. *)
Submit(deque) ==
    IF cursor <= N
    THEN inflight' = Append(deque, cursor) /\ cursor' = cursor + 1
    ELSE inflight' = deque /\ UNCHANGED cursor

Fill ==
    /\ pc = "filling"
    /\ IF Len(inflight) < Lookahead /\ cursor <= N
       THEN Submit(inflight) /\ UNCHANGED pc
       ELSE pc' = "looping" /\ UNCHANGED <<cursor, inflight>>
    /\ UNCHANGED <<decoded, current, pending, recorded, written, skipped, stop, failing, result, seen>>

(* The pool takes submissions in order, Workers at a time, and may finish   *)
(* them in any order; a decode that runs goes on after the frame is popped. *)
Waiting == {f \in 1..(cursor - 1) : decoded[f] = "no"}

Decode ==
    /\ result = "none"
    /\ \E f \in Waiting, outcome \in {"image", "error"} :
          /\ Cardinality({g \in Waiting : g < f}) < Workers
          /\ decoded' = [decoded EXCEPT ![f] = outcome]
    /\ UNCHANGED <<cursor, inflight, current, pc, pending, recorded, written, skipped,
                   stop, failing, result, seen>>

(* Mutant: the loop ends as soon as the iterator is drained. *)
TurnDropsInflight ==
    /\ pc = "looping"
    /\ IF inflight = <<>> \/ stop \/ cursor > N
       THEN pc' = "flushing" /\ UNCHANGED <<cursor, inflight, current>>
       ELSE /\ current' = Head(inflight) /\ pc' = "awaiting"
            /\ Submit(Tail(inflight))
    /\ UNCHANGED <<decoded, pending, recorded, written, skipped, stop, failing, result, seen>>

(* One turn of the loop: drained, canceled, or pop and keep the pool fed.   *)
Turn ==
    /\ pc = "looping"
    /\ IF inflight = <<>> \/ stop
       THEN pc' = "flushing" /\ UNCHANGED <<cursor, inflight, current>>
       ELSE /\ current' = Head(inflight) /\ pc' = "awaiting"
            /\ Submit(Tail(inflight))
    /\ UNCHANGED <<decoded, pending, recorded, written, skipped, stop, failing, result, seen>>

(* The iterator raises while the deque is topped up: what is pending is     *)
(* not flushed on this path.                                                *)
IteratorRaises ==
    /\ \/ pc = "filling" /\ Len(inflight) < Lookahead
       \/ pc = "looping" /\ inflight # <<>> /\ ~stop
    /\ failing' = TRUE /\ pc' = "ended" /\ result' = "raised"
    /\ UNCHANGED <<cursor, inflight, decoded, current, pending, recorded, written, skipped, stop, seen>>

(* A frame that cannot be decoded or analysed is logged and skipped. *)
SkipFrame ==
    /\ pc = "awaiting" /\ decoded[current] # "no"
    /\ seen' = IF decoded[current] = "image" THEN Append(seen, current) ELSE seen
    /\ skipped' = skipped \cup {current}
    /\ pc' = "looping"
    /\ UNCHANGED <<cursor, inflight, decoded, current, pending, recorded, written, stop, failing, result>>

(* Mutant: whichever decode is ready first is analysed. *)
AnalyzeReady ==
    /\ pc = "awaiting"
    /\ \E f \in {current} \cup Elems(inflight) :
          /\ decoded[f] = "image"
          /\ seen' = Append(seen, f)
          /\ pending' = Append(pending, f)
    /\ recorded' = recorded + 1
    /\ pc' = IF Len(pending') >= WriteBatch THEN "writing" ELSE "looping"
    /\ UNCHANGED <<cursor, inflight, decoded, current, written, skipped, stop, failing, result>>

Analyze ==
    /\ pc = "awaiting" /\ decoded[current] = "image"
    /\ seen' = Append(seen, current)
    /\ pending' = Append(pending, current) /\ recorded' = recorded + 1
    /\ pc' = IF Len(pending') >= WriteBatch THEN "writing" ELSE "looping"
    /\ UNCHANGED <<cursor, inflight, decoded, current, written, skipped, stop, failing, result>>

(* Mutant: a cancel skips the last flush. *)
WriteDropsPartial ==
    /\ pc \in {"writing", "flushing"}
    /\ written' = IF pc = "flushing" /\ stop THEN written ELSE written \cup Elems(pending)
    /\ pending' = <<>>
    /\ pc' = IF pc = "writing" THEN "looping" ELSE "returning"
    /\ UNCHANGED <<cursor, inflight, decoded, current, recorded, skipped, stop, failing,
                   result, seen>>

(* _flush_windowed, in the loop and once more after it. *)
Write ==
    /\ pc \in {"writing", "flushing"}
    /\ written' = written \cup Elems(pending) /\ pending' = <<>>
    /\ pc' = IF pc = "writing" THEN "looping" ELSE "returning"
    /\ UNCHANGED <<cursor, inflight, decoded, current, recorded, skipped, stop, failing,
                   result, seen>>

Return ==
    /\ pc = "returning"
    /\ pc' = "ended" /\ result' = "returned"
    /\ UNCHANGED <<cursor, inflight, decoded, current, pending, recorded, written,
                   skipped, stop, failing, seen>>

WriteRaises ==
    /\ pc \in {"writing", "flushing"} /\ pending # <<>>
    /\ failing' = TRUE /\ pc' = "ended" /\ result' = "raised"
    /\ UNCHANGED <<cursor, inflight, decoded, current, pending, recorded, written, skipped, stop, seen>>

RequestStop ==
    /\ ~stop /\ stop' = TRUE
    /\ UNCHANGED <<cursor, inflight, decoded, current, pc, pending, recorded, written,
                   skipped, failing, result, seen>>

Working == Fill \/ Turn \/ SkipFrame \/ Analyze \/ Write \/ Return

Over == pc = "ended" /\ UNCHANGED vars

Next == Working \/ Decode \/ IteratorRaises \/ WriteRaises \/ RequestStop \/ Over

(* The worker and the pool are scheduled; errors and stops need not happen. *)
Spec == Init /\ [][Next]_vars /\ WF_vars(Working) /\ WF_vars(Decode)

-----------------------------------------------------------------------------
TypeOK ==
    /\ cursor \in 1..(N + 1) /\ decoded \in [Frames -> {"no", "image", "error"}]
    /\ inflight \in Seq(Frames) /\ Len(inflight) <= Lookahead
    /\ current \in 0..N
    /\ pc \in {"filling", "looping", "awaiting", "writing", "flushing",
            "returning", "ended"}
    /\ pending \in Seq(Frames) /\ Len(pending) <= WriteBatch
    /\ recorded \in 0..N /\ seen \in Seq(Frames)
    /\ written \subseteq Frames /\ skipped \subseteq Frames
    /\ stop \in BOOLEAN /\ failing \in BOOLEAN
    /\ result \in {"none", "returned", "raised"}

(* The analyzer's rolling background sees the frames in time order, however *)
(* the pool finishes them.                                                  *)
StrictTimeOrder == \A i, j \in DOMAIN seen : i < j => seen[i] < seen[j]

(* A sweep that returns, canceled or not, has stored what it counted: "done *)
(* counts written verdicts".                                                *)
CountedIsStored == result = "returned" => recorded = Cardinality(written) /\ pending = <<>>
=============================================================================
