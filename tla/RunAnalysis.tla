---------------------------- MODULE RunAnalysis ----------------------------
(***************************************************************************)
(* run_analysis (compute/analysis/runner.py): one sweep over the frames of *)
(* its scope, by the windowed path or the stateless one as the analyzer    *)
(* asks.  The two share the iterator's cursor, the stop event, what has    *)
(* been written and skipped and how the call ends; the rest is each path's *)
(* own.  Both keep the one promise of Sweep.tla.                           *)
(***************************************************************************)
EXTENDS Integers

CONSTANTS
    N,                                       \* frames in the scope
    BatchSize, Shapes, NoShape, Close,       \* see BatchSweep.tla
    Lookahead, Workers, WriteBatch           \* see WindowedSweep.tla

ASSUME ScopeAssumption == N \in Nat
ASSUME KnobsAssumption == {BatchSize, Lookahead, Workers, WriteBatch} \subseteq Nat \ {0}
ASSUME ShapesAssumption ==
    Shapes # {} /\ NoShape \notin Shapes /\ Close \notin Shapes \cup {NoShape}

VARIABLES
    windowed,                                          \* analyzer.windowed
    cursor, stop, failing, written, skipped, result,   \* of both paths
    holding, producer, broke, queue, abort, batch, inHand, consumer, late,
    inflight, decoded, current, pc, pending, recorded, seen

batched  == <<holding, producer, broke, queue, abort, batch, inHand, consumer, late>>
inOrder  == <<inflight, decoded, current, pc, pending, recorded, seen>>
runVars == <<windowed, cursor, stop, failing, written, skipped, result, batched, inOrder>>

B == INSTANCE BatchSweep
W == INSTANCE WindowedSweep

(* The same cursor, stop event and outcome start both paths. *)
RunInit == windowed \in BOOLEAN /\ B!Init /\ W!Init

Stateless(A) == ~windowed /\ A /\ UNCHANGED <<windowed, inOrder>>
Windowed(A) == windowed /\ A /\ UNCHANGED <<windowed, batched>>

RunNext == Stateless(B!Next) \/ Windowed(W!Next)

(* The threads of either path and its pool are scheduled; errors and stops  *)
(* need not happen.                                                         *)
RunFairness ==
    /\ WF_runVars(Stateless(B!Producing)) /\ WF_runVars(Stateless(B!Consuming))
    /\ WF_runVars(Windowed(W!Working)) /\ WF_runVars(Windowed(W!Decode))

RunSpec == RunInit /\ [][RunNext]_runVars /\ RunFairness

-----------------------------------------------------------------------------
(* "no path may leave a running producer": the worker goes on to the next   *)
(* job only when the producer has ended.                                    *)
NoProducerLeftBehind == ~windowed => B!NoProducerLeftBehind

(* "a cancel takes effect promptly at the next boundary": one full batch at *)
(* most is analysed after it.  The batches flushed at a change of image     *)
(* dimensions are not counted, no look at the stop event follows them.      *)
CancelAtNextBoundary == B!CancelAtNextBoundary

(* The analyzer's rolling background sees the frames in time order, however *)
(* the pool finishes them.                                                  *)
StrictTimeOrder == W!StrictTimeOrder

(* A windowed sweep that returns, canceled or not, has stored what it       *)
(* counted: "done counts written verdicts".                                 *)
CountedIsStored == windowed => W!CountedIsStored

(* Whichever path it takes, a sweep keeps the promise of Sweep.tla: every   *)
(* frame is settled once, an error is never reported as success, and it     *)
(* ends.                                                                    *)
Promise == INSTANCE Sweep WITH Frames <- 1..N, verdicts <- written, fault <- failing \/ broke
ImplementsSweep == Promise!Spec
=============================================================================
