----------------------------- MODULE BatchSweep -----------------------------
(***************************************************************************)
(* The stateless path of run_analysis (compute/analysis/runner.py): a      *)
(* producer thread reads and decodes the frames of the scope onto a        *)
(* bounded queue, the worker takes them off, analyses them a batch at a    *)
(* time and writes the verdicts, and whichever way the worker leaves, its  *)
(* finally block gets the producer to end and joins it.                    *)
(*                                                                         *)
(* Frames are 1..N in the order iter_unanalyzed lists them.  A frame that  *)
(* cannot be decoded travels as a marker of no shape.  late counts the     *)
(* full batches analysed after the stop (a history variable, up to 2).     *)
(***************************************************************************)
EXTENDS Integers, Sequences

CONSTANTS
    N,          \* frames without a verdict in the scope
    BatchSize,  \* analyzer.batch_size
    Shapes,     \* image dimensions
    NoShape,    \* the marker of a frame that could not be decoded
    Close       \* _SENTINEL

VARIABLES
    cursor, holding, producer, broke,   \* the producer's locals and its fatal error
    queue, abort,                       \* shared by the two threads
    batch, inHand, consumer, failing,   \* the worker's locals and its own fatal error
    stop,                               \* manager.stop_event
    written, skipped, result, late

production  == <<cursor, holding, producer, broke>>
consumption == <<batch, inHand, consumer, failing>>
outcome     == <<written, skipped, result>>
vars == <<cursor, holding, producer, broke, queue, abort, batch, inHand,
          consumer, failing, stop, written, skipped, result, late>>

Frames   == 1..N
Capacity == 2 * BatchSize
Image    == [frame : Frames, shape : Shapes]
Item     == [frame : Frames, shape : Shapes \cup {NoShape}]
Closing  == [frame |-> 0, shape |-> Close]   \* no frame

FramesOf(s) == {s[i].frame : i \in DOMAIN s} \ {0}

Init ==
    /\ cursor = 1 /\ holding = <<>> /\ producer = "reading" /\ broke = FALSE
    /\ queue = <<>> /\ abort = FALSE
    /\ batch = <<>> /\ inHand = <<>> /\ consumer = "getting" /\ failing = FALSE
    /\ stop = FALSE
    /\ written = {} /\ skipped = {} /\ result = "none" /\ late = 0

-----------------------------------------------------------------------------
(* The producer. *)

Read ==
    /\ producer = "reading" /\ cursor <= N /\ ~abort /\ ~stop
    /\ \E s \in Shapes \cup {NoShape} : holding' = <<[frame |-> cursor, shape |-> s]>>
    /\ cursor' = cursor + 1 /\ producer' = "putting"
    /\ UNCHANGED <<broke, queue, abort, consumption, stop, outcome, late>>

LeaveLoop ==
    /\ producer = "reading" /\ (cursor > N \/ abort \/ stop)
    /\ producer' = "closing"
    /\ UNCHANGED <<cursor, holding, broke, queue, abort, consumption, stop, outcome, late>>

IteratorBreaks ==
    /\ producer = "reading"
    /\ broke' = TRUE /\ producer' = "closing"
    /\ UNCHANGED <<cursor, holding, queue, abort, consumption, stop, outcome, late>>

(* _abort_put: a put that was under way when abort was set may still land. *)
Put ==
    /\ producer = "putting" /\ Len(queue) < Capacity
    /\ queue' = queue \o holding /\ holding' = <<>> /\ producer' = "reading"
    /\ UNCHANGED <<cursor, broke, abort, consumption, stop, outcome, late>>

GiveUp ==
    /\ producer = "putting" /\ abort
    /\ holding' = <<>> /\ producer' = "closing"
    /\ UNCHANGED <<cursor, broke, queue, abort, consumption, stop, outcome, late>>

PutClose ==
    /\ producer = "closing"
    /\ \/ Len(queue) < Capacity /\ queue' = Append(queue, Closing)
       \/ abort /\ UNCHANGED queue
    /\ producer' = "ended"
    /\ UNCHANGED <<cursor, holding, broke, abort, consumption, stop, outcome, late>>

-----------------------------------------------------------------------------
(* The worker. *)

Took == queue' = Tail(queue)

FullOrGetting(b) == IF Len(b) >= BatchSize THEN "full" ELSE "getting"

TakeMarker ==
    /\ consumer = "getting" /\ queue # <<>> /\ Head(queue).shape = NoShape
    /\ Took
    /\ skipped' = skipped \cup {Head(queue).frame}
    /\ UNCHANGED <<production, abort, consumption, stop, written, result, late>>

Fits(x) == IF batch = <<>> THEN TRUE ELSE x.shape = batch[1].shape

TakeFrame ==
    /\ consumer = "getting" /\ queue # <<>> /\ Head(queue).shape \in Shapes
    /\ Fits(Head(queue))
    /\ Took
    /\ batch' = Append(batch, Head(queue))
    /\ consumer' = FullOrGetting(batch')
    /\ UNCHANGED <<production, abort, inHand, failing, stop, outcome, late>>

(* A frame of another shape: the batch is flushed before it is admitted. *)
TakeBoundary ==
    /\ consumer = "getting" /\ queue # <<>> /\ Head(queue).shape \in Shapes
    /\ ~Fits(Head(queue))
    /\ Took
    /\ inHand' = <<Head(queue)>> /\ consumer' = "boundary"
    /\ UNCHANGED <<production, abort, batch, failing, stop, outcome, late>>

TakeClose ==
    /\ consumer = "getting" /\ queue # <<>> /\ Head(queue) = Closing
    /\ Took
    /\ consumer' = "last"
    /\ UNCHANGED <<production, abort, batch, inHand, failing, stop, outcome, late>>

(* _flush: one call for the batch, or one per image if that call fails; a   *)
(* frame that fails alone is skipped, the other verdicts are written.       *)
Flush ==
    /\ consumer \in {"boundary", "full", "last"}
    /\ \E bad \in SUBSET FramesOf(batch) :
          /\ skipped' = skipped \cup bad
          /\ written' = written \cup (FramesOf(batch) \ bad)
    /\ batch' = inHand /\ inHand' = <<>>
    /\ consumer' = CASE consumer = "boundary" -> FullOrGetting(inHand)
                     [] consumer = "full"     -> "checking"
                     [] consumer = "last"     -> "leaving"
    /\ late' = IF stop /\ consumer = "full" /\ late < 2 THEN late + 1 ELSE late
    /\ UNCHANGED <<production, queue, abort, failing, stop, result>>

(* The write of the verdicts raises: nothing of the batch is stored. *)
WriteRaises ==
    /\ consumer \in {"boundary", "full", "last"} /\ batch # <<>>
    /\ failing' = TRUE /\ consumer' = "leaving"
    /\ UNCHANGED <<production, queue, abort, batch, inHand, stop, outcome, late>>

(* Mutant: the stop event is not looked at between two batches. *)
CheckIgnoresStop ==
    /\ consumer = "checking" /\ consumer' = "getting"
    /\ UNCHANGED <<production, queue, abort, batch, inHand, failing, stop, outcome, late>>

Check ==
    /\ consumer = "checking"
    /\ consumer' = IF stop THEN "leaving" ELSE "getting"
    /\ UNCHANGED <<production, queue, abort, batch, inHand, failing, stop, outcome, late>>

Abort ==
    /\ consumer = "leaving"
    /\ abort' = TRUE /\ consumer' = "draining"
    /\ UNCHANGED <<production, queue, batch, inHand, failing, stop, outcome, late>>

Drain ==
    /\ consumer = "draining"
    /\ IF queue # <<>> THEN Took /\ UNCHANGED consumer
       ELSE consumer' = "joining" /\ UNCHANGED queue
    /\ UNCHANGED <<production, abort, batch, inHand, failing, stop, outcome, late>>

(* Mutant: the producer is not joined. *)
JoinWithoutWaiting ==
    /\ consumer = "joining"
    /\ consumer' = "ended"
    /\ result' = IF failing \/ broke THEN "raised" ELSE "returned"
    /\ UNCHANGED <<production, queue, abort, batch, inHand, failing, stop, written, skipped, late>>

(* Mutant: the producer's fatal error is forgotten. *)
JoinForgetsFatal ==
    /\ consumer = "joining" /\ producer = "ended"
    /\ consumer' = "ended"
    /\ result' = IF failing THEN "raised" ELSE "returned"
    /\ UNCHANGED <<production, queue, abort, batch, inHand, failing, stop, written, skipped, late>>

Join ==
    /\ consumer = "joining" /\ producer = "ended"
    /\ consumer' = "ended"
    /\ result' = IF failing \/ broke THEN "raised" ELSE "returned"
    /\ UNCHANGED <<production, queue, abort, batch, inHand, failing, stop, written, skipped, late>>

RequestStop ==
    /\ ~stop /\ stop' = TRUE
    /\ UNCHANGED <<production, queue, abort, consumption, outcome, late>>

-----------------------------------------------------------------------------
Producing == Read \/ LeaveLoop \/ Put \/ GiveUp \/ PutClose
Consuming ==
    \/ TakeMarker \/ TakeFrame \/ TakeBoundary \/ TakeClose
    \/ Flush \/ Check \/ Abort \/ Drain \/ Join

Over == consumer = "ended" /\ producer = "ended" /\ UNCHANGED vars

Next == Producing \/ IteratorBreaks \/ Consuming \/ WriteRaises \/ RequestStop \/ Over

(* The two threads are scheduled; errors and stops need not happen. *)
Spec == Init /\ [][Next]_vars /\ WF_vars(Producing) /\ WF_vars(Consuming)

-----------------------------------------------------------------------------
(* The types, the bounds of the buffers, and one image shape per batch:     *)
(* predict() never sees two dimensions in one call.                         *)
TypeOK ==
    /\ cursor \in 1..(N + 1) /\ holding \in Seq(Item) /\ broke \in BOOLEAN
    /\ producer \in {"reading", "putting", "closing", "ended"}
    /\ queue \in Seq(Item \cup {Closing}) /\ Len(queue) <= Capacity /\ abort \in BOOLEAN
    /\ (\E s \in Shapes : batch \in Seq([frame : Frames, shape : {s}])) /\ inHand \in Seq(Image) /\ failing \in BOOLEAN
    /\ Len(batch) <= BatchSize /\ Len(inHand) <= 1 /\ Len(holding) <= 1
    /\ consumer \in {"getting", "boundary", "full", "last", "checking",
                     "leaving", "draining", "joining", "ended"}
    /\ stop \in BOOLEAN /\ written \subseteq Frames /\ skipped \subseteq Frames
    /\ result \in {"none", "returned", "raised"} /\ late \in 0..2

(* "no path may leave a running producer": the worker goes on to the next   *)
(* job only when the producer has ended.                                    *)
NoProducerLeftBehind == result # "none" => producer = "ended"

(* "a cancel takes effect promptly at the next boundary": one full batch at *)
(* most is analysed after it.  The batches flushed at a change of image     *)
(* dimensions are not counted, no look at the stop event follows them.      *)
CancelAtNextBoundary == late < 2
=============================================================================
