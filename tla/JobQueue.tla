------------------------------ MODULE JobQueue ------------------------------
(***************************************************************************)
(* AnalysisManager (compute/analysis/runner.py): a FIFO of oracle sweeps   *)
(* drained by one worker thread at a time, under one lock.                 *)
(*                                                                         *)
(* Every action is one hold of the manager's lock, or one step of a thread *)
(* between two holds: a request draws its job id before it takes the lock, *)
(* a promoted thread is started after the lock is released, and the sweep  *)
(* runs outside it.  A job is named by its id; keyOf is its dedup key.     *)
(*                                                                         *)
(* latest names the job of the last promotion: it stands both for the      *)
(* object self.stop_event refers to and for self._thread, which only       *)
(* _promote_locked assigns.  asked and swept are history variables: the    *)
(* jobs an operator cancelled, and those whose sweep ended by itself.      *)
(***************************************************************************)
EXTENDS Integers, Sequences, SequencesExt

CONSTANTS
    Keys,          \* the dedup keys a request may carry
    MaxJobs,       \* bound: job ids drawn in a behaviour
    MaxFrames,     \* bound: frames of one sweep
    HistoryLimit   \* _HISTORY_LIMIT

ASSUME KeysAssumption == Keys # {}
ASSUME MaxJobsAssumption == MaxJobs \in Nat \ {0}
ASSUME MaxFramesAssumption == MaxFrames \in Nat
ASSUME HistoryLimitAssumption == HistoryLimit \in Nat \ {0}

VARIABLES
    nextId, keyOf,           \* _job_seq and each drawn job's identity
    pc,                      \* where each job, or its worker thread, is
    handlers,                \* jobs whose HTTP handler has not returned
    pending, current, running,
    latest, stopSet,         \* the current Event, and the Events that are set
    total, done,             \* the manager's counters
    history,                 \* finished jobs, newest first
    exit,                    \* the shutdown hook's progress
    asked, swept             \* history variables

jobs     == <<nextId, keyOf, handlers>>
counters == <<total, done>>
ghosts   == <<asked, swept>>
vars == <<nextId, keyOf, pc, handlers, pending, current, running, latest,
          stopSet, total, done, history, exit, asked, swept>>

Ids == 1..MaxJobs

Working  == {"prepared", "sweeping", "completed", "stopped", "raised"}
Outcomes == {"done", "canceled", "failed"}
Ended    == Outcomes \cup {"dropped", "deduped"}
Phases   == {"none", "drawn", "queued"} \cup Working \cup Ended

Init ==
    /\ nextId = 1
    /\ keyOf = [j \in Ids |-> CHOOSE k \in Keys : TRUE]
    /\ pc = [j \in Ids |-> "none"]
    /\ handlers = {}
    /\ pending = <<>> /\ current = 0 /\ running = FALSE
    /\ latest = 0 /\ stopSet = {}
    /\ total = 0 /\ done = 0
    /\ history = <<>>
    /\ exit = "up"
    /\ asked = {} /\ swept = {}

-----------------------------------------------------------------------------
(* Promotion: the head of the queue q becomes the running job, with fresh   *)
(* counters and a fresh stop Event; an empty queue leaves the manager idle. *)
(* p is the phase of every job before the promotion.                        *)

(* Mutant: the Event of the first promotion is kept for ever. *)
PromoteKeepsEvent(q, p) ==
    IF q = <<>>
    THEN /\ running' = FALSE /\ current' = 0 /\ pending' = q /\ pc' = p
         /\ UNCHANGED <<latest, total, done>>
    ELSE /\ running' = TRUE /\ current' = Head(q) /\ pending' = Tail(q)
         /\ pc' = [p EXCEPT ![Head(q)] = "prepared"]
         /\ latest' = IF latest = 0 THEN Head(q) ELSE latest
         /\ total' = 0 /\ done' = 0

(* Mutant: pop() where the code has popleft(). *)
PromoteFromTail(q, p) ==
    IF q = <<>>
    THEN /\ running' = FALSE /\ current' = 0 /\ pending' = q /\ pc' = p
         /\ UNCHANGED <<latest, total, done>>
    ELSE /\ running' = TRUE /\ current' = Last(q) /\ pending' = Front(q)
         /\ pc' = [p EXCEPT ![Last(q)] = "prepared"]
         /\ latest' = Last(q)
         /\ total' = 0 /\ done' = 0

Promote(q, p) ==
    IF q = <<>>
    THEN /\ running' = FALSE /\ current' = 0 /\ pending' = q /\ pc' = p
         /\ UNCHANGED <<latest, total, done>>
    ELSE /\ running' = TRUE /\ current' = Head(q) /\ pending' = Tail(q)
         /\ pc' = [p EXCEPT ![Head(q)] = "prepared"]
         /\ latest' = Head(q)
         /\ total' = 0 /\ done' = 0

-----------------------------------------------------------------------------
(* A request: draw an id, then take the lock and deduplicate or append.    *)

Draw(k) ==
    /\ exit = "up" /\ nextId \in Ids
    /\ nextId' = nextId + 1
    /\ keyOf' = [keyOf EXCEPT ![nextId] = k]
    /\ pc' = [pc EXCEPT ![nextId] = "drawn"]
    /\ handlers' = handlers \cup {nextId}
    /\ UNCHANGED <<pending, current, running, latest, stopSet, counters,
                   history, exit, ghosts>>

(* Mutant: only the running job is looked at. *)
IsDuplicateOfRunning(j) == running /\ current # 0 /\ keyOf[current] = keyOf[j]

IsDuplicate(j) ==
    \/ running /\ current # 0 /\ keyOf[current] = keyOf[j]
    \/ \E i \in 1..Len(pending) : keyOf[pending[i]] = keyOf[j]

EnqueueDuplicate(j) ==
    /\ pc[j] = "drawn" /\ IsDuplicate(j)
    /\ pc' = [pc EXCEPT ![j] = "deduped"]
    /\ handlers' = handlers \ {j}
    /\ UNCHANGED <<nextId, keyOf, pending, current, running, latest, stopSet,
                   counters, history, exit, ghosts>>

EnqueueBehind(j) ==
    /\ pc[j] = "drawn" /\ ~IsDuplicate(j) /\ running
    /\ pending' = Append(pending, j)
    /\ pc' = [pc EXCEPT ![j] = "queued"]
    /\ handlers' = handlers \ {j}
    /\ UNCHANGED <<nextId, keyOf, current, running, latest, stopSet, counters,
                   history, exit, ghosts>>

(* Mutant: the running check is lost, two requests both promote. *)
EnqueueAlwaysPromotes(j) ==
    /\ pc[j] = "drawn" /\ ~IsDuplicate(j)
    /\ Promote(Append(pending, j), [pc EXCEPT ![j] = "queued"])
    /\ UNCHANGED <<jobs, stopSet, history, exit, ghosts>>

EnqueueIdle(j) ==
    /\ pc[j] = "drawn" /\ ~IsDuplicate(j) /\ ~running
    /\ Promote(Append(pending, j), [pc EXCEPT ![j] = "queued"])
    /\ UNCHANGED <<jobs, stopSet, history, exit, ghosts>>

(* thread.start(), by the handler that promoted the job or by the worker   *)
(* that ended before it; run_analysis then counts the frames to sweep.     *)
StartThread(j) ==
    /\ pc[j] = "prepared"
    /\ pc' = [pc EXCEPT ![j] = "sweeping"]
    /\ handlers' = handlers \ {j}
    /\ total' \in 0..MaxFrames
    /\ UNCHANGED <<nextId, keyOf, pending, current, running, latest, stopSet,
                   done, history, exit, ghosts>>

-----------------------------------------------------------------------------
(* The sweep: a stop check and a recorded verdict per frame.               *)

Stopping == latest \in stopSet

SweepFrame(j) ==
    /\ pc[j] = "sweeping" /\ done < total /\ ~Stopping
    /\ done' = done + 1
    /\ UNCHANGED <<jobs, pc, pending, current, running, latest, stopSet, total,
                   history, exit, ghosts>>

SweepReturn(j, how) ==
    /\ pc[j] = "sweeping"
    /\ \/ how = "completed" /\ done = total
       \/ how = "stopped" /\ done < total /\ Stopping
       \/ how = "raised"
    /\ pc' = [pc EXCEPT ![j] = how]
    /\ swept' = IF how = "completed" THEN swept \cup {j} ELSE swept
    /\ UNCHANGED <<jobs, pending, current, running, latest, stopSet, counters,
                   history, exit, asked>>

(* _run's finally: terminal state, history, idle, promotion - one lock hold. *)
Outcome(j) ==
    IF pc[j] = "raised" THEN "failed" ELSE IF Stopping THEN "canceled" ELSE "done"

(* Mutant: the successor is promoted first, so its counters are archived. *)
FinallyPromotesFirst(j) ==
    /\ pc[j] \in {"completed", "stopped", "raised"}
    /\ Promote(pending, [pc EXCEPT ![j] = Outcome(j)])
    /\ history' = SubSeq(<<[id |-> j, state |-> Outcome(j), done |-> done']>> \o history,
                         1, IF Len(history) < HistoryLimit THEN Len(history) + 1
                                                          ELSE HistoryLimit)
    /\ UNCHANGED <<jobs, stopSet, exit, ghosts>>

(* Mutant: the next promotion is left to the next enqueue. *)
FinallyGoesIdle(j) ==
    /\ pc[j] \in {"completed", "stopped", "raised"}
    /\ history' = SubSeq(<<[id |-> j, state |-> Outcome(j), done |-> done]>> \o history,
                         1, IF Len(history) < HistoryLimit THEN Len(history) + 1
                                                          ELSE HistoryLimit)
    /\ running' = FALSE /\ current' = 0
    /\ pc' = [pc EXCEPT ![j] = Outcome(j)]
    /\ UNCHANGED <<jobs, pending, latest, counters, stopSet, exit, ghosts>>

(* Mutant: the promotion is placed after the except clause, so an exception *)
(* it does not catch leaves running set. *)
FinallySkippedOnRaise(j) ==
    /\ pc[j] \in {"completed", "stopped"}
    /\ history' = SubSeq(<<[id |-> j, state |-> Outcome(j), done |-> done]>> \o history,
                         1, IF Len(history) < HistoryLimit THEN Len(history) + 1
                                                          ELSE HistoryLimit)
    /\ Promote(pending, [pc EXCEPT ![j] = Outcome(j)])
    /\ UNCHANGED <<jobs, stopSet, exit, ghosts>>

Finally(j) ==
    /\ pc[j] \in {"completed", "stopped", "raised"}
    /\ history' = SubSeq(<<[id |-> j, state |-> Outcome(j), done |-> done]>> \o history,
                         1, IF Len(history) < HistoryLimit THEN Len(history) + 1
                                                          ELSE HistoryLimit)
    /\ Promote(pending, [pc EXCEPT ![j] = Outcome(j)])
    /\ UNCHANGED <<jobs, stopSet, exit, ghosts>>

-----------------------------------------------------------------------------
(* Cancellation and the queue controls.                                    *)

StopRunning ==
    /\ stopSet' = IF running THEN stopSet \cup {latest} ELSE stopSet
    /\ asked' = IF running THEN asked \cup {current} ELSE asked

DropAll ==
    /\ pending' = <<>>
    /\ pc' = [j \in Ids |-> IF pc[j] = "queued" THEN "dropped" ELSE pc[j]]

CancelJob(j) ==
    /\ exit = "up" /\ running /\ current = j
    /\ StopRunning
    /\ UNCHANGED <<jobs, pc, pending, current, running, latest, counters,
                   history, exit, swept>>

CancelPending(i) ==
    /\ exit = "up"
    /\ pc' = [pc EXCEPT ![pending[i]] = "dropped"]
    /\ pending' = RemoveAt(pending, i)
    /\ UNCHANGED <<jobs, current, running, latest, stopSet, counters, history,
                   exit, ghosts>>

ClearPending ==
    /\ exit = "up" /\ pending # <<>>
    /\ DropAll
    /\ UNCHANGED <<jobs, current, running, latest, stopSet, counters, history,
                   exit, ghosts>>

StopAll ==
    /\ exit = "up"
    /\ DropAll /\ StopRunning
    /\ UNCHANGED <<jobs, current, running, latest, counters, history, exit, swept>>

-----------------------------------------------------------------------------
(* The shutdown hook: stop_all, then join(timeout) on self._thread, then   *)
(* the store is closed.  The server has returned every request by then.    *)
(* Python's Thread.join raises RuntimeError on a thread not yet started.   *)

Shutdown ==
    /\ exit = "up" /\ handlers = {}
    /\ DropAll /\ StopRunning
    /\ exit' = "joining"
    /\ UNCHANGED <<jobs, current, running, latest, counters, history, swept>>

Join ==
    /\ exit = "joining"
    /\ exit' = IF latest # 0 /\ pc[latest] = "prepared" THEN "joinRaised" ELSE "closed"
    /\ UNCHANGED <<jobs, pc, pending, current, running, latest, stopSet, counters,
                   history, ghosts>>

-----------------------------------------------------------------------------
Handler(j) == EnqueueDuplicate(j) \/ EnqueueBehind(j) \/ EnqueueIdle(j)

Worker(j) ==
    \/ StartThread(j) \/ SweepFrame(j) \/ Finally(j)
    \/ \E how \in {"completed", "stopped", "raised"} : SweepReturn(j, how)

Operator ==
    \/ \E k \in Keys : Draw(k)
    \/ \E j \in Ids : CancelJob(j)
    \/ \E i \in 1..Len(pending) : CancelPending(i)
    \/ ClearPending \/ StopAll \/ Shutdown

Next == Operator \/ Join \/ \E j \in Ids : Handler(j) \/ Worker(j)

(* Threads are scheduled by the OS, so a handler inside the manager and a  *)
(* worker keep moving; nothing obliges an operator to act.                 *)
Fairness == \A j \in Ids : WF_vars(Handler(j)) /\ WF_vars(Worker(j))

Spec == Init /\ [][Next]_vars /\ Fairness

-----------------------------------------------------------------------------
(* The manager as its callers see it, and the promise it implements. *)
Queue == INSTANCE SerialQueue WITH
    Jobs    <- Ids,
    None    <- 0,
    waiting <- pending,
    active  <- current,
    over    <- {j \in Ids : pc[j] \in Outcomes \cup {"dropped"}}

-----------------------------------------------------------------------------
TypeOK ==
    /\ nextId \in 1..MaxJobs + 1
    /\ keyOf \in [Ids -> Keys]
    /\ pc \in [Ids -> Phases]
    /\ handlers \in SUBSET Ids
    /\ pending \in Seq(Ids)
    /\ current \in 0..MaxJobs /\ latest \in 0..MaxJobs
    /\ running \in BOOLEAN
    /\ stopSet \in SUBSET (0..MaxJobs)
    /\ total \in 0..MaxFrames /\ done \in 0..MaxFrames
    /\ history \in Seq([id : Ids, state : Outcomes, done : 0..MaxFrames])
    /\ exit \in {"up", "joining", "closed", "joinRaised"}
    /\ asked \in SUBSET (0..MaxJobs) /\ swept \in SUBSET Ids

(* The class docstring's load-bearing invariant: exactly one job has a      *)
(* worker thread, prepared or running, and it is the one running claims.    *)
SerialDrain ==
    \A j \in Ids : pc[j] \in Working <=> (running /\ current = j)

(* __init__'s comment on _pending: idle implies an empty queue, so no       *)
(* accepted sweep is left waiting with nobody to promote it.                *)
IdleImpliesEmpty == ~running => pending = <<>>

(* The queue holds exactly the waiting jobs, each once, and no two jobs in  *)
(* hand share a dedup key: a double click never sweeps a window twice.      *)
QueueExact ==
    /\ \A i, k \in 1..Len(pending) : pending[i] = pending[k] => i = k
    /\ \A j \in Ids : pc[j] = "queued" <=> \E i \in 1..Len(pending) : pending[i] = j

NoDuplicateWork ==
    \A j, k \in {x \in Ids : pc[x] \in Working \cup {"queued"}} :
        keyOf[j] = keyOf[k] => j = k

(* A cancel never mis-fires against the successor: only a job the operator  *)
(* cancelled while it was running ends canceled.                            *)
CancelHitsItsTarget == \A j \in Ids : pc[j] = "canceled" => j \in asked

(* The counters a finished sweep is archived with are its own: a job that   *)
(* ends done has swept every frame of its total, and the newest record of   *)
(* an idle manager still carries the counter the status poll shows.         *)
ArchivedCounters ==
    [][\A j \in Ids : pc[j] \in Working /\ pc'[j] = "done"
         => /\ j \in swept
            /\ history'[1] = [id |-> j, state |-> "done", done |-> total]]_vars

(* Every accepted job ends: a failing, cancelled or dropped predecessor     *)
(* never wedges the queue behind it.                                        *)
AcceptedJobEnds ==
    \A j \in Ids : pc[j] \in Working \cup {"queued"} ~> pc[j] \in Ended

(* The manager implements SerialQueue: threads started outside the lock,    *)
(* cancels and clears never show a caller two active jobs, a lost job, one  *)
(* that overtook another or an idle manager with work waiting, and the      *)
(* active job is over some day.                                             *)
ImplementsSerialQueue == Queue!Spec

(* join()'s docstring: the shutdown hook's join only waits.                 *)
JoinNeverRaises == exit # "joinRaised"
=============================================================================
