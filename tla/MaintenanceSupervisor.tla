----------------------- MODULE MaintenanceSupervisor -----------------------
(***************************************************************************)
(* The bounded asyncio worker of memory maintenance                        *)
(* (memory/maintenance/background_supervisor.py).                          *)
(*                                                                         *)
(* A step is what one asyncio task does between two suspension points.     *)
(* Requests enqueue events; controllers (an application or a benchmark     *)
(* driver) call start, flush and stop; a worker task takes events from     *)
(* self._queue and runs the handler, which may succeed or raise.           *)
(*                                                                         *)
(* stop() replaces self._queue by a fresh queue.  Nothing is put into, or  *)
(* marked done on, the old queue afterwards, so a task that still waits on *)
(* it is "stranded"; no other memory of the old queue is needed.           *)
(*                                                                         *)
(* The supervisor is enabled (when it is not, every operation returns at   *)
(* once) and its counters, which nothing reads back, are left out.  Its    *)
(* failure store does not raise.                                           *)
(***************************************************************************)
EXTENDS Naturals, Sequences, FiniteSets

CONSTANTS
    Events,        \* identities of the maintenance events requests publish
    Controllers,   \* tasks that call start, flush and stop
    Workers,       \* identities for worker tasks
    MaxQueueSize,  \* max_queue_size
    MaxRetries,    \* max_retries
    None           \* Python's None

ASSUME ConstantsAssumption ==
    /\ MaxQueueSize \in Nat \ {0}
    /\ MaxRetries \in Nat
    /\ None \notin Events \cup Workers

VARIABLES
    queue,       \* contents of self._queue, head first
    unfinished,  \* its count of puts not yet matched by task_done
    completed,   \* self._completed_ids
    terminal,    \* self._terminal_ids
    pending,     \* self._pending_ids
    failures,    \* rows of failure_store, oldest first
    worker,      \* self._worker
    task,        \* state of each worker task
    holding,     \* the event each worker task is handling
    attempts,    \* the local counter of _handle
    cancelled,   \* worker tasks with a cancellation not yet delivered
    pc,          \* where each controller is suspended
    stopping,    \* controllers that flush on behalf of stop(graceful=True)
    target,      \* the worker task each stop() awaits
    barrier      \* history: events pending when each flush was called

sets == <<completed, terminal, pending, failures>>
tasks == <<task, holding, attempts>>
calls == <<pc, stopping, target, barrier>>
vars == <<queue, unfinished, sets, worker, tasks, cancelled, calls>>

\* An ended task has no frame: it never ran, was cancelled, or let an exception out.
TaskStates == {"none", "new", "waiting", "stranded", "handling", "crashed"}
Ended(w) == task[w] \in {"none", "crashed"}
Running == worker # None /\ ~Ended(worker)

Queued == {queue[i] : i \in 1..Len(queue)}
InFlight == {holding[w] : w \in {v \in Workers : task[v] = "handling"}}
Settled == completed \cup terminal

Errors == {"maintenance_queue_full", "handler_error", "maintenance_cancelled_queue_full"}
Row(e, n, error) == [event |-> e, attempts |-> n, error |-> error]

Init ==
    /\ queue = <<>>
    /\ unfinished = 0
    /\ completed = {} /\ terminal = {} /\ pending = {}
    /\ failures = <<>>
    /\ worker = None
    /\ task = [w \in Workers |-> "none"]
    /\ holding = [w \in Workers |-> None]
    /\ attempts = [w \in Workers |-> 0]
    /\ cancelled = {}
    /\ pc = [c \in Controllers |-> "idle"]
    /\ stopping = {}
    /\ target = [c \in Controllers |-> None]
    /\ barrier = [c \in Controllers |-> {}]
-----------------------------------------------------------------------------
(* A request publishes an event.  An event whose id is already known only  *)
(* counts as a duplicate, which changes nothing modelled here.             *)

\* Mutant of RecordFailure: the row is written but the id is not remembered.
RecordFailureForgotten(e, n, error) ==
    /\ failures' = Append(failures, Row(e, n, error))
    /\ UNCHANGED terminal

RecordFailure(e, n, error) ==
    /\ terminal' = terminal \cup {e}
    /\ failures' = Append(failures, Row(e, n, error))

\* Mutant of Known: an event still pending is not recognised as a duplicate.
KnownOnceSettled(e) == e \in completed \cup terminal

Known(e) == e \in completed \cup terminal \cup pending

EnqueueAccepted(e) ==
    /\ ~Known(e)
    /\ Len(queue) < MaxQueueSize
    /\ queue' = Append(queue, e)
    /\ unfinished' = unfinished + 1
    /\ pending' = pending \cup {e}
    /\ UNCHANGED <<completed, terminal, failures, worker, tasks, cancelled, calls>>

EnqueueRejected(e) ==
    /\ ~Known(e)
    /\ Len(queue) >= MaxQueueSize
    /\ RecordFailure(e, 0, "maintenance_queue_full")
    /\ UNCHANGED <<queue, unfinished, completed, pending, worker, tasks, cancelled, calls>>
-----------------------------------------------------------------------------
(* The worker task.                                                        *)

\* queue.join() returns: the last unfinished item was marked done.
Released == [c \in Controllers |-> IF pc[c] = "joining" THEN "joined" ELSE pc[c]]

\* await self._queue.get() suspends on an empty queue and takes the head otherwise.
FetchNext(w) ==
    \/ /\ queue = <<>>
       /\ task' = [task EXCEPT ![w] = "waiting"]
       /\ holding' = [holding EXCEPT ![w] = None]
       /\ attempts' = [attempts EXCEPT ![w] = 0]
       /\ UNCHANGED queue
    \/ /\ queue # <<>>
       /\ task' = [task EXCEPT ![w] = "handling"]
       /\ holding' = [holding EXCEPT ![w] = Head(queue)]
       /\ attempts' = [attempts EXCEPT ![w] = 1]
       /\ queue' = Tail(queue)

End(w, how) ==
    /\ task' = [task EXCEPT ![w] = how]
    /\ holding' = [holding EXCEPT ![w] = None]
    /\ attempts' = [attempts EXCEPT ![w] = 0]
    /\ cancelled' = cancelled \ {w}

\* self._queue.task_done(), which raises ValueError when nothing is unfinished.
TaskDone ==
    /\ unfinished > 0
    /\ unfinished' = unfinished - 1
    /\ pc' = IF unfinished = 1 THEN Released ELSE pc
    /\ UNCHANGED <<stopping, target, barrier>>

\* The end of _run's loop body: mark the item done and go round the loop.
NextRound(w) ==
    \/ /\ TaskDone
       /\ FetchNext(w)
       /\ UNCHANGED cancelled
    \/ /\ unfinished = 0
       /\ End(w, "crashed")
       /\ UNCHANGED <<queue, unfinished, calls>>

WorkerStarts(w) ==
    /\ task[w] = "new"
    /\ w \notin cancelled
    /\ FetchNext(w)
    /\ UNCHANGED <<unfinished, sets, worker, cancelled, calls>>

WorkerWakes(w) ==
    /\ task[w] = "waiting"
    /\ w \notin cancelled
    /\ queue # <<>>
    /\ FetchNext(w)
    /\ UNCHANGED <<unfinished, sets, worker, cancelled, calls>>

HandlerReturns(w) ==
    /\ task[w] = "handling"
    /\ w \notin cancelled
    /\ completed' = completed \cup {holding[w]}
    /\ pending' = pending \ {holding[w]}
    /\ NextRound(w)
    /\ UNCHANGED <<terminal, failures, worker>>

\* Mutant of HandlerRaisesRetried: one retry too many.
HandlerRaisesRetriedOnceMore(w) ==
    /\ task[w] = "handling"
    /\ w \notin cancelled
    /\ attempts[w] <= MaxRetries + 1
    /\ attempts' = [attempts EXCEPT ![w] = @ + 1]
    /\ UNCHANGED <<queue, unfinished, sets, worker, task, holding, cancelled, calls>>

HandlerRaisesRetried(w) ==
    /\ task[w] = "handling"
    /\ w \notin cancelled
    /\ attempts[w] <= MaxRetries
    /\ attempts' = [attempts EXCEPT ![w] = @ + 1]
    /\ UNCHANGED <<queue, unfinished, sets, worker, task, holding, cancelled, calls>>

HandlerRaisesTerminal(w) ==
    /\ task[w] = "handling"
    /\ w \notin cancelled
    /\ attempts[w] > MaxRetries
    /\ pending' = pending \ {holding[w]}
    /\ RecordFailure(holding[w], attempts[w], "handler_error")
    /\ NextRound(w)
    /\ UNCHANGED <<completed, worker>>

\* CancelledError reaches a task that handles nothing.
CancelIdleWorker(w) ==
    /\ w \in cancelled
    /\ task[w] \in {"new", "waiting", "stranded"}
    /\ End(w, "none")
    /\ UNCHANGED <<queue, unfinished, sets, worker, calls>>

\* Mutant of CancelHandlerRequeued: the cancelled event is not put back.
CancelHandlerDropped(w) ==
    /\ w \in cancelled
    /\ task[w] = "handling"
    /\ TaskDone
    /\ End(w, "none")
    /\ UNCHANGED <<queue, sets, worker>>

\* CancelledError reaches the handler: the event goes back to the tail of self._queue.
\* The put and the task_done of the finally clause cancel out in the unfinished count.
CancelHandlerRequeued(w) ==
    /\ w \in cancelled
    /\ task[w] = "handling"
    /\ Len(queue) < MaxQueueSize
    /\ queue' = Append(queue, holding[w])
    /\ End(w, "none")
    /\ UNCHANGED <<unfinished, sets, worker, calls>>

\* The same when enqueues have filled the queue while the handler ran.
CancelHandlerQueueFull(w) ==
    /\ w \in cancelled
    /\ task[w] = "handling"
    /\ Len(queue) >= MaxQueueSize
    /\ pending' = pending \ {holding[w]}
    /\ RecordFailure(holding[w], 0, "maintenance_cancelled_queue_full")
    /\ \/ TaskDone /\ End(w, "none")
       \/ unfinished = 0 /\ End(w, "crashed") /\ UNCHANGED <<unfinished, calls>>
    /\ UNCHANGED <<queue, completed, worker>>
-----------------------------------------------------------------------------
(* Controllers.                                                            *)

\* A new task identity; the bound is the size of Workers.
Free(w) == Ended(w) /\ \A c \in Controllers : target[c] # w

CreateWorker ==
    \/ Running /\ UNCHANGED <<worker, task>>
    \/ /\ ~Running
       /\ \E w \in Workers :
            /\ Free(w)
            /\ worker' = w
            /\ task' = [task EXCEPT ![w] = "new"]

Start(c) ==
    /\ pc[c] = "idle"
    /\ CreateWorker
    /\ UNCHANGED <<queue, unfinished, sets, holding, attempts, cancelled, calls>>

\* Mutant of Flush: waits for an empty queue instead of for its join.
FlushUntilEmpty(c, forStop) ==
    /\ pc[c] = "idle"
    /\ forStop => Running \/ queue # <<>>
    /\ CreateWorker
    /\ pc' = [pc EXCEPT ![c] = IF queue # <<>> THEN "joining" ELSE "joined"]
    /\ barrier' = [barrier EXCEPT ![c] = pending]
    /\ stopping' = IF forStop THEN stopping \cup {c} ELSE stopping \ {c}
    /\ UNCHANGED <<queue, unfinished, sets, holding, attempts, cancelled, target>>

\* Mutant of Flush: joins without starting a worker.
FlushWithoutStart(c, forStop) ==
    /\ pc[c] = "idle"
    /\ forStop => Running \/ queue # <<>>
    /\ pc' = [pc EXCEPT ![c] = IF unfinished > 0 THEN "joining" ELSE "joined"]
    /\ barrier' = [barrier EXCEPT ![c] = pending]
    /\ stopping' = IF forStop THEN stopping \cup {c} ELSE stopping \ {c}
    /\ UNCHANGED <<queue, unfinished, sets, worker, tasks, cancelled, target>>

\* flush() up to the suspension in queue.join(), called directly or by a graceful stop.
Flush(c, forStop) ==
    /\ pc[c] = "idle"
    /\ forStop => Running \/ queue # <<>>
    /\ CreateWorker
    /\ pc' = [pc EXCEPT ![c] = IF unfinished > 0 THEN "joining" ELSE "joined"]
    /\ barrier' = [barrier EXCEPT ![c] = pending]
    /\ stopping' = IF forStop THEN stopping \cup {c} ELSE stopping \ {c}
    /\ UNCHANGED <<queue, unfinished, sets, holding, attempts, cancelled, target>>

\* flush() returns after the handler owner's own flush, or that one raises.
FlushReturns(c) ==
    /\ pc[c] = "joined"
    /\ c \notin stopping
    /\ pc' = [pc EXCEPT ![c] = "idle"]
    /\ barrier' = [barrier EXCEPT ![c] = {}]
    /\ UNCHANGED <<queue, unfinished, sets, worker, tasks, cancelled, stopping, target>>

\* The flush inside stop raises: stop raises too, before it touches the worker.
StopFlushRaises(c) ==
    /\ pc[c] = "joined"
    /\ c \in stopping
    /\ pc' = [pc EXCEPT ![c] = "idle"]
    /\ barrier' = [barrier EXCEPT ![c] = {}]
    /\ stopping' = stopping \ {c}
    /\ UNCHANGED <<queue, unfinished, sets, worker, tasks, cancelled, target>>

\* _rebind_queue(): drain self._queue with get_nowait and task_done into a fresh queue.
\* Whoever waits on the old queue is released when the drain ends its unfinished work and
\* stranded otherwise.  With fewer unfinished than queued items task_done raises halfway
\* and the items taken so far are dropped.
Rebind(c) ==
    LET whole == unfinished >= Len(queue)
        freed == unfinished <= Len(queue)
    IN /\ pc' = [d \in Controllers |->
                   CASE d = c -> "idle"
                     [] d # c /\ pc[d] = "joining" -> IF freed THEN "joined" ELSE "stranded"
                     [] OTHER -> pc[d]]
       /\ task' = IF whole
                  THEN [w \in Workers |-> IF task[w] = "waiting" THEN "stranded" ELSE task[w]]
                  ELSE task
       /\ queue' = IF whole THEN queue ELSE SubSeq(queue, unfinished + 2, Len(queue))
       /\ unfinished' = IF whole THEN Len(queue) ELSE 0

StopCanCancel(c) ==
    \/ pc[c] = "joined" /\ c \in stopping
    \/ pc[c] = "idle"  \* graceful=False

\* stop() with no live worker: only the queue is replaced.  A graceful stop that finds
\* neither a live worker nor queued work flushes nothing and ends here too.
StopWithoutWorker(c) ==
    /\ StopCanCancel(c)
    /\ ~Running
    /\ worker' = None
    /\ Rebind(c)
    /\ stopping' = stopping \ {c}
    /\ barrier' = [barrier EXCEPT ![c] = {}]
    /\ UNCHANGED <<sets, holding, attempts, cancelled, target>>

\* stop() cancels the worker and awaits its end.
StopCancels(c) ==
    /\ StopCanCancel(c)
    /\ Running
    /\ worker' = None
    /\ cancelled' = cancelled \cup {worker}
    /\ target' = [target EXCEPT ![c] = worker]
    /\ pc' = [pc EXCEPT ![c] = "awaiting"]
    /\ stopping' = stopping \ {c}
    /\ barrier' = [barrier EXCEPT ![c] = {}]
    /\ UNCHANGED <<queue, unfinished, sets, tasks>>

StopReturns(c) ==
    /\ pc[c] = "awaiting"
    /\ task[target[c]] = "none"
    /\ Rebind(c)
    /\ target' = [target EXCEPT ![c] = None]
    /\ UNCHANGED <<sets, worker, holding, attempts, cancelled, stopping, barrier>>

\* The awaited worker ended with an exception other than CancelledError, which stop re-raises.
StopRaises(c) ==
    /\ pc[c] = "awaiting"
    /\ task[target[c]] = "crashed"
    /\ pc' = [pc EXCEPT ![c] = "idle"]
    /\ target' = [target EXCEPT ![c] = None]
    /\ UNCHANGED <<queue, unfinished, sets, worker, tasks, cancelled, stopping, barrier>>
-----------------------------------------------------------------------------
RequestStep(e) == EnqueueAccepted(e) \/ EnqueueRejected(e)

HandlerEnds(w) ==
    HandlerReturns(w) \/ HandlerRaisesRetried(w) \/ HandlerRaisesTerminal(w)

WorkerStep(w) ==
    \/ WorkerStarts(w) \/ WorkerWakes(w) \/ HandlerEnds(w)
    \/ CancelIdleWorker(w) \/ CancelHandlerRequeued(w) \/ CancelHandlerQueueFull(w)

\* What a suspended controller does once it is resumed.
ControllerResumes(c) ==
    \/ FlushReturns(c) \/ StopFlushRaises(c)
    \/ (pc[c] = "joined" /\ (StopWithoutWorker(c) \/ StopCancels(c)))
    \/ StopReturns(c) \/ StopRaises(c)

ControllerCalls(c) ==
    \/ Start(c) \/ Flush(c, TRUE) \/ Flush(c, FALSE)
    \/ (pc[c] = "idle" /\ (StopWithoutWorker(c) \/ StopCancels(c)))

Next ==
    \/ \E e \in Events : RequestStep(e)
    \/ \E w \in Workers : WorkerStep(w)
    \/ \E c \in Controllers : ControllerResumes(c) \/ ControllerCalls(c)

Spec == Init /\ [][Next]_vars

\* The event loop resumes every task that is ready, and handlers end.
Fairness ==
    /\ \A w \in Workers : WF_vars(WorkerStep(w))
    /\ \A c \in Controllers : WF_vars(ControllerResumes(c))

FairSpec == Spec /\ Fairness
-----------------------------------------------------------------------------
(* Properties. *)

TypeOK ==
    /\ queue \in Seq(Events) /\ Len(queue) <= MaxQueueSize
    /\ unfinished \in Nat
    /\ completed \subseteq Events /\ terminal \subseteq Events /\ pending \subseteq Events
    /\ failures \in Seq([event : Events, attempts : Nat, error : Errors])
    /\ worker \in Workers \cup {None}
    /\ task \in [Workers -> TaskStates]
    /\ holding \in [Workers -> Events \cup {None}]
    /\ \A w \in Workers : task[w] = "handling" <=> holding[w] # None
    /\ attempts \in [Workers -> 0..(MaxRetries + 1)]
    /\ cancelled \subseteq Workers
    /\ pc \in [Controllers -> {"idle", "joining", "joined", "stranded", "awaiting"}]
    /\ stopping \subseteq Controllers
    /\ target \in [Controllers -> Workers \cup {None}]
    /\ barrier \in [Controllers -> SUBSET Events]

\* Where events may be, apart from the sets of ids.
Placed ==
    /\ \A i, j \in 1..Len(queue) : queue[i] = queue[j] => i = j
    /\ \A v, w \in Workers : holding[v] = holding[w] /\ holding[v] # None => v = w
    /\ Queued \cap InFlight = {}

\* No event is queued twice, handled by two workers, or both queued and handled, and an
\* event whose outcome is settled is never queued or handled again: whatever start, flush
\* and stop overlap, a memory is not maintained twice at once nor after its outcome.
NoRework ==
    /\ Placed
    /\ Queued \cup InFlight \subseteq pending
    /\ pending \cap Settled = {}
    /\ completed \cap terminal = {}

\* With one controller, accepted work is never lost: a pending event is in the queue or in
\* a handler, through cancellation and through the move to a fresh queue, and the count
\* queue.join() waits for is exact (so no task_done ever raises).
WorkAccounted ==
    /\ pending = Queued \cup InFlight
    /\ unfinished = Len(queue) + Cardinality(InFlight)

\* "Wait until all work queued before the barrier is complete": when the join of a flush
\* returns, no event that was pending at the call is still pending.
FlushBarrier == \A c \in Controllers : pc[c] = "joined" => barrier[c] \cap pending = {}

\* Every start, flush and stop returns (or raises): none waits for ever on an old queue.
CallsReturn == \A c \in Controllers : pc[c] # "idle" ~> pc[c] = "idle"

\* The supervisor keeps the contract of MaintenanceContract.
Status(e) ==
    CASE e \in completed -> "completed"
      [] e \in terminal \ completed -> "failed"
      [] e \in pending \ Settled -> "accepted"
      [] OTHER -> "unknown"

Contract == INSTANCE MaintenanceContract WITH
    status <- [e \in Events |-> Status(e)],
    log <- [i \in 1..Len(failures) |-> failures[i].event]

KeepsContract == Contract!Spec
=============================================================================
