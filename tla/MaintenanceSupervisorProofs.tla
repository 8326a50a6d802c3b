-------------------- MODULE MaintenanceSupervisorProofs --------------------
(***************************************************************************)
(* Theorems about MaintenanceSupervisor for every set of events, any       *)
(* number of controllers, any pool of worker identities and every queue    *)
(* size and retry limit.                                                   *)
(***************************************************************************)
EXTENDS MaintenanceSupervisor, SequenceTheorems, FiniteSetTheorems, TLAPS

-----------------------------------------------------------------------------
(* Sequences: the queue operations, element by element. *)

\* What Queue.get_nowait leaves behind.
LEMMA TailFacts ==
    ASSUME NEW S, NEW s \in Seq(S), s # <<>>
    PROVE  /\ Len(s) \in Nat \ {0}
           /\ Head(s) = s[1] /\ s[1] \in S
           /\ Tail(s) \in Seq(S)
           /\ Len(Tail(s)) = Len(s) - 1
           /\ \A i \in 1..(Len(s) - 1) : Tail(s)[i] = s[i + 1]
  OBVIOUS

\* What an interrupted drain leaves in the queue: a suffix.
LEMMA SuffixFacts ==
    ASSUME NEW S, NEW s \in Seq(S), NEW n \in Nat, n < Len(s)
    PROVE  /\ SubSeq(s, n + 2, Len(s)) \in Seq(S)
           /\ Len(SubSeq(s, n + 2, Len(s))) = Len(s) - n - 1
           /\ \A i \in 1..(Len(s) - n - 1) : SubSeq(s, n + 2, Len(s))[i] = s[i + n + 1]
  OBVIOUS

-----------------------------------------------------------------------------
(* Type correctness. *)

LEMMA FetchNextTypeOK ==
    ASSUME TypeOK, NEW w \in Workers, FetchNext(w)
    PROVE  /\ queue' \in Seq(Events) /\ Len(queue') <= MaxQueueSize
           /\ task' \in [Workers -> TaskStates]
           /\ holding' \in [Workers -> Events \cup {None}]
           /\ \A v \in Workers : task'[v] = "handling" <=> holding'[v] # None
           /\ attempts' \in [Workers -> 0..(MaxRetries + 1)]
<1>0. Len(queue) \in Nat
  BY DEF TypeOK
<1>1. CASE queue = <<>>
  <2>1. /\ queue' = queue
        /\ task' = [task EXCEPT ![w] = "waiting"]
        /\ holding' = [holding EXCEPT ![w] = None]
        /\ attempts' = [attempts EXCEPT ![w] = 0]
    BY <1>1 DEF FetchNext
  <2> QED
    BY <2>1, <1>0, ConstantsAssumption DEF TypeOK, TaskStates
<1>2. CASE queue # <<>>
  <2>1. /\ queue' = Tail(queue)
        /\ task' = [task EXCEPT ![w] = "handling"]
        /\ holding' = [holding EXCEPT ![w] = Head(queue)]
        /\ attempts' = [attempts EXCEPT ![w] = 1]
    BY <1>2 DEF FetchNext
  <2>2. /\ Head(queue) \in Events /\ Head(queue) # None
        /\ queue' \in Seq(Events) /\ Len(queue') <= MaxQueueSize
    BY <1>2, <2>1, TailFacts, ConstantsAssumption DEF TypeOK
  <2> QED
    BY <2>1, <2>2, ConstantsAssumption DEF TypeOK, TaskStates
<1> QED
  BY <1>1, <1>2

LEMMA EndTypeOK ==
    ASSUME TypeOK, NEW w \in Workers, NEW how \in {"none", "crashed"}, End(w, how)
    PROVE  /\ task' \in [Workers -> TaskStates]
           /\ holding' \in [Workers -> Events \cup {None}]
           /\ \A v \in Workers : task'[v] = "handling" <=> holding'[v] # None
           /\ attempts' \in [Workers -> 0..(MaxRetries + 1)]
           /\ cancelled' \subseteq Workers
  BY ConstantsAssumption DEF End, TypeOK, TaskStates

LEMMA TaskDoneTypeOK ==
    ASSUME TypeOK, TaskDone
    PROVE  /\ unfinished' \in Nat
           /\ pc' \in [Controllers -> {"idle", "joining", "joined", "stranded", "awaiting"}]
           /\ stopping' \subseteq Controllers
           /\ target' \in [Controllers -> Workers \cup {None}]
           /\ barrier' \in [Controllers -> SUBSET Events]
  BY DEF TaskDone, Released, TypeOK

LEMMA RowAppended ==
    ASSUME TypeOK, NEW e \in Events, NEW n \in Nat, NEW error \in Errors
    PROVE  Append(failures, Row(e, n, error)) \in Seq([event : Events, attempts : Nat, error : Errors])
<1>1. Row(e, n, error) \in [event : Events, attempts : Nat, error : Errors]
  BY DEF Row
<1> QED
  BY <1>1, AppendProperties DEF TypeOK

\* The parts of TypeOK that the end of a round of the worker's loop concerns.
LEMMA NextRoundTypeOK ==
    ASSUME TypeOK, NEW w \in Workers, NextRound(w)
    PROVE  /\ queue' \in Seq(Events) /\ Len(queue') <= MaxQueueSize
           /\ unfinished' \in Nat
           /\ task' \in [Workers -> TaskStates]
           /\ holding' \in [Workers -> Events \cup {None}]
           /\ \A v \in Workers : task'[v] = "handling" <=> holding'[v] # None
           /\ attempts' \in [Workers -> 0..(MaxRetries + 1)]
           /\ cancelled' \subseteq Workers
           /\ pc' \in [Controllers -> {"idle", "joining", "joined", "stranded", "awaiting"}]
           /\ stopping' \subseteq Controllers
           /\ target' \in [Controllers -> Workers \cup {None}]
           /\ barrier' \in [Controllers -> SUBSET Events]
<1>1. CASE TaskDone /\ FetchNext(w) /\ UNCHANGED cancelled
  BY <1>1, TaskDoneTypeOK, FetchNextTypeOK DEF TypeOK
<1>2. CASE /\ unfinished = 0
           /\ End(w, "crashed")
           /\ UNCHANGED <<queue, unfinished, calls>>
  BY <1>2, EndTypeOK DEF TypeOK, calls
<1> QED
  BY <1>1, <1>2 DEF NextRound

LEMMA RebindTypeOK ==
    ASSUME TypeOK, NEW c \in Controllers, Rebind(c)
    PROVE  /\ queue' \in Seq(Events) /\ Len(queue') <= MaxQueueSize
           /\ unfinished' \in Nat
           /\ task' \in [Workers -> TaskStates]
           /\ \A v \in Workers : task'[v] = "handling" <=> task[v] = "handling"
           /\ pc' \in [Controllers -> {"idle", "joining", "joined", "stranded", "awaiting"}]
<1>1. pc' \in [Controllers -> {"idle", "joining", "joined", "stranded", "awaiting"}]
  BY DEF Rebind, TypeOK
<1>2. /\ task' \in [Workers -> TaskStates]
      /\ \A v \in Workers : task'[v] = "handling" <=> task[v] = "handling"
  BY DEF Rebind, TypeOK, TaskStates
<1>3. CASE unfinished >= Len(queue)
  BY <1>1, <1>2, <1>3 DEF Rebind, TypeOK
<1>4. CASE ~(unfinished >= Len(queue))
  <2>1. queue' = SubSeq(queue, unfinished + 2, Len(queue)) /\ unfinished' = 0
    BY <1>4 DEF Rebind
  <2>2. Len(queue) \in Nat /\ unfinished < Len(queue)
    BY <1>4 DEF TypeOK
  <2> QED
    BY <1>1, <1>2, <2>1, <2>2, SuffixFacts, ConstantsAssumption DEF TypeOK
<1> QED
  BY <1>3, <1>4

LEMMA RequestTypeOK ==
    ASSUME TypeOK, NEW e \in Events, RequestStep(e)
    PROVE  TypeOK'
<1>1. CASE EnqueueAccepted(e)
  <2>1. queue' \in Seq(Events) /\ Len(queue') <= MaxQueueSize
    BY <1>1, AppendProperties, ConstantsAssumption DEF EnqueueAccepted, TypeOK
  <2> QED
    BY <1>1, <2>1 DEF EnqueueAccepted, TypeOK, tasks, calls
<1>2. CASE EnqueueRejected(e)
  <2>1. /\ terminal' \subseteq Events
        /\ failures' \in Seq([event : Events, attempts : Nat, error : Errors])
    BY <1>2, RowAppended DEF EnqueueRejected, RecordFailure, Errors, TypeOK
  <2> QED
    BY <1>2, <2>1 DEF EnqueueRejected, TypeOK, tasks, calls
<1> QED
  BY <1>1, <1>2 DEF RequestStep

LEMMA WorkerTypeOK ==
    ASSUME TypeOK, NEW w \in Workers, WorkerStep(w)
    PROVE  TypeOK'
<1>1. CASE WorkerStarts(w)
  BY <1>1, FetchNextTypeOK DEF WorkerStarts, TypeOK, sets, calls
<1>2. CASE WorkerWakes(w)
  BY <1>2, FetchNextTypeOK DEF WorkerWakes, TypeOK, sets, calls
<1>3. CASE HandlerReturns(w)
  <2>1. holding[w] \in Events
    BY <1>3 DEF HandlerReturns, TypeOK
  <2> QED
    BY <1>3, <2>1, NextRoundTypeOK DEF HandlerReturns, TypeOK
<1>4. CASE HandlerRaisesRetried(w)
  <2>1. attempts' \in [Workers -> 0..(MaxRetries + 1)]
    BY <1>4, ConstantsAssumption DEF HandlerRaisesRetried, TypeOK
  <2> QED
    BY <1>4, <2>1 DEF HandlerRaisesRetried, TypeOK, sets, calls
<1>5. CASE HandlerRaisesTerminal(w)
  <2>1. holding[w] \in Events /\ attempts[w] \in Nat
    BY <1>5, ConstantsAssumption DEF HandlerRaisesTerminal, TypeOK
  <2>2. /\ terminal' \subseteq Events
        /\ failures' \in Seq([event : Events, attempts : Nat, error : Errors])
    BY <1>5, <2>1, RowAppended DEF HandlerRaisesTerminal, RecordFailure, Errors, TypeOK
  <2> QED
    BY <1>5, <2>2, NextRoundTypeOK DEF HandlerRaisesTerminal, TypeOK
<1>6. CASE CancelIdleWorker(w)
  BY <1>6, EndTypeOK DEF CancelIdleWorker, TypeOK, sets, calls
<1>7. CASE CancelHandlerRequeued(w)
  <2>1. holding[w] \in Events
    BY <1>7 DEF CancelHandlerRequeued, TypeOK
  <2>2. queue' \in Seq(Events) /\ Len(queue') <= MaxQueueSize
    BY <1>7, <2>1, AppendProperties, ConstantsAssumption DEF CancelHandlerRequeued, TypeOK
  <2> QED
    BY <1>7, <2>2, EndTypeOK DEF CancelHandlerRequeued, TypeOK, sets, calls
<1>8. CASE CancelHandlerQueueFull(w)
  <2>1. holding[w] \in Events
    BY <1>8 DEF CancelHandlerQueueFull, TypeOK
  <2>2. /\ terminal' \subseteq Events
        /\ failures' \in Seq([event : Events, attempts : Nat, error : Errors])
    BY <1>8, <2>1, RowAppended DEF CancelHandlerQueueFull, RecordFailure, Errors, TypeOK
  <2>3. CASE TaskDone /\ End(w, "none")
    BY <1>8, <2>2, <2>3, TaskDoneTypeOK, EndTypeOK DEF CancelHandlerQueueFull, TypeOK
  <2>4. CASE unfinished = 0 /\ End(w, "crashed") /\ UNCHANGED <<unfinished, calls>>
    BY <1>8, <2>2, <2>4, EndTypeOK DEF CancelHandlerQueueFull, TypeOK, calls
  <2> QED
    BY <1>8, <2>3, <2>4 DEF CancelHandlerQueueFull
<1> QED
  BY <1>1, <1>2, <1>3, <1>4, <1>5, <1>6, <1>7, <1>8 DEF WorkerStep, HandlerEnds

LEMMA CreateWorkerTypeOK ==
    ASSUME TypeOK, CreateWorker
    PROVE  /\ worker' \in Workers \cup {None}
           /\ task' \in [Workers -> TaskStates]
           /\ \A v \in Workers : task'[v] = "handling" <=> task[v] = "handling"
  BY DEF CreateWorker, Free, Ended, TypeOK, TaskStates

LEMMA ControllerTypeOK ==
    ASSUME TypeOK, NEW c \in Controllers, ControllerResumes(c) \/ ControllerCalls(c)
    PROVE  TypeOK'
<1>1. CASE FlushReturns(c)
  BY <1>1 DEF FlushReturns, TypeOK, sets, tasks
<1>2. CASE StopFlushRaises(c)
  BY <1>2 DEF StopFlushRaises, TypeOK, sets, tasks
<1>3. CASE StopWithoutWorker(c)
  BY <1>3, RebindTypeOK DEF StopWithoutWorker, TypeOK, sets
<1>4. CASE StopCancels(c)
  BY <1>4, ConstantsAssumption DEF StopCancels, Running, TypeOK, sets, tasks
<1>5. CASE StopReturns(c)
  BY <1>5, RebindTypeOK DEF StopReturns, TypeOK, sets
<1>6. CASE StopRaises(c)
  BY <1>6 DEF StopRaises, TypeOK, sets, tasks
<1>7. CASE Start(c)
  BY <1>7, CreateWorkerTypeOK DEF Start, TypeOK, sets, calls
<1>8. ASSUME NEW forStop \in BOOLEAN, Flush(c, forStop)
      PROVE  TypeOK'
  BY <1>8, CreateWorkerTypeOK DEF Flush, TypeOK, sets
<1> QED
  BY <1>1, <1>2, <1>3, <1>4, <1>5, <1>6, <1>7, <1>8 DEF ControllerResumes, ControllerCalls

\* Every variable keeps its type: in particular the queue never exceeds its bound, not even
\* when cancelled work is put back or the queue is replaced, and no event is attempted more
\* than max_retries + 1 times by one worker.
THEOREM TypeCorrect == Spec => []TypeOK
<1>1. Init => TypeOK
  BY ConstantsAssumption DEF Init, TypeOK, TaskStates
<1>2. TypeOK /\ [Next]_vars => TypeOK'
  <2> SUFFICES ASSUME TypeOK, [Next]_vars PROVE TypeOK'
    OBVIOUS
  <2>1. CASE UNCHANGED vars
    BY <2>1 DEF vars, sets, tasks, calls, TypeOK
  <2>2. CASE Next
    BY <2>2, RequestTypeOK, WorkerTypeOK, ControllerTypeOK DEF Next
  <2> QED
    BY <2>1, <2>2
<1> QED
  BY <1>1, <1>2, PTL DEF Spec

-----------------------------------------------------------------------------
(* No event is reworked.  Each kind of step keeps Placed and moves work in *)
(* one way.                                                                *)

LEMMA InFlightIsHeld ==
    ASSUME TypeOK
    PROVE  InFlight = {holding[w] : w \in Workers} \ {None}
  BY DEF InFlight, TypeOK

LEMMA QueuedAreEvents ==
    ASSUME TypeOK
    PROVE  Queued \subseteq Events /\ None \notin Queued
<1>1. \A i \in 1..Len(queue) : queue[i] \in Events
  BY DEF TypeOK
<1> QED
  BY <1>1, ConstantsAssumption DEF Queued

\* What a worker holds is not queued.
LEMMA HeldIsNotQueued ==
    ASSUME TypeOK, Placed, NEW w \in Workers
    PROVE  holding[w] \notin Queued
<1>1. CASE holding[w] = None
  BY <1>1, QueuedAreEvents
<1>2. CASE holding[w] # None
  BY <1>2, InFlightIsHeld DEF Placed
<1> QED
  BY <1>1, <1>2

\* A worker that was not handling takes the head: the same events are at work.
\* One that was handling lets its event go first.
LEMMA FetchNextPlaced ==
    ASSUME TypeOK, TypeOK', Placed, NEW w \in Workers, FetchNext(w)
    PROVE  /\ Placed'
           /\ (Queued \cup InFlight)' \subseteq (Queued \cup InFlight) \ {holding[w]}
<1>1. /\ InFlight = {holding[v] : v \in Workers} \ {None}
      /\ InFlight' = {holding'[v] : v \in Workers} \ {None}
  BY InFlightIsHeld, SMTT(30) DEF InFlight, TypeOK
<1>2. holding[w] \notin Queued
  BY HeldIsNotQueued
<1>3. CASE queue = <<>>
  <2>1. queue' = queue /\ holding' = [holding EXCEPT ![w] = None] /\ Queued' = Queued
    BY <1>3 DEF FetchNext, Queued
  <2>2. InFlight' \subseteq InFlight \ {holding[w]}
    BY <2>1, <1>1 DEF Placed, TypeOK
  <2>3. \A v, u \in Workers : holding'[v] = holding'[u] /\ holding'[v] # None => v = u
    BY <2>1 DEF Placed, TypeOK
  <2> QED
    BY <1>2, <2>1, <2>2, <2>3 DEF Placed
<1>4. CASE queue # <<>>
  <2>1. queue' = Tail(queue) /\ holding' = [holding EXCEPT ![w] = Head(queue)]
    BY <1>4 DEF FetchNext
  <2>2. /\ Len(queue) \in Nat \ {0} /\ Head(queue) = queue[1] /\ queue[1] \in Events
        /\ Len(queue') = Len(queue) - 1
        /\ \A i \in 1..(Len(queue) - 1) : queue'[i] = queue[i + 1]
    BY <1>4, <2>1, TailFacts DEF TypeOK
  <2>3. \A i, j \in 1..Len(queue') : queue'[i] = queue'[j] => i = j
    BY <2>2 DEF Placed
  <2>4. Queued' \subseteq Queued \ {Head(queue)} /\ Head(queue) \in Queued
    BY <2>2 DEF Placed, Queued
  <2>5. Head(queue) # None /\ \A v \in Workers : holding[v] # Head(queue)
    BY <1>1, <2>2, <2>4, ConstantsAssumption DEF Placed
  <2>6. \A v, u \in Workers : holding'[v] = holding'[u] /\ holding'[v] # None => v = u
    BY <2>1, <2>5 DEF Placed, TypeOK
  <2>7. InFlight' \subseteq (InFlight \ {holding[w]}) \cup {Head(queue)}
    BY <2>1, <1>1 DEF Placed, TypeOK
  <2> QED
    BY <1>2, <2>3, <2>4, <2>5, <2>6, <2>7 DEF Placed
<1> QED
  BY <1>3, <1>4

\* A worker that ends lets its event go.
LEMMA EndPlaced ==
    ASSUME TypeOK, TypeOK', Placed, NEW w \in Workers, NEW how \in {"none", "crashed"},
           End(w, how), UNCHANGED queue
    PROVE  /\ Placed'
           /\ (Queued \cup InFlight)' \subseteq (Queued \cup InFlight) \ {holding[w]}
<1>1. /\ InFlight = {holding[v] : v \in Workers} \ {None}
      /\ InFlight' = {holding'[v] : v \in Workers} \ {None}
  BY InFlightIsHeld DEF InFlight, TypeOK
<1>2. holding' = [holding EXCEPT ![w] = None] /\ Queued' = Queued
  BY DEF End, Queued
<1>3. holding[w] \notin Queued
  BY HeldIsNotQueued
<1>4. InFlight' \subseteq InFlight \ {holding[w]}
  BY <1>1, <1>2 DEF Placed, TypeOK
<1>5. \A v, u \in Workers : holding'[v] = holding'[u] /\ holding'[v] # None => v = u
  BY <1>2 DEF Placed, TypeOK
<1> QED
  BY <1>2, <1>3, <1>4, <1>5 DEF Placed

\* An event that is nowhere at work is put at the tail of the queue.
LEMMA AppendPlaced ==
    ASSUME TypeOK, Placed, NEW e \in Events, e \notin Queued, queue' = Append(queue, e)
    PROVE  /\ \A i, j \in 1..Len(queue') : queue'[i] = queue'[j] => i = j
           /\ Queued' = Queued \cup {e}
<1>1. /\ Len(queue) \in Nat /\ Len(queue') = Len(queue) + 1
      /\ \A i \in 1..Len(queue) : queue'[i] = queue[i]
      /\ queue'[Len(queue) + 1] = e
  BY AppendProperties DEF TypeOK
<1>2. \A i \in 1..Len(queue') : i \in 1..Len(queue) \/ i = Len(queue) + 1
  BY <1>1
<1> QED
  BY <1>1, <1>2 DEF Placed, Queued

\* The drain of stop keeps a suffix of the queue.
LEMMA RebindPlaced ==
    ASSUME TypeOK, TypeOK', Placed, NEW c \in Controllers, Rebind(c), UNCHANGED holding
    PROVE  Placed' /\ (Queued \cup InFlight)' \subseteq Queued \cup InFlight
<1>1. InFlight' = InFlight
  BY InFlightIsHeld DEF InFlight, TypeOK
<1>2. CASE unfinished >= Len(queue)
  <2>1. queue' = queue /\ Queued' = Queued
    BY <1>2 DEF Rebind, Queued
  <2> QED
    BY <1>1, <2>1 DEF Placed
<1>3. CASE ~(unfinished >= Len(queue))
  <2>1. queue' = SubSeq(queue, unfinished + 2, Len(queue))
    BY <1>3 DEF Rebind
  <2>0. queue \in Seq(Events) /\ Len(queue) \in Nat /\ unfinished \in Nat /\ unfinished < Len(queue)
    BY <1>3 DEF TypeOK
  <2>2. /\ Len(queue') = Len(queue) - unfinished - 1
        /\ \A i \in 1..(Len(queue) - unfinished - 1) : queue'[i] = queue[i + unfinished + 1]
    BY <2>0, <2>1, SuffixFacts
  <2>3. ASSUME NEW i \in 1..Len(queue'), NEW j \in 1..Len(queue'), queue'[i] = queue'[j]
        PROVE  i = j
    <3>1. /\ i + unfinished + 1 \in 1..Len(queue) /\ j + unfinished + 1 \in 1..Len(queue)
          /\ queue[i + unfinished + 1] = queue[j + unfinished + 1]
      BY <2>0, <2>2, <2>3
    <3>2. i + unfinished + 1 = j + unfinished + 1
      BY <3>1 DEF Placed
    <3> QED
      BY <2>0, <2>2, <3>2
  <2>4. Queued' \subseteq Queued
    BY <2>0, <2>2 DEF Queued
  <2> QED
    BY <1>1, <2>3, <2>4 DEF Placed
<1> QED
  BY <1>2, <1>3

\* The end of a round settles the held event, or keeps it settled while the worker ends.
LEMMA NextRoundPlaced ==
    ASSUME TypeOK, TypeOK', Placed, NEW w \in Workers, NextRound(w)
    PROVE  /\ Placed'
           /\ (Queued \cup InFlight)' \subseteq (Queued \cup InFlight) \ {holding[w]}
<1>1. CASE TaskDone /\ FetchNext(w) /\ UNCHANGED cancelled
  BY <1>1, FetchNextPlaced
<1>2. CASE /\ unfinished = 0
           /\ End(w, "crashed")
           /\ UNCHANGED <<queue, unfinished, calls>>
  BY <1>2, EndPlaced
<1> QED
  BY <1>1, <1>2 DEF NextRound

LEMMA RequestNoRework ==
    ASSUME TypeOK, TypeOK', NoRework, NEW e \in Events, RequestStep(e)
    PROVE  NoRework'
<1> USE DEF NoRework
<1>1. CASE EnqueueAccepted(e)
  <2>1. /\ e \notin Queued \cup InFlight /\ e \notin Settled
        /\ queue' = Append(queue, e)
        /\ pending' = pending \cup {e}
        /\ UNCHANGED <<completed, terminal, task, holding>>
    BY <1>1 DEF EnqueueAccepted, Known, Settled, tasks
  <2>2. /\ \A i, j \in 1..Len(queue') : queue'[i] = queue'[j] => i = j
        /\ Queued' = Queued \cup {e}
    BY <2>1, AppendPlaced
  <2>3. InFlight' = InFlight /\ Settled' = Settled
    BY <2>1 DEF InFlight, Settled
  <2>4. Placed'
    BY <2>1, <2>2, <2>3 DEF Placed
  <2> QED
    BY <2>1, <2>2, <2>3, <2>4
<1>2. CASE EnqueueRejected(e)
  <2>1. /\ e \notin pending /\ e \notin completed
        /\ terminal' = terminal \cup {e}
        /\ UNCHANGED <<queue, pending, completed, task, holding>>
    BY <1>2 DEF EnqueueRejected, RecordFailure, Known, tasks
  <2>2. Placed' /\ InFlight' = InFlight /\ Queued' = Queued
    BY <2>1 DEF Placed, InFlight, Queued
  <2> QED
    BY <2>1, <2>2 DEF Settled
<1> QED
  BY <1>1, <1>2 DEF RequestStep

LEMMA WorkerNoRework ==
    ASSUME TypeOK, TypeOK', NoRework, NEW w \in Workers, WorkerStep(w)
    PROVE  NoRework'
<1> USE DEF NoRework
<1>1. CASE WorkerStarts(w) \/ WorkerWakes(w)
  <2>1. FetchNext(w) /\ UNCHANGED sets
    BY <1>1 DEF WorkerStarts, WorkerWakes
  <2> QED
    BY <2>1, FetchNextPlaced DEF sets, Settled
<1>2. CASE HandlerReturns(w)
  <2>1. /\ holding[w] \in Events /\ holding[w] \in InFlight
        /\ completed' = completed \cup {holding[w]}
        /\ pending' = pending \ {holding[w]}
        /\ terminal' = terminal
        /\ NextRound(w)
    BY <1>2 DEF HandlerReturns, TypeOK, InFlight
  <2> QED
    BY <2>1, NextRoundPlaced DEF Settled
<1>3. CASE HandlerRaisesRetried(w)
  <2>1. UNCHANGED <<queue, task, holding, sets>>
    BY <1>3 DEF HandlerRaisesRetried
  <2> QED
    BY <2>1 DEF sets, Settled, Placed, Queued, InFlight
<1>4. CASE HandlerRaisesTerminal(w)
  <2>1. /\ holding[w] \in Events /\ holding[w] \in InFlight
        /\ terminal' = terminal \cup {holding[w]}
        /\ pending' = pending \ {holding[w]}
        /\ completed' = completed
        /\ NextRound(w)
    BY <1>4 DEF HandlerRaisesTerminal, RecordFailure, TypeOK, InFlight
  <2> QED
    BY <2>1, NextRoundPlaced DEF Settled
<1>5. CASE CancelIdleWorker(w)
  <2>1. End(w, "none") /\ UNCHANGED queue /\ UNCHANGED sets
    BY <1>5 DEF CancelIdleWorker
  <2> QED
    BY <2>1, EndPlaced DEF sets, Settled
<1>6. CASE CancelHandlerRequeued(w)
  <2>1. /\ holding[w] \in Events /\ holding[w] \in InFlight
        /\ queue' = Append(queue, holding[w])
        /\ holding' = [holding EXCEPT ![w] = None]
        /\ UNCHANGED sets
    BY <1>6 DEF CancelHandlerRequeued, End, TypeOK, InFlight
  <2>2. /\ \A i, j \in 1..Len(queue') : queue'[i] = queue'[j] => i = j
        /\ Queued' = Queued \cup {holding[w]}
    BY <2>1, HeldIsNotQueued, AppendPlaced
  <2>3. InFlight' = {holding'[v] : v \in Workers} \ {None}
    BY InFlightIsHeld DEF InFlight, TypeOK
  <2>4. \A v, u \in Workers : holding'[v] = holding'[u] /\ holding'[v] # None => v = u
    BY <2>1 DEF Placed, TypeOK
  <2>5. InFlight' \subseteq InFlight \ {holding[w]}
    BY <2>1, <2>3, InFlightIsHeld DEF Placed, TypeOK
  <2>6. Placed'
    BY <2>2, <2>4, <2>5 DEF Placed
  <2> QED
    BY <2>1, <2>2, <2>5, <2>6 DEF sets, Settled
<1>7. CASE CancelHandlerQueueFull(w)
  <2>1. /\ holding[w] \in Events /\ holding[w] \in InFlight
        /\ terminal' = terminal \cup {holding[w]}
        /\ pending' = pending \ {holding[w]}
        /\ completed' = completed
        /\ UNCHANGED queue
        /\ End(w, "none") \/ End(w, "crashed")
    BY <1>7 DEF CancelHandlerQueueFull, RecordFailure, TypeOK, InFlight
  <2> QED
    BY <2>1, EndPlaced DEF Settled
<1> QED
  BY <1>1, <1>2, <1>3, <1>4, <1>5, <1>6, <1>7 DEF WorkerStep, HandlerEnds

LEMMA ControllerNoRework ==
    ASSUME TypeOK, TypeOK', NoRework, NEW c \in Controllers,
           ControllerResumes(c) \/ ControllerCalls(c)
    PROVE  NoRework'
<1> USE DEF NoRework
<1>1. UNCHANGED <<sets, holding>>
  BY DEF ControllerResumes, ControllerCalls, FlushReturns, StopFlushRaises, StopWithoutWorker,
         StopCancels, StopReturns, StopRaises, Start, Flush, tasks
<1>2. CASE Rebind(c)
  BY <1>1, <1>2, RebindPlaced DEF sets, Settled
<1>3. CASE UNCHANGED queue
  <2>1. Queued' = Queued /\ InFlight' = InFlight
    BY <1>1, <1>3, InFlightIsHeld DEF Queued, InFlight, TypeOK
  <2> QED
    BY <1>1, <1>3, <2>1 DEF sets, Settled, Placed
<1> QED
  BY <1>2, <1>3 DEF ControllerResumes, ControllerCalls, FlushReturns, StopFlushRaises,
     StopWithoutWorker, StopCancels, StopReturns, StopRaises, Start, Flush, tasks

\* However start, flush, stop and enqueue overlap, no event is maintained by two workers at
\* once, and none after its outcome is known.
THEOREM NeverReworked == Spec => []NoRework
<1>1. Init => NoRework
  BY ConstantsAssumption DEF Init, NoRework, Placed, Queued, InFlight, Settled
<1>2. TypeOK /\ TypeOK' /\ NoRework /\ [Next]_vars => NoRework'
  <2> SUFFICES ASSUME TypeOK, TypeOK', NoRework, [Next]_vars PROVE NoRework'
    OBVIOUS
  <2>1. CASE UNCHANGED vars
    BY <2>1 DEF vars, sets, tasks, NoRework, Placed, Queued, InFlight, Settled
  <2>2. CASE Next
    BY <2>2, RequestNoRework, WorkerNoRework, ControllerNoRework DEF Next
  <2> QED
    BY <2>1, <2>2
<1> QED
  BY <1>1, <1>2, TypeCorrect, PTL DEF Spec

-----------------------------------------------------------------------------
(* One controller.  The application and each benchmark driver start, flush *)
(* and stop their supervisor from one task.  Then at most one worker task  *)
(* exists at a time, no queue is replaced under a waiting task, and no     *)
(* accepted event is lost.                                                 *)

OneController == \A c, d \in Controllers : c = d

Awaits(c, w) == pc[c] = "awaiting" /\ target[c] = w

\* A worker task that has not ended is either self._worker, and then nobody has cancelled
\* it, or the one whose end stop() awaits, and then there is no other.
Alone ==
    /\ \A w \in Workers : task[w] \notin {"stranded", "crashed"}
    /\ \A w \in Workers : task[w] # "none" =>
          \/ w = worker /\ w \notin cancelled
          \/ \E c \in Controllers : Awaits(c, w)
    /\ \A c \in Controllers : pc[c] = "awaiting" => worker = None /\ target[c] \in Workers
    /\ \A c \in Controllers : pc[c] # "awaiting" => target[c] = None
    /\ \A w \in cancelled : task[w] # "none" /\ \E c \in Controllers : Awaits(c, w)

\* What a flush waits for was accepted before: it is pending still or its outcome is known.
BarrierKnown == \A c \in Controllers : barrier[c] \subseteq pending \cup Settled

OneInv == Alone /\ WorkAccounted /\ BarrierKnown /\ FlushBarrier

LEMMA OneTask ==
    ASSUME TypeOK, OneController, Alone, NEW u \in Workers, NEW v \in Workers,
           task[u] # "none", task[v] # "none"
    PROVE  u = v
  BY ConstantsAssumption DEF OneController, Alone, Awaits

\* The only task that has not ended handles everything that is in flight.
LEMMA HandledAlone ==
    ASSUME TypeOK, NEW w \in Workers, \A v \in Workers \ {w} : task[v] # "handling"
    PROVE  /\ InFlight = IF task[w] = "handling" THEN {holding[w]} ELSE {}
           /\ Cardinality(InFlight) = IF task[w] = "handling" THEN 1 ELSE 0
<1>1. InFlight = IF task[w] = "handling" THEN {holding[w]} ELSE {}
  BY DEF InFlight
<1> QED
  BY <1>1, FS_EmptySet, FS_Singleton

LEMMA NothingHandled ==
    ASSUME \A v \in Workers : task[v] # "handling"
    PROVE  InFlight = {} /\ Cardinality(InFlight) = 0
<1>1. InFlight = {}
  BY DEF InFlight
<1> QED
  BY <1>1, FS_EmptySet

LEMMA InFlightCount ==
    ASSUME TypeOK, OneController, Alone
    PROVE  /\ Cardinality(InFlight) \in Nat
           /\ Cardinality(InFlight) = 0 => InFlight = {}
<1>1. CASE \E w \in Workers : task[w] = "handling"
  <2>1. PICK w \in Workers : task[w] = "handling"
    BY <1>1
  <2>2. Cardinality(InFlight) = 1
    BY <2>1, OneTask, HandledAlone
  <2> QED
    BY <2>2
<1>2. CASE ~\E w \in Workers : task[w] = "handling"
  BY <1>2, NothingHandled
<1> QED
  BY <1>1, <1>2

\* A worker that is alone takes the head of the queue, or waits for one to come: what was
\* queued is afterwards queued or in flight.
LEMMA FetchNextAccounts ==
    ASSUME TypeOK, TypeOK', NEW w \in Workers, \A v \in Workers \ {w} : task[v] = "none",
           FetchNext(w)
    PROVE  /\ (Queued \cup InFlight)' = Queued
           /\ (Len(queue) + Cardinality(InFlight))' = Len(queue)
           /\ \A v \in Workers \ {w} : task'[v] = "none"
           /\ task'[w] \in {"waiting", "handling"}
<1>1. /\ \A v \in Workers \ {w} : task'[v] = "none"
      /\ task'[w] \in {"waiting", "handling"}
  BY DEF FetchNext, TypeOK
<1>2. /\ InFlight' = IF task'[w] = "handling" THEN {holding'[w]} ELSE {}
      /\ Cardinality(InFlight') = IF task'[w] = "handling" THEN 1 ELSE 0
  <2>1. InFlight' = IF task'[w] = "handling" THEN {holding'[w]} ELSE {}
    BY <1>1 DEF InFlight
  <2> QED
    BY <2>1, FS_EmptySet, FS_Singleton
<1>3. CASE queue = <<>>
  <2>1. queue' = queue /\ task'[w] = "waiting"
    BY <1>3 DEF FetchNext, TypeOK
  <2>2. Queued' = Queued /\ Len(queue) \in Nat
    BY <2>1 DEF Queued, TypeOK
  <2> QED
    BY <1>1, <1>2, <2>1, <2>2
<1>4. CASE queue # <<>>
  <2>1. queue' = Tail(queue) /\ task'[w] = "handling" /\ holding'[w] = Head(queue)
    BY <1>4 DEF FetchNext, TypeOK
  <2>2. /\ Len(queue) \in Nat \ {0} /\ Head(queue) = queue[1]
        /\ Len(queue') = Len(queue) - 1
        /\ \A i \in 1..(Len(queue) - 1) : queue'[i] = queue[i + 1]
    BY <1>4, <2>1, TailFacts DEF TypeOK
  <2>3. Queued = Queued' \cup {Head(queue)}
    <3>1. Queued \subseteq Queued' \cup {Head(queue)}
      <4> SUFFICES ASSUME NEW i \in 1..Len(queue), i # 1
                   PROVE  queue[i] \in Queued'
        BY <2>2 DEF Queued
      <4>1. i - 1 \in 1..Len(queue') /\ queue'[i - 1] = queue[i]
        BY <2>2
      <4> QED
        BY <4>1 DEF Queued
    <3>2. Queued' \subseteq Queued /\ Head(queue) \in Queued
      BY <2>2 DEF Queued
    <3> QED
      BY <3>1, <3>2
  <2> QED
    BY <1>1, <1>2, <2>1, <2>2, <2>3
<1> QED
  BY <1>3, <1>4

LEMMA RequestOne ==
    ASSUME TypeOK, TypeOK', NoRework, OneController, OneInv, NEW e \in Events, RequestStep(e)
    PROVE  OneInv'
<1>1. /\ UNCHANGED <<task, holding, worker, cancelled, pc, target, barrier, completed>>
      /\ e \notin pending /\ e \notin Settled
  BY DEF RequestStep, EnqueueAccepted, EnqueueRejected, Known, Settled, tasks, calls
<1>2. Alone' /\ InFlight' = InFlight
  BY <1>1 DEF OneInv, Alone, Awaits, InFlight
<1>3. CASE EnqueueAccepted(e)
  <2>1. /\ queue' = Append(queue, e) /\ unfinished' = unfinished + 1
        /\ pending' = pending \cup {e} /\ terminal' = terminal
    BY <1>3 DEF EnqueueAccepted
  <2>2. e \notin Queued
    BY <1>1 DEF NoRework
  <2>3. Queued' = Queued \cup {e} /\ Len(queue') = Len(queue) + 1 /\ Len(queue) \in Nat
    BY <2>1, <2>2, AppendPlaced, AppendProperties DEF NoRework, TypeOK
  <2>4. Cardinality(InFlight) \in Nat /\ unfinished \in Nat
    BY InFlightCount DEF OneInv, TypeOK
  <2>5. WorkAccounted'
    BY <1>2, <2>1, <2>3, <2>4 DEF OneInv, WorkAccounted
  <2>6. BarrierKnown' /\ FlushBarrier'
    BY <1>1, <2>1 DEF OneInv, BarrierKnown, FlushBarrier, Settled
  <2> QED
    BY <1>2, <2>5, <2>6 DEF OneInv
<1>4. CASE EnqueueRejected(e)
  <2>1. UNCHANGED <<queue, unfinished, pending>> /\ terminal' = terminal \cup {e}
    BY <1>4 DEF EnqueueRejected, RecordFailure
  <2>2. WorkAccounted' /\ BarrierKnown' /\ FlushBarrier'
    BY <1>1, <1>2, <2>1 DEF OneInv, WorkAccounted, BarrierKnown, FlushBarrier, Settled, Queued
  <2> QED
    BY <1>2, <2>2 DEF OneInv
<1> QED
  BY <1>3, <1>4 DEF RequestStep

\* The end of a round marks one item done, which the worker was handling: task_done does not
\* raise, and the joins it releases had nothing else to wait for.
LEMMA NextRoundOne ==
    ASSUME TypeOK, TypeOK', NoRework, OneController, OneInv, NEW w \in Workers,
           task[w] = "handling", w \notin cancelled, NextRound(w),
           pending' = pending \ {holding[w]}, UNCHANGED worker,
           Settled' = Settled \cup {holding[w]}
    PROVE  OneInv'
<1>1. \A v \in Workers \ {w} : task[v] = "none"
  BY OneTask DEF OneInv
<1>2. InFlight = {holding[w]} /\ unfinished = Len(queue) + 1
  BY <1>1, HandledAlone DEF OneInv, WorkAccounted
<1>3. Len(queue) \in Nat
  BY DEF TypeOK
<1>4. /\ unfinished' = Len(queue)
      /\ pc' = IF unfinished = 1 THEN Released ELSE pc
      /\ UNCHANGED <<cancelled, target, barrier>>
      /\ FetchNext(w)
  BY <1>2, <1>3 DEF NextRound, TaskDone
<1>5. /\ (Queued \cup InFlight)' = Queued
      /\ (Len(queue) + Cardinality(InFlight))' = Len(queue)
      /\ \A v \in Workers \ {w} : task'[v] = "none"
      /\ task'[w] \in {"waiting", "handling"}
  BY <1>1, <1>4, FetchNextAccounts
<1>6. pending' = Queued
  BY <1>2 DEF NoRework, Placed, OneInv, WorkAccounted
<1>7. WorkAccounted'
  BY <1>4, <1>5, <1>6 DEF WorkAccounted
<1>8. \A c \in Controllers : /\ pc'[c] = "awaiting" <=> pc[c] = "awaiting"
                             /\ pc'[c] = "joined" => pc[c] = "joined" \/ unfinished = 1
  BY <1>4 DEF Released, TypeOK
<1>9. Alone'
  <2>1. cancelled' = {}
    BY <1>1, <1>4 DEF OneInv, Alone, TypeOK
  <2> QED
    BY <1>4, <1>5, <1>8, <2>1 DEF OneInv, Alone, Awaits
<1>10. BarrierKnown'
  BY <1>4 DEF OneInv, BarrierKnown
<1>11. FlushBarrier'
  <2> SUFFICES ASSUME NEW c \in Controllers, pc'[c] = "joined"
               PROVE  barrier[c] \cap pending' = {}
    BY <1>4 DEF FlushBarrier
  <2>1. CASE pc[c] = "joined"
    BY <2>1 DEF OneInv, FlushBarrier
  <2>2. CASE unfinished = 1
    <3>1. Len(queue) = 0
      BY <1>2, <1>3, <2>2
    <3> QED
      BY <1>6, <3>1 DEF Queued
  <2> QED
    BY <1>8, <2>1, <2>2
<1> QED
  BY <1>7, <1>9, <1>10, <1>11 DEF OneInv

\* Only the worker that stop() awaits is ever cancelled: when it ends no task is left.
LEMMA CancelledOne ==
    ASSUME TypeOK, TypeOK', OneController, Alone, NEW w \in Workers, w \in cancelled,
           task[w] # "none", End(w, "none"), UNCHANGED <<worker, pc, target>>
    PROVE  Alone' /\ \A v \in Workers : task'[v] = "none"
<1>1. \A v \in Workers : task'[v] = "none"
  <2>1. \A v \in Workers \ {w} : task[v] = "none"
    BY OneTask
  <2> QED
    BY <2>1 DEF End, TypeOK
<1>2. cancelled' = {}
  BY OneTask DEF End, Alone, TypeOK
<1> QED
  BY <1>1, <1>2 DEF Alone, Awaits

LEMMA WorkerOne ==
    ASSUME TypeOK, TypeOK', NoRework, OneController, OneInv, NEW w \in Workers, WorkerStep(w)
    PROVE  OneInv'
<1>0. Len(queue) \in Nat
  BY DEF TypeOK
<1>1. CASE WorkerStarts(w) \/ WorkerWakes(w)
  <2>1. /\ task[w] \in {"new", "waiting"} /\ FetchNext(w)
        /\ UNCHANGED <<unfinished, sets, worker, cancelled, calls>>
    BY <1>1 DEF WorkerStarts, WorkerWakes
  <2>2. \A v \in Workers \ {w} : task[v] = "none"
    BY <2>1, OneTask DEF OneInv
  <2>3. InFlight = {} /\ Cardinality(InFlight) = 0
    BY <2>1, <2>2, NothingHandled
  <2>4. /\ (Queued \cup InFlight)' = Queued
        /\ (Len(queue) + Cardinality(InFlight))' = Len(queue)
        /\ \A v \in Workers \ {w} : task'[v] = "none"
        /\ task'[w] \in {"waiting", "handling"}
    BY <2>1, <2>2, FetchNextAccounts
  <2>5. WorkAccounted'
    BY <1>0, <2>1, <2>3, <2>4 DEF OneInv, WorkAccounted, sets
  <2>6. Alone'
    <3>1. \A v \in Workers : task'[v] # "none" => task[v] # "none"
      BY <2>1, <2>4
    <3>2. \A v \in cancelled : task'[v] # "none"
      BY <2>1, <2>2, <2>4 DEF OneInv, Alone, TypeOK
    <3>3. \A v \in Workers : task'[v] \notin {"stranded", "crashed"}
      BY <2>4
    <3> QED
      BY <2>1, <3>1, <3>2, <3>3 DEF OneInv, Alone, Awaits, calls
  <2>7. BarrierKnown' /\ FlushBarrier'
    BY <2>1 DEF OneInv, BarrierKnown, FlushBarrier, Settled, sets, calls
  <2> QED
    BY <2>5, <2>6, <2>7 DEF OneInv
<1>2. CASE HandlerReturns(w)
  BY <1>2, NextRoundOne DEF HandlerReturns, Settled
<1>3. CASE HandlerRaisesRetried(w)
  BY <1>3 DEF HandlerRaisesRetried, OneInv, Alone, Awaits, WorkAccounted, Queued, InFlight,
     BarrierKnown, FlushBarrier, Settled, sets, calls
<1>4. CASE HandlerRaisesTerminal(w)
  BY <1>4, NextRoundOne DEF HandlerRaisesTerminal, RecordFailure, Settled
<1>5. CASE CancelIdleWorker(w)
  <2>1. /\ w \in cancelled /\ task[w] \in {"new", "waiting", "stranded"} /\ End(w, "none")
        /\ UNCHANGED <<queue, unfinished, sets, worker, calls>>
    BY <1>5 DEF CancelIdleWorker
  <2>2. Alone' /\ \A v \in Workers : task'[v] = "none"
    BY <2>1, CancelledOne DEF OneInv, calls
  <2>3. \A v \in Workers : task[v] # "handling"
    BY <2>1, OneTask DEF OneInv
  <2>4. InFlight' = InFlight /\ Queued' = Queued
    BY <2>1, <2>2, <2>3 DEF InFlight, Queued
  <2>5. WorkAccounted' /\ BarrierKnown' /\ FlushBarrier'
    BY <2>1, <2>4 DEF OneInv, WorkAccounted, BarrierKnown, FlushBarrier, Settled, sets, calls
  <2> QED
    BY <2>2, <2>5 DEF OneInv
<1>6. CASE CancelHandlerRequeued(w)
  <2>1. /\ w \in cancelled /\ task[w] = "handling" /\ End(w, "none")
        /\ queue' = Append(queue, holding[w])
        /\ UNCHANGED <<unfinished, sets, worker, calls>>
    BY <1>6 DEF CancelHandlerRequeued
  <2>2. Alone' /\ \A v \in Workers : task'[v] = "none"
    BY <2>1, CancelledOne DEF OneInv, calls
  <2>3. InFlight = {holding[w]} /\ Cardinality(InFlight) = 1
    BY <2>1, OneTask, HandledAlone DEF OneInv
  <2>4. InFlight' = {} /\ Cardinality(InFlight') = 0
    <3>1. InFlight' = {}
      BY <2>2 DEF InFlight
    <3> QED
      BY <3>1, FS_EmptySet
  <2>5. holding[w] \in Events
    BY <2>1 DEF TypeOK
  <2>6. Queued' = Queued \cup {holding[w]} /\ Len(queue') = Len(queue) + 1
    BY <2>1, <2>5, HeldIsNotQueued, AppendPlaced, AppendProperties DEF NoRework, TypeOK
  <2>7. WorkAccounted'
    BY <1>0, <2>1, <2>3, <2>4, <2>6 DEF OneInv, WorkAccounted, sets
  <2>8. BarrierKnown' /\ FlushBarrier'
    BY <2>1 DEF OneInv, BarrierKnown, FlushBarrier, Settled, sets, calls
  <2> QED
    BY <2>2, <2>7, <2>8 DEF OneInv
<1>7. CASE CancelHandlerQueueFull(w)
  <2>1. /\ w \in cancelled /\ task[w] = "handling"
        /\ pending' = pending \ {holding[w]}
        /\ Settled' = Settled \cup {holding[w]}
        /\ UNCHANGED <<queue, completed, worker>>
    BY <1>7 DEF CancelHandlerQueueFull, RecordFailure, Settled
  <2>2. InFlight = {holding[w]} /\ unfinished = Len(queue) + 1
    BY <2>1, OneTask, HandledAlone DEF OneInv, WorkAccounted
  <2>3. /\ End(w, "none") /\ unfinished' = Len(queue)
        /\ pc' = IF unfinished = 1 THEN Released ELSE pc
        /\ UNCHANGED <<target, barrier>>
    BY <1>0, <1>7, <2>2 DEF CancelHandlerQueueFull, TaskDone
  <2>4. \A c \in Controllers : /\ pc'[c] = "awaiting" <=> pc[c] = "awaiting"
                               /\ pc'[c] = "joined" => pc[c] = "joined" \/ unfinished = 1
    BY <2>3 DEF Released, TypeOK
  <2>5. \A v \in Workers : task'[v] = "none"
    <3>1. \A v \in Workers \ {w} : task[v] = "none"
      BY <2>1, OneTask DEF OneInv
    <3> QED
      BY <2>3, <3>1 DEF End, TypeOK
  <2>6. cancelled' = {}
    BY <2>1, <2>3, OneTask DEF End, OneInv, Alone, TypeOK
  <2>7. Alone'
    BY <2>1, <2>3, <2>4, <2>5, <2>6 DEF OneInv, Alone, Awaits
  <2>8. InFlight' = {} /\ Cardinality(InFlight') = 0
    <3>1. InFlight' = {}
      BY <2>5 DEF InFlight
    <3> QED
      BY <3>1, FS_EmptySet
  <2>9. Queued' = Queued /\ pending' = Queued
    BY <2>1, <2>2, HeldIsNotQueued DEF NoRework, OneInv, WorkAccounted, Queued
  <2>10. WorkAccounted'
    BY <1>0, <2>1, <2>3, <2>8, <2>9 DEF WorkAccounted
  <2>11. BarrierKnown'
    BY <2>1, <2>3 DEF OneInv, BarrierKnown
  <2>12. FlushBarrier'
    <3> SUFFICES ASSUME NEW c \in Controllers, pc'[c] = "joined"
                 PROVE  barrier[c] \cap pending' = {}
      BY <2>3 DEF FlushBarrier
    <3>1. CASE pc[c] = "joined"
      BY <2>1, <3>1 DEF OneInv, FlushBarrier
    <3>2. CASE unfinished = 1
      <4>1. Len(queue) = 0
        BY <1>0, <2>2, <3>2
      <4> QED
        BY <2>9, <4>1 DEF Queued
    <3> QED
      BY <2>4, <3>1, <3>2
  <2> QED
    BY <2>7, <2>10, <2>11, <2>12 DEF OneInv
<1> QED
  BY <1>1, <1>2, <1>3, <1>4, <1>5, <1>6, <1>7 DEF WorkerStep, HandlerEnds

\* start() and flush() make a worker only when there is none, and nothing is awaited then.
LEMMA CreateWorkerOne ==
    ASSUME TypeOK, OneController, Alone, NEW c \in Controllers, pc[c] = "idle", CreateWorker,
           UNCHANGED <<holding, cancelled, target>>,
           \A d \in Controllers : pc'[d] # "awaiting"
    PROVE  Alone' /\ InFlight' = InFlight
<1>1. \A d \in Controllers : pc[d] # "awaiting" /\ target[d] = None
  BY DEF OneController, Alone
<1>2. cancelled = {} /\ \A w \in Workers : task[w] # "none" => w = worker
  BY <1>1 DEF Alone, Awaits, TypeOK
<1>3. CASE Running /\ UNCHANGED <<worker, task>>
  BY <1>1, <1>2, <1>3 DEF Alone, Awaits, InFlight
<1>4. CASE ~Running
  <2>1. \A w \in Workers : task[w] = "none"
    BY <1>2, <1>4, ConstantsAssumption DEF Running, Ended, Alone
  <2>2. PICK w \in Workers : worker' = w /\ task' = [task EXCEPT ![w] = "new"]
    BY <1>4 DEF CreateWorker
  <2>3. InFlight' = InFlight
    BY <2>1, <2>2 DEF InFlight, TypeOK
  <2> QED
    BY <1>1, <1>2, <2>1, <2>2, <2>3 DEF Alone, Awaits, TypeOK
<1> QED
  BY <1>3, <1>4 DEF CreateWorker

\* With no task left the whole queue moves, and its count is what it held.
LEMMA RebindOne ==
    ASSUME TypeOK, TypeOK', OneController, OneInv, NEW c \in Controllers, Rebind(c),
           \A w \in Workers : task[w] = "none", cancelled = {},
           UNCHANGED <<sets, holding, cancelled>>, target'[c] = None,
           \A d \in Controllers : barrier'[d] \subseteq barrier[d]
    PROVE  OneInv'
<1>1. InFlight = {} /\ Cardinality(InFlight) = 0
  BY NothingHandled
<1>2. Len(queue) \in Nat /\ unfinished = Len(queue)
  BY <1>1 DEF TypeOK, OneInv, WorkAccounted
<1>3. /\ queue' = queue /\ unfinished' = Len(queue)
      /\ \A w \in Workers : task'[w] = "none"
      /\ \A d \in Controllers : pc'[d] = "idle"
  BY <1>2 DEF Rebind, OneController, TypeOK
<1>4. Queued' = Queued /\ InFlight' = {}
  BY <1>3 DEF Queued, InFlight
<1>5. WorkAccounted'
  BY <1>1, <1>2, <1>3, <1>4 DEF OneInv, WorkAccounted, sets
<1>6. Alone'
  BY <1>3 DEF Alone, OneController
<1>7. BarrierKnown' /\ FlushBarrier'
  BY <1>3 DEF OneInv, BarrierKnown, FlushBarrier, Settled, sets
<1> QED
  BY <1>5, <1>6, <1>7 DEF OneInv

LEMMA ControllerOne ==
    ASSUME TypeOK, TypeOK', OneController, OneInv, NEW c \in Controllers,
           ControllerResumes(c) \/ ControllerCalls(c)
    PROVE  OneInv'
<1>1. CASE FlushReturns(c) \/ StopFlushRaises(c)
  <2>1. /\ pc[c] = "joined" /\ pc' = [pc EXCEPT ![c] = "idle"]
        /\ barrier' = [barrier EXCEPT ![c] = {}]
        /\ UNCHANGED <<queue, unfinished, sets, worker, tasks, cancelled, target>>
    BY <1>1 DEF FlushReturns, StopFlushRaises
  <2> QED
    BY <2>1 DEF OneInv, Alone, Awaits, WorkAccounted, Queued, InFlight, BarrierKnown,
       FlushBarrier, Settled, sets, tasks, TypeOK
<1>2. CASE StopWithoutWorker(c)
  <2>1. /\ pc[c] \in {"joined", "idle"} /\ ~Running /\ Rebind(c)
        /\ barrier' = [barrier EXCEPT ![c] = {}]
        /\ UNCHANGED <<sets, holding, attempts, cancelled, target>>
    BY <1>2 DEF StopWithoutWorker, StopCanCancel
  <2>2. \A d \in Controllers : pc[d] # "awaiting" /\ target[d] = None
    BY <2>1 DEF OneController, OneInv, Alone
  <2>3. cancelled = {} /\ \A w \in Workers : task[w] = "none"
    <3>1. \A w \in Workers : ~\E d \in Controllers : Awaits(d, w)
      BY <2>2 DEF Awaits
    <3>2. cancelled = {}
      BY <3>1 DEF OneInv, Alone, TypeOK
    <3> SUFFICES ASSUME NEW w \in Workers, task[w] # "none" PROVE FALSE
      BY <3>2
    <3>3. w = worker
      BY <3>1 DEF OneInv, Alone
    <3>4. task[w] # "crashed" /\ w # None
      BY ConstantsAssumption DEF OneInv, Alone
    <3> QED
      BY <2>1, <3>3, <3>4 DEF Running, Ended
  <2>4. target'[c] = None /\ \A d \in Controllers : barrier'[d] \subseteq barrier[d]
    BY <2>1, <2>2 DEF TypeOK
  <2> QED
    BY <2>1, <2>3, <2>4, RebindOne
<1>3. CASE StopCancels(c)
  <2>1. /\ pc[c] \in {"joined", "idle"} /\ Running
        /\ worker' = None /\ cancelled' = cancelled \cup {worker}
        /\ target' = [target EXCEPT ![c] = worker]
        /\ pc' = [pc EXCEPT ![c] = "awaiting"]
        /\ barrier' = [barrier EXCEPT ![c] = {}]
        /\ UNCHANGED <<queue, unfinished, sets, tasks>>
    BY <1>3 DEF StopCancels, StopCanCancel
  <2>2. \A d \in Controllers : d = c
    BY DEF OneController
  <2>3. worker \in Workers /\ task[worker] # "none" /\ pc'[c] = "awaiting" /\ target'[c] = worker
    BY <2>1 DEF Running, Ended, TypeOK
  <2>4. cancelled = {} /\ \A w \in Workers : task[w] # "none" => w = worker
    BY <2>1, <2>2 DEF OneInv, Alone, Awaits, TypeOK
  <2>5. Alone'
    BY <2>1, <2>2, <2>3, <2>4 DEF OneInv, Alone, Awaits, tasks
  <2>6. WorkAccounted' /\ BarrierKnown' /\ FlushBarrier'
    BY <2>1, <2>2, <2>3 DEF OneInv, WorkAccounted, Queued, InFlight, BarrierKnown,
       FlushBarrier, Settled, sets, tasks, TypeOK
  <2> QED
    BY <2>5, <2>6 DEF OneInv
<1>4. CASE StopReturns(c)
  <2>1. /\ pc[c] = "awaiting" /\ task[target[c]] = "none" /\ Rebind(c)
        /\ target' = [target EXCEPT ![c] = None]
        /\ UNCHANGED <<sets, worker, holding, attempts, cancelled, stopping, barrier>>
    BY <1>4 DEF StopReturns
  <2>2. worker = None /\ \A d \in Controllers : d = c
    BY <2>1 DEF OneController, OneInv, Alone
  <2>3. \A w \in Workers : task[w] = "none"
    BY <2>1, <2>2, ConstantsAssumption DEF OneInv, Alone, Awaits
  <2>4. target'[c] = None
    BY <2>1 DEF TypeOK
  <2>5. cancelled = {}
    BY <2>3 DEF OneInv, Alone, TypeOK
  <2> QED
    BY <2>1, <2>3, <2>4, <2>5, RebindOne
<1>5. CASE StopRaises(c)
  BY <1>5 DEF StopRaises, OneInv, Alone
<1>6. CASE Start(c)
  <2>1. /\ pc[c] = "idle" /\ CreateWorker
        /\ UNCHANGED <<queue, unfinished, sets, holding, attempts, cancelled, calls>>
    BY <1>6 DEF Start
  <2>2. Alone' /\ InFlight' = InFlight
    <3>1. \A d \in Controllers : pc'[d] # "awaiting"
      BY <2>1 DEF OneController, calls
    <3> QED
      BY <2>1, <3>1, CreateWorkerOne DEF OneInv, calls
  <2>3. WorkAccounted' /\ BarrierKnown' /\ FlushBarrier'
    BY <2>1, <2>2 DEF OneInv, WorkAccounted, Queued, BarrierKnown, FlushBarrier, Settled,
       sets, calls
  <2> QED
    BY <2>2, <2>3 DEF OneInv
<1>7. ASSUME NEW forStop \in BOOLEAN, Flush(c, forStop)
      PROVE  OneInv'
  <2>1. /\ pc[c] = "idle" /\ CreateWorker
        /\ pc' = [pc EXCEPT ![c] = IF unfinished > 0 THEN "joining" ELSE "joined"]
        /\ barrier' = [barrier EXCEPT ![c] = pending]
        /\ UNCHANGED <<queue, unfinished, sets, holding, attempts, cancelled, target>>
    BY <1>7 DEF Flush
  <2>2. \A d \in Controllers : d = c
    BY DEF OneController
  <2>3. /\ pc'[c] = IF unfinished > 0 THEN "joining" ELSE "joined"
        /\ barrier'[c] = pending
    BY <2>1 DEF TypeOK
  <2>4. Alone' /\ InFlight' = InFlight
    <3>1. \A d \in Controllers : pc'[d] # "awaiting"
      BY <2>2, <2>3
    <3> QED
      BY <2>1, <3>1, CreateWorkerOne DEF OneInv
  <2>5. WorkAccounted' /\ BarrierKnown'
    BY <2>1, <2>2, <2>3, <2>4 DEF OneInv, WorkAccounted, Queued, BarrierKnown, sets
  <2>6. FlushBarrier'
    <3>1. ASSUME unfinished = 0 PROVE pending = {}
      <4>1. /\ Len(queue) \in Nat /\ Cardinality(InFlight) \in Nat
            /\ Cardinality(InFlight) = 0 => InFlight = {}
        BY InFlightCount DEF TypeOK, OneInv
      <4>2. Len(queue) = 0 /\ InFlight = {}
        BY <3>1, <4>1 DEF OneInv, WorkAccounted
      <4> QED
        BY <4>2 DEF OneInv, WorkAccounted, Queued
    <3>2. unfinished \in Nat
      BY DEF TypeOK
    <3> QED
      BY <2>1, <2>2, <2>3, <3>1, <3>2 DEF FlushBarrier, sets
  <2> QED
    BY <2>4, <2>5, <2>6 DEF OneInv
<1> QED
  BY <1>1, <1>2, <1>3, <1>4, <1>5, <1>6, <1>7 DEF ControllerResumes, ControllerCalls

LEMMA OneInvariance == OneController => (Spec => []OneInv)
<1> SUFFICES ASSUME OneController PROVE Spec => []OneInv
  OBVIOUS
<1>1. Init => OneInv
  <2> SUFFICES ASSUME Init PROVE OneInv
    OBVIOUS
  <2>1. InFlight = {} /\ Cardinality(InFlight) = 0
    BY NothingHandled DEF Init
  <2> QED
    BY <2>1 DEF Init, OneInv, Alone, WorkAccounted, Queued, BarrierKnown, FlushBarrier
<1>2. TypeOK /\ TypeOK' /\ NoRework /\ OneInv /\ [Next]_vars => OneInv'
  <2> SUFFICES ASSUME TypeOK, TypeOK', NoRework, OneInv, [Next]_vars PROVE OneInv'
    OBVIOUS
  <2>1. CASE UNCHANGED vars
    BY <2>1 DEF vars, sets, tasks, calls, OneInv, Alone, Awaits, WorkAccounted, Queued,
       InFlight, BarrierKnown, FlushBarrier, Settled
  <2>2. CASE Next
    BY <2>2, RequestOne, WorkerOne, ControllerOne DEF Next
  <2> QED
    BY <2>1, <2>2
<1> QED
  BY <1>1, <1>2, TypeCorrect, NeverReworked, PTL DEF Spec

\* With one controller no accepted event is lost, whatever fails, is cancelled or is moved to
\* a fresh queue, and the count that queue.join() waits for is that of the work left.
THEOREM LosesNoWork == OneController => (Spec => []WorkAccounted)
<1>1. OneInv => WorkAccounted
  BY DEF OneInv
<1> QED
  BY <1>1, OneInvariance, PTL

\* With one controller flush() is the barrier its documentation says: when its join returns,
\* the outcome of everything accepted before the call is known.
THEOREM FlushIsBarrier == OneController => (Spec => []FlushBarrier)
<1>1. OneInv => FlushBarrier
  BY DEF OneInv
<1> QED
  BY <1>1, OneInvariance, PTL

-----------------------------------------------------------------------------
(* The supervisor implements MaintenanceContract. *)

StatusMap == [e \in Events |-> Status(e)]
Log == [i \in 1..Len(failures) |-> failures[i].event]

LEMMA LogAppended ==
    ASSUME TypeOK, NEW e \in Events, NEW n \in Nat, NEW error \in Errors,
           RecordFailure(e, n, error)
    PROVE  Log' = Append(Log, e)
<1> DEFINE row == Row(e, n, error)
<1>1. failures' = Append(failures, row) /\ row.event = e
  BY DEF RecordFailure, Row
<1>2. /\ Len(failures) \in Nat /\ Len(failures') = Len(failures) + 1
      /\ \A i \in 1..Len(failures) : failures'[i] = failures[i]
      /\ failures'[Len(failures) + 1] = row
  <2>1. row \in [event : Events, attempts : Nat, error : Errors]
    BY DEF Row
  <2>2. failures \in Seq([event : Events, attempts : Nat, error : Errors])
    BY DEF TypeOK
  <2> HIDE DEF row
  <2> QED
    BY <1>1, <2>1, <2>2, AppendProperties
<1>3. \A i \in 1..Len(failures) : failures[i].event \in Events
  <2>1. \A i \in 1..Len(failures) : failures[i] \in [event : Events, attempts : Nat, error : Errors]
    <3>1. failures \in Seq([event : Events, attempts : Nat, error : Errors])
      BY DEF TypeOK
    <3> QED
      BY <3>1, ElementOfSeq
  <2> QED
    BY <2>1
<1>4. Log \in Seq(Events) /\ Len(Log) = Len(failures)
  BY <1>2, <1>3 DEF Log
<1>5. /\ Append(Log, e) \in Seq(Events) /\ Len(Append(Log, e)) = Len(failures) + 1
      /\ \A i \in 1..Len(failures) : Append(Log, e)[i] = failures[i].event
      /\ Append(Log, e)[Len(failures) + 1] = e
  BY <1>2, <1>4, AppendProperties DEF Log
<1>6. Log' \in Seq(Events) /\ Len(Log') = Len(failures) + 1
  <2>1. \A i \in 1..Len(failures') : failures'[i].event \in Events
    BY <1>1, <1>2, <1>3
  <2> QED
    BY <1>2, <2>1 DEF Log
<1>7. \A i \in 1..Len(Log') : Log'[i] = Append(Log, e)[i]
  BY <1>1, <1>2, <1>5, <1>6 DEF Log
<1> HIDE DEF row
<1> QED
  BY <1>5, <1>6, <1>7, SeqEqual

\* Only the three sets of ids and the failure rows are visible in the contract.
LEMMA HiddenStep ==
    ASSUME UNCHANGED sets
    PROVE  StatusMap' = StatusMap /\ Log' = Log
  BY DEF sets, StatusMap, Status, Settled, Log

LEMMA SettledStep ==
    ASSUME TypeOK, NoRework, NEW e \in Events, pending' = pending \ {e},
           \/ e \in pending /\ completed' = completed \cup {e} /\ terminal' = terminal
           \/ e \notin completed /\ completed' = completed /\ terminal' = terminal \cup {e}
    PROVE  StatusMap' = [StatusMap EXCEPT ![e] =
                            IF completed' = completed THEN "failed" ELSE "completed"]
<1>1. e \notin completed /\ (e \in pending => e \notin terminal)
  BY DEF NoRework, Settled
<1>2. \A f \in Events \ {e} : Status(f)' = Status(f)
  BY DEF Status, Settled
<1>3. CASE e \in pending /\ completed' = completed \cup {e} /\ terminal' = terminal
  <2>1. Status(e)' = "completed" /\ completed' # completed
    BY <1>1, <1>3 DEF Status
  <2> QED
    BY <1>2, <2>1 DEF StatusMap
<1>4. CASE e \notin completed /\ completed' = completed /\ terminal' = terminal \cup {e}
  <2>1. Status(e)' = "failed"
    BY <1>4 DEF Status
  <2> QED
    BY <1>2, <1>4, <2>1 DEF StatusMap
<1> QED
  BY <1>3, <1>4

LEMMA RequestKeepsContract ==
    ASSUME TypeOK, NoRework, NEW e \in Events, RequestStep(e)
    PROVE  Contract!Next
<1>1. Status(e) = "unknown" /\ StatusMap[e] = "unknown"
  BY DEF RequestStep, EnqueueAccepted, EnqueueRejected, Known, Status, StatusMap, Settled
<1>2. CASE EnqueueAccepted(e)
  <2>1. Status(e)' = "accepted" /\ \A f \in Events \ {e} : Status(f)' = Status(f)
    BY <1>2 DEF EnqueueAccepted, Known, Status, Settled
  <2>2. StatusMap' = [StatusMap EXCEPT ![e] = "accepted"]
    BY <2>1 DEF StatusMap
  <2>3. Log' = Log
    BY <1>2 DEF EnqueueAccepted, Log
  <2>4. Contract!Accept(e)
    BY <1>1, <2>2, <2>3 DEF Contract!Accept, StatusMap, Log
  <2> QED
    BY <2>4 DEF Contract!Next
<1>3. CASE EnqueueRejected(e)
  <2>1. /\ e \notin completed /\ completed' = completed /\ terminal' = terminal \cup {e}
        /\ pending' = pending \ {e}
    BY <1>3 DEF EnqueueRejected, RecordFailure, Known
  <2>2. StatusMap' = [StatusMap EXCEPT ![e] = "failed"]
    BY <2>1, SettledStep
  <2>3. Log' = Append(Log, e)
    BY <1>3, LogAppended DEF EnqueueRejected, Errors
  <2>4. Contract!Fail(e)
    BY <1>1, <2>2, <2>3 DEF Contract!Fail, StatusMap, Log
  <2> QED
    BY <2>4 DEF Contract!Next
<1> QED
  BY <1>2, <1>3 DEF RequestStep

LEMMA HandlingKeepsContract ==
    ASSUME TypeOK, NoRework, NEW w \in Workers, NEW e \in Events,
           task[w] = "handling", holding[w] = e,
           HandlerReturns(w) \/ HandlerRaisesTerminal(w) \/ CancelHandlerQueueFull(w)
    PROVE  Contract!Next
<1>1. /\ e \in pending /\ e \notin completed /\ StatusMap[e] = "accepted"
  BY DEF NoRework, InFlight, Status, StatusMap, Settled
<1>2. CASE HandlerReturns(w)
  <2>1. /\ completed' = completed \cup {e} /\ terminal' = terminal
        /\ pending' = pending \ {e} /\ failures' = failures
    BY <1>2 DEF HandlerReturns
  <2>2. completed' # completed
    BY <1>1, <2>1
  <2>3. StatusMap' = [StatusMap EXCEPT ![e] = "completed"]
    BY <1>1, <2>1, <2>2, SettledStep
  <2>4. Log' = Log
    BY <2>1 DEF Log
  <2>5. Contract!Complete(e)
    BY <1>1, <2>3, <2>4 DEF Contract!Complete, StatusMap, Log
  <2> QED
    BY <2>5 DEF Contract!Next
<1>3. CASE HandlerRaisesTerminal(w) \/ CancelHandlerQueueFull(w)
  <2>1. /\ completed' = completed /\ terminal' = terminal \cup {e}
        /\ pending' = pending \ {e}
    BY <1>3 DEF HandlerRaisesTerminal, CancelHandlerQueueFull, RecordFailure
  <2>2. StatusMap' = [StatusMap EXCEPT ![e] = "failed"]
    BY <1>1, <2>1, SettledStep
  <2>3. Log' = Append(Log, e)
    <3>1. attempts[w] \in Nat
      BY ConstantsAssumption DEF TypeOK
    <3> QED
      BY <1>3, <3>1, LogAppended DEF HandlerRaisesTerminal, CancelHandlerQueueFull, Errors
  <2>4. Contract!Fail(e)
    BY <1>1, <2>2, <2>3 DEF Contract!Fail, StatusMap, Log
  <2> QED
    BY <2>4 DEF Contract!Next
<1> QED
  BY <1>2, <1>3

LEMMA WorkerKeepsContract ==
    ASSUME TypeOK, NoRework, NEW w \in Workers, WorkerStep(w)
    PROVE  Contract!Next \/ UNCHANGED <<StatusMap, Log>>
<1>1. CASE HandlerReturns(w) \/ HandlerRaisesTerminal(w) \/ CancelHandlerQueueFull(w)
  <2>1. task[w] = "handling" /\ holding[w] \in Events
    BY <1>1 DEF HandlerReturns, HandlerRaisesTerminal, CancelHandlerQueueFull, TypeOK
  <2>2. PICK e \in Events : holding[w] = e
    BY <2>1
  <2> QED
    BY <1>1, <2>1, <2>2, HandlingKeepsContract
<1>2. CASE UNCHANGED sets
  BY <1>2, HiddenStep
<1> QED
  BY <1>1, <1>2 DEF WorkerStep, HandlerEnds, WorkerStarts, WorkerWakes,
     HandlerRaisesRetried, CancelIdleWorker, CancelHandlerRequeued

LEMMA ControllerKeepsContract ==
    ASSUME NEW c \in Controllers, ControllerResumes(c) \/ ControllerCalls(c)
    PROVE  UNCHANGED <<StatusMap, Log>>
<1>1. UNCHANGED sets
  BY DEF ControllerResumes, ControllerCalls, FlushReturns, StopFlushRaises, StopWithoutWorker,
         StopCancels, StopReturns, StopRaises, Start, Flush
<1> QED
  BY <1>1, HiddenStep

\* Each event is accepted or refused once and settled at most once, and every failure leaves
\* exactly one row, in every interleaving: the supervisor implements its contract.
THEOREM Implements == Spec => KeepsContract
<1>1. Init => Contract!Init
  <2> SUFFICES ASSUME Init PROVE Contract!Init
    OBVIOUS
  <2>1. StatusMap = [e \in Events |-> "unknown"]
    BY DEF Init, StatusMap, Status, Settled
  <2>2. Log = <<>>
    BY DEF Init, Log
  <2> QED
    BY <2>1, <2>2 DEF Contract!Init, StatusMap, Log
<1>2. TypeOK /\ NoRework /\ [Next]_vars => [Contract!Next]_(Contract!vars)
  <2> SUFFICES ASSUME TypeOK, NoRework, [Next]_vars
               PROVE  Contract!Next \/ UNCHANGED <<StatusMap, Log>>
    BY DEF Contract!vars, StatusMap, Log
  <2>1. CASE UNCHANGED vars
    BY <2>1, HiddenStep DEF vars
  <2>2. CASE Next
    BY <2>2, RequestKeepsContract, WorkerKeepsContract, ControllerKeepsContract DEF Next
  <2> QED
    BY <2>1, <2>2
<1> QED
  BY <1>1, <1>2, TypeCorrect, NeverReworked, PTL DEF Spec, KeepsContract, Contract!Spec

=============================================================================
