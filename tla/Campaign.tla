------------------------------ MODULE Campaign ------------------------------
(***************************************************************************)
(* A campaign of benchmark modes over one shared provider session          *)
(* (benchmarks/campaign/): preflight, the root manifest and its resume,    *)
(* the sequential and the interleaved scheduler, run_one for each mode,    *)
(* the paired comparisons, the aggregate and the final status.  A mode's   *)
(* benchmark is its child manifest with its case log: open, one chat per   *)
(* case, complete; ArtifactStore has the same directory in detail.         *)
(*                                                                         *)
(* The process may be killed at any step or cancelled by a signal, and a   *)
(* benchmark may raise.  Each mode runs in the thread of its name.         *)
(***************************************************************************)
EXTENDS ProviderSession, Sequences, SequencesExt

CONSTANTS
    Order,        \* the modes, in the order of the configuration
    Items,        \* the case identifiers every mode selects
    Asks,         \* the prompt of each case in each mode
    Configs,      \* configurations: scheduler mode and failure policy
    Pairs,        \* the comparisons: pairs of modes
    CpuWorkers,   \* cpu_workers
    MaxFaults     \* bound on kills, signals and benchmarks that raise

Modes == Threads

\* The manifests, as far as a campaign reads them back.
Statuses == {"pending", "running", "partial", "failed", "complete"}
Outcomes == {"complete", "failed"}
RootManifest ==
    [config : Configs, status : {"partial", "complete"}, modes : [Modes -> Statuses]]
ChildManifest ==
    [status : {"partial", "complete"}, log : [Items -> Outcomes \cup {None}]]

ASSUME CampaignAssumption ==
    /\ Order \in Seq(Modes) /\ ToSet(Order) = Modes /\ Len(Order) = Cardinality(Modes)
    /\ Asks \in [Modes -> [Items -> Prompts]]
    /\ Configs \subseteq [scheduler : {"sequential", "interleaved"}, continue : BOOLEAN]
    /\ Pairs \subseteq Modes \X Modes
    /\ CpuWorkers \in Nat \ {0} /\ MaxFaults \in Nat
    /\ None \notin RootManifest \cup ChildManifest

VARIABLES
    root,         \* manifest.json of the campaign, or None
    child,        \* manifest and case log of each mode, or None
    aggregate,    \* aggregate.json: modes and comparisons, or None
    comparable,   \* the pairs whose paired invariants agree
    pc,           \* where the process is; "down" when there is none
    mode,         \* where run_one is for each mode
    escaping,     \* an exception waits for the pool to empty
    faults

campaign == <<root, child, aggregate, comparable, pc, mode, escaping, faults>>
vars == <<session, campaign>>

Places == {"off", "queued", "opening", "working", "returned", "recorded"}

NoMode == [m \in Modes |-> "off"]
NoLog == [i \in Items |-> None]
Fresh(c) == [config |-> c, status |-> "partial", modes |-> [m \in Modes |-> "pending"]]

Init ==
    /\ SessionInit
    /\ root = None
    /\ child = [m \in Modes |-> None]
    /\ aggregate = None
    /\ comparable \in SUBSET Pairs
    /\ pc = "down"
    /\ mode = NoMode
    /\ escaping = FALSE /\ faults = 0

-----------------------------------------------------------------------------
(* run_campaign, up to the scheduler. *)

\* Mutant: every mode is run again on a resume.
PendingAll(r) == Modes
\* Mutant: a mode that was running when the process ended is forgotten.
PendingUnlessRunning(r) == {m \in Modes : r.modes[m] \notin {"complete", "running"}}
Pending(r) == {m \in Modes : r.modes[m] # "complete"}

Queue(r) == [m \in Modes |-> IF m \in Pending(r) THEN "queued" ELSE "off"]

Begin(r) ==
    /\ root' = r
    /\ mode' = Queue(r)
    /\ pc' = "scheduling"
    /\ Renew
    /\ UNCHANGED <<child, aggregate, comparable, escaping, faults>>

\* A preflight or a manifest that refuses leaves everything as it was.
Start(c) == pc = "down" /\ root = None /\ Begin(Fresh(c))
Resume(c) ==
    /\ pc = "down" /\ root # None
    /\ root.config = c
    /\ Begin([root EXCEPT !.status = "partial"])

Sequential == root.config.scheduler = "sequential"
Busy == {m \in Modes : mode[m] \in {"opening", "working", "returned", "recorded"}}
Queued == {m \in Modes : mode[m] = "queued"}

\* ThreadPoolExecutor(max_workers = 0): nothing was pending.
PoolRefused ==
    /\ pc = "scheduling" /\ ~Sequential /\ Queued = {}
    /\ pc' = "down"
    /\ UNCHANGED <<session, root, child, aggregate, comparable, mode, escaping, faults>>

Schedule ==
    /\ pc = "scheduling" /\ (Sequential \/ Queued # {})
    /\ pc' = "running"
    /\ UNCHANGED <<session, root, child, aggregate, comparable, mode, escaping, faults>>

-----------------------------------------------------------------------------
(* run_one: the record is read and written whole, under the store's lock. *)

Update(m, status) == root' = [root EXCEPT !.modes[m] = status]

Workers == IF Sequential THEN 1 ELSE CpuWorkers
First(m) == \A n \in Queued : \E i, j \in DOMAIN Order : i <= j /\ Order[i] = m /\ Order[j] = n

RunMode(m) ==
    /\ pc = "running" /\ mode[m] = "queued" /\ First(m)
    /\ Cardinality(Busy) < Workers
    /\ Update(m, "running")
    /\ mode' = [mode EXCEPT ![m] = "opening"]
    /\ UNCHANGED <<session, child, aggregate, comparable, pc, escaping, faults>>

\* The benchmark writes its manifest, or resumes the one it finds.
OpenChild(m) ==
    /\ mode[m] = "opening"
    /\ child' = [child EXCEPT ![m] =
           [status |-> "partial", log |-> IF child[m] = None THEN NoLog ELSE child[m].log]]
    /\ mode' = [mode EXCEPT ![m] = "working"]
    /\ UNCHANGED <<session, root, aggregate, comparable, pc, escaping, faults>>

Todo(m) == {i \in Items : child[m].log[i] = None}

\* A case asks the shared client; its answer, or the exception, is its outcome.
AskCase(m) ==
    /\ mode[m] = "working"
    /\ \E i \in Todo(m) : Chat(m, Asks[m][i])
    /\ UNCHANGED campaign

OutcomeOf(stage) == IF stage = "answered" THEN "complete" ELSE "failed"

RecordCase(m) ==
    /\ mode[m] = "working" /\ Ended(m)
    /\ \E i \in Todo(m) :
           /\ Asks[m][i] = call[m].prompt
           /\ child' = [child EXCEPT ![m].log[i] = OutcomeOf(call[m].stage)]
    /\ call' = [call EXCEPT ![m] = Idle]
    /\ UNCHANGED <<cache, tally, bucket, root, aggregate, comparable, pc, mode, escaping, faults>>

ChildCompletes(m) ==
    /\ mode[m] = "working" /\ call[m] = Idle /\ Todo(m) = {}
    /\ child' = [child EXCEPT ![m].status = "complete"]
    /\ mode' = [mode EXCEPT ![m] = "returned"]
    /\ UNCHANGED <<session, root, aggregate, comparable, pc, escaping, faults>>

Fault == faults < MaxFaults /\ faults' = faults + 1

\* The benchmark returns without completing its manifest.
ChildStops(m) ==
    /\ mode[m] = "working" /\ call[m] = Idle /\ Fault
    /\ mode' = [mode EXCEPT ![m] = "returned"]
    /\ UNCHANGED <<session, root, child, aggregate, comparable, pc, escaping>>

ChildIsComplete(m) == child[m].status = "complete"

\* The record is replaced inside the try; run_one leaves it after that.
Recorded(m) ==
    /\ mode[m] = "returned" /\ ChildIsComplete(m)
    /\ Update(m, "complete")
    /\ mode' = [mode EXCEPT ![m] = "recorded"]
    /\ UNCHANGED <<session, child, aggregate, comparable, pc, escaping, faults>>

Leaves(m) ==
    /\ mode[m] = "recorded"
    /\ mode' = [mode EXCEPT ![m] = "off"]
    /\ UNCHANGED <<session, root, child, aggregate, comparable, pc, escaping, faults>>

\* What run_one leaves of a mode that raised.
Remains(m) == IF child[m] # None THEN "partial" ELSE "failed"

\* The exception ends a sequential campaign unless failures are continued; in a
\* pool the other modes are run to their end first.
Raises(m) ==
    /\ Update(m, Remains(m))
    /\ call' = [call EXCEPT ![m] = Idle]
    /\ IF root.config.continue
       THEN mode' = [mode EXCEPT ![m] = "off"] /\ UNCHANGED <<pc, escaping>>
       ELSE IF Sequential
       THEN mode' = NoMode /\ pc' = "down" /\ UNCHANGED escaping
       ELSE mode' = [mode EXCEPT ![m] = "off"] /\ escaping' = TRUE /\ UNCHANGED pc
    /\ UNCHANGED <<cache, tally, bucket, child, aggregate, comparable>>

ReturnRefused(m) == mode[m] = "returned" /\ ~ChildIsComplete(m) /\ Raises(m) /\ UNCHANGED faults
\* The benchmark raises, or the write of the record does, before it replaces anything.
ChildRaises(m) == mode[m] \in {"opening", "working", "returned"} /\ call[m] = Idle /\ Fault /\ Raises(m)

-----------------------------------------------------------------------------
(* The end of the schedule, the comparisons and the final manifest. *)

Drained == pc = "running" /\ Busy = {} /\ Queued = {}

Escapes ==
    /\ Drained /\ escaping
    /\ pc' = "down" /\ escaping' = FALSE
    /\ UNCHANGED <<session, root, child, aggregate, comparable, mode, faults>>

\* compare: same invariants, and at least one case that both sides completed.
Valid(pair) ==
    /\ root.modes[pair[1]] = "complete" /\ root.modes[pair[2]] = "complete"
    /\ pair \in comparable
    /\ \E i \in Items : child[pair[1]].log[i] = "complete" /\ child[pair[2]].log[i] = "complete"

WriteAggregate ==
    /\ Drained /\ ~escaping
    /\ aggregate' = [modes |-> root.modes, valid |-> {pair \in Pairs : Valid(pair)}]
    /\ pc' = "finalizing"
    /\ UNCHANGED <<session, root, child, comparable, mode, escaping, faults>>

\* Mutant: one mode that is complete is enough.
FinalOfSome == IF "complete" \in Range(root.modes) THEN "complete" ELSE "partial"
Final == IF Range(root.modes) = {"complete"} /\ aggregate.valid = Pairs THEN "complete" ELSE "partial"

Finalize ==
    /\ pc = "finalizing"
    /\ root' = [root EXCEPT !.status = Final]
    /\ pc' = "down"
    /\ UNCHANGED <<session, child, aggregate, comparable, mode, escaping, faults>>

-----------------------------------------------------------------------------
(* Cancellation and crash. *)

\* A signal raises KeyboardInterrupt in the main thread, which runs the mode
\* itself in a sequential campaign and waits for the pool in an interleaved one.
\* The handler of run_one writes the mode's record again, also over "complete"; a mode
\* that has not entered its try stays as it is recorded.
Cancel ==
    /\ pc = "running" /\ Fault
    /\ IF Sequential
       THEN /\ \/ root' = [root EXCEPT !.modes = [m \in Modes |-> IF m \in Busy THEN Remains(m) ELSE @[m]]]
               \/ (\A m \in Busy : mode[m] = "opening") /\ root' = root
            /\ call' = [m \in Modes |-> Idle]
            /\ mode' = NoMode /\ pc' = "down" /\ UNCHANGED escaping
       ELSE escaping' = TRUE /\ UNCHANGED <<call, root, mode, pc>>
    /\ UNCHANGED <<cache, tally, bucket, child, aggregate, comparable>>

Kill ==
    /\ pc # "down" /\ Fault
    /\ pc' = "down" /\ mode' = NoMode /\ escaping' = FALSE
    /\ call' = [m \in Modes |-> Idle]
    /\ UNCHANGED <<cache, tally, bucket, root, child, aggregate, comparable>>

-----------------------------------------------------------------------------
Proceeds(m) == ChatProceeds(m) /\ UNCHANGED campaign
Clock == Tick /\ pc = "running" /\ UNCHANGED campaign

ModeStep(m) ==
    \/ RunMode(m) \/ OpenChild(m) \/ AskCase(m) \/ Proceeds(m) \/ RecordCase(m)
    \/ ChildCompletes(m) \/ Recorded(m) \/ Leaves(m) \/ ReturnRefused(m)

CampaignStep == PoolRefused \/ Schedule \/ Escapes \/ WriteAggregate \/ Finalize
Operator == \E c \in Configs : Start(c) \/ Resume(c)

Next ==
    \/ Operator \/ CampaignStep \/ Clock \/ Cancel \/ Kill
    \/ \E m \in Modes : ModeStep(m) \/ ChildStops(m) \/ ChildRaises(m)

Spec == Init /\ [][Next]_vars

\* The threads run, the provider answers or times out, and the operator re-runs
\* the identical command with --resume while there is none.
FairSpec ==
    /\ Spec
    /\ \A m \in Modes : WF_vars(ModeStep(m))
    /\ WF_vars(CampaignStep)
    /\ WF_vars(Operator)

-----------------------------------------------------------------------------
\* A campaign that says "complete" has the complete child of every mode, with an
\* outcome for every selected case, and an aggregate of exactly these modes in
\* which no comparison was refused (the status of orchestrator.py:115).
CompleteIsEarned ==
    root # None /\ root.status = "complete" =>
        /\ \A m \in Modes : child[m] # None /\ child[m].status = "complete" /\ Todo(m) = {}
        /\ aggregate.modes = root.modes /\ aggregate.valid = Pairs

\* Whatever ends a run and however it is resumed, the campaign keeps its configuration, and the
\* benchmark of a mode recorded complete is not opened again.  The mode stays complete, but for
\* a signal that reaches run_one after the record is written and before its try is left
\* (orchestrator.py:48-63), which records it partial, with its finished child.
FinishedModesKept ==
    [][root # None =>
         /\ root'.config = root.config
         /\ \A m \in Modes : root.modes[m] = "complete" =>
                /\ child'[m] = child[m]
                /\ \/ root'.modes[m] = "complete"
                   \/ mode[m] = "recorded" /\ root'.modes[m] = "partial" /\ pc' = "down"]_vars

\* A sequential campaign that is resumed after each interruption ends complete,
\* or with every mode complete and a comparison that is refused for good.
ResumeCompletes ==
    \A c \in Configs : c.scheduler = "sequential" =>
        ((root # None /\ root.config = c)
            ~> (root # None /\ aggregate # None /\ Range(root.modes) = {"complete"}
                    /\ (root.status = "complete" \/ aggregate.valid # Pairs)))

=============================================================================
