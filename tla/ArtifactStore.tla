--------------------------- MODULE ArtifactStore ---------------------------
(***************************************************************************)
(* The directory of one benchmark campaign (benchmarks/common/artifacts.py *)
(* and contracts.py) and the driver that fills it: open or resume, put the *)
(* mirrors right, run the pending cases in threads, append one checkpoint  *)
(* row and its mirror rows for each, write the summary, then the manifest. *)
(*                                                                         *)
(* The process may end at any step and leave the row it was appending      *)
(* incomplete, or whole but without the newline that ends it, so that the  *)
(* next row appended shares its line; JSON files are replaced whole.  Two  *)
(* drivers are modelled: "goemotions" records an error it meets as a       *)
(* failed case, "locomo" lets it end the run (hotpotqa is "locomo" with    *)
(* one worker).  An append that raises leaves no row, so the index kept of *)
(* each file is always the identifiers in it.                              *)
(***************************************************************************)
EXTENDS Naturals, Sequences, SequencesExt, FiniteSetsExt

CONSTANTS
    Cases,
    Workers,      \* threads of the driver
    Configs,      \* benchmark configurations a run may be asked for
    Selected,     \* the cases each configuration selects
    Splits,       \* cases whose text may hold a character str.splitlines() splits at
    MaxStarts,    \* bound on processes started on the directory
    MaxErrors,    \* bound on appends that raise OSError
    None

ASSUME ConstantsAssumption ==
    /\ Selected \in [Configs -> SUBSET Cases]
    /\ Splits \subseteq Cases
    /\ MaxStarts \in Nat /\ MaxErrors \in Nat
    /\ None \notin Cases \cup Configs

Drivers == {"goemotions", "locomo"}

\* A case ends "complete", "failed", or "flagged": complete with an evaluation failure.
Outcomes == {"complete", "failed", "flagged"}
Produces(d) == IF d = "goemotions" THEN {"complete", "failed"} ELSE Outcomes
Predicted == {"complete", "flagged"}
Failing == {"failed", "flagged"}

Rows == [case : Cases, outcome : Outcomes \cup {"torn"}]
Row(job) == [case |-> job.case, outcome |-> job.outcome]
Torn(job) == [case |-> job.case, outcome |-> "torn"]

VARIABLES
    driver,       \* the driver of this campaign
    splitting,    \* the cases whose text does hold one
    manifest,     \* manifest.json: configuration, campaign id, status; or None
    checkpoints,  \* checkpoints/records.jsonl
    tail,         \* "cut" when its last row lost its newline, "glued" once two rows share a line
    predictions,  \* predictions/records.jsonl
    failures,     \* failures/records.jsonl
    summary,      \* summary.json: campaign id and counts; or None
    pc,           \* where the process is; "down" when there is none
    pending,      \* selected cases not yet handed to a thread
    work,         \* the case each thread is on, and the file it appends to next
    aborted,      \* a thread's exception waits to be raised by the driver
    starts,       \* processes started so far
    errors        \* appends that raised OSError so far

inputs == <<driver, splitting>>
disk == <<manifest, checkpoints, tail, predictions, failures, summary>>
process == <<pc, pending, work, aborted>>
vars == <<inputs, disk, process, starts, errors>>

Files == {"checkpoint", "prediction", "failure"}
Jobs == [case : Cases, outcome : Outcomes, file : Files]
Manifests == [config : Configs, id : Nat, status : {"partial", "complete"}]

ASSUME NoneAssumption ==
    None \notin Jobs \cup Manifests \cup Outcomes \cup {Selected[cfg] : cfg \in Configs}

Idle == [w \in Workers |-> None]

\* read_jsonl: any row that is not one line of JSON makes the whole file unreadable.
Readable(file) == \A i \in DOMAIN file : file[i].outcome # "torn" /\ file[i].case \notin splitting

Content(file) ==
    CASE file = "checkpoint" -> checkpoints
      [] file = "prediction" -> predictions
      [] file = "failure" -> failures

\* Two rows on one line are one bad row; a mirror left so is rewritten before it is appended to.
CanRead(file) == Readable(Content(file)) /\ (file = "checkpoint" => tail # "glued")

\* The identifiers a file's index holds.
Index(file) == {file[i].case : i \in DOMAIN file}

\* The mirror rows of some checkpoint rows.
Mirror(file, outcomes) ==
    LET kept[n \in 0..Len(file)] ==
            IF n = 0 THEN <<>>
            ELSE IF file[n].outcome \in outcomes THEN Append(kept[n - 1], file[n])
            ELSE kept[n - 1]
    IN kept[Len(file)]

Init ==
    /\ driver \in Drivers /\ splitting \in SUBSET Splits
    /\ manifest = None
    /\ checkpoints = <<>> /\ tail = "whole" /\ predictions = <<>> /\ failures = <<>>
    /\ summary = None
    /\ pc = "down"
    /\ pending = {}
    /\ work = Idle
    /\ aborted = FALSE
    /\ starts = 0
    /\ errors = 0

-----------------------------------------------------------------------------
(* The start of a run. *)

\* initialize() replaces the manifest before it looks at the rows.
WriteFirstManifest(cfg) ==
    /\ pc = "down" /\ starts < MaxStarts
    /\ manifest' = [config |-> cfg, id |-> starts + 1, status |-> "partial"]
    /\ pc' = "reconcile"
    /\ starts' = starts + 1
    /\ UNCHANGED <<inputs, checkpoints, tail, predictions, failures, summary, pending, work, aborted, errors>>

\* Without --resume a directory that has a manifest is refused.
Open(cfg) == manifest = None /\ WriteFirstManifest(cfg)

\* Mutant: a resumed run is not compared with the campaign it resumes.
ResumeUnchecked(cfg) ==
    /\ manifest # None
    /\ WriteFirstManifest(cfg)

\* With it, validate_resume refuses any other configuration; the campaign id is a new one.
Resume(cfg) ==
    /\ manifest # None
    /\ manifest.config = cfg
    /\ WriteFirstManifest(cfg)

\* Mutants: reconcile() leaves the predictions as they are; it reads them as strictly as the rest.
ReconcileKeepsPredictions ==
    /\ pc = "reconcile"
    /\ CanRead("checkpoint") /\ CanRead("failure")
    /\ pc' = "reconcile_failures"
    /\ UNCHANGED <<inputs, disk, pending, work, aborted, starts, errors>>

ReconcileReadsPredictions ==
    /\ pc = "reconcile"
    /\ CanRead("checkpoint") /\ CanRead("failure") /\ CanRead("prediction")
    /\ predictions' = Mirror(checkpoints, Predicted)
    /\ pc' = "reconcile_failures"
    /\ UNCHANGED <<inputs, manifest, checkpoints, tail, failures, summary, pending, work, aborted, starts, errors>>

\* reconcile(): checkpoints and failures are read strictly, then the mirrors are rewritten.
ReconcilePredictions ==
    /\ pc = "reconcile"
    /\ CanRead("checkpoint") /\ CanRead("failure")
    /\ predictions' = Mirror(checkpoints, Predicted)
    /\ pc' = "reconcile_failures"
    /\ UNCHANGED <<inputs, manifest, checkpoints, tail, failures, summary, pending, work, aborted, starts, errors>>

ReconcileFailures ==
    /\ pc = "reconcile_failures"
    /\ failures' = Mirror(checkpoints, Failing)
    /\ pending' = Selected[manifest.config] \ Index(checkpoints)
    /\ pc' = "running"
    /\ UNCHANGED <<inputs, manifest, checkpoints, tail, predictions, summary, work, aborted, starts, errors>>

\* The process ends and what it held in memory is gone.
ProcessEnds ==
    /\ pc' = "down"
    /\ pending' = {}
    /\ work' = Idle
    /\ aborted' = FALSE

ReconcileRaises ==
    /\ pc = "reconcile"
    /\ ~(CanRead("checkpoint") /\ CanRead("failure"))
    /\ ProcessEnds
    /\ UNCHANGED <<inputs, disk, starts, errors>>

-----------------------------------------------------------------------------
(* The threads. *)

\* A thread takes a pending case and runs it to an outcome.
Take(w, c, o) ==
    /\ pc = "running" /\ work[w] = None
    /\ c \in pending /\ o \in Produces(driver)
    /\ pending' = pending \ {c}
    /\ work' = [work EXCEPT ![w] = [case |-> c, outcome |-> o, file |-> "checkpoint"]]
    /\ UNCHANGED <<inputs, disk, pc, aborted, starts, errors>>

At(w, file) == pc = "running" /\ work[w] # None /\ work[w].file = file

\* Mutant: rows are appended without a look at the identifiers already there.
AppendedBlindly(w, file) ==
    /\ At(w, file)
    /\ CanRead(file)

\* The append of a row under the store's lock, with the strict read before it.
Appended(w, file) ==
    /\ At(w, file)
    /\ CanRead(file)
    /\ work[w].case \notin Index(Content(file))

Moves(w, file) == work' = [work EXCEPT ![w].file = file]
Done(w) == work' = [work EXCEPT ![w] = None]

AppendCheckpoint(w) ==
    /\ Appended(w, "checkpoint")
    /\ checkpoints' = Append(checkpoints, Row(work[w]))
    /\ tail' = IF tail = "cut" THEN "glued" ELSE tail
    /\ Moves(w, IF work[w].outcome \in Predicted THEN "prediction" ELSE "failure")
    /\ UNCHANGED <<inputs, manifest, predictions, failures, summary, pc, pending, aborted, starts, errors>>

\* append_checkpoint returns False for a case that has its row: no mirror row either.
AppendRefused(w) ==
    /\ At(w, "checkpoint")
    /\ CanRead("checkpoint")
    /\ work[w].case \in Index(checkpoints)
    /\ Done(w)
    /\ UNCHANGED <<inputs, disk, pc, pending, aborted, starts, errors>>

AppendPrediction(w) ==
    /\ Appended(w, "prediction")
    /\ predictions' = Append(predictions, Row(work[w]))
    /\ IF work[w].outcome \in Failing THEN Moves(w, "failure") ELSE Done(w)
    /\ UNCHANGED <<inputs, manifest, checkpoints, tail, failures, summary, pc, pending, aborted, starts, errors>>

AppendFailure(w) ==
    /\ Appended(w, "failure")
    /\ failures' = Append(failures, Row(work[w]))
    /\ Done(w)
    /\ UNCHANGED <<inputs, manifest, checkpoints, tail, predictions, summary, pc, pending, aborted, starts, errors>>

\* The first exception of a goemotions case becomes a failed checkpoint; any other ends the thread.
CaseRaises(w) ==
    IF driver = "goemotions" /\ work[w].outcome # "failed"
    THEN /\ work' = [work EXCEPT ![w].outcome = "failed", ![w].file = "checkpoint"]
         /\ aborted' = aborted
    ELSE /\ Done(w)
         /\ aborted' = TRUE

ReadRaises(w) ==
    /\ pc = "running" /\ work[w] # None
    /\ ~CanRead(work[w].file)
    /\ CaseRaises(w)
    /\ UNCHANGED <<inputs, disk, pc, pending, starts, errors>>

WriteRaises(w) ==
    /\ pc = "running" /\ work[w] # None
    /\ errors < MaxErrors
    /\ CanRead(work[w].file)
    /\ work[w].case \notin Index(Content(work[w].file))
    /\ CaseRaises(w)
    /\ errors' = errors + 1
    /\ UNCHANGED <<inputs, disk, pc, pending, starts>>

-----------------------------------------------------------------------------
(* The end of a run. *)

\* The driver leaves its thread pool once every thread is through, and raises
\* what a thread raised or what reading the records back does.
RunRaises ==
    /\ pc = "running" /\ work = Idle
    /\ aborted \/ (pending = {} /\ ~CanRead("checkpoint"))
    /\ ProcessEnds
    /\ UNCHANGED <<inputs, disk, starts, errors>>

Count(outcomes) == Cardinality({i \in DOMAIN checkpoints : checkpoints[i].outcome \in outcomes})

\* Mutant: flagged cases are left out of the summary's counts.
SummaryForgetsFlagged ==
    /\ pc = "running" /\ work = Idle /\ pending = {} /\ ~aborted
    /\ CanRead("checkpoint")
    /\ Index(checkpoints) = Selected[manifest.config]
    /\ Len(checkpoints) = Cardinality(Selected[manifest.config])
    /\ summary' = [id |-> manifest.id, completed |-> Count({"complete"}), failed |-> Count({"failed"})]
    /\ pc' = "finalize"
    /\ UNCHANGED <<inputs, manifest, checkpoints, tail, predictions, failures, pending, work, aborted, starts, errors>>

\* finalize(): every selected case has its row and the counts agree; the summary is first.
WriteSummary ==
    /\ pc = "running" /\ work = Idle /\ pending = {} /\ ~aborted
    /\ CanRead("checkpoint")
    /\ Index(checkpoints) = Selected[manifest.config]
    /\ Len(checkpoints) = Cardinality(Selected[manifest.config])
    /\ summary' = [id |-> manifest.id, completed |-> Count(Predicted), failed |-> Count({"failed"})]
    /\ pc' = "finalize"
    /\ UNCHANGED <<inputs, manifest, checkpoints, tail, predictions, failures, pending, work, aborted, starts, errors>>

WriteLastManifest ==
    /\ pc = "finalize"
    /\ manifest' = [manifest EXCEPT !.status = "complete"]
    /\ ProcessEnds
    /\ UNCHANGED <<inputs, checkpoints, tail, predictions, failures, summary, starts, errors>>

\* The process is killed; the last started one is not, so that it can be followed to its end.
Crash ==
    /\ pc # "down" /\ starts < MaxStarts
    /\ ProcessEnds
    /\ UNCHANGED <<inputs, disk, starts, errors>>

\* It is killed while a thread is appending, and part of the row is in the file, or all of it
\* but its newline; a mirror that has all of it is as if the append had been made.
CrashTears(w) ==
    /\ pc = "running" /\ starts < MaxStarts
    /\ \/ /\ Appended(w, "checkpoint")
          /\ \/ checkpoints' = Append(checkpoints, Torn(work[w])) /\ tail' = tail
             \/ checkpoints' = Append(checkpoints, Row(work[w])) /\ tail' = IF tail = "cut" THEN "glued" ELSE "cut"
          /\ UNCHANGED <<predictions, failures>>
       \/ /\ Appended(w, "prediction")
          /\ predictions' = Append(predictions, Torn(work[w]))
          /\ UNCHANGED <<checkpoints, tail, failures>>
       \/ /\ Appended(w, "failure")
          /\ failures' = Append(failures, Torn(work[w]))
          /\ UNCHANGED <<checkpoints, tail, predictions>>
    /\ ProcessEnds
    /\ UNCHANGED <<inputs, manifest, summary, starts, errors>>

-----------------------------------------------------------------------------
ThreadStep(w) ==
    \/ \E c \in Cases, o \in Outcomes : Take(w, c, o)
    \/ AppendCheckpoint(w) \/ AppendRefused(w) \/ AppendPrediction(w) \/ AppendFailure(w)
    \/ ReadRaises(w)

DriverStep ==
    \/ ReconcilePredictions \/ ReconcileFailures \/ ReconcileRaises
    \/ RunRaises \/ WriteSummary \/ WriteLastManifest

Next ==
    \/ \E cfg \in Configs : Open(cfg) \/ Resume(cfg)
    \/ DriverStep
    \/ \E w \in Workers : ThreadStep(w) \/ WriteRaises(w) \/ CrashTears(w)
    \/ Crash

Spec == Init /\ [][Next]_vars

\* A process that is not killed runs on; nothing makes anybody start one.
FairSpec == Spec /\ WF_vars(DriverStep) /\ \A w \in Workers : WF_vars(ThreadStep(w))

-----------------------------------------------------------------------------
\* No file ever holds two rows of one case, whatever was killed, resumed, or
\* tried again after an error (append_checkpoint: "Append one case exactly once").
CaseOnce ==
    \A file \in Files :
        \A i, j \in DOMAIN Content(file) : Content(file)[i].case = Content(file)[j].case => i = j

Complete == manifest # None /\ manifest.status = "complete"

\* The rows of a mirror are the checkpoint rows it is derived from.
Mirrors(file, outcomes) ==
    ToSet(file) = {row \in ToSet(checkpoints) : row.outcome \in outcomes}

\* A complete campaign whose appends all succeeded has mirrors that say what its
\* checkpoints say, even though a killed run may have left them behind or torn.
MirrorsMatch ==
    Complete /\ errors = 0 => Mirrors(predictions, Predicted) /\ Mirrors(failures, Failing)

\* The summary beside a complete manifest is that run's own, and adds up to the
\* selected cases ("Write summary first and the authoritative terminal manifest last").
SummaryIsOwn ==
    Complete =>
        /\ summary.id = manifest.id
        /\ summary.completed + summary.failed = Cardinality(Selected[manifest.config])

\* A run that is left alone, starts from rows that can be read, the last of them with its
\* newline, and meets neither an error nor a text that breaks its line completes the campaign,
\* whatever happened to the runs before it.
ResumeCompletes ==
    (/\ pc = "reconcile" /\ starts = MaxStarts /\ errors = MaxErrors /\ splitting = {}
     /\ CanRead("checkpoint") /\ CanRead("failure") /\ tail = "whole")
        ~> Complete

\* A run that read its checkpoints appends a line they can be read with again ("Append one
\* flushed, single-line JSON record", artifacts.py:214).  It does not: a row that a kill left
\* without its newline is read like any other, and the next one is appended to its line.
RowsAreLines ==
    [][\A w \in Workers : AppendCheckpoint(w) /\ splitting = {} => CanRead("checkpoint")']_vars

\* What the checkpoint file holds of each case, on whichever line.
Recorded ==
    [c \in Cases |->
        LET rows == {row \in ToSet(checkpoints) : row.case = c /\ row.outcome # "torn"}
        IN IF rows = {} THEN None ELSE (CHOOSE row \in rows : TRUE).outcome]

Contract == INSTANCE CaseLog WITH
    selected <- IF manifest = None THEN None ELSE Selected[manifest.config],
    log <- Recorded,
    complete <- Complete

\* The directory keeps the campaign's contract: one outcome for each selected case, never
\* changed, and complete only when all have one (ADR_CANONICAL_RUNTIME.md:88).
KeepsContract == Contract!Spec
=============================================================================
