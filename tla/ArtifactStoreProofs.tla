------------------------- MODULE ArtifactStoreProofs -------------------------
(***************************************************************************)
(* Theorems about ArtifactStore, for any cases, threads, configurations    *)
(* and drivers, any number of kills, errors and resumed runs.              *)
(*                                                                         *)
(* The first part is about the one loop of the model, which derives the    *)
(* rows of a mirror: induction over the length of a file, stated on sets   *)
(* of naturals.  The second is about the files, the third about the run    *)
(* that fills them, the last about what the campaign promises.             *)
(***************************************************************************)
EXTENDS ArtifactStore, FiniteSetTheorems, SequenceTheorems, TLAPS

TypeOK ==
    /\ driver \in Drivers /\ splitting \in SUBSET Splits
    /\ manifest \in Manifests \cup {None}
    /\ tail \in {"whole", "cut", "glued"}
    /\ checkpoints \in Seq(Rows) /\ predictions \in Seq(Rows) /\ failures \in Seq(Rows)
    /\ pc \in {"down", "reconcile", "reconcile_failures", "running", "finalize"}
    /\ pending \in SUBSET Cases
    /\ work \in [Workers -> Jobs \cup {None}]
    /\ aborted \in BOOLEAN
    /\ starts \in Nat /\ errors \in Nat

\* No case has two rows.
Single(file) == \A i, j \in DOMAIN file : file[i].case = file[j].case => i = j

OnceEach == Single(checkpoints) /\ Single(predictions) /\ Single(failures)

\* A run has a manifest, and works on cases its configuration selects.
Assigned ==
    /\ pc # "down" => manifest # None
    /\ pc # "running" => work = Idle
    /\ pc = "running" =>
         /\ pending \subseteq Selected[manifest.config]
         /\ \A w \in Workers : work[w] # None => work[w].case \in Selected[manifest.config]

Belongs(file) == IF file = "prediction" THEN Predicted ELSE Failing

\* A thread that is past its checkpoint row is about to write a mirror row of it.
Carried ==
    \A w \in Workers : work[w] # None /\ work[w].file # "checkpoint" =>
        /\ Row(work[w]) \in ToSet(checkpoints)
        /\ work[w].outcome \in Belongs(work[w].file)

\* A mirror has no row but those of the checkpoints.
Derived ==
    /\ pc = "reconcile_failures" => Mirrors(predictions, Predicted)
    /\ pc = "running" =>
         /\ \A row \in ToSet(predictions) : row \in ToSet(checkpoints) /\ row.outcome \in Predicted
         /\ \A row \in ToSet(failures) : row \in ToSet(checkpoints) /\ row.outcome \in Failing

\* Some thread is about to write this row to one of these files.
Owed(row, files) ==
    \E w \in Workers : work[w] # None /\ work[w].file \in files /\ Row(work[w]) = row

\* As long as nothing went wrong, a row that a mirror lacks is on its way.
Followed ==
    pc = "running" /\ errors = 0 /\ CanRead("checkpoint") =>
        \A row \in ToSet(checkpoints) :
            /\ row.outcome \in Predicted => row \in ToSet(predictions) \/ Owed(row, {"prediction"})
            /\ row.outcome \in Failing =>
                 row \in ToSet(failures) \/ Owed(row, {"prediction", "failure"})

Ended == pc = "finalize" \/ Complete

\* Once the summary is written, and until the campaign is opened again.
Settled ==
    /\ Complete => pc = "down"
    /\ Ended =>
         /\ manifest # None
         /\ summary.id = manifest.id
         /\ summary.completed + summary.failed = Cardinality(Selected[manifest.config])
         /\ Readable(checkpoints) /\ Index(checkpoints) = Selected[manifest.config]
    /\ Ended /\ errors = 0 => Mirrors(predictions, Predicted) /\ Mirrors(failures, Failing)

StoreInv == TypeOK /\ OnceEach /\ Assigned /\ Carried /\ Derived /\ Followed /\ Settled

-----------------------------------------------------------------------------
(* Induction. *)

LEMMA LeastNatural ==
    ASSUME NEW S \in SUBSET Nat, S # {}
    PROVE  \E m \in S : \A k \in S : m <= k
<1> DEFINE R == OpToRel(<, Nat)
<1>1. IsWellFoundedOn(R, Nat)
  BY NatLessThanWellFounded
<1>2. \A x, y \in Nat : x < y => <<x, y>> \in R
  BY DEF OpToRel
<1> HIDE DEF R
<1>3. PICK m \in S : \A k \in S : <<k, m>> \notin R
  BY <1>1, WFMin
<1>4. \A k \in S : ~(k < m)
  BY <1>2, <1>3
<1> QED
  BY <1>4

LEMMA SetInduction ==
    ASSUME NEW S \in SUBSET Nat, 0 \in S, \A n \in S : n + 1 \in S
    PROVE  S = Nat
<1> SUFFICES ASSUME S # Nat PROVE FALSE
  OBVIOUS
<1> DEFINE T == Nat \ S
<1>1. T \in SUBSET Nat /\ T # {}
  OBVIOUS
<1> HIDE DEF T
<1>2. PICK m \in T : \A k \in T : m <= k
  BY <1>1, LeastNatural
<1>3. m # 0 /\ m - 1 \in Nat /\ m - 1 \in S
  BY <1>2 DEF T
<1> QED
  BY <1>2, <1>3 DEF T

\* The loop that derives a mirror, over the first m rows of a file.
Loop(g, file, outcomes, m) ==
    [n \in 0..m |->
        IF n = 0 THEN <<>>
        ELSE IF file[n].outcome \in outcomes THEN Append(g[n - 1], file[n])
        ELSE g[n - 1]]

LEMMA LoopDefined ==
    ASSUME NEW file, NEW outcomes, NEW m \in Nat
    PROVE  \E g : g = Loop(g, file, outcomes, m)
<1> DEFINE S == {k \in Nat : \E g : g = Loop(g, file, outcomes, k)}
<1>1. 0 \in S
  <2> DEFINE g == [n \in 0..0 |-> <<>>]
  <2>1. g = Loop(g, file, outcomes, 0)
    BY DEF Loop
  <2> QED
    BY <2>1
<1>2. ASSUME NEW k \in S PROVE k + 1 \in S
  <2>1. k \in Nat /\ \E g : g = Loop(g, file, outcomes, k)
    OBVIOUS
  <2>2. PICK g : g = Loop(g, file, outcomes, k)
    BY <2>1
  <2> DEFINE h == [n \in 0..(k + 1) |->
                     IF n <= k THEN g[n]
                     ELSE IF file[n].outcome \in outcomes THEN Append(g[n - 1], file[n])
                     ELSE g[n - 1]]
             hh == Loop(h, file, outcomes, k + 1)
  <2>3. \A n \in 0..k : h[n] = g[n]
    BY <2>1
  <2>4. ASSUME NEW n \in 0..(k + 1) PROVE h[n] = hh[n]
    <3>1. CASE n = 0
      BY <2>1, <2>2, <3>1 DEF Loop
    <3>2. CASE n # 0 /\ n <= k
      <4>1. n - 1 \in 0..k /\ n \in 0..k
        BY <2>1, <3>2
      <4>2. h[n] = g[n] /\ h[n - 1] = g[n - 1]
        BY <2>3, <4>1
      <4>3. g[n] = Loop(g, file, outcomes, k)[n]
        BY <2>2
      <4> QED
        BY <3>2, <4>1, <4>2, <4>3 DEF Loop
    <3>3. CASE n = k + 1
      <4>1. n - 1 \in 0..k /\ n # 0 /\ ~(n <= k)
        BY <2>1, <3>3
      <4>2. h[n - 1] = g[n - 1]
        BY <2>3, <4>1
      <4> QED
        BY <4>1, <4>2 DEF Loop
    <3> QED
      BY <2>1, <3>1, <3>2, <3>3
  <2>5. h = hh
    BY <2>4 DEF Loop
  <2> HIDE DEF h
  <2>6. \E f : f = Loop(f, file, outcomes, k + 1)
    BY <2>5
  <2> QED
    BY <2>1, <2>6
<1>3. S = Nat
  <2> HIDE DEF S
  <2>1. S \in SUBSET Nat
    BY DEF S
  <2> QED
    BY <1>1, <1>2, <2>1, SetInduction
<1> QED
  BY <1>3

Matching(file, outcomes, n) == {file[i] : i \in {j \in 1..n : file[j].outcome \in outcomes}}

\* One more row of a sequence.
LEMMA AppendRow ==
    ASSUME NEW s \in Seq(Rows), NEW r \in Rows
    PROVE  /\ Append(s, r) \in Seq(Rows)
           /\ ToSet(Append(s, r)) = ToSet(s) \cup {r}
           /\ Index(Append(s, r)) = Index(s) \cup {r.case}
           /\ Single(s) /\ r.case \notin Index(s) => Single(Append(s, r))
<1> DEFINE t == Append(s, r)
<1>1. /\ t \in Seq(Rows) /\ Len(s) \in Nat /\ Len(t) = Len(s) + 1
      /\ DOMAIN s = 1..Len(s) /\ DOMAIN t = 1..(Len(s) + 1)
      /\ \A i \in DOMAIN s : t[i] = s[i]
      /\ t[Len(s) + 1] = r
  BY AppendProperties, LenProperties
<1> HIDE DEF t
<1>2. DOMAIN t = DOMAIN s \cup {Len(s) + 1} /\ Len(s) + 1 \notin DOMAIN s
  BY <1>1
<1>3. ToSet(t) = ToSet(s) \cup {r}
  BY <1>1, <1>2 DEF ToSet
<1>4. Index(t) = Index(s) \cup {r.case}
  BY <1>1, <1>2 DEF Index
<1>5. Single(s) /\ r.case \notin Index(s) => Single(t)
  BY <1>1, <1>2 DEF Single, Index
<1> QED
  BY <1>1, <1>3, <1>4, <1>5 DEF t

\* What the loop has kept after n rows.
LEMMA LoopKeeps ==
    ASSUME NEW file \in Seq(Rows), NEW outcomes, NEW g, g = Loop(g, file, outcomes, Len(file)),
           NEW n \in 0..Len(file)
    PROVE  /\ g[n] \in Seq(Rows)
           /\ ToSet(g[n]) = Matching(file, outcomes, n)
           /\ Single(file) => Single(g[n])
<1> DEFINE Kept(k) == /\ g[k] \in Seq(Rows)
                      /\ ToSet(g[k]) = Matching(file, outcomes, k)
                      /\ Single(file) => Single(g[k])
           S == {k \in Nat : k <= Len(file) => Kept(k)}
<1>1. Len(file) \in Nat /\ DOMAIN file = 1..Len(file) /\ \A i \in 1..Len(file) : file[i] \in Rows
  BY LenProperties, ElementOfSeq
<1>2. \A k \in 0..Len(file) : g[k] = Loop(g, file, outcomes, Len(file))[k]
  OBVIOUS
<1>3. Kept(0)
  <2>1. g[0] = <<>>
    BY <1>1, <1>2 DEF Loop
  <2>2. ToSet(<<>>) = {} /\ Matching(file, outcomes, 0) = {}
    BY DEF ToSet, Matching
  <2>3. Single(<<>>) /\ <<>> \in Seq(Rows)
    BY EmptySeq DEF Single
  <2> QED
    BY <2>1, <2>2, <2>3
<1>4. ASSUME NEW k \in Nat, k + 1 <= Len(file), Kept(k) PROVE Kept(k + 1)
  <2>1. k + 1 \in 1..Len(file) /\ k \in 0..Len(file) /\ k + 1 \in 0..Len(file) /\ (k + 1) - 1 = k
    BY <1>1, <1>4
  <2>2. file[k + 1] \in Rows /\ 1..(k + 1) = 1..k \cup {k + 1}
    BY <1>1, <2>1
  <2> DEFINE next == IF file[k + 1].outcome \in outcomes THEN Append(g[k], file[k + 1]) ELSE g[k]
  <2>3. g[k + 1] = next
    <3>1. k + 1 # 0
      BY <1>1, <1>4
    <3> QED
      BY <1>2, <2>1, <3>1 DEF Loop
  <2>4. CASE file[k + 1].outcome \in outcomes
    <3>1. g[k + 1] = Append(g[k], file[k + 1])
      BY <2>3, <2>4
    <3>2. Matching(file, outcomes, k + 1) = Matching(file, outcomes, k) \cup {file[k + 1]}
      BY <2>2, <2>4 DEF Matching
    <3>3. Single(file) => file[k + 1].case \notin Index(g[k])
      <4>1. SUFFICES ASSUME Single(file), file[k + 1].case \in Index(g[k])
                     PROVE  FALSE
        OBVIOUS
      <4>2. PICK r \in ToSet(g[k]) : r.case = file[k + 1].case
        BY <4>1 DEF Index, ToSet
      <4>3. PICK i \in 1..k : r = file[i]
        BY <1>4, <4>2 DEF Matching
      <4>4. i \in DOMAIN file /\ k + 1 \in DOMAIN file /\ i # k + 1
        BY <1>1, <2>1
      <4> QED
        BY <4>1, <4>2, <4>3, <4>4 DEF Single
    <3>4. g[k] \in Seq(Rows) /\ ToSet(g[k]) = Matching(file, outcomes, k) /\ (Single(file) => Single(g[k]))
      BY <1>4
    <3>5. /\ g[k + 1] \in Seq(Rows)
          /\ ToSet(g[k + 1]) = ToSet(g[k]) \cup {file[k + 1]}
          /\ Single(g[k]) /\ file[k + 1].case \notin Index(g[k]) => Single(g[k + 1])
      BY <2>2, <3>1, <3>4, AppendRow
    <3> QED
      BY <3>2, <3>3, <3>4, <3>5
  <2>5. CASE file[k + 1].outcome \notin outcomes
    <3>1. g[k + 1] = g[k]
      BY <2>3, <2>5
    <3>2. Matching(file, outcomes, k + 1) = Matching(file, outcomes, k)
      BY <2>2, <2>5 DEF Matching
    <3> QED
      BY <1>4, <3>1, <3>2
  <2> QED
    BY <2>4, <2>5
<1>5. S = Nat
  <2>1. S \in SUBSET Nat /\ 0 \in S
    BY <1>3
  <2>2. ASSUME NEW k \in S PROVE k + 1 \in S
    <3>1. k \in Nat /\ k + 1 \in Nat /\ (k <= Len(file) => Kept(k))
      OBVIOUS
    <3>2. k + 1 <= Len(file) => k <= Len(file)
      BY <1>1, <3>1
    <3> HIDE DEF Kept
    <3>3. k + 1 <= Len(file) => Kept(k + 1)
      BY <1>4, <3>1, <3>2
    <3> QED
      BY <3>1, <3>3
  <2> HIDE DEF S
  <2> QED
    BY <2>1, <2>2, SetInduction
<1>6. n \in S /\ n <= Len(file)
  BY <1>1, <1>5
<1> QED
  BY <1>6

\* reconcile() derives from a file, whatever its length, a file with its matching
\* rows and no others, and none of them twice.
LEMMA MirrorRows ==
    ASSUME NEW file \in Seq(Rows), NEW outcomes
    PROVE  /\ Mirror(file, outcomes) \in Seq(Rows)
           /\ ToSet(Mirror(file, outcomes)) = {row \in ToSet(file) : row.outcome \in outcomes}
           /\ Single(file) => Single(Mirror(file, outcomes))
<1> DEFINE g == CHOOSE f : f = Loop(f, file, outcomes, Len(file))
<1>1. Len(file) \in Nat /\ DOMAIN file = 1..Len(file)
  BY LenProperties
<1>2. Mirror(file, outcomes) = g[Len(file)]
  BY DEF Mirror, Loop
<1>3. g = Loop(g, file, outcomes, Len(file))
  BY <1>1, LoopDefined
<1> HIDE DEF g
<1>4. /\ g[Len(file)] \in Seq(Rows)
      /\ ToSet(g[Len(file)]) = Matching(file, outcomes, Len(file))
      /\ Single(file) => Single(g[Len(file)])
  BY <1>1, <1>3, LoopKeeps
<1>5. Matching(file, outcomes, Len(file)) = {row \in ToSet(file) : row.outcome \in outcomes}
  BY <1>1 DEF Matching, ToSet
<1> QED
  BY <1>2, <1>4, <1>5

-----------------------------------------------------------------------------
(* The files. *)

\* A thread's job, moved on, given up or tried again as a failed case.
LEMMA JobUpdates ==
    ASSUME TypeOK, NEW w \in Workers, work[w] # None
    PROVE  /\ work[w] \in Jobs
           /\ Row(work[w]) \in Rows /\ Torn(work[w]) \in Rows
           /\ Row(work[w]).case = work[w].case /\ Torn(work[w]).case = work[w].case
           /\ \A f \in Files : [work EXCEPT ![w].file = f] \in [Workers -> Jobs \cup {None}]
           /\ [work EXCEPT ![w] = None] \in [Workers -> Jobs \cup {None}]
           /\ [work EXCEPT ![w].outcome = "failed", ![w].file = "checkpoint"]
                \in [Workers -> Jobs \cup {None}]
<1>1. work[w] \in Jobs
  BY DEF TypeOK
<1>2. \A f \in Files : [work[w] EXCEPT !.file = f] \in Jobs
  BY <1>1 DEF Jobs
<1>3. [[work[w] EXCEPT !.outcome = "failed"] EXCEPT !.file = "checkpoint"] \in Jobs
  <2>1. [work[w] EXCEPT !.outcome = "failed"] \in Jobs
    BY <1>1 DEF Jobs, Outcomes
  <2> QED
    BY <2>1 DEF Jobs, Files
<1>4. \A f \in Files : [work EXCEPT ![w].file = f] \in [Workers -> Jobs \cup {None}]
  BY <1>2 DEF TypeOK
<1>5. [work EXCEPT ![w].outcome = "failed", ![w].file = "checkpoint"] \in [Workers -> Jobs \cup {None}]
  BY <1>3 DEF TypeOK
<1>6. Row(work[w]) \in Rows /\ Torn(work[w]) \in Rows
  BY <1>1 DEF Jobs, Rows, Row, Torn
<1> QED
  BY <1>1, <1>4, <1>5, <1>6 DEF TypeOK, Row, Torn

\* The files as a kill leaves them.
LEMMA TornRows ==
    ASSUME TypeOK, NEW w \in Workers, CrashTears(w)
    PROVE  /\ work[w] # None /\ work[w] \in Jobs /\ Torn(work[w]) \in Rows /\ Row(work[w]) \in Rows
           /\ \/ /\ \E r \in {Torn(work[w]), Row(work[w])} : checkpoints' = Append(checkpoints, r)
                 /\ work[w].case \notin Index(checkpoints)
                 /\ UNCHANGED <<predictions, failures>>
              \/ /\ predictions' = Append(predictions, Torn(work[w]))
                 /\ work[w].case \notin Index(predictions)
                 /\ UNCHANGED <<checkpoints, failures>>
              \/ /\ failures' = Append(failures, Torn(work[w]))
                 /\ work[w].case \notin Index(failures)
                 /\ UNCHANGED <<checkpoints, predictions>>
<1>1. work[w] # None
  BY DEF CrashTears, Appended, At
<1> QED
  BY <1>1, JobUpdates DEF CrashTears, Appended, At, Content

LEMMA TypeStep ==
    ASSUME TypeOK, Assigned, [Next]_vars
    PROVE  TypeOK'
<1> USE DEF TypeOK
<1>1. ASSUME NEW cfg \in Configs, WriteFirstManifest(cfg) PROVE TypeOK'
  BY <1>1 DEF WriteFirstManifest, Manifests, inputs
<1>2. CASE ReconcilePredictions
  <2>1. Mirror(checkpoints, Predicted) \in Seq(Rows)
    BY MirrorRows
  <2> QED
    BY <1>2, <2>1 DEF ReconcilePredictions, inputs
<1>3. CASE ReconcileFailures
  <2>1. Mirror(checkpoints, Failing) \in Seq(Rows)
    BY MirrorRows
  <2>2. pending' \in SUBSET Cases
    <3>1. manifest \in Manifests
      BY <1>3 DEF ReconcileFailures, Assigned
    <3>2. Selected[manifest.config] \in SUBSET Cases
      BY <3>1, ConstantsAssumption DEF Manifests
    <3> QED
      BY <1>3, <3>2 DEF ReconcileFailures
  <2> QED
    BY <1>3, <2>1, <2>2 DEF ReconcileFailures, inputs
<1>4. CASE ReconcileRaises \/ RunRaises \/ Crash
  BY <1>4 DEF ReconcileRaises, RunRaises, Crash, ProcessEnds, Idle, inputs, disk
<1>5. CASE WriteSummary
  BY <1>5 DEF WriteSummary, inputs
<1>6. CASE WriteLastManifest
  <2>1. manifest \in Manifests
    BY <1>6 DEF WriteLastManifest, Assigned
  <2>2. manifest' \in Manifests
    BY <1>6, <2>1 DEF WriteLastManifest, Manifests
  <2> QED
    BY <1>6, <2>2 DEF WriteLastManifest, ProcessEnds, Idle, inputs
<1>7. ASSUME NEW w \in Workers, ThreadStep(w) \/ WriteRaises(w) PROVE TypeOK'
  <2>1. ASSUME NEW c \in Cases, NEW o \in Outcomes, Take(w, c, o) PROVE TypeOK'
    <3>1. [case |-> c, outcome |-> o, file |-> "checkpoint"] \in Jobs
      BY DEF Jobs, Files
    <3> QED
      BY <2>1, <3>1 DEF Take, inputs, disk
  <2>2. CASE AppendCheckpoint(w)
    <3>1. work[w] # None
      BY <2>2 DEF AppendCheckpoint, Appended, At
    <3>2. checkpoints' \in Seq(Rows)
      BY <2>2, <3>1, JobUpdates, AppendRow DEF AppendCheckpoint
    <3>3. work' \in [Workers -> Jobs \cup {None}]
      BY <2>2, <3>1, JobUpdates DEF AppendCheckpoint, Moves, Files
    <3> QED
      BY <2>2, <3>2, <3>3 DEF AppendCheckpoint, inputs
  <2>3. CASE AppendRefused(w)
    BY <2>3 DEF AppendRefused, Done, inputs, disk
  <2>4. CASE AppendPrediction(w)
    <3>1. work[w] # None
      BY <2>4 DEF AppendPrediction, Appended, At
    <3>2. predictions' \in Seq(Rows)
      BY <2>4, <3>1, JobUpdates, AppendRow DEF AppendPrediction
    <3>3. work' \in [Workers -> Jobs \cup {None}]
      <4>1. work' = [work EXCEPT ![w].file = "failure"] \/ work' = [work EXCEPT ![w] = None]
        BY <2>4 DEF AppendPrediction, Moves, Done
      <4>2. [work EXCEPT ![w].file = "failure"] \in [Workers -> Jobs \cup {None}]
        BY <3>1, JobUpdates DEF Files
      <4>3. [work EXCEPT ![w] = None] \in [Workers -> Jobs \cup {None}]
        BY <3>1, JobUpdates
      <4> QED
        BY <4>1, <4>2, <4>3
    <3> QED
      BY <2>4, <3>2, <3>3 DEF AppendPrediction, inputs
  <2>5. CASE AppendFailure(w)
    <3>1. work[w] # None
      BY <2>5 DEF AppendFailure, Appended, At
    <3>2. failures' \in Seq(Rows)
      BY <2>5, <3>1, JobUpdates, AppendRow DEF AppendFailure
    <3> QED
      BY <2>5, <3>2 DEF AppendFailure, Done, inputs
  <2>6. CASE ReadRaises(w) \/ WriteRaises(w)
    <3>1. work[w] # None /\ CaseRaises(w)
      BY <2>6 DEF ReadRaises, WriteRaises
    <3>2. work' \in [Workers -> Jobs \cup {None}] /\ aborted' \in BOOLEAN
      BY <3>1, JobUpdates DEF CaseRaises, Done
    <3> QED
      BY <2>6, <3>2 DEF ReadRaises, WriteRaises, inputs, disk
  <2> QED
    BY <1>7, <2>1, <2>2, <2>3, <2>4, <2>5, <2>6 DEF ThreadStep
<1>8. ASSUME NEW w \in Workers, CrashTears(w) PROVE TypeOK'
  <2>1. checkpoints' \in Seq(Rows) /\ predictions' \in Seq(Rows) /\ failures' \in Seq(Rows)
    <3>1. /\ \A r \in {Torn(work[w]), Row(work[w])} : Append(checkpoints, r) \in Seq(Rows)
          /\ Append(predictions, Torn(work[w])) \in Seq(Rows)
          /\ Append(failures, Torn(work[w])) \in Seq(Rows)
      BY <1>8, TornRows, AppendRow
    <3> QED
      BY <1>8, <3>1, TornRows
  <2> QED
    BY <1>8, <2>1 DEF CrashTears, ProcessEnds, Idle, inputs
<1>9. CASE UNCHANGED vars
  BY <1>9 DEF vars, inputs, disk, process
<1> QED
  BY <1>1, <1>2, <1>3, <1>4, <1>5, <1>6, <1>7, <1>8, <1>9 DEF Next, DriverStep, Open, Resume
\* A step appends at most one row, of a case the file does not hold, or rewrites the mirrors.
LEMMA OnceStep ==
    ASSUME TypeOK, OnceEach, [Next]_vars
    PROVE  OnceEach'
<1> USE DEF OnceEach
<1>1. CASE UNCHANGED <<checkpoints, predictions, failures>>
  BY <1>1 DEF Single
<1>2. CASE ReconcilePredictions
  <2>1. Single(Mirror(checkpoints, Predicted))
    BY MirrorRows DEF TypeOK
  <2>2. Single(predictions)'
    BY <1>2, <2>1 DEF ReconcilePredictions, Single
  <2> QED
    BY <1>2, <2>2 DEF ReconcilePredictions, Single
<1>3. CASE ReconcileFailures
  <2>1. Single(Mirror(checkpoints, Failing))
    BY MirrorRows DEF TypeOK
  <2>2. Single(failures)'
    BY <1>3, <2>1 DEF ReconcileFailures, Single
  <2> QED
    BY <1>3, <2>2 DEF ReconcileFailures, Single
<1>4. ASSUME NEW w \in Workers, NEW r \in Rows, r.case = work[w].case,
             \/ /\ checkpoints' = Append(checkpoints, r)
                /\ work[w].case \notin Index(checkpoints)
                /\ UNCHANGED <<predictions, failures>>
             \/ /\ predictions' = Append(predictions, r)
                /\ work[w].case \notin Index(predictions)
                /\ UNCHANGED <<checkpoints, failures>>
             \/ /\ failures' = Append(failures, r)
                /\ work[w].case \notin Index(failures)
                /\ UNCHANGED <<checkpoints, predictions>>
      PROVE  OnceEach'
  <2>1. CASE UNCHANGED <<predictions, failures>> /\ checkpoints' = Append(checkpoints, r)
              /\ work[w].case \notin Index(checkpoints)
    <3>1. Single(Append(checkpoints, r))
      BY <1>4, <2>1, AppendRow DEF TypeOK
    <3> QED
      BY <2>1, <3>1 DEF Single
  <2>2. CASE UNCHANGED <<checkpoints, failures>> /\ predictions' = Append(predictions, r)
              /\ work[w].case \notin Index(predictions)
    <3>1. Single(Append(predictions, r))
      BY <1>4, <2>2, AppendRow DEF TypeOK
    <3> QED
      BY <2>2, <3>1 DEF Single
  <2>3. CASE UNCHANGED <<checkpoints, predictions>> /\ failures' = Append(failures, r)
              /\ work[w].case \notin Index(failures)
    <3>1. Single(Append(failures, r))
      BY <1>4, <2>3, AppendRow DEF TypeOK
    <3> QED
      BY <2>3, <3>1 DEF Single
  <2> QED
    BY <1>4, <2>1, <2>2, <2>3
<1>5. ASSUME NEW w \in Workers, AppendCheckpoint(w) \/ AppendPrediction(w) \/ AppendFailure(w)
      PROVE  OnceEach'
  <2>1. work[w] # None
    BY <1>5 DEF AppendCheckpoint, AppendPrediction, AppendFailure, Appended, At
  <2>2. Row(work[w]) \in Rows /\ Row(work[w]).case = work[w].case
    BY <2>1, JobUpdates
  <2> QED
    BY <1>4, <1>5, <2>2 DEF AppendCheckpoint, AppendPrediction, AppendFailure, Appended, Content
<1>6. ASSUME NEW w \in Workers, CrashTears(w) PROVE OnceEach'
  <2>1. \A r \in {Torn(work[w]), Row(work[w])} : r \in Rows /\ r.case = work[w].case
    BY <1>6, TornRows, JobUpdates
  <2> QED
    BY <1>4, <1>6, <2>1, TornRows
<1>7. CASE \E cfg \in Configs : Open(cfg) \/ Resume(cfg)
  BY <1>1, <1>7 DEF Open, Resume, WriteFirstManifest
<1>8. CASE ReconcileRaises \/ RunRaises \/ WriteSummary \/ WriteLastManifest \/ Crash
  BY <1>1, <1>8 DEF ReconcileRaises, RunRaises, WriteSummary, WriteLastManifest, Crash, disk
<1>9. ASSUME NEW w \in Workers, ThreadStep(w) \/ WriteRaises(w) PROVE OnceEach'
  BY <1>1, <1>5, <1>9 DEF ThreadStep, Take, AppendRefused, ReadRaises, WriteRaises, disk
<1>10. CASE UNCHANGED vars
  BY <1>1, <1>10 DEF vars, disk
<1> QED
  BY <1>2, <1>3, <1>6, <1>7, <1>8, <1>9, <1>10 DEF Next, DriverStep

-----------------------------------------------------------------------------
(* The run. *)

\* What a thread's step does to the jobs: it takes a case, keeps it, or gives it up.
LEMMA JobMoves ==
    ASSUME TypeOK, NEW w \in Workers, ThreadStep(w) \/ WriteRaises(w)
    PROVE  /\ pc = "running" /\ UNCHANGED <<pc, manifest, summary>>
           /\ pending' \subseteq pending
           /\ \A v \in Workers : v # w => work'[v] = work[v]
           /\ work'[w] # None =>
                \/ work[w] = None /\ work'[w].case \in pending /\ work'[w].file = "checkpoint"
                \/ work[w] # None /\ work'[w].case = work[w].case
<1> USE DEF TypeOK
<1>1. ASSUME NEW c \in Cases, NEW o \in Outcomes, Take(w, c, o)
      PROVE  /\ work[w] = None /\ c \in pending /\ pending' \subseteq pending
             /\ work' = [work EXCEPT ![w] = [case |-> c, outcome |-> o, file |-> "checkpoint"]]
             /\ pc = "running" /\ UNCHANGED <<pc, manifest, summary>>
  BY <1>1 DEF Take, disk
<1>2. CASE AppendCheckpoint(w) \/ AppendPrediction(w) \/ AppendFailure(w)
  <2>1. /\ work[w] # None /\ pc = "running" /\ UNCHANGED <<pc, manifest, summary, pending>>
    BY <1>2 DEF AppendCheckpoint, AppendPrediction, AppendFailure, Appended, At
  <2>2. \/ \E f \in Files : work' = [work EXCEPT ![w].file = f]
        \/ work' = [work EXCEPT ![w] = None]
    BY <1>2 DEF AppendCheckpoint, AppendPrediction, AppendFailure, Moves, Done, Files
  <2>3. work[w] \in Jobs
    BY <2>1
  <2> QED
    BY <2>1, <2>2, <2>3 DEF Jobs
<1>3. CASE AppendRefused(w)
  BY <1>3 DEF AppendRefused, Done, At, disk
<1>4. CASE ReadRaises(w) \/ WriteRaises(w)
  <2>1. work[w] # None /\ CaseRaises(w) /\ pc = "running" /\ UNCHANGED <<pc, manifest, summary, pending>>
    BY <1>4 DEF ReadRaises, WriteRaises, disk
  <2>2. \/ work' = [work EXCEPT ![w].outcome = "failed", ![w].file = "checkpoint"]
        \/ work' = [work EXCEPT ![w] = None]
    BY <2>1 DEF CaseRaises, Done
  <2>3. work[w] \in Jobs
    BY <2>1
  <2> QED
    BY <2>1, <2>2, <2>3 DEF Jobs
<1>5. CASE \E c \in Cases, o \in Outcomes : Take(w, c, o)
  <2>1. PICK c \in Cases, o \in Outcomes : Take(w, c, o)
    BY <1>5
  <2> QED
    BY <1>1, <2>1
<1> QED
  BY <1>2, <1>3, <1>4, <1>5 DEF ThreadStep

LEMMA AssignedStep ==
    ASSUME TypeOK, Assigned, [Next]_vars
    PROVE  Assigned'
<1>1. ASSUME NEW cfg \in Configs, WriteFirstManifest(cfg) PROVE Assigned'
  <2>1. manifest' \in Manifests /\ pc' = "reconcile" /\ work' = work /\ work = Idle
    BY <1>1 DEF WriteFirstManifest, Manifests, TypeOK, Assigned
  <2> QED
    BY <2>1, NoneAssumption DEF Assigned, Idle
<1>2. CASE ReconcilePredictions
  BY <1>2 DEF ReconcilePredictions, Assigned, Idle
<1>3. CASE ReconcileFailures
  <2>1. /\ manifest # None /\ work = Idle /\ pc' = "running" /\ UNCHANGED <<manifest, work>>
        /\ pending' = Selected[manifest.config] \ Index(checkpoints)
    BY <1>3 DEF ReconcileFailures, Assigned
  <2> QED
    BY <2>1 DEF Assigned, Idle
<1>4. CASE ReconcileRaises \/ RunRaises \/ WriteLastManifest \/ Crash \/ \E w \in Workers : CrashTears(w)
  <2>1. ProcessEnds
    BY <1>4 DEF ReconcileRaises, RunRaises, WriteLastManifest, Crash, CrashTears
  <2> QED
    BY <2>1 DEF ProcessEnds, Assigned, Idle
<1>5. CASE WriteSummary
  BY <1>5 DEF WriteSummary, Assigned, Idle
<1>6. ASSUME NEW w \in Workers, ThreadStep(w) \/ WriteRaises(w) PROVE Assigned'
  <2>1. /\ pc = "running" /\ UNCHANGED <<pc, manifest>>
        /\ pending' \subseteq pending
        /\ \A v \in Workers : v # w => work'[v] = work[v]
        /\ work'[w] # None =>
             \/ work[w] = None /\ work'[w].case \in pending
             \/ work[w] # None /\ work'[w].case = work[w].case
    BY <1>6, JobMoves
  <2>2. ASSUME NEW v \in Workers, work'[v] # None PROVE work'[v].case \in Selected[manifest.config]
    BY <2>1, <2>2 DEF Assigned
  <2> QED
    BY <2>1, <2>2 DEF Assigned
<1>7. CASE UNCHANGED vars
  BY <1>7 DEF vars, disk, process, Assigned, Idle
<1> QED
  BY <1>1, <1>2, <1>3, <1>4, <1>5, <1>6, <1>7 DEF Next, DriverStep, Open, Resume

\* What each append does to the rows and to the thread that made it.
LEMMA CheckpointAppended ==
    ASSUME TypeOK, NEW w \in Workers, AppendCheckpoint(w)
    PROVE  /\ work[w] # None /\ work[w] \in Jobs /\ work[w].file = "checkpoint"
           /\ work'[w] \in Jobs /\ Row(work'[w]) = Row(work[w])
           /\ work'[w].outcome = work[w].outcome
           /\ work'[w].file = IF work[w].outcome \in Predicted THEN "prediction" ELSE "failure"
           /\ \A v \in Workers : v # w => work'[v] = work[v]
           /\ ToSet(checkpoints') = ToSet(checkpoints) \cup {Row(work[w])}
           /\ work[w].case \notin Index(checkpoints)
           /\ pc = "running" /\ UNCHANGED <<pc, manifest, predictions, failures, errors>>
<1>1. /\ work[w] # None /\ work[w].file = "checkpoint" /\ pc = "running"
      /\ work[w].case \notin Index(checkpoints)
      /\ checkpoints' = Append(checkpoints, Row(work[w]))
      /\ UNCHANGED <<pc, manifest, predictions, failures, errors>>
  BY DEF AppendCheckpoint, Appended, At, Content
<1>2. work[w] \in Jobs /\ Row(work[w]) \in Rows
  BY <1>1, JobUpdates
<1>3. ToSet(checkpoints') = ToSet(checkpoints) \cup {Row(work[w])}
  BY <1>1, <1>2, AppendRow DEF TypeOK
<1> DEFINE f == IF work[w].outcome \in Predicted THEN "prediction" ELSE "failure"
<1>4. work' = [work EXCEPT ![w].file = f] /\ f \in Files
  BY DEF AppendCheckpoint, Moves, Files
<1> HIDE DEF f
<1>5. work'[w] = [work[w] EXCEPT !.file = f] /\ \A v \in Workers : v # w => work'[v] = work[v]
  BY <1>4 DEF TypeOK
<1>6. /\ work'[w] \in Jobs /\ work'[w].case = work[w].case
      /\ work'[w].outcome = work[w].outcome /\ work'[w].file = f
  BY <1>2, <1>4, <1>5 DEF Jobs
<1> QED
  BY <1>1, <1>2, <1>3, <1>5, <1>6 DEF f, Row

LEMMA PredictionAppended ==
    ASSUME TypeOK, NEW w \in Workers, AppendPrediction(w)
    PROVE  /\ work[w] # None /\ work[w] \in Jobs /\ work[w].file = "prediction"
           /\ IF work[w].outcome \in Failing
              THEN /\ work'[w] \in Jobs /\ Row(work'[w]) = Row(work[w])
                   /\ work'[w].outcome = work[w].outcome /\ work'[w].file = "failure"
              ELSE work'[w] = None
           /\ \A v \in Workers : v # w => work'[v] = work[v]
           /\ ToSet(predictions') = ToSet(predictions) \cup {Row(work[w])}
           /\ pc = "running" /\ UNCHANGED <<pc, manifest, checkpoints, failures, errors>>
<1>1. /\ work[w] # None /\ work[w].file = "prediction" /\ pc = "running"
      /\ predictions' = Append(predictions, Row(work[w]))
      /\ UNCHANGED <<pc, manifest, checkpoints, failures, errors>>
  BY DEF AppendPrediction, Appended, At
<1>2. work[w] \in Jobs /\ Row(work[w]) \in Rows
  BY <1>1, JobUpdates
<1>3. ToSet(predictions') = ToSet(predictions) \cup {Row(work[w])}
  BY <1>1, <1>2, AppendRow DEF TypeOK
<1>4. CASE work[w].outcome \in Failing
  <2>1. work' = [work EXCEPT ![w].file = "failure"]
    BY <1>4 DEF AppendPrediction, Moves
  <2>2. work'[w] = [work[w] EXCEPT !.file = "failure"] /\ \A v \in Workers : v # w => work'[v] = work[v]
    BY <2>1 DEF TypeOK
  <2>3. /\ work'[w] \in Jobs /\ work'[w].case = work[w].case
        /\ work'[w].outcome = work[w].outcome /\ work'[w].file = "failure"
    BY <1>2, <2>2 DEF Jobs, Files
  <2> QED
    BY <1>1, <1>2, <1>3, <1>4, <2>2, <2>3 DEF Row
<1>5. CASE work[w].outcome \notin Failing
  <2>1. work' = [work EXCEPT ![w] = None]
    BY <1>5 DEF AppendPrediction, Done
  <2> QED
    BY <1>1, <1>2, <1>3, <1>5, <2>1 DEF TypeOK
<1> QED
  BY <1>4, <1>5

LEMMA FailureAppended ==
    ASSUME TypeOK, NEW w \in Workers, AppendFailure(w)
    PROVE  /\ work[w] # None /\ work[w] \in Jobs /\ work[w].file = "failure"
           /\ work'[w] = None
           /\ \A v \in Workers : v # w => work'[v] = work[v]
           /\ ToSet(failures') = ToSet(failures) \cup {Row(work[w])}
           /\ pc = "running" /\ UNCHANGED <<pc, manifest, checkpoints, predictions, errors>>
<1>1. /\ work[w] # None /\ work[w].file = "failure" /\ pc = "running"
      /\ failures' = Append(failures, Row(work[w]))
      /\ UNCHANGED <<pc, manifest, checkpoints, predictions, errors>>
      /\ work' = [work EXCEPT ![w] = None]
  BY DEF AppendFailure, Appended, At, Done
<1>2. work[w] \in Jobs /\ Row(work[w]) \in Rows
  BY <1>1, JobUpdates
<1>3. ToSet(failures') = ToSet(failures) \cup {Row(work[w])}
  BY <1>1, <1>2, AppendRow DEF TypeOK
<1> QED
  BY <1>1, <1>2, <1>3 DEF TypeOK

\* The other steps of a thread leave the files alone.
LEMMA NothingAppended ==
    ASSUME TypeOK, NEW w \in Workers,
           \/ \E c \in Cases, o \in Outcomes : Take(w, c, o)
           \/ AppendRefused(w) \/ ReadRaises(w) \/ WriteRaises(w)
    PROVE  /\ pc = "running" /\ UNCHANGED <<pc, manifest, checkpoints, predictions, failures, summary>>
           /\ work'[w] # None => work'[w].file = "checkpoint"
           /\ \A v \in Workers : v # w => work'[v] = work[v]
<1>1. CASE \E c \in Cases, o \in Outcomes : Take(w, c, o)
  BY <1>1 DEF Take, disk, TypeOK
<1>2. CASE AppendRefused(w)
  BY <1>2 DEF AppendRefused, At, Done, disk, TypeOK
<1>3. CASE ReadRaises(w) \/ WriteRaises(w)
  <2>1. /\ work[w] # None /\ CaseRaises(w) /\ pc = "running"
        /\ UNCHANGED <<pc, manifest, checkpoints, predictions, failures, summary>>
    BY <1>3 DEF ReadRaises, WriteRaises, disk
  <2>2. \/ work' = [work EXCEPT ![w].outcome = "failed", ![w].file = "checkpoint"]
        \/ work' = [work EXCEPT ![w] = None]
    BY <2>1 DEF CaseRaises, Done
  <2>3. work[w] \in Jobs
    BY <2>1 DEF TypeOK
  <2> QED
    BY <2>1, <2>2, <2>3 DEF Jobs, TypeOK
<1> QED
  BY <1>1, <1>2, <1>3

LEMMA CarriedStep ==
    ASSUME TypeOK, Assigned, Carried, [Next]_vars
    PROVE  Carried'
<1>1. CASE UNCHANGED <<work, checkpoints>>
  BY <1>1 DEF Carried, Row, Belongs
<1>2. CASE work' = Idle
  BY <1>2 DEF Carried, Idle
<1>3. ASSUME NEW w \in Workers, AppendCheckpoint(w) PROVE Carried'
  <2>1. ASSUME NEW v \in Workers, v # w, work'[v] # None, work'[v].file # "checkpoint"
        PROVE  /\ Row(work'[v]) \in ToSet(checkpoints')
               /\ work'[v].outcome \in Belongs(work'[v].file)
    <3>1. work'[v] = work[v] /\ ToSet(checkpoints) \subseteq ToSet(checkpoints')
      BY <1>3, <2>1, CheckpointAppended
    <3> QED
      BY <2>1, <3>1 DEF Carried
  <2>2. /\ Row(work'[w]) \in ToSet(checkpoints')
        /\ work'[w].outcome \in Belongs(work'[w].file)
    <3>1. work[w].outcome \in Outcomes
      BY <1>3, CheckpointAppended DEF Jobs
    <3> QED
      BY <1>3, <3>1, CheckpointAppended DEF Belongs, Outcomes, Predicted, Failing
  <2> QED
    BY <2>1, <2>2 DEF Carried
<1>4. ASSUME NEW w \in Workers, AppendPrediction(w) PROVE Carried'
  <2>1. checkpoints' = checkpoints /\ \A v \in Workers : v # w => work'[v] = work[v]
    BY <1>4, PredictionAppended
  <2>2. /\ Row(work[w]) \in ToSet(checkpoints)
        /\ work'[w] # None => /\ Row(work'[w]) = Row(work[w])
                              /\ work'[w].outcome \in Failing /\ work'[w].file = "failure"
    BY <1>4, PredictionAppended DEF Carried
  <2> QED
    BY <2>1, <2>2 DEF Carried, Belongs
<1>5. ASSUME NEW w \in Workers, AppendFailure(w) PROVE Carried'
  BY <1>5, FailureAppended DEF Carried
<1>6. ASSUME NEW w \in Workers,
             \/ \E c \in Cases, o \in Outcomes : Take(w, c, o)
             \/ AppendRefused(w) \/ ReadRaises(w) \/ WriteRaises(w)
      PROVE  Carried'
  BY <1>6, NothingAppended DEF Carried
<1>7. CASE \E cfg \in Configs : Open(cfg) \/ Resume(cfg)
  BY <1>1, <1>7 DEF Open, Resume, WriteFirstManifest
<1>8. CASE DriverStep \/ Crash \/ \E w \in Workers : CrashTears(w)
  BY <1>1, <1>2, <1>8 DEF DriverStep, ReconcilePredictions, ReconcileFailures, ReconcileRaises, RunRaises,
     WriteSummary, WriteLastManifest, Crash, CrashTears, ProcessEnds
<1>9. CASE UNCHANGED vars
  BY <1>1, <1>9 DEF vars, disk, process
<1> QED
  BY <1>3, <1>4, <1>5, <1>6, <1>7, <1>8, <1>9 DEF Next, ThreadStep

LEMMA DerivedStep ==
    ASSUME TypeOK, Carried, Derived, [Next]_vars
    PROVE  Derived'
<1>1. CASE UNCHANGED <<pc, checkpoints, predictions, failures>>
  BY <1>1 DEF Derived, Mirrors
<1>2. CASE pc' \in {"down", "reconcile", "finalize"}
  BY <1>2 DEF Derived
<1>3. CASE ReconcilePredictions
  <2>1. pc' = "reconcile_failures" /\ predictions' = Mirror(checkpoints, Predicted) /\ checkpoints' = checkpoints
    BY <1>3 DEF ReconcilePredictions
  <2>2. Mirrors(predictions, Predicted)'
    BY <2>1, MirrorRows DEF Mirrors, TypeOK
  <2> QED
    BY <2>1, <2>2 DEF Derived
<1>4. CASE ReconcileFailures
  <2>1. /\ pc = "reconcile_failures" /\ pc' = "running" /\ failures' = Mirror(checkpoints, Failing)
        /\ UNCHANGED <<checkpoints, predictions>>
    BY <1>4 DEF ReconcileFailures
  <2>2. ToSet(failures') = {row \in ToSet(checkpoints) : row.outcome \in Failing}
    BY <2>1, MirrorRows DEF TypeOK
  <2>3. ToSet(predictions) = {row \in ToSet(checkpoints) : row.outcome \in Predicted}
    BY <2>1 DEF Derived, Mirrors
  <2> QED
    BY <2>1, <2>2, <2>3 DEF Derived
<1>5. ASSUME NEW w \in Workers, AppendCheckpoint(w) PROVE Derived'
  BY <1>5, CheckpointAppended DEF Derived
<1>6. ASSUME NEW w \in Workers, AppendPrediction(w) PROVE Derived'
  <2>1. Row(work[w]) \in ToSet(checkpoints) /\ Row(work[w]).outcome \in Predicted
    BY <1>6, PredictionAppended DEF Carried, Belongs, Row
  <2> QED
    BY <1>6, <2>1, PredictionAppended DEF Derived
<1>7. ASSUME NEW w \in Workers, AppendFailure(w) PROVE Derived'
  <2>1. Row(work[w]) \in ToSet(checkpoints) /\ Row(work[w]).outcome \in Failing
    BY <1>7, FailureAppended DEF Carried, Belongs, Row
  <2> QED
    BY <1>7, <2>1, FailureAppended DEF Derived
<1>8. ASSUME NEW w \in Workers,
             \/ \E c \in Cases, o \in Outcomes : Take(w, c, o)
             \/ AppendRefused(w) \/ ReadRaises(w) \/ WriteRaises(w)
      PROVE  Derived'
  BY <1>1, <1>8, NothingAppended
<1>9. CASE \E cfg \in Configs : Open(cfg) \/ Resume(cfg)
  BY <1>2, <1>9 DEF Open, Resume, WriteFirstManifest
<1>10. CASE \/ ReconcileRaises \/ RunRaises \/ WriteSummary \/ WriteLastManifest
            \/ Crash \/ \E w \in Workers : CrashTears(w)
  BY <1>2, <1>10 DEF ReconcileRaises, RunRaises, WriteSummary, WriteLastManifest, Crash, CrashTears, ProcessEnds
<1>11. CASE UNCHANGED vars
  BY <1>1, <1>11 DEF vars, disk, process
<1> QED
  BY <1>3, <1>4, <1>5, <1>6, <1>7, <1>8, <1>9, <1>10, <1>11 DEF Next, ThreadStep, DriverStep

\* A file can be read when each of its rows can.
LEMMA ReadableRows ==
    ASSUME NEW file
    PROVE  Readable(file) <=> \A row \in ToSet(file) : row.outcome # "torn" /\ row.case \notin splitting
  BY DEF Readable, ToSet

\* The mirrors of a run can be read whenever its checkpoints can.
LEMMA MirrorsReadable ==
    ASSUME Derived, pc = "running", CanRead("checkpoint")
    PROVE  \A file \in {"checkpoint", "prediction", "failure"} : CanRead(file)
<1>1. Readable(predictions)
  BY ReadableRows DEF Derived, CanRead, Content
<1>2. Readable(failures)
  BY ReadableRows DEF Derived, CanRead, Content
<1> QED
  BY <1>1, <1>2 DEF Content, CanRead

\* A row stays owed while the thread that owes it does not move.
LEMMA OwedStays ==
    ASSUME NEW w \in Workers, \A v \in Workers : v # w => work'[v] = work[v],
           NEW row, NEW files, Owed(row, files),
           work[w] # None /\ work[w].file \in files => Row(work[w]) # row
    PROVE  Owed(row, files)'
<1>1. PICK v \in Workers : work[v] # None /\ work[v].file \in files /\ Row(work[v]) = row
  BY DEF Owed
<1>2. v # w /\ work'[v] = work[v]
  BY <1>1
<1> QED
  BY <1>1, <1>2 DEF Owed, Row

LEMMA FollowedStep ==
    ASSUME TypeOK, Assigned, Carried, Derived, Followed, [Next]_vars
    PROVE  Followed'
<1>1. CASE pc' # "running"
  BY <1>1 DEF Followed
<1>2. CASE ReconcileFailures
  <2>1. /\ pc = "reconcile_failures" /\ failures' = Mirror(checkpoints, Failing)
        /\ UNCHANGED <<checkpoints, predictions>>
    BY <1>2 DEF ReconcileFailures
  <2>2. ToSet(failures') = {row \in ToSet(checkpoints) : row.outcome \in Failing}
    BY <2>1, MirrorRows DEF TypeOK
  <2>3. ToSet(predictions) = {row \in ToSet(checkpoints) : row.outcome \in Predicted}
    BY <2>1 DEF Derived, Mirrors
  <2> QED
    BY <2>1, <2>2, <2>3 DEF Followed
<1>3. ASSUME NEW w \in Workers, AppendCheckpoint(w) PROVE Followed'
  <2> SUFFICES ASSUME errors' = 0, CanRead("checkpoint")', NEW row \in ToSet(checkpoints')
               PROVE  /\ row.outcome \in Predicted => row \in ToSet(predictions') \/ Owed(row, {"prediction"})'
                      /\ row.outcome \in Failing =>
                           row \in ToSet(failures') \/ Owed(row, {"prediction", "failure"})'
    BY DEF Followed
  <2>1. errors = 0 /\ pc = "running" /\ UNCHANGED <<predictions, failures>>
    BY <1>3, CheckpointAppended
  <2>2. CanRead("checkpoint")
    <3>1. \A r \in ToSet(checkpoints') : r.outcome # "torn" /\ r.case \notin splitting'
      BY ReadableRows DEF Readable, ToSet, CanRead, Content
    <3>2. ToSet(checkpoints) \subseteq ToSet(checkpoints') /\ splitting' = splitting
      BY <1>3, CheckpointAppended DEF AppendCheckpoint, inputs
    <3>3. tail # "glued"
      BY <1>3 DEF AppendCheckpoint, Appended, CanRead
    <3> QED
      BY <3>1, <3>2, <3>3, ReadableRows DEF CanRead, Content
  <2>3. CASE row = Row(work[w])
    <3>1. work'[w] # None
      BY <1>3, CheckpointAppended, NoneAssumption
    <3>2. Row(work'[w]) = row /\ work[w].outcome = row.outcome
      BY <1>3, <2>3, CheckpointAppended DEF Row
    <3>3. row.outcome \in Predicted => Owed(row, {"prediction"})'
      BY <1>3, <3>1, <3>2, CheckpointAppended DEF Owed, Row
    <3>4. row.outcome \in Failing => Owed(row, {"prediction", "failure"})'
      BY <1>3, <3>1, <3>2, CheckpointAppended DEF Owed, Row
    <3> QED
      BY <3>3, <3>4
  <2>4. CASE row \in ToSet(checkpoints)
    <3>1. work[w].file \notin {"prediction", "failure"} /\ \A v \in Workers : v # w => work'[v] = work[v]
      BY <1>3, CheckpointAppended
    <3>2. Owed(row, {"prediction"}) => Owed(row, {"prediction"})'
      BY <3>1, OwedStays
    <3>3. Owed(row, {"prediction", "failure"}) => Owed(row, {"prediction", "failure"})'
      BY <3>1, OwedStays
    <3> QED
      BY <2>1, <2>2, <2>4, <3>2, <3>3 DEF Followed
  <2> QED
    BY <1>3, <2>3, <2>4, CheckpointAppended
<1>4. ASSUME NEW w \in Workers, AppendPrediction(w) PROVE Followed'
  <2> SUFFICES ASSUME errors' = 0, CanRead("checkpoint")', NEW row \in ToSet(checkpoints')
               PROVE  /\ row.outcome \in Predicted => row \in ToSet(predictions') \/ Owed(row, {"prediction"})'
                      /\ row.outcome \in Failing =>
                           row \in ToSet(failures') \/ Owed(row, {"prediction", "failure"})'
    BY DEF Followed
  <2>1. errors = 0 /\ pc = "running" /\ UNCHANGED <<checkpoints, tail, failures>> /\ splitting' = splitting
    BY <1>4, PredictionAppended DEF AppendPrediction, inputs
  <2>2. CanRead("checkpoint")
    BY <2>1 DEF Readable, CanRead, Content
  <2>3. /\ row.outcome \in Predicted => row \in ToSet(predictions) \/ Owed(row, {"prediction"})
        /\ row.outcome \in Failing => row \in ToSet(failures) \/ Owed(row, {"prediction", "failure"})
    BY <2>1, <2>2 DEF Followed
  <2>4. CASE row = Row(work[w])
    <3>1. row \in ToSet(predictions')
      BY <1>4, <2>4, PredictionAppended
    <3>2. row.outcome \in Failing => Owed(row, {"prediction", "failure"})'
      <4>1. SUFFICES ASSUME row.outcome \in Failing PROVE Owed(row, {"prediction", "failure"})'
        OBVIOUS
      <4>2. work[w].outcome \in Failing
        BY <2>4, <4>1 DEF Row
      <4>3. work'[w] \in Jobs /\ Row(work'[w]) = row /\ work'[w].file = "failure"
        BY <1>4, <2>4, <4>2, PredictionAppended
      <4> QED
        BY <4>3, NoneAssumption DEF Owed, Row
    <3> QED
      BY <3>1, <3>2
  <2>5. CASE row # Row(work[w])
    <3>1. \A v \in Workers : v # w => work'[v] = work[v]
      BY <1>4, PredictionAppended
    <3>2. Owed(row, {"prediction"}) => Owed(row, {"prediction"})'
      BY <2>5, <3>1, OwedStays
    <3>3. Owed(row, {"prediction", "failure"}) => Owed(row, {"prediction", "failure"})'
      BY <2>5, <3>1, OwedStays
    <3>4. ToSet(predictions) \subseteq ToSet(predictions')
      BY <1>4, PredictionAppended
    <3> QED
      BY <2>1, <2>3, <3>2, <3>3, <3>4
  <2> QED
    BY <2>4, <2>5
<1>5. ASSUME NEW w \in Workers, AppendFailure(w) PROVE Followed'
  <2> SUFFICES ASSUME errors' = 0, CanRead("checkpoint")', NEW row \in ToSet(checkpoints')
               PROVE  /\ row.outcome \in Predicted => row \in ToSet(predictions') \/ Owed(row, {"prediction"})'
                      /\ row.outcome \in Failing =>
                           row \in ToSet(failures') \/ Owed(row, {"prediction", "failure"})'
    BY DEF Followed
  <2>1. /\ errors = 0 /\ pc = "running" /\ UNCHANGED <<checkpoints, tail, predictions>> /\ splitting' = splitting
        /\ work[w].file = "failure" /\ \A v \in Workers : v # w => work'[v] = work[v]
        /\ ToSet(failures') = ToSet(failures) \cup {Row(work[w])}
    BY <1>5, FailureAppended DEF AppendFailure, inputs
  <2>2. CanRead("checkpoint")
    BY <2>1 DEF Readable, CanRead, Content
  <2>3. /\ row.outcome \in Predicted => row \in ToSet(predictions) \/ Owed(row, {"prediction"})
        /\ row.outcome \in Failing => row \in ToSet(failures) \/ Owed(row, {"prediction", "failure"})
    BY <2>1, <2>2 DEF Followed
  <2>4. Owed(row, {"prediction"}) => Owed(row, {"prediction"})'
    BY <2>1, OwedStays
  <2>5. row # Row(work[w]) /\ Owed(row, {"prediction", "failure"}) => Owed(row, {"prediction", "failure"})'
    BY <2>1, OwedStays
  <2> QED
    BY <2>1, <2>3, <2>4, <2>5
<1>6. ASSUME NEW w \in Workers, (\E c \in Cases, o \in Outcomes : Take(w, c, o)) \/ AppendRefused(w)
      PROVE  Followed'
  <2>1. /\ pc = "running" /\ UNCHANGED <<checkpoints, tail, predictions, failures, errors, splitting>>
        /\ \A v \in Workers : v # w => work'[v] = work[v]
    BY <1>6, NothingAppended DEF Take, AppendRefused, inputs, disk
  <2>2. work[w] # None => work[w].file = "checkpoint"
    BY <1>6 DEF Take, AppendRefused, At
  <2>3. \A row : Owed(row, {"prediction"}) => Owed(row, {"prediction"})'
    BY <2>1, <2>2, OwedStays
  <2>4. \A row : Owed(row, {"prediction", "failure"}) => Owed(row, {"prediction", "failure"})'
    BY <2>1, <2>2, OwedStays
  <2>5. CanRead("checkpoint")' => CanRead("checkpoint")
    BY <2>1 DEF Readable, CanRead, Content
  <2> QED
    BY <2>1, <2>3, <2>4, <2>5 DEF Followed
<1>7. ASSUME NEW w \in Workers, ReadRaises(w) PROVE Followed'
  <2>1. /\ pc = "running" /\ UNCHANGED <<checkpoints, tail, splitting>>
        /\ work[w] # None /\ ~CanRead(work[w].file)
    BY <1>7 DEF ReadRaises, disk, inputs
  <2>2. work[w].file \in {"checkpoint", "prediction", "failure"}
    BY <2>1 DEF TypeOK, Jobs, Files
  <2>3. ~CanRead("checkpoint")
    BY <2>1, <2>2, MirrorsReadable
  <2>4. ~CanRead("checkpoint")'
    BY <2>1, <2>3 DEF Readable, CanRead, Content
  <2> QED
    BY <2>4 DEF Followed
<1>8. ASSUME NEW w \in Workers, WriteRaises(w) PROVE Followed'
  BY <1>8 DEF WriteRaises, Followed, TypeOK
<1>9. CASE \E cfg \in Configs : Open(cfg) \/ Resume(cfg)
  BY <1>1, <1>9 DEF Open, Resume, WriteFirstManifest
<1>10. CASE \/ ReconcilePredictions \/ ReconcileRaises \/ RunRaises \/ WriteSummary \/ WriteLastManifest
            \/ Crash \/ \E w \in Workers : CrashTears(w)
  BY <1>1, <1>10 DEF ReconcilePredictions, ReconcileRaises, RunRaises, WriteSummary, WriteLastManifest,
     Crash, CrashTears, ProcessEnds
<1>11. CASE UNCHANGED vars
  BY <1>11 DEF vars, disk, process, inputs, Followed, Owed, Readable, Row, CanRead, Content
<1> QED
  BY <1>2, <1>3, <1>4, <1>5, <1>6, <1>7, <1>8, <1>9, <1>10, <1>11 DEF Next, ThreadStep, DriverStep

\* Every row of a readable file is counted once: as completed or as failed.
LEMMA CountsAddUp ==
    ASSUME TypeOK, Readable(checkpoints)
    PROVE  Count(Predicted) + Count({"failed"}) = Len(checkpoints)
<1> DEFINE D == DOMAIN checkpoints
           P == {i \in D : checkpoints[i].outcome \in Predicted}
           F == {i \in D : checkpoints[i].outcome \in {"failed"}}
<1>1. Len(checkpoints) \in Nat /\ D = 1..Len(checkpoints) /\ \A i \in D : checkpoints[i] \in Rows
  BY LenProperties, ElementOfSeq DEF TypeOK
<1>2. IsFiniteSet(D) /\ Cardinality(D) = Len(checkpoints)
  <2> DEFINE n == Len(checkpoints)
  <2>1. n \in Nat /\ 1 \in Int /\ n \in Int /\ D = 1..n
    BY <1>1
  <2> HIDE DEF n, D
  <2>2. IsFiniteSet(1..n) /\ Cardinality(1..n) = IF 1 > n THEN 0 ELSE n - 1 + 1
    BY <2>1, FS_Interval
  <2>3. Cardinality(1..n) = n
    BY <2>1, <2>2
  <2> QED
    BY <2>1, <2>2, <2>3 DEF n
<1>3. P \cup F = D /\ P \cap F = {}
  BY <1>1 DEF Readable, Rows, Outcomes, Predicted
<1>4. IsFiniteSet(P) /\ IsFiniteSet(F)
  BY <1>2, FS_Subset
<1>5. Cardinality(P) \in Nat /\ Cardinality(F) \in Nat
  BY <1>4, FS_CardinalityType
<1> HIDE DEF P, F, D
<1>6. Cardinality(P) + Cardinality(F) = Cardinality(D)
  <2>1. Cardinality(P \cup F) = Cardinality(P) + Cardinality(F) - Cardinality(P \cap F)
    BY <1>4, FS_Union
  <2>2. Cardinality(P \cap F) = 0 /\ Cardinality(P \cup F) = Cardinality(D)
    BY <1>3, FS_EmptySet
  <2> QED
    BY <1>5, <2>1, <2>2
<1>7. Count(Predicted) = Cardinality(P) /\ Count({"failed"}) = Cardinality(F)
  BY DEF Count, P, F, D
<1> QED
  BY <1>2, <1>6, <1>7

LEMMA SettledStep ==
    ASSUME TypeOK, Assigned, Derived, Followed, Settled, [Next]_vars
    PROVE  Settled'
<1>1. CASE ~Ended'
  BY <1>1 DEF Settled, Ended
<1>2. CASE UNCHANGED vars
  <2>1. UNCHANGED <<manifest, summary, checkpoints, predictions, failures, splitting, pc, errors>>
    BY <1>2 DEF vars, disk, process, inputs
  <2> QED
    BY <2>1 DEF Settled, Ended, Complete, Readable, Index, Mirrors
<1>3. CASE WriteSummary
  <2>1. /\ pc = "running" /\ work = Idle /\ CanRead("checkpoint") /\ pc' = "finalize"
        /\ Readable(checkpoints)
        /\ Index(checkpoints) = Selected[manifest.config]
        /\ Len(checkpoints) = Cardinality(Selected[manifest.config])
        /\ summary' = [id |-> manifest.id, completed |-> Count(Predicted), failed |-> Count({"failed"})]
        /\ UNCHANGED <<manifest, checkpoints, predictions, failures, errors, splitting>>
    BY <1>3 DEF WriteSummary, inputs, CanRead, Content
  <2>2. manifest # None /\ ~Complete'
    BY <2>1 DEF Assigned, Settled, Complete
  <2>3. Readable(checkpoints)' /\ Index(checkpoints)' = Selected[manifest'.config]
    BY <2>1 DEF Readable, Index
  <2>4. \A row, files : ~Owed(row, files)
    BY <2>1 DEF Owed, Idle
  <2>5. errors = 0 => Mirrors(predictions, Predicted) /\ Mirrors(failures, Failing)
    BY <2>1, <2>4 DEF Followed, Derived, Mirrors
  <2>6. Mirrors(predictions, Predicted)' = Mirrors(predictions, Predicted)
        /\ Mirrors(failures, Failing)' = Mirrors(failures, Failing)
    BY <2>1 DEF Mirrors
  <2>7. summary'.id = manifest'.id
        /\ summary'.completed + summary'.failed = Cardinality(Selected[manifest'.config])
    BY <2>1, CountsAddUp
  <2> QED
    BY <2>1, <2>2, <2>3, <2>5, <2>6, <2>7 DEF Settled
<1>4. CASE WriteLastManifest
  <2>1. /\ pc = "finalize" /\ pc' = "down" /\ Ended
        /\ manifest' = [manifest EXCEPT !.status = "complete"]
        /\ UNCHANGED <<summary, checkpoints, predictions, failures, errors, splitting>>
    BY <1>4 DEF WriteLastManifest, ProcessEnds, inputs, Ended
  <2>2. manifest \in Manifests
    BY <2>1 DEF TypeOK, Settled
  <2>3. manifest' \in Manifests /\ manifest'.id = manifest.id /\ manifest'.config = manifest.config
    BY <2>1, <2>2 DEF Manifests
  <2>4. manifest' # None
    BY <2>3, NoneAssumption
  <2> QED
    BY <2>1, <2>3, <2>4 DEF Settled, Readable, Index, Mirrors
<1>5. CASE \E cfg \in Configs : Open(cfg) \/ Resume(cfg)
  <2>1. \E cfg \in Configs : WriteFirstManifest(cfg)
    BY <1>5 DEF Open, Resume
  <2> QED
    BY <1>1, <2>1 DEF WriteFirstManifest, Ended, Complete
<1>6. CASE /\ manifest' = manifest /\ pc # "down" /\ pc' # "finalize"
  BY <1>1, <1>6 DEF Settled, Complete, Ended
<1>7. CASE \/ ReconcilePredictions \/ ReconcileFailures \/ ReconcileRaises \/ RunRaises
           \/ Crash \/ \E w \in Workers : CrashTears(w)
  BY <1>6, <1>7 DEF ReconcilePredictions, ReconcileFailures, ReconcileRaises, RunRaises,
     Crash, CrashTears, ProcessEnds, disk
<1>8. ASSUME NEW w \in Workers, ThreadStep(w) \/ WriteRaises(w) PROVE Settled'
  BY <1>6, <1>8, JobMoves
<1> QED
  BY <1>2, <1>3, <1>4, <1>5, <1>7, <1>8 DEF Next, DriverStep

-----------------------------------------------------------------------------
LEMMA StoreInvInit ==
    ASSUME Init
    PROVE  StoreInv
<1>1. TypeOK
  BY EmptySeq DEF Init, TypeOK, Idle
<1>2. OnceEach
  BY DEF Init, OnceEach, Single
<1>3. ~Complete
  BY DEF Init, Complete
<1> QED
  BY <1>1, <1>2, <1>3 DEF Init, StoreInv, Assigned, Carried, Derived, Followed, Settled, Ended, Idle

LEMMA StoreInvStep ==
    ASSUME StoreInv, [Next]_vars
    PROVE  StoreInv'
BY TypeStep, OnceStep, AssignedStep, CarriedStep, DerivedStep, FollowedStep, SettledStep DEF StoreInv

LEMMA StoreInvariant == Spec => []StoreInv
<1>1. StoreInv /\ [Next]_vars => StoreInv'
  BY StoreInvStep
<1> QED
  BY StoreInvInit, <1>1, PTL DEF Spec

\* Files hold rows, a thread holds a job or nothing, the process is at one of its
\* five places, and what it counts are numbers.
THEOREM TypeCorrect == Spec => []TypeOK
<1>1. StoreInv => TypeOK
  BY DEF StoreInv
<1> QED
  BY <1>1, StoreInvariant, PTL

\* No file of a campaign ever holds two rows of one case: the strict read and the append
\* under one lock (artifacts.py, append_checkpoint) are enough, whatever is killed, torn,
\* resumed, raised or tried again, and the loop of reconcile() duplicates nothing.
THEOREM OneRowEach == Spec => []CaseOnce
<1>1. StoreInv => CaseOnce
  BY DEF StoreInv, OnceEach, Single, CaseOnce, Content, Files
<1> QED
  BY <1>1, StoreInvariant, PTL

\* When the manifest says "complete" and no append has raised, the mirrors have exactly the
\* rows of the checkpoints they are derived from, through any number of killed runs.
THEOREM MirrorsFollow == Spec => []MirrorsMatch
<1>1. StoreInv => MirrorsMatch
  BY DEF StoreInv, Settled, Ended, MirrorsMatch
<1> QED
  BY <1>1, StoreInvariant, PTL

\* The summary beside a "complete" manifest was written by the same run, and its two
\* counts add up to the cases that run selected.
THEOREM SummaryAddsUp == Spec => []SummaryIsOwn
<1>1. StoreInv => SummaryIsOwn
  BY DEF StoreInv, Settled, Ended, SummaryIsOwn
<1> QED
  BY <1>1, StoreInvariant, PTL

-----------------------------------------------------------------------------
(* The contract. *)

CampaignSelected == IF manifest = None THEN None ELSE Selected[manifest.config]

RowsOf(c) == {row \in ToSet(checkpoints) : row.case = c /\ row.outcome # "torn"}

\* What the log says of a case depends on the rows of that case alone.
LEMMA RecordedRows ==
    /\ Recorded = [c \in Cases |->
                      IF RowsOf(c) = {} THEN None ELSE (CHOOSE row \in RowsOf(c) : TRUE).outcome]
    /\ Recorded' = [c \in Cases |->
                      IF RowsOf(c)' = {} THEN None ELSE (CHOOSE row \in RowsOf(c)' : TRUE).outcome]
BY DEF Recorded, RowsOf

\* A row of a thread's case goes into the checkpoint file, with its newline or without.
RowWritten(w) ==
    /\ Appended(w, "checkpoint")
    /\ checkpoints' = Append(checkpoints, Row(work[w]))
    /\ UNCHANGED manifest

LEMMA LogSteps ==
    ASSUME StoreInv, [Next]_vars
    PROVE  \/ UNCHANGED Recorded
           \/ \E w \in Workers : RowWritten(w)
<1>1. CASE UNCHANGED checkpoints
  BY <1>1 DEF Recorded
<1>2. ASSUME NEW w \in Workers, CrashTears(w), checkpoints' # checkpoints
      PROVE  UNCHANGED Recorded \/ RowWritten(w)
  <2>1. /\ Appended(w, "checkpoint") /\ UNCHANGED manifest
        /\ \/ checkpoints' = Append(checkpoints, Torn(work[w]))
           \/ checkpoints' = Append(checkpoints, Row(work[w]))
    BY <1>2 DEF CrashTears
  <2>2. CASE checkpoints' = Append(checkpoints, Torn(work[w]))
    <3>1. ToSet(checkpoints') = ToSet(checkpoints) \cup {Torn(work[w])}
      <4>1. Torn(work[w]) \in Rows
        BY <1>2, TornRows DEF StoreInv
      <4> QED
        BY <2>2, <4>1, AppendRow DEF StoreInv, TypeOK
    <3>2. \A c \in Cases : RowsOf(c)' = RowsOf(c)
      BY <3>1 DEF RowsOf, Torn
    <3> QED
      BY <3>2, RecordedRows
  <2> QED
    BY <2>1, <2>2 DEF RowWritten
<1>3. ASSUME NEW w \in Workers, AppendCheckpoint(w) PROVE RowWritten(w)
  BY <1>3 DEF AppendCheckpoint, RowWritten
<1> QED
  BY <1>1, <1>2, <1>3 DEF Next, Open, Resume, WriteFirstManifest, DriverStep, ReconcilePredictions, ReconcileFailures,
     ReconcileRaises, RunRaises, WriteSummary, WriteLastManifest, Crash, ThreadStep, Take, AppendRefused,
     AppendPrediction, AppendFailure, ReadRaises, WriteRaises, disk, vars

LEMMA SelectedSteps ==
    ASSUME StoreInv, [Next]_vars
    PROVE  \/ UNCHANGED <<CampaignSelected, Complete>>
           \/ /\ CampaignSelected = None /\ CampaignSelected' \in SUBSET Cases
              /\ UNCHANGED <<Complete, checkpoints>>
           \/ /\ Complete /\ ~Complete' /\ UNCHANGED <<CampaignSelected, checkpoints>>
           \/ /\ pc = "finalize" /\ Complete' /\ UNCHANGED <<CampaignSelected, checkpoints>>
<1>1. CASE UNCHANGED manifest
  BY <1>1 DEF CampaignSelected, Complete
<1>2. ASSUME NEW cfg \in Configs, WriteFirstManifest(cfg), manifest = None \/ manifest.config = cfg
      PROVE  \/ UNCHANGED <<CampaignSelected, Complete>>
             \/ /\ CampaignSelected = None /\ CampaignSelected' \in SUBSET Cases
                /\ UNCHANGED <<Complete, checkpoints>>
             \/ /\ Complete /\ ~Complete' /\ UNCHANGED <<CampaignSelected, checkpoints>>
  <2>1. /\ manifest' = [config |-> cfg, id |-> starts + 1, status |-> "partial"]
        /\ manifest' \in Manifests /\ UNCHANGED checkpoints
    BY <1>2 DEF WriteFirstManifest, Manifests, StoreInv, TypeOK
  <2>2. manifest' # None /\ manifest'.config = cfg /\ ~Complete'
    BY <2>1, NoneAssumption DEF Complete
  <2>3. CampaignSelected' = Selected[cfg] /\ Selected[cfg] \in SUBSET Cases
    BY <2>2, ConstantsAssumption DEF CampaignSelected
  <2>4. CASE manifest = None
    BY <2>1, <2>2, <2>3, <2>4 DEF CampaignSelected, Complete
  <2>5. CASE manifest # None
    <3>1. CampaignSelected' = CampaignSelected
      BY <1>2, <2>3, <2>5 DEF CampaignSelected
    <3>2. Complete \in BOOLEAN /\ Complete' \in BOOLEAN
      BY DEF Complete
    <3>3. CASE Complete
      BY <2>1, <2>2, <3>1, <3>3
    <3>4. CASE ~Complete
      <4>1. Complete' = Complete
        BY <2>2, <3>2, <3>4
      <4> QED
        BY <3>1, <4>1
    <3> QED
      BY <3>3, <3>4
  <2> QED
    BY <2>4, <2>5
<1>3. CASE WriteLastManifest
  <2>1. manifest \in Manifests /\ pc = "finalize"
    BY <1>3 DEF WriteLastManifest, StoreInv, TypeOK, Assigned
  <2>2. /\ manifest' = [manifest EXCEPT !.status = "complete"] /\ manifest' \in Manifests
        /\ UNCHANGED checkpoints
    BY <1>3, <2>1 DEF WriteLastManifest, Manifests
  <2>3. manifest # None /\ manifest' # None /\ manifest'.config = manifest.config /\ manifest'.status = "complete"
    BY <2>1, <2>2, NoneAssumption DEF Manifests
  <2> QED
    BY <2>1, <2>2, <2>3 DEF CampaignSelected, Complete
<1>4. CASE \E cfg \in Configs : Open(cfg) \/ Resume(cfg)
  <2>1. PICK cfg \in Configs : Open(cfg) \/ Resume(cfg)
    BY <1>4
  <2>2. WriteFirstManifest(cfg) /\ (manifest = None \/ manifest.config = cfg)
    BY <2>1 DEF Open, Resume
  <2> QED
    BY <1>2, <2>2
<1>5. ASSUME NEW w \in Workers, ThreadStep(w) \/ WriteRaises(w) \/ CrashTears(w) PROVE UNCHANGED manifest
  BY <1>5, JobMoves DEF CrashTears, StoreInv
<1> QED
  BY <1>1, <1>3, <1>4, <1>5 DEF Next, DriverStep, ReconcilePredictions, ReconcileFailures,
     ReconcileRaises, RunRaises, WriteSummary, Crash, disk, vars

\* The one step that adds an outcome adds it for a selected case that has none.
LEMMA RecordStep ==
    ASSUME StoreInv, NEW w \in Workers, RowWritten(w)
    PROVE  \E c \in Cases, o \in Outcomes :
              /\ CampaignSelected # None /\ ~Complete
              /\ c \in CampaignSelected /\ Recorded[c] = None
              /\ Recorded' = [Recorded EXCEPT ![c] = o]
              /\ UNCHANGED <<CampaignSelected, Complete>>
<1>0. /\ work[w] # None /\ pc = "running" /\ UNCHANGED manifest
      /\ work[w].case \notin Index(checkpoints)
      /\ checkpoints' = Append(checkpoints, Row(work[w]))
  BY DEF RowWritten, Appended, At, Content
<1>1. PICK c \in Cases, o \in Outcomes, r \in Rows :
         /\ c = work[w].case /\ o = work[w].outcome /\ r = Row(work[w])
  <2>1. work[w] \in Jobs /\ Row(work[w]) \in Rows
    BY <1>0, JobUpdates DEF StoreInv
  <2> QED
    BY <2>1 DEF Jobs
<1>2. UNCHANGED manifest /\ manifest # None /\ ~Complete
  BY <1>0 DEF StoreInv, Assigned, Settled
<1>3. UNCHANGED <<CampaignSelected, Complete>> /\ CampaignSelected = Selected[manifest.config]
  BY <1>2 DEF CampaignSelected, Complete
<1>4. c \in Selected[manifest.config]
  BY <1>0, <1>1 DEF StoreInv, Assigned
<1>5. CampaignSelected # None
  <2>1. manifest.config \in Configs
    BY <1>2 DEF StoreInv, TypeOK, Manifests
  <2> QED
    BY <1>3, <2>1, NoneAssumption
<1>6. RowsOf(c) = {}
  <2>1. c \notin Index(checkpoints)
    BY <1>0, <1>1
  <2> QED
    BY <2>1 DEF RowsOf, Index, ToSet
<1>7. RowsOf(c)' = {r} /\ \A d \in Cases \ {c} : RowsOf(d)' = RowsOf(d)
  <2>1. ToSet(checkpoints') = ToSet(checkpoints) \cup {r}
    BY <1>0, <1>1, AppendRow DEF StoreInv, TypeOK
  <2>2. r.case = c /\ r.outcome # "torn"
    BY <1>1 DEF Row, Outcomes
  <2>3. RowsOf(c)' = {r}
    BY <1>6, <2>1, <2>2 DEF RowsOf
  <2>4. ASSUME NEW d \in Cases \ {c} PROVE RowsOf(d)' = RowsOf(d)
    BY <2>1, <2>2 DEF RowsOf
  <2> QED
    BY <2>3, <2>4
<1>8. Recorded[c] = None /\ Recorded' = [Recorded EXCEPT ![c] = o]
  <2>1. (CHOOSE row \in RowsOf(c)' : TRUE) = r /\ RowsOf(c)' # {} /\ r.outcome = o
    <3>1. \A x : (CHOOSE row \in {x} : TRUE) = x
      OBVIOUS
    <3> QED
      BY <1>1, <1>7, <3>1 DEF Row
  <2>2. Recorded'[c] = o
    BY <2>1, RecordedRows
  <2>3. \A d \in Cases \ {c} : Recorded'[d] = Recorded[d]
    <3> SUFFICES ASSUME NEW d \in Cases \ {c} PROVE Recorded'[d] = Recorded[d]
      OBVIOUS
    <3>1. RowsOf(d)' = RowsOf(d)
      BY <1>7
    <3>2. Recorded[d] = IF RowsOf(d) = {} THEN None ELSE (CHOOSE row \in RowsOf(d) : TRUE).outcome
      BY RecordedRows
    <3>3. Recorded'[d] = IF RowsOf(d)' = {} THEN None ELSE (CHOOSE row \in RowsOf(d)' : TRUE).outcome
      BY RecordedRows
    <3> QED
      BY <3>1, <3>2, <3>3
  <2>4. Recorded[c] = None
    BY <1>6, RecordedRows
  <2>5. Recorded = [d \in Cases |-> Recorded[d]] /\ Recorded' = [d \in Cases |-> Recorded'[d]]
    BY RecordedRows
  <2> HIDE DEF Recorded
  <2> QED
    BY <2>2, <2>3, <2>4, <2>5
<1> QED
  BY <1>1, <1>2, <1>3, <1>4, <1>5, <1>8

\* The campaign keeps the contract of CaseLog: its reader sees one outcome recorded for
\* each selected case, never one changed, and "complete" only when all have one.
THEOREM Keeps == Spec => KeepsContract
<1>1. Init => Contract!Init
  <2> SUFFICES ASSUME Init PROVE Contract!Init
    OBVIOUS
  <2>1. manifest = None /\ ToSet(checkpoints) = {}
    BY DEF Init, ToSet
  <2>2. \A c \in Cases : RowsOf(c) = {}
    BY <2>1 DEF RowsOf
  <2>3. Recorded = [c \in Cases |-> None]
    BY <2>2, RecordedRows
  <2> QED
    BY <2>1, <2>3 DEF Contract!Init, Complete
<1>2. StoreInv /\ [Next]_vars =>
        [Contract!Open \/ Contract!Record \/ Contract!Complete \/ Contract!Reopen]_<<CampaignSelected, Recorded, Complete>>
  <2> SUFFICES ASSUME StoreInv, [Next]_vars
               PROVE  \/ Contract!Open \/ Contract!Record \/ Contract!Complete \/ Contract!Reopen
                      \/ UNCHANGED <<CampaignSelected, Recorded, Complete>>
    OBVIOUS
  <2>1. CASE \E w \in Workers : RowWritten(w)
    <3>1. PICK w \in Workers : RowWritten(w)
      BY <2>1
    <3>2. Contract!Record
      BY <3>1, RecordStep DEF Contract!Record, CampaignSelected
    <3> QED
      BY <3>2
  <2>2. CASE UNCHANGED Recorded /\ UNCHANGED <<CampaignSelected, Complete>>
    BY <2>2
  <2>3. CASE /\ UNCHANGED Recorded
             /\ CampaignSelected = None /\ CampaignSelected' \in SUBSET Cases
             /\ UNCHANGED Complete
    BY <2>3 DEF Contract!Open, CampaignSelected
  <2>4. CASE UNCHANGED Recorded /\ Complete /\ ~Complete' /\ UNCHANGED CampaignSelected
    BY <2>4 DEF Contract!Reopen, CampaignSelected, Complete
  <2>5. CASE UNCHANGED Recorded /\ pc = "finalize" /\ Complete' /\ UNCHANGED CampaignSelected
    <3>1. manifest # None /\ Readable(checkpoints) /\ Index(checkpoints) = Selected[manifest.config]
      BY <2>5 DEF StoreInv, Settled, Ended
    <3>2. CampaignSelected # None /\ CampaignSelected = Index(checkpoints)
      <4>1. manifest.config \in Configs
        BY <3>1 DEF StoreInv, TypeOK, Manifests
      <4> QED
        BY <3>1, <4>1, NoneAssumption DEF CampaignSelected
    <3>3. ASSUME NEW c \in Cases PROVE c \in Index(checkpoints) <=> Recorded[c] # None
      <4>1. c \in Index(checkpoints) <=> RowsOf(c) # {}
        BY <3>1, ReadableRows DEF RowsOf, Index, ToSet
      <4>2. \A row \in RowsOf(c) : row.outcome \in Outcomes
        <5>1. \A row \in ToSet(checkpoints) : row \in Rows
          BY ElementOfSeq, LenProperties DEF StoreInv, TypeOK, ToSet
        <5> QED
          BY <5>1 DEF RowsOf, Rows
      <4>3. RowsOf(c) # {} => (CHOOSE row \in RowsOf(c) : TRUE) \in RowsOf(c)
        OBVIOUS
      <4>4. Recorded[c] = IF RowsOf(c) = {} THEN None ELSE (CHOOSE row \in RowsOf(c) : TRUE).outcome
        BY RecordedRows
      <4> QED
        BY <4>1, <4>2, <4>3, <4>4, NoneAssumption
    <3>4. Complete' = TRUE
      BY <2>5 DEF Complete
    <3> QED
      BY <2>5, <3>2, <3>3, <3>4 DEF Contract!Complete, CampaignSelected
  <2> QED
    BY <2>1, <2>2, <2>3, <2>4, <2>5, LogSteps, SelectedSteps
<1> QED
  BY <1>1, <1>2, StoreInvariant, PTL DEF Spec, KeepsContract, Contract!Spec, CampaignSelected
=============================================================================
