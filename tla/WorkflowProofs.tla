---------------------------- MODULE WorkflowProofs ----------------------------
(***************************************************************************)
(* Theorems about Workflow, for any queries, any advice and any budgets.   *)
(*                                                                         *)
(* A correction splices phases in before what is left of the route, so     *)
(* nothing bounds how the list of phases may look.  What holds of every    *)
(* list is a Flow: it is stated position by position, carried over to a    *)
(* list with one more phase in front, and from there to each splice.       *)
(***************************************************************************)
EXTENDS Workflow, SequenceTheorems, TLAPS

Outcomes == {"answered", "actioned", "ingested", "classified", "abstained", "failed"}

Flags == running \in BOOLEAN /\ cancelled \in BOOLEAN /\ evidence \in BOOLEAN /\ saved \in BOOLEAN

Values ==
    /\ request \in Requests
    /\ status \in {"PENDING", "RUNNING", "COMPLETED", "FAILED", "CANCELLED"}
    /\ todo \in Seq(Phases)
    /\ running => current \in Phases
    /\ attempts \in 0..MaxRetries
    /\ decision \in Decisions \cup {"none"}
    /\ generation \in {"none", "answered", "uncited", "abstained", "failed"}
    /\ action \in {"none", "success", "no_op", "failed", "blocked"}
    /\ terminal \in {"none", "ASK_USER", "ABSTAIN"}
    /\ query \in Queries
    /\ signatures \subseteq AdviceActions \X (Queries \cup {NoQuery})
    /\ spent \in [interventions : 0..MaxInterventions, retrievals : 0..MaxRetrievalRetries,
                  replans : 0..MaxReplans, gate : 0..GateRetries, generations : Nat]
    /\ outcome \in Outcomes \cup {"none"}
    /\ fresh \subseteq {"judgement", "action", "answer"}
    /\ loaded \in Nat /\ stored \in Nat
    /\ notes \subseteq Contract!Notes
    /\ effects \subseteq Contract!Notes \cup {"state", "maintenance"}

TypeOK == Flags /\ Values

-----------------------------------------------------------------------------
(* Lists of phases. *)

PlainTasks == {"historical_replay", "document_ingestion", "emotion_classification"}

Full(r) == Routes[r].profile = "prima_full"

\* The phase that produces what the outcome is shaped from.
Final(r) ==
    CASE Routes[r].task = "tool_request" -> "ACTION"
      [] Routes[r].task \in PlainTasks -> "DOCUMENT_INGESTION"
      [] OTHER -> "ANSWER_GENERATION"

\* Phases that undo what was computed, and phases that must not come before them.
Remaking == {"EVIDENCE_ACQUISITION", "PLANNING"}
Reworks == Remaking \cup {"EXECUTION_DECISION", "REFLECTION"}
Acting == {"REFLECTION", "ACTION", "ANSWER_GENERATION", "OUTPUT_VALIDATION"}

PlainPhases ==
    {"STATE_LOAD", "AFFECT", "DOCUMENT_INGESTION", "OUTPUT", "STATE_COMMIT", "MEMORY_COMMIT",
     "MAINTENANCE_ENQUEUE"}

\* The phases that can be ahead on a route.
Allowed(r) ==
    IF Routes[r].task \in PlainTasks THEN PlainPhases
    ELSE IF Full(r) THEN Phases \ {"DOCUMENT_INGESTION"}
    ELSE Phases \ {"DOCUMENT_INGESTION", "PLANNING", "EXECUTION_DECISION", "REFLECTION", "ACTION"}

\* The end of every route, in its order; 0 is everything before.
Rank(p) ==
    CASE p = "OUTPUT" -> 1
      [] p = "STATE_COMMIT" -> 2
      [] p = "MEMORY_COMMIT" -> 3
      [] p = "MAINTENANCE_ENQUEUE" -> 4
      [] OTHER -> 0

Elems(s) == {s[i] : i \in DOMAIN s}

\* On a full route an acting phase comes after a judgement with no new plan in between;
\* f says what is fresh at the front.
Judged(r, f, s) ==
    Full(r) =>
        \A i \in DOMAIN s : s[i] \in Acting =>
            \/ "judgement" \in f /\ \A k \in 1..(i - 1) : s[k] \notin Remaking
            \/ \E d \in 1..(i - 1) :
                 s[d] = "EXECUTION_DECISION" /\ \A k \in (d + 1)..(i - 1) : s[k] \notin Remaking

\* The final phase comes before the outcome is shaped.
Reaches(r, s) ==
    \E i \in DOMAIN s : s[i] = Final(r) /\ \A k \in 1..i : s[k] # "OUTPUT"

\* Whatever is reworked, the final phase comes again.
Leads(r, s) ==
    \A i \in DOMAIN s : s[i] \in Reworks =>
        \E n \in DOMAIN s : n > i /\ s[n] = Final(r) /\ \A k \in (i + 1)..n : s[k] # "OUTPUT"

\* Nothing is reworked once the execution acts, unless a correction says so.
Calm(s) == \A i, n \in DOMAIN s : i < n /\ s[i] \in Acting => s[n] \notin Reworks

Ranked(s) == \A i, n \in DOMAIN s : i < n /\ Rank(s[i]) > 0 => Rank(s[n]) > Rank(s[i])

Flow(r, f, s) ==
    /\ Judged(r, f, s)
    /\ Leads(r, s)
    /\ Calm(s)
    /\ Ranked(s)
    /\ Elems(s) \subseteq Allowed(r)

\* What is fresh after phase p, and when p fits in front of a list.
After(f, p) ==
    IF p = "EXECUTION_DECISION" THEN f \cup {"judgement"}
    ELSE IF p \in Remaking THEN {} ELSE f

Fits(r, f, p, s) ==
    /\ p \in Allowed(r)
    /\ Full(r) /\ p \in Acting => "judgement" \in f
    /\ p \in Reworks => Reaches(r, s)
    /\ p \in Acting => Elems(s) \cap Reworks = {}
    /\ Rank(p) > 0 => \A q \in Elems(s) : Rank(q) > Rank(p)

LEMMA Front ==
    ASSUME NEW p \in Phases, NEW s \in Seq(Phases)
    PROVE  /\ <<p>> \o s \in Seq(Phases)
           /\ Len(s) \in Nat /\ DOMAIN s = 1..Len(s)
           /\ DOMAIN (<<p>> \o s) = 1..(Len(s) + 1)
           /\ (<<p>> \o s)[1] = p
           /\ \A i \in 1..Len(s) : (<<p>> \o s)[i + 1] = s[i]
           /\ \A i \in 2..(Len(s) + 1) : i - 1 \in 1..Len(s) /\ (<<p>> \o s)[i] = s[i - 1]
           /\ Elems(<<p>> \o s) = {p} \cup Elems(s)
<1> DEFINE t == <<p>> \o s
<1>1. /\ t \in Seq(Phases) /\ Len(t) = Len(s) + 1 /\ Len(s) \in Nat
      /\ DOMAIN s = 1..Len(s) /\ DOMAIN t = 1..(Len(s) + 1)
      /\ t[1] = p
      /\ \A i \in 1..Len(s) : t[i + 1] = s[i]
  OBVIOUS
<1> HIDE DEF t
<1>2. \A i \in 2..(Len(s) + 1) : i - 1 \in 1..Len(s) /\ t[i] = s[i - 1]
  <2> SUFFICES ASSUME NEW i \in 2..(Len(s) + 1) PROVE i - 1 \in 1..Len(s) /\ t[i] = s[i - 1]
    OBVIOUS
  <2>1. i - 1 \in 1..Len(s) /\ (i - 1) + 1 = i
    BY <1>1
  <2> QED
    BY <1>1, <2>1
<1>3. Elems(t) = {p} \cup Elems(s)
  <2>1. \A i \in DOMAIN t : i = 1 \/ i \in 2..(Len(s) + 1)
    BY <1>1
  <2>2. Elems(t) \subseteq {p} \cup Elems(s)
    <3> SUFFICES ASSUME NEW i \in DOMAIN t PROVE t[i] \in {p} \cup Elems(s)
      BY DEF Elems
    <3>1. CASE i = 1
      BY <1>1, <3>1
    <3>2. CASE i \in 2..(Len(s) + 1)
      <4>1. i - 1 \in DOMAIN s /\ t[i] = s[i - 1]
        BY <1>1, <1>2, <3>2
      <4> QED
        BY <4>1 DEF Elems
    <3> QED
      BY <2>1, <3>1, <3>2
  <2>3. {p} \cup Elems(s) \subseteq Elems(t)
    <3>1. 1 \in DOMAIN t /\ \A i \in 1..Len(s) : i + 1 \in DOMAIN t
      BY <1>1
    <3> QED
      BY <1>1, <3>1 DEF Elems
  <2> QED
    BY <2>2, <2>3
<1> QED
  BY <1>1, <1>2, <1>3 DEF t

-----------------------------------------------------------------------------
(* The inductive invariant. *)

Live == status \in {"PENDING", "RUNNING"}

\* What is left of the execution, with the phase that runs.
Ahead == IF running THEN <<current>> \o todo ELSE todo

Has(p) == p \in Elems(Ahead)

\* The outcome can be shaped, from a result that is not out of date.
Ready ==
    \/ terminal # "none"
    \/ decision \in Withheld
    \/ CASE Final(request) = "ACTION" -> action # "none" /\ "action" \in fresh
         [] Final(request) = "ANSWER_GENERATION" -> generation # "none" /\ "answer" \in fresh
         [] OTHER -> Task = "document_ingestion" => "document" \in notes

FlowsOn == Live => Flow(request, fresh, Ahead)

ResultComes == Live /\ Has("OUTPUT") => Reaches(request, Ahead) \/ Ready

RunsAllowed ==
    /\ status = "PENDING" => ~running
    /\ status = "RUNNING" /\ running => ~Skipped(current)

\* Which results an execution of a route can have.  A tool request may be answered by a
\* regeneration that the advisor asks for, and then nothing is reworked any more.
ResultOfRoute ==
    /\ Task \in PlainTasks => generation = "none" /\ action = "none"
    /\ action # "none" => Full(request)
    /\ Live /\ Task = "tool_request" /\ generation # "none" =>
         "answer" \in fresh /\ Elems(Ahead) \cap Reworks = {}

\* The outcome is shaped, and the state committed, when the phases that do it are done.
CommitsInOrder ==
    Live =>
      /\ outcome = "none" => Has("OUTPUT") /\ Has("STATE_COMMIT") /\ "state" \notin effects
      /\ outcome # "none" => \A p \in Elems(Ahead) : Rank(p) > 1
      /\ outcome \in Contract!Kept => ("state" \in effects <=> ~Has("STATE_COMMIT"))

NotesAreKept ==
    /\ notes \subseteq Contract!Notes \cap effects
    /\ saved => "user" \in effects /\ outcome \in Contract!Remembered

IInv ==
    /\ TypeOK
    /\ FlowsOn
    /\ ResultComes
    /\ RunsAllowed
    /\ ResultOfRoute
    /\ CommitsInOrder
    /\ NotesAreKept
    /\ ReportedResultIsFresh

-----------------------------------------------------------------------------
(* A list with one more phase in front. *)

LEMMA FrontJudged ==
    ASSUME NEW r, NEW f, NEW p \in Phases, NEW s \in Seq(Phases)
    PROVE  Judged(r, f, <<p>> \o s)
             <=> (Full(r) /\ p \in Acting => "judgement" \in f) /\ Judged(r, After(f, p), s)
<1> DEFINE t == <<p>> \o s
<1>1. /\ t \in Seq(Phases) /\ Len(s) \in Nat /\ DOMAIN s = 1..Len(s)
      /\ DOMAIN t = 1..(Len(s) + 1) /\ t[1] = p
      /\ \A i \in 1..Len(s) : t[i + 1] = s[i]
      /\ \A i \in 2..(Len(s) + 1) : i - 1 \in 1..Len(s) /\ t[i] = s[i - 1]
  BY Front
<1> HIDE DEF t
<1>2. ASSUME Judged(r, f, t), Full(r)
      PROVE  (p \in Acting => "judgement" \in f) /\ Judged(r, After(f, p), s)
  <2>1. p \in Acting => "judgement" \in f
    <3>1. 1 \in DOMAIN t /\ 1..(1 - 1) = {}
      BY <1>1
    <3> QED
      BY <1>1, <1>2, <3>1 DEF Judged
  <2>2. ASSUME NEW i \in DOMAIN s, s[i] \in Acting
        PROVE  \/ "judgement" \in After(f, p) /\ \A k \in 1..(i - 1) : s[k] \notin Remaking
               \/ \E d \in 1..(i - 1) :
                    s[d] = "EXECUTION_DECISION" /\ \A k \in (d + 1)..(i - 1) : s[k] \notin Remaking
    <3>1. i \in 1..Len(s) /\ i + 1 \in DOMAIN t /\ t[i + 1] \in Acting /\ (i + 1) - 1 = i
      BY <1>1, <2>2
    <3>2. \/ "judgement" \in f /\ \A k \in 1..i : t[k] \notin Remaking
          \/ \E d \in 1..i :
               t[d] = "EXECUTION_DECISION" /\ \A k \in (d + 1)..i : t[k] \notin Remaking
      BY <1>2, <3>1 DEF Judged
    <3>3. CASE "judgement" \in f /\ \A k \in 1..i : t[k] \notin Remaking
      <4>1. p \notin Remaking
        BY <1>1, <3>1, <3>3
      <4>2. \A k \in 1..(i - 1) : k \in 1..Len(s) /\ k + 1 \in 1..i
        BY <1>1, <3>1
      <4> QED
        BY <1>1, <3>3, <4>1, <4>2 DEF After
    <3>4. CASE \E d \in 1..i :
                 t[d] = "EXECUTION_DECISION" /\ \A k \in (d + 1)..i : t[k] \notin Remaking
      <4>1. PICK d \in 1..i :
              t[d] = "EXECUTION_DECISION" /\ \A k \in (d + 1)..i : t[k] \notin Remaking
        BY <3>4
      <4>2. CASE d = 1
        <5>1. "judgement" \in After(f, p)
          BY <1>1, <4>1, <4>2 DEF After
        <5>2. \A k \in 1..(i - 1) : k \in 1..Len(s) /\ k + 1 \in (d + 1)..i
          BY <1>1, <3>1, <4>2
        <5> QED
          BY <1>1, <4>1, <5>1, <5>2
      <4>3. CASE d # 1
        <5>1. d \in 2..(Len(s) + 1) /\ d - 1 \in 1..(i - 1) /\ d \in Nat
          BY <1>1, <3>1, <4>1, <4>3
        <5>2. s[d - 1] = "EXECUTION_DECISION"
          BY <1>1, <4>1, <5>1
        <5>3. \A k \in ((d - 1) + 1)..(i - 1) : k \in 1..Len(s) /\ k + 1 \in (d + 1)..i
          BY <1>1, <3>1, <5>1
        <5>4. \A k \in ((d - 1) + 1)..(i - 1) : s[k] \notin Remaking
          BY <1>1, <4>1, <5>3
        <5> QED
          BY <5>1, <5>2, <5>4
      <4> QED
        BY <4>2, <4>3
    <3> QED
      BY <3>2, <3>3, <3>4
  <2> QED
    BY <2>1, <2>2 DEF Judged
<1>3. ASSUME p \in Acting => "judgement" \in f, Judged(r, After(f, p), s), Full(r)
      PROVE  Judged(r, f, t)
  <2>1. ASSUME NEW i \in DOMAIN t, t[i] \in Acting
        PROVE  \/ "judgement" \in f /\ \A k \in 1..(i - 1) : t[k] \notin Remaking
               \/ \E d \in 1..(i - 1) :
                    t[d] = "EXECUTION_DECISION" /\ \A k \in (d + 1)..(i - 1) : t[k] \notin Remaking
    <3>1. CASE i = 1
      <4>1. 1..(i - 1) = {}
        BY <3>1
      <4> QED
        BY <1>1, <1>3, <2>1, <3>1, <4>1
    <3>2. CASE i # 1
      <4>1. i \in 2..(Len(s) + 1) /\ i \in Nat /\ i - 1 \in DOMAIN s /\ s[i - 1] \in Acting
        BY <1>1, <2>1, <3>2
      <4>2. \/ "judgement" \in After(f, p) /\ \A k \in 1..((i - 1) - 1) : s[k] \notin Remaking
            \/ \E d \in 1..((i - 1) - 1) :
                 /\ s[d] = "EXECUTION_DECISION"
                 /\ \A k \in (d + 1)..((i - 1) - 1) : s[k] \notin Remaking
        BY <1>3, <4>1 DEF Judged
      <4>3. \A k \in 1..(i - 1) :
              k = 1 \/ (k \in 2..(Len(s) + 1) /\ k - 1 \in 1..((i - 1) - 1))
        BY <1>1, <4>1
      <4>4. CASE "judgement" \in After(f, p) /\ \A k \in 1..((i - 1) - 1) : s[k] \notin Remaking
        <5>1. \A k \in (1 + 1)..(i - 1) : k \in 1..(i - 1) /\ k # 1
          BY <4>1
        <5>2. \A k \in (1 + 1)..(i - 1) : t[k] \notin Remaking
          BY <1>1, <4>3, <4>4, <5>1
        <5>3. CASE p = "EXECUTION_DECISION"
          <6>1. 1 \in 1..(i - 1)
            BY <4>1
          <6> QED
            BY <1>1, <5>2, <5>3, <6>1
        <5>4. CASE "judgement" \in f /\ p \notin Remaking
          <6>1. \A k \in 1..(i - 1) : t[k] \notin Remaking
            BY <1>1, <4>3, <4>4, <5>4
          <6> QED
            BY <5>4, <6>1
        <5> QED
          BY <4>4, <5>3, <5>4 DEF After
      <4>5. CASE \E d \in 1..((i - 1) - 1) :
                   /\ s[d] = "EXECUTION_DECISION"
                   /\ \A k \in (d + 1)..((i - 1) - 1) : s[k] \notin Remaking
        <5>1. PICK d \in 1..((i - 1) - 1) :
                /\ s[d] = "EXECUTION_DECISION"
                /\ \A k \in (d + 1)..((i - 1) - 1) : s[k] \notin Remaking
          BY <4>5
        <5>2. d + 1 \in 1..(i - 1) /\ d \in 1..Len(s)
          BY <1>1, <4>1, <5>1
        <5>3. \A k \in ((d + 1) + 1)..(i - 1) :
                k \in 2..(Len(s) + 1) /\ k - 1 \in (d + 1)..((i - 1) - 1)
          BY <1>1, <4>1, <5>1
        <5>4. \A k \in ((d + 1) + 1)..(i - 1) : t[k] \notin Remaking
          BY <1>1, <5>1, <5>3
        <5>5. t[d + 1] = "EXECUTION_DECISION"
          BY <1>1, <5>1, <5>2
        <5> QED
          BY <5>2, <5>4, <5>5
      <4> QED
        BY <4>2, <4>4, <4>5
    <3> QED
      BY <3>1, <3>2
  <2> QED
    BY <2>1 DEF Judged
<1>4. ~Full(r) => Judged(r, f, t) /\ Judged(r, After(f, p), s)
  BY DEF Judged
<1> QED
  BY <1>2, <1>3, <1>4 DEF t

LEMMA FrontReaches ==
    ASSUME NEW r, NEW p \in Phases, NEW s \in Seq(Phases)
    PROVE  Reaches(r, <<p>> \o s) <=> p # "OUTPUT" /\ (p = Final(r) \/ Reaches(r, s))
<1> DEFINE t == <<p>> \o s
<1>1. /\ t \in Seq(Phases) /\ Len(s) \in Nat /\ DOMAIN s = 1..Len(s)
      /\ DOMAIN t = 1..(Len(s) + 1) /\ t[1] = p
      /\ \A i \in 1..Len(s) : t[i + 1] = s[i]
      /\ \A i \in 2..(Len(s) + 1) : i - 1 \in 1..Len(s) /\ t[i] = s[i - 1]
  BY Front
<1> HIDE DEF t
<1>2. ASSUME Reaches(r, t) PROVE p # "OUTPUT" /\ (p = Final(r) \/ Reaches(r, s))
  <2>1. PICK i \in DOMAIN t : t[i] = Final(r) /\ \A k \in 1..i : t[k] # "OUTPUT"
    BY <1>2 DEF Reaches
  <2>2. 1 \in 1..i /\ (i = 1 \/ i \in 2..(Len(s) + 1))
    BY <1>1
  <2>3. ASSUME i # 1 PROVE Reaches(r, s)
    <3>1. i - 1 \in DOMAIN s /\ s[i - 1] = Final(r)
      BY <1>1, <2>1, <2>2, <2>3
    <3>2. \A k \in 1..(i - 1) : k \in 1..Len(s) /\ k + 1 \in 1..i
      BY <1>1, <2>2, <2>3
    <3> QED
      BY <1>1, <2>1, <3>1, <3>2 DEF Reaches
  <2> QED
    BY <1>1, <2>1, <2>2, <2>3
<1>3. ASSUME p # "OUTPUT", p = Final(r) PROVE Reaches(r, t)
  <2>1. 1 \in DOMAIN t /\ \A k \in 1..1 : k = 1
    BY <1>1
  <2> QED
    BY <1>1, <1>3, <2>1 DEF Reaches
<1>4. ASSUME p # "OUTPUT", Reaches(r, s) PROVE Reaches(r, t)
  <2>1. PICK i \in DOMAIN s : s[i] = Final(r) /\ \A k \in 1..i : s[k] # "OUTPUT"
    BY <1>4 DEF Reaches
  <2>2. i + 1 \in DOMAIN t /\ t[i + 1] = Final(r)
    BY <1>1, <2>1
  <2>3. \A k \in 1..(i + 1) : k = 1 \/ (k \in 2..(Len(s) + 1) /\ k - 1 \in 1..i)
    BY <1>1
  <2>4. \A k \in 1..(i + 1) : t[k] # "OUTPUT"
    BY <1>1, <1>4, <2>1, <2>3
  <2> QED
    BY <2>2, <2>4 DEF Reaches
<1> QED
  BY <1>2, <1>3, <1>4 DEF t

LEMMA FrontLeads ==
    ASSUME NEW r, NEW p \in Phases, NEW s \in Seq(Phases)
    PROVE  Leads(r, <<p>> \o s) <=> (p \in Reworks => Reaches(r, s)) /\ Leads(r, s)
<1> DEFINE t == <<p>> \o s
<1>1. /\ t \in Seq(Phases) /\ Len(s) \in Nat /\ DOMAIN s = 1..Len(s)
      /\ DOMAIN t = 1..(Len(s) + 1) /\ t[1] = p
      /\ \A i \in 1..Len(s) : t[i + 1] = s[i]
      /\ \A i \in 2..(Len(s) + 1) : i - 1 \in 1..Len(s) /\ t[i] = s[i - 1]
  BY Front
<1> HIDE DEF t
<1> DEFINE Led(x, i) ==
             \E n \in DOMAIN x : n > i /\ x[n] = Final(r) /\ \A k \in (i + 1)..n : x[k] # "OUTPUT"
\* The same position of s and of t.
<1>2. ASSUME NEW i \in DOMAIN s PROVE Led(s, i) <=> Led(t, i + 1)
  <2>1. ASSUME Led(s, i) PROVE Led(t, i + 1)
    <3>1. PICK n \in DOMAIN s : n > i /\ s[n] = Final(r) /\ \A k \in (i + 1)..n : s[k] # "OUTPUT"
      BY <2>1
    <3>2. n + 1 \in DOMAIN t /\ n + 1 > i + 1 /\ t[n + 1] = Final(r)
      BY <1>1, <3>1
    <3>3. \A k \in ((i + 1) + 1)..(n + 1) : k \in 2..(Len(s) + 1) /\ k - 1 \in (i + 1)..n
      BY <1>1
    <3>4. \A k \in ((i + 1) + 1)..(n + 1) : t[k] # "OUTPUT"
      BY <1>1, <3>1, <3>3
    <3> QED
      BY <3>2, <3>4
  <2>2. ASSUME Led(t, i + 1) PROVE Led(s, i)
    <3>1. PICK n \in DOMAIN t :
            n > i + 1 /\ t[n] = Final(r) /\ \A k \in ((i + 1) + 1)..n : t[k] # "OUTPUT"
      BY <2>2
    <3>2. n - 1 \in DOMAIN s /\ n - 1 > i /\ s[n - 1] = Final(r)
      BY <1>1, <3>1
    <3>3. \A k \in (i + 1)..(n - 1) : k \in 1..Len(s) /\ k + 1 \in ((i + 1) + 1)..n
      BY <1>1, <3>1
    <3>4. \A k \in (i + 1)..(n - 1) : s[k] # "OUTPUT"
      BY <1>1, <3>1, <3>3
    <3> QED
      BY <3>2, <3>4
  <2> QED
    BY <2>1, <2>2
\* The front of t.
<1>3. Led(t, 1) <=> Reaches(r, s)
  <2>1. ASSUME Led(t, 1) PROVE Reaches(r, s)
    <3>1. PICK n \in DOMAIN t : n > 1 /\ t[n] = Final(r) /\ \A k \in (1 + 1)..n : t[k] # "OUTPUT"
      BY <2>1
    <3>2. n - 1 \in DOMAIN s /\ s[n - 1] = Final(r)
      BY <1>1, <3>1
    <3>3. \A k \in 1..(n - 1) : k \in 1..Len(s) /\ k + 1 \in (1 + 1)..n
      BY <1>1, <3>1
    <3>4. \A k \in 1..(n - 1) : s[k] # "OUTPUT"
      BY <1>1, <3>1, <3>3
    <3> QED
      BY <3>2, <3>4 DEF Reaches
  <2>2. ASSUME Reaches(r, s) PROVE Led(t, 1)
    <3>1. PICK n \in DOMAIN s : s[n] = Final(r) /\ \A k \in 1..n : s[k] # "OUTPUT"
      BY <2>2 DEF Reaches
    <3>2. n + 1 \in DOMAIN t /\ n + 1 > 1 /\ t[n + 1] = Final(r)
      BY <1>1, <3>1
    <3>3. \A k \in (1 + 1)..(n + 1) : k \in 2..(Len(s) + 1) /\ k - 1 \in 1..n
      BY <1>1
    <3>4. \A k \in (1 + 1)..(n + 1) : t[k] # "OUTPUT"
      BY <1>1, <3>1, <3>3
    <3> QED
      BY <3>2, <3>4
  <2> QED
    BY <2>1, <2>2
<1> HIDE DEF Led
<1>4. /\ \A i \in DOMAIN s : i + 1 \in DOMAIN t /\ t[i + 1] = s[i]
      /\ \A i \in DOMAIN t : i = 1 \/ (i - 1 \in DOMAIN s /\ (i - 1) + 1 = i)
      /\ 1 \in DOMAIN t /\ t[1] = p
  BY <1>1
<1>5. (\A i \in DOMAIN t : t[i] \in Reworks => Led(t, i))
        <=> (p \in Reworks => Reaches(r, s)) /\ \A i \in DOMAIN s : s[i] \in Reworks => Led(s, i)
  BY <1>2, <1>3, <1>4
<1>6. /\ Leads(r, t) <=> \A i \in DOMAIN t : t[i] \in Reworks => Led(t, i)
      /\ Leads(r, s) <=> \A i \in DOMAIN s : s[i] \in Reworks => Led(s, i)
  BY DEF Leads, Led
<1> QED
  BY <1>5, <1>6 DEF t

LEMMA FrontOrder ==
    ASSUME NEW p \in Phases, NEW s \in Seq(Phases)
    PROVE  /\ Calm(<<p>> \o s) <=> (p \in Acting => Elems(s) \cap Reworks = {}) /\ Calm(s)
           /\ Ranked(<<p>> \o s)
                <=> (Rank(p) > 0 => \A q \in Elems(s) : Rank(q) > Rank(p)) /\ Ranked(s)
<1> DEFINE t == <<p>> \o s
<1>1. /\ t \in Seq(Phases) /\ Len(s) \in Nat /\ DOMAIN s = 1..Len(s)
      /\ DOMAIN t = 1..(Len(s) + 1) /\ t[1] = p
      /\ \A i \in 1..Len(s) : t[i + 1] = s[i]
      /\ \A i \in 2..(Len(s) + 1) : i - 1 \in 1..Len(s) /\ t[i] = s[i - 1]
  BY Front
<1> HIDE DEF t
<1>2. /\ \A i \in DOMAIN s : i + 1 \in DOMAIN t /\ t[i + 1] = s[i] /\ 1 < i + 1
      /\ \A i, n \in DOMAIN s : i < n => i + 1 < n + 1
      /\ 1 \in DOMAIN t /\ t[1] = p
  BY <1>1
<1>3. \A i, n \in DOMAIN t : i < n =>
        /\ n - 1 \in DOMAIN s /\ t[n] = s[n - 1]
        /\ i = 1 \/ (i - 1 \in DOMAIN s /\ t[i] = s[i - 1] /\ i - 1 < n - 1)
  BY <1>1
<1>4. \A q : q \in Elems(s) <=> \E i \in DOMAIN s : q = s[i]
  BY DEF Elems
<1>5. Calm(t) => (p \in Acting => Elems(s) \cap Reworks = {}) /\ Calm(s)
  BY <1>2, <1>4 DEF Calm
<1>6. (p \in Acting => Elems(s) \cap Reworks = {}) /\ Calm(s) => Calm(t)
  BY <1>2, <1>3, <1>4 DEF Calm
<1>7. Ranked(t) => (Rank(p) > 0 => \A q \in Elems(s) : Rank(q) > Rank(p)) /\ Ranked(s)
  BY <1>2, <1>4 DEF Ranked
<1>8. (Rank(p) > 0 => \A q \in Elems(s) : Rank(q) > Rank(p)) /\ Ranked(s) => Ranked(t)
  BY <1>2, <1>3, <1>4 DEF Ranked
<1> QED
  BY <1>5, <1>6, <1>7, <1>8 DEF t

LEMMA FrontFlow ==
    ASSUME NEW r, NEW f, NEW p \in Phases, NEW s \in Seq(Phases)
    PROVE  Flow(r, f, <<p>> \o s) <=> Fits(r, f, p, s) /\ Flow(r, After(f, p), s)
<1>1. Elems(<<p>> \o s) \subseteq Allowed(r) <=> p \in Allowed(r) /\ Elems(s) \subseteq Allowed(r)
  BY Front
<1> QED
  BY <1>1, FrontJudged, FrontLeads, FrontOrder DEF Flow, Fits

-----------------------------------------------------------------------------
(* The routes a request starts with: their phases come in one order. *)

Place(p) ==
    CASE p = "STATE_LOAD" -> 1
      [] p = "AFFECT" -> 2
      [] p = "DOCUMENT_INGESTION" -> 2
      [] p = "EVIDENCE_ACQUISITION" -> 3
      [] p = "PLANNING" -> 4
      [] p = "WORLD_SIMULATION" -> 5
      [] p = "UNCERTAINTY_ESTIMATION" -> 6
      [] p = "EXECUTION_DECISION" -> 7
      [] p = "REFLECTION" -> 8
      [] p = "ACTION" -> 9
      [] p = "ANSWER_GENERATION" -> 10
      [] p = "OUTPUT_VALIDATION" -> 11
      [] p = "OUTPUT" -> 12
      [] p = "STATE_COMMIT" -> 13
      [] p = "MEMORY_COMMIT" -> 14
      [] OTHER -> 15

Straight(s) ==
    /\ s \in Seq(Phases)
    /\ \A i, n \in DOMAIN s : i < n => Place(s[i]) < Place(s[n])

LEMMA PhaseNames ==
    Phases = {"STATE_LOAD", "AFFECT", "EVIDENCE_ACQUISITION", "PLANNING", "WORLD_SIMULATION",
              "UNCERTAINTY_ESTIMATION", "EXECUTION_DECISION", "REFLECTION", "ACTION",
              "ANSWER_GENERATION", "OUTPUT_VALIDATION", "OUTPUT", "STATE_COMMIT", "MEMORY_COMMIT",
              "MAINTENANCE_ENQUEUE", "DOCUMENT_INGESTION"}
<1>1. DOMAIN PrimaFull = 1..15
  BY DEF PrimaFull
<1>2. /\ PrimaFull[1] = "STATE_LOAD" /\ PrimaFull[2] = "AFFECT"
      /\ PrimaFull[3] = "EVIDENCE_ACQUISITION" /\ PrimaFull[4] = "PLANNING"
      /\ PrimaFull[5] = "WORLD_SIMULATION" /\ PrimaFull[6] = "UNCERTAINTY_ESTIMATION"
      /\ PrimaFull[7] = "EXECUTION_DECISION" /\ PrimaFull[8] = "REFLECTION"
      /\ PrimaFull[9] = "ACTION" /\ PrimaFull[10] = "ANSWER_GENERATION"
      /\ PrimaFull[11] = "OUTPUT_VALIDATION" /\ PrimaFull[12] = "OUTPUT"
      /\ PrimaFull[13] = "STATE_COMMIT" /\ PrimaFull[14] = "MEMORY_COMMIT"
      /\ PrimaFull[15] = "MAINTENANCE_ENQUEUE"
  BY DEF PrimaFull
<1>3. 1..15 = {1, 2, 3, 4, 5, 6, 7, 8, 9, 10, 11, 12, 13, 14, 15}
  OBVIOUS
<1> QED
  BY <1>1, <1>2, <1>3 DEF Phases

LEMMA PlaceOrder ==
    \A p \in Phases :
      /\ Place(p) \in 1..15
      /\ p \in Reworks => Place(p) < 9
      /\ p \in Remaking => Place(p) < 7
      /\ p \in Acting => Place(p) > 7 /\ Place(p) < 12
      /\ p = "EXECUTION_DECISION" => Place(p) = 7
      /\ p \in {"ACTION", "ANSWER_GENERATION"} => Place(p) \in {9, 10}
      /\ p = "DOCUMENT_INGESTION" => Place(p) = 2
      /\ p = "OUTPUT" => Place(p) = 12
      /\ Rank(p) > 0 => Place(p) = Rank(p) + 11
      /\ Place(p) > 11 => Place(p) = Rank(p) + 11
  BY PhaseNames DEF Place, Reworks, Remaking, Acting, Rank

\* On a full route the gate is asked, and whatever is reworked is followed by the final phase.
LEMMA StraightFlow ==
    ASSUME NEW r, NEW s, Straight(s), Elems(s) \subseteq Allowed(r),
           Final(r) \in {"ACTION", "ANSWER_GENERATION"},
           Final(r) \in Elems(s),
           Full(r) => "EXECUTION_DECISION" \in Elems(s)
    PROVE  Flow(r, {}, s) /\ Reaches(r, s)
<1>1. /\ s \in Seq(Phases) /\ Len(s) \in Nat /\ DOMAIN s = 1..Len(s)
      /\ \A i \in DOMAIN s : s[i] \in Phases
      /\ \A i, n \in DOMAIN s : i < n => Place(s[i]) < Place(s[n])
  BY DEF Straight
<1>2. \A i, n \in DOMAIN s : Place(s[i]) < Place(s[n]) => i < n
  <2>1. \A i, n \in DOMAIN s : i < n \/ i = n \/ n < i
    BY <1>1
  <2>2. \A i \in DOMAIN s : Place(s[i]) \in Int
    BY <1>1, PlaceOrder
  <2>3. \A i, n \in DOMAIN s : n < i => Place(s[n]) < Place(s[i])
    BY <1>1
  <2>4. \A x, y \in Int : ~(x < y /\ y < x) /\ ~(x < x)
    OBVIOUS
  <2> QED
    BY <2>1, <2>2, <2>3, <2>4
<1>3. PICK f \in DOMAIN s : s[f] = Final(r)
  BY DEF Elems
<1>4. Place(s[f]) \in {9, 10}
  BY <1>1, <1>3, PlaceOrder
<1>5. \A k \in 1..f : k \in DOMAIN s /\ (k = f \/ k < f)
  BY <1>1
<1>6. \A k \in 1..f : s[k] # "OUTPUT"
  <2> SUFFICES ASSUME NEW k \in 1..f, s[k] = "OUTPUT" PROVE FALSE
    OBVIOUS
  <2>1. k \in DOMAIN s /\ Place(s[k]) = 12 /\ (k = f \/ k < f)
    BY <1>1, <1>5, PlaceOrder
  <2>2. k < f => Place(s[k]) < Place(s[f])
    BY <1>1, <2>1
  <2> QED
    BY <1>4, <2>1, <2>2
<1>7. Reaches(r, s)
  BY <1>3, <1>6 DEF Reaches
<1>8. Leads(r, s)
  <2> SUFFICES ASSUME NEW i \in DOMAIN s, s[i] \in Reworks
               PROVE  \E n \in DOMAIN s :
                        n > i /\ s[n] = Final(r) /\ \A k \in (i + 1)..n : s[k] # "OUTPUT"
    BY DEF Leads
  <2>1. Place(s[i]) < Place(s[f])
    <3>1. Place(s[i]) < 9 /\ Place(s[i]) \in Int
      BY <1>1, PlaceOrder
    <3> QED
      BY <1>4, <3>1
  <2>2. f > i
    BY <1>1, <1>2, <2>1
  <2>3. \A k \in (i + 1)..f : k \in 1..f
    BY <1>1
  <2> QED
    BY <1>3, <1>6, <2>2, <2>3
<1>9. Calm(s)
  <2> SUFFICES ASSUME NEW i \in DOMAIN s, NEW n \in DOMAIN s, i < n, s[i] \in Acting,
                      s[n] \in Reworks
               PROVE  FALSE
    BY DEF Calm
  <2>a. s[i] \in Phases /\ s[n] \in Phases
    BY <1>1
  <2>1. Place(s[i]) > 7 /\ Place(s[n]) < 9 /\ Place(s[i]) < Place(s[n])
    BY <1>1, <2>a, PlaceOrder
  <2>2. Place(s[i]) \in Int /\ Place(s[n]) \in Int
    BY <2>a, PlaceOrder
  <2> QED
    BY <2>1, <2>2
<1>10. Ranked(s)
  <2> SUFFICES ASSUME NEW i \in DOMAIN s, NEW n \in DOMAIN s, i < n, Rank(s[i]) > 0
               PROVE  Rank(s[n]) > Rank(s[i])
    BY DEF Ranked
  <2>1. /\ Rank(s[i]) \in Nat /\ Rank(s[n]) \in Nat
        /\ Place(s[i]) \in Int /\ Place(s[n]) \in Int
    <3>1. s[i] \in Phases /\ s[n] \in Phases
      BY <1>1
    <3>2. Place(s[i]) \in Int /\ Place(s[n]) \in Int
      BY <3>1, PlaceOrder
    <3> QED
      BY <3>2 DEF Rank
  <2>2. Place(s[i]) = Rank(s[i]) + 11 /\ Place(s[i]) < Place(s[n])
    BY <1>1, PlaceOrder
  <2>3. Place(s[n]) > 11
    BY <2>1, <2>2
  <2>4. Place(s[n]) = Rank(s[n]) + 11
    BY <1>1, <2>3, PlaceOrder
  <2> QED
    BY <2>1, <2>2, <2>4
<1>11. Judged(r, {}, s)
  <2> SUFFICES ASSUME Full(r), NEW i \in DOMAIN s, s[i] \in Acting
               PROVE  \E d \in 1..(i - 1) :
                        /\ s[d] = "EXECUTION_DECISION"
                        /\ \A k \in (d + 1)..(i - 1) : s[k] \notin Remaking
    BY DEF Judged
  <2>1. PICK d \in DOMAIN s : s[d] = "EXECUTION_DECISION"
    BY DEF Elems
  <2>2. Place(s[d]) = 7 /\ Place(s[i]) > 7
    BY <1>1, <2>1, PlaceOrder
  <2>3. d < i /\ d \in 1..(i - 1)
    BY <1>1, <1>2, <2>2
  <2>4. ASSUME NEW k \in (d + 1)..(i - 1) PROVE s[k] \notin Remaking
    <3>1. k \in DOMAIN s /\ d < k
      BY <1>1
    <3>2. s[k] \in Phases /\ Place(s[d]) < Place(s[k])
      BY <1>1, <2>1, <3>1
    <3>3. Place(s[k]) \in 1..15 /\ (s[k] \in Remaking => Place(s[k]) < 7)
      BY <3>2, PlaceOrder
    <3> QED
      BY <2>2, <3>2, <3>3
  <2> QED
    BY <2>1, <2>3, <2>4
<1> QED
  BY <1>7, <1>8, <1>9, <1>10, <1>11 DEF Flow

\* A plain route reworks nothing and acts on nothing.
LEMMA PlainFlow ==
    ASSUME NEW r, NEW s, Straight(s), Routes[r].task \in PlainTasks, Elems(s) \subseteq PlainPhases
    PROVE  /\ Flow(r, {}, s)
           /\ "DOCUMENT_INGESTION" \in Elems(s) => Reaches(r, s)
<1>1. /\ s \in Seq(Phases) /\ Len(s) \in Nat /\ DOMAIN s = 1..Len(s)
      /\ \A i \in DOMAIN s : s[i] \in Phases
      /\ \A i, n \in DOMAIN s : i < n => Place(s[i]) < Place(s[n])
  BY DEF Straight
<1>2. \A i \in DOMAIN s : s[i] \notin Acting /\ s[i] \notin Reworks
  <2>1. PlainPhases \cap (Acting \cup Reworks) = {}
    BY DEF PlainPhases, Acting, Reworks, Remaking
  <2>2. \A i \in DOMAIN s : s[i] \in PlainPhases
    BY DEF Elems
  <2> QED
    BY <2>1, <2>2
<1>3. Judged(r, {}, s) /\ Leads(r, s) /\ Calm(s)
  BY <1>2 DEF Judged, Leads, Calm
<1>4. Ranked(s)
  <2> SUFFICES ASSUME NEW i \in DOMAIN s, NEW n \in DOMAIN s, i < n, Rank(s[i]) > 0
               PROVE  Rank(s[n]) > Rank(s[i])
    BY DEF Ranked
  <2>1. /\ Rank(s[i]) \in Nat /\ Rank(s[n]) \in Nat
        /\ Place(s[i]) \in Int /\ Place(s[n]) \in Int
    <3>1. s[i] \in Phases /\ s[n] \in Phases
      BY <1>1
    <3>2. Place(s[i]) \in Int /\ Place(s[n]) \in Int
      BY <3>1, PlaceOrder
    <3> QED
      BY <3>2 DEF Rank
  <2>2. Place(s[i]) = Rank(s[i]) + 11 /\ Place(s[i]) < Place(s[n])
    BY <1>1, PlaceOrder
  <2>3. Place(s[n]) > 11
    BY <2>1, <2>2
  <2>4. Place(s[n]) = Rank(s[n]) + 11
    BY <1>1, <2>3, PlaceOrder
  <2> QED
    BY <2>1, <2>2, <2>4
<1>5. Final(r) = "DOCUMENT_INGESTION" /\ Allowed(r) = PlainPhases
  BY DEF Final, Allowed, PlainTasks
<1>6. ASSUME "DOCUMENT_INGESTION" \in Elems(s) PROVE Reaches(r, s)
  <2>1. PICK f \in DOMAIN s : s[f] = "DOCUMENT_INGESTION"
    BY <1>6 DEF Elems
  <2>2. ASSUME NEW k \in 1..f, s[k] = "OUTPUT" PROVE FALSE
    <3>1. k \in DOMAIN s /\ (k = f \/ k < f)
      BY <1>1
    <3>2. Place(s[k]) = 12 /\ Place(s[f]) = 2
      BY <1>1, <2>1, <2>2, <3>1, PlaceOrder
    <3>3. k < f => Place(s[k]) < Place(s[f])
      BY <1>1, <3>1
    <3> QED
      BY <3>1, <3>2, <3>3
  <2> QED
    BY <1>5, <2>1, <2>2 DEF Reaches
<1> QED
  BY <1>3, <1>4, <1>5, <1>6 DEF Flow

LEMMA ModelOnlyOrder ==
    /\ Straight(ModelOnly)
    /\ Elems(ModelOnly) = {"STATE_LOAD", "ANSWER_GENERATION", "OUTPUT_VALIDATION", "OUTPUT",
                           "STATE_COMMIT", "MEMORY_COMMIT", "MAINTENANCE_ENQUEUE"}
<1>1. DOMAIN ModelOnly = 1..7 /\ ModelOnly \in Seq(Phases)
  BY PhaseNames DEF ModelOnly
<1>2. /\ ModelOnly[1] = "STATE_LOAD" /\ ModelOnly[2] = "ANSWER_GENERATION"
      /\ ModelOnly[3] = "OUTPUT_VALIDATION" /\ ModelOnly[4] = "OUTPUT"
      /\ ModelOnly[5] = "STATE_COMMIT" /\ ModelOnly[6] = "MEMORY_COMMIT"
      /\ ModelOnly[7] = "MAINTENANCE_ENQUEUE"
  BY DEF ModelOnly
<1>3. /\ Place(ModelOnly[1]) = 1 /\ Place(ModelOnly[2]) = 10 /\ Place(ModelOnly[3]) = 11
      /\ Place(ModelOnly[4]) = 12 /\ Place(ModelOnly[5]) = 13 /\ Place(ModelOnly[6]) = 14
      /\ Place(ModelOnly[7]) = 15
  BY <1>2 DEF Place
<1>4. 1..7 = {1, 2, 3, 4, 5, 6, 7}
  OBVIOUS
<1>5. \A i, n \in 1..7 : i < n => Place(ModelOnly[i]) < Place(ModelOnly[n])
  BY <1>3, <1>4
<1>6. Straight(ModelOnly)
  BY <1>1, <1>5 DEF Straight
<1> QED
  BY <1>1, <1>2, <1>4, <1>6 DEF Elems

LEMMA SimpleRagOrder ==
    /\ Straight(SimpleRag)
    /\ Elems(SimpleRag) = {"STATE_LOAD", "EVIDENCE_ACQUISITION", "ANSWER_GENERATION",
                           "OUTPUT_VALIDATION", "OUTPUT", "STATE_COMMIT", "MEMORY_COMMIT",
                           "MAINTENANCE_ENQUEUE"}
<1>1. DOMAIN SimpleRag = 1..8 /\ SimpleRag \in Seq(Phases)
  BY PhaseNames DEF SimpleRag
<1>2. /\ SimpleRag[1] = "STATE_LOAD" /\ SimpleRag[2] = "EVIDENCE_ACQUISITION"
      /\ SimpleRag[3] = "ANSWER_GENERATION" /\ SimpleRag[4] = "OUTPUT_VALIDATION"
      /\ SimpleRag[5] = "OUTPUT" /\ SimpleRag[6] = "STATE_COMMIT" /\ SimpleRag[7] = "MEMORY_COMMIT"
      /\ SimpleRag[8] = "MAINTENANCE_ENQUEUE"
  BY DEF SimpleRag
<1>3. /\ Place(SimpleRag[1]) = 1 /\ Place(SimpleRag[2]) = 3 /\ Place(SimpleRag[3]) = 10
      /\ Place(SimpleRag[4]) = 11 /\ Place(SimpleRag[5]) = 12 /\ Place(SimpleRag[6]) = 13
      /\ Place(SimpleRag[7]) = 14 /\ Place(SimpleRag[8]) = 15
  BY <1>2 DEF Place
<1>4. 1..8 = {1, 2, 3, 4, 5, 6, 7, 8}
  OBVIOUS
<1>5. \A i, n \in 1..8 : i < n => Place(SimpleRag[i]) < Place(SimpleRag[n])
  BY <1>3, <1>4
<1>6. Straight(SimpleRag)
  BY <1>1, <1>5 DEF Straight
<1> QED
  BY <1>1, <1>2, <1>4, <1>6 DEF Elems

LEMMA PrimaFullOrder ==
    Straight(PrimaFull) /\ Elems(PrimaFull) = Phases \ {"DOCUMENT_INGESTION"}
<1>1. DOMAIN PrimaFull = 1..15 /\ PrimaFull \in Seq(Phases)
  BY PhaseNames DEF PrimaFull
<1>2. /\ PrimaFull[1] = "STATE_LOAD" /\ PrimaFull[2] = "AFFECT"
      /\ PrimaFull[3] = "EVIDENCE_ACQUISITION" /\ PrimaFull[4] = "PLANNING"
      /\ PrimaFull[5] = "WORLD_SIMULATION" /\ PrimaFull[6] = "UNCERTAINTY_ESTIMATION"
      /\ PrimaFull[7] = "EXECUTION_DECISION" /\ PrimaFull[8] = "REFLECTION"
      /\ PrimaFull[9] = "ACTION" /\ PrimaFull[10] = "ANSWER_GENERATION"
      /\ PrimaFull[11] = "OUTPUT_VALIDATION" /\ PrimaFull[12] = "OUTPUT"
      /\ PrimaFull[13] = "STATE_COMMIT" /\ PrimaFull[14] = "MEMORY_COMMIT"
      /\ PrimaFull[15] = "MAINTENANCE_ENQUEUE"
  BY DEF PrimaFull
<1>3. /\ Place(PrimaFull[1]) = 1 /\ Place(PrimaFull[2]) = 2 /\ Place(PrimaFull[3]) = 3
      /\ Place(PrimaFull[4]) = 4 /\ Place(PrimaFull[5]) = 5 /\ Place(PrimaFull[6]) = 6
      /\ Place(PrimaFull[7]) = 7 /\ Place(PrimaFull[8]) = 8 /\ Place(PrimaFull[9]) = 9
      /\ Place(PrimaFull[10]) = 10 /\ Place(PrimaFull[11]) = 11 /\ Place(PrimaFull[12]) = 12
      /\ Place(PrimaFull[13]) = 13 /\ Place(PrimaFull[14]) = 14 /\ Place(PrimaFull[15]) = 15
  BY <1>2 DEF Place
<1>4. 1..15 = {1, 2, 3, 4, 5, 6, 7, 8, 9, 10, 11, 12, 13, 14, 15}
  OBVIOUS
<1>5. \A i \in 1..15 : Place(PrimaFull[i]) = i
  BY <1>3, <1>4
<1>6. Straight(PrimaFull)
  BY <1>1, <1>5 DEF Straight
<1> QED
  BY <1>1, <1>2, <1>4, <1>6, PhaseNames DEF Elems

LEMMA IngestionOrder ==
    /\ Straight(Ingestion)
    /\ Elems(Ingestion) = {"STATE_LOAD", "DOCUMENT_INGESTION", "OUTPUT", "STATE_COMMIT",
                           "MAINTENANCE_ENQUEUE"}
<1>1. DOMAIN Ingestion = 1..5 /\ Ingestion \in Seq(Phases)
  BY PhaseNames DEF Ingestion
<1>2. /\ Ingestion[1] = "STATE_LOAD" /\ Ingestion[2] = "DOCUMENT_INGESTION"
      /\ Ingestion[3] = "OUTPUT" /\ Ingestion[4] = "STATE_COMMIT"
      /\ Ingestion[5] = "MAINTENANCE_ENQUEUE"
  BY DEF Ingestion
<1>3. /\ Place(Ingestion[1]) = 1 /\ Place(Ingestion[2]) = 2 /\ Place(Ingestion[3]) = 12
      /\ Place(Ingestion[4]) = 13 /\ Place(Ingestion[5]) = 15
  BY <1>2 DEF Place
<1>4. 1..5 = {1, 2, 3, 4, 5}
  OBVIOUS
<1>5. \A i, n \in 1..5 : i < n => Place(Ingestion[i]) < Place(Ingestion[n])
  BY <1>3, <1>4
<1>6. Straight(Ingestion)
  BY <1>1, <1>5 DEF Straight
<1> QED
  BY <1>1, <1>2, <1>4, <1>6 DEF Elems

LEMMA AffectOnlyOrder ==
    /\ Straight(AffectOnly)
    /\ Elems(AffectOnly) = {"STATE_LOAD", "AFFECT", "OUTPUT", "STATE_COMMIT"}
<1>1. DOMAIN AffectOnly = 1..4 /\ AffectOnly \in Seq(Phases)
  BY PhaseNames DEF AffectOnly
<1>2. /\ AffectOnly[1] = "STATE_LOAD" /\ AffectOnly[2] = "AFFECT" /\ AffectOnly[3] = "OUTPUT"
      /\ AffectOnly[4] = "STATE_COMMIT"
  BY DEF AffectOnly
<1>3. /\ Place(AffectOnly[1]) = 1 /\ Place(AffectOnly[2]) = 2 /\ Place(AffectOnly[3]) = 12
      /\ Place(AffectOnly[4]) = 13
  BY <1>2 DEF Place
<1>4. 1..4 = {1, 2, 3, 4}
  OBVIOUS
<1>5. \A i, n \in 1..4 : i < n => Place(AffectOnly[i]) < Place(AffectOnly[n])
  BY <1>3, <1>4
<1>6. Straight(AffectOnly)
  BY <1>1, <1>5 DEF Straight
<1> QED
  BY <1>1, <1>2, <1>4, <1>6 DEF Elems

LEMMA HistoricalReplayOrder ==
    /\ Straight(HistoricalReplay)
    /\ Elems(HistoricalReplay) = {"STATE_LOAD", "AFFECT", "OUTPUT", "STATE_COMMIT",
                                  "MEMORY_COMMIT", "MAINTENANCE_ENQUEUE"}
<1>1. DOMAIN HistoricalReplay = 1..6 /\ HistoricalReplay \in Seq(Phases)
  BY PhaseNames DEF HistoricalReplay
<1>2. /\ HistoricalReplay[1] = "STATE_LOAD" /\ HistoricalReplay[2] = "AFFECT"
      /\ HistoricalReplay[3] = "OUTPUT" /\ HistoricalReplay[4] = "STATE_COMMIT"
      /\ HistoricalReplay[5] = "MEMORY_COMMIT" /\ HistoricalReplay[6] = "MAINTENANCE_ENQUEUE"
  BY DEF HistoricalReplay
<1>3. /\ Place(HistoricalReplay[1]) = 1 /\ Place(HistoricalReplay[2]) = 2
      /\ Place(HistoricalReplay[3]) = 12 /\ Place(HistoricalReplay[4]) = 13
      /\ Place(HistoricalReplay[5]) = 14 /\ Place(HistoricalReplay[6]) = 15
  BY <1>2 DEF Place
<1>4. 1..6 = {1, 2, 3, 4, 5, 6}
  OBVIOUS
<1>5. \A i, n \in 1..6 : i < n => Place(HistoricalReplay[i]) < Place(HistoricalReplay[n])
  BY <1>3, <1>4
<1>6. Straight(HistoricalReplay)
  BY <1>1, <1>5 DEF Straight
<1> QED
  BY <1>1, <1>2, <1>4, <1>6 DEF Elems

\* Leaving a phase out of a route that has it leaves the others, in their order.
LEMMA WithoutOrder ==
    ASSUME NEW s, Straight(s), NEW phase \in Elems(s)
    PROVE  Straight(Without(s, phase)) /\ Elems(Without(s, phase)) = Elems(s) \ {phase}
<1> DEFINE i == CHOOSE n \in DOMAIN s : s[n] = phase
           w == [n \in 1..(Len(s) - 1) |-> IF n < i THEN s[n] ELSE s[n + 1]]
<1>1. /\ s \in Seq(Phases) /\ Len(s) \in Nat /\ DOMAIN s = 1..Len(s)
      /\ \A n \in DOMAIN s : s[n] \in Phases
      /\ \A m, n \in DOMAIN s : m < n => Place(s[m]) < Place(s[n])
  BY DEF Straight
<1>2. i \in DOMAIN s /\ s[i] = phase
  BY DEF Elems
<1>3. w = Without(s, phase)
  BY DEF Without
<1>4. Len(s) - 1 \in Nat /\ DOMAIN w = 1..(Len(s) - 1)
      /\ \A n \in 1..(Len(s) - 1) : w[n] = (IF n < i THEN s[n] ELSE s[n + 1])
  BY <1>1, <1>2
<1> HIDE DEF i, w
<1>5. \A n \in 1..(Len(s) - 1) :
        /\ n \in DOMAIN s /\ n + 1 \in DOMAIN s /\ w[n] \in Phases
        /\ n < i => w[n] = s[n]
        /\ ~(n < i) => w[n] = s[n + 1]
  BY <1>1, <1>2, <1>4
<1>6. w \in Seq(Phases) /\ Len(w) = Len(s) - 1
  <2>1. w = [n \in 1..(Len(s) - 1) |-> w[n]]
    BY <1>4 DEF w
  <2>2. w \in [1..(Len(s) - 1) -> Phases]
    BY <1>5, <2>1
  <2>3. \A m \in Nat : \A x \in [1..m -> Phases] : x \in Seq(Phases) /\ Len(x) = m
    OBVIOUS
  <2> QED
    BY <1>4, <2>2, <2>3
<1>7. Straight(w)
  <2> SUFFICES ASSUME NEW m \in DOMAIN w, NEW n \in DOMAIN w, m < n
               PROVE  Place(w[m]) < Place(w[n])
    BY <1>6 DEF Straight
  <2>1. PICK a \in DOMAIN s : w[m] = s[a] /\ a = (IF m < i THEN m ELSE m + 1)
    BY <1>4, <1>5
  <2>2. PICK b \in DOMAIN s : w[n] = s[b] /\ b = (IF n < i THEN n ELSE n + 1)
    BY <1>4, <1>5
  <2>3. a < b
    BY <1>1, <1>2, <1>4, <2>1, <2>2
  <2> QED
    BY <1>1, <2>1, <2>2, <2>3
<1>8. ASSUME NEW n \in DOMAIN s, s[n] = phase PROVE n = i
  <2>1. Place(s[n]) = Place(s[i]) /\ Place(s[n]) \in Int
    BY <1>1, <1>2, <1>8, PlaceOrder
  <2>2. n < i => Place(s[n]) < Place(s[i])
    BY <1>1, <1>2
  <2>3. i < n => Place(s[i]) < Place(s[n])
    BY <1>1, <1>2
  <2>4. n < i \/ i < n \/ n = i
    BY <1>1, <1>2
  <2>5. \A x \in Int : ~(x < x)
    OBVIOUS
  <2> QED
    BY <2>1, <2>2, <2>3, <2>4, <2>5
<1>9. Elems(w) \subseteq Elems(s) \ {phase}
  <2> SUFFICES ASSUME NEW n \in DOMAIN w PROVE w[n] \in Elems(s) /\ w[n] # phase
    BY DEF Elems
  <2>1. PICK a \in DOMAIN s : w[n] = s[a] /\ a # i
    <3>1. n < i => n # i
      BY <1>1, <1>2, <1>4
    <3>2. ~(n < i) => n + 1 # i
      BY <1>1, <1>2, <1>4
    <3> QED
      BY <1>4, <1>5, <3>1, <3>2
  <2> QED
    BY <1>8, <2>1 DEF Elems
<1>10. Elems(s) \ {phase} \subseteq Elems(w)
  <2> SUFFICES ASSUME NEW a \in DOMAIN s, s[a] # phase PROVE s[a] \in Elems(w)
    BY DEF Elems
  <2>1. a # i
    BY <1>2
  <2>2. CASE a < i
    <3>1. a \in 1..(Len(s) - 1)
      BY <1>1, <1>2, <2>2
    <3> QED
      BY <1>4, <1>5, <2>2, <3>1 DEF Elems
  <2>3. CASE ~(a < i)
    <3>1. a - 1 \in 1..(Len(s) - 1) /\ ~(a - 1 < i) /\ (a - 1) + 1 = a
      BY <1>1, <1>2, <2>1, <2>3
    <3>2. w[a - 1] = s[a]
      BY <1>5, <3>1
    <3> QED
      BY <1>4, <3>1, <3>2 DEF Elems
  <2> QED
    BY <2>2, <2>3
<1> QED
  BY <1>3, <1>7, <1>9, <1>10

LEMMA RouteFacts ==
    /\ DOMAIN Routes = {"conversation_model", "conversation_rag", "conversation_full",
                        "factual_model", "factual_rag", "factual_full", "tool_full", "replay",
                        "ingestion", "emotion"}
    /\ \A r \in {"conversation_model", "conversation_rag", "conversation_full"} :
         Routes[r].task = "conversation"
    /\ \A r \in {"factual_model", "factual_rag", "factual_full"} : Routes[r].task = "factual_qa"
    /\ Routes["tool_full"].task = "tool_request"
    /\ Routes["replay"].task = "historical_replay"
    /\ Routes["ingestion"].task = "document_ingestion"
    /\ Routes["emotion"].task = "emotion_classification"
    /\ \A r \in {"conversation_model", "factual_model"} : Routes[r].profile = "model_only"
    /\ \A r \in {"conversation_rag", "factual_rag"} : Routes[r].profile = "simple_rag"
    /\ \A r \in {"conversation_full", "factual_full", "tool_full"} :
         Routes[r].profile = "prima_full"
    /\ Routes["conversation_model"].phases = ModelOnly
    /\ Routes["conversation_rag"].phases = SimpleRag
    /\ Routes["conversation_full"].phases = PrimaFull
    /\ Routes["factual_model"].phases = Without(ModelOnly, "MEMORY_COMMIT")
    /\ Routes["factual_rag"].phases = Without(SimpleRag, "MEMORY_COMMIT")
    /\ Routes["factual_full"].phases = Without(PrimaFull, "MEMORY_COMMIT")
    /\ Routes["tool_full"].phases = Without(PrimaFull, "ANSWER_GENERATION")
    /\ Routes["replay"].phases = HistoricalReplay
    /\ Routes["ingestion"].phases = Ingestion
    /\ Routes["emotion"].phases = AffectOnly
BY DEF Routes, Route

Conversing == {"conversation", "factual_qa", "tool_request"}

LEMMA RouteTasks ==
    ASSUME NEW r \in DOMAIN Routes
    PROVE  /\ Routes[r].task \in Conversing \cup PlainTasks
           /\ Routes[r].task = "tool_request" => Full(r)
           /\ Routes[r].task \in Conversing =>
                Final(r) = IF Routes[r].task = "tool_request" THEN "ACTION"
                           ELSE "ANSWER_GENERATION"
           /\ Routes[r].task \in PlainTasks => Final(r) = "DOCUMENT_INGESTION"
<1>1. Routes[r].task \in Conversing \cup PlainTasks
  BY RouteFacts DEF Conversing, PlainTasks
<1>2. Routes[r].task = "tool_request" => Full(r)
  BY RouteFacts DEF Full
<1> QED
  BY <1>1, <1>2 DEF Conversing, PlainTasks, Final

LEMMA RouteStart ==
    ASSUME NEW r \in DOMAIN Routes
    PROVE  /\ Routes[r].phases \in Seq(Phases)
           /\ Flow(r, {}, Routes[r].phases)
           /\ {"OUTPUT", "STATE_COMMIT"} \subseteq Elems(Routes[r].phases)
           /\ \/ Reaches(r, Routes[r].phases)
              \/ Routes[r].task \in {"historical_replay", "emotion_classification"}
<1> DEFINE s == Routes[r].phases
           Starts == {"OUTPUT", "STATE_COMMIT"} \subseteq Elems(s)
<1>1. CASE r \in {"conversation_model", "conversation_rag", "conversation_full"}
  <2>1. r = "conversation_full" => Full(r)
    BY RouteFacts DEF Full
  <2>2. r # "conversation_full" => ~Full(r)
    BY <1>1, RouteFacts DEF Full
  <2>3. Straight(s) /\ Starts /\ "ANSWER_GENERATION" \in Elems(s)
    BY <1>1, RouteFacts, ModelOnlyOrder, SimpleRagOrder, PrimaFullOrder, PhaseNames
  <2>4. Elems(s) \subseteq Allowed(r) /\ (Full(r) => "EXECUTION_DECISION" \in Elems(s))
    <3>1. Routes[r].task \notin PlainTasks
      BY <1>1, RouteFacts DEF PlainTasks
    <3>2. CASE r = "conversation_full"
      BY <2>1, <3>1, <3>2, RouteFacts, PrimaFullOrder, PhaseNames DEF Allowed
    <3>3. CASE r # "conversation_full"
      BY <1>1, <2>2, <3>1, <3>3, RouteFacts, ModelOnlyOrder, SimpleRagOrder, PhaseNames DEF Allowed
    <3> QED
      BY <3>2, <3>3
  <2>5. Final(r) = "ANSWER_GENERATION"
    BY <1>1, RouteFacts DEF Final, PlainTasks
  <2> HIDE DEF s
  <2>6. Flow(r, {}, s) /\ Reaches(r, s) /\ s \in Seq(Phases)
    BY <2>3, <2>4, <2>5, StraightFlow DEF Straight
  <2> QED
    BY <2>3, <2>6 DEF s
<1>2. CASE r \in {"factual_model", "factual_rag", "factual_full"}
  <2>1. r = "factual_full" => Full(r)
    BY RouteFacts DEF Full
  <2>2. r # "factual_full" => ~Full(r)
    BY <1>2, RouteFacts DEF Full
  <2>3. \E base \in {ModelOnly, SimpleRag, PrimaFull} :
          /\ s = Without(base, "MEMORY_COMMIT")
          /\ base = PrimaFull <=> r = "factual_full"
    <3>1. ModelOnly # PrimaFull /\ SimpleRag # PrimaFull
      BY ModelOnlyOrder, SimpleRagOrder, PrimaFullOrder, PhaseNames
    <3> QED
      BY <1>2, <3>1, RouteFacts
  <2>4. PICK base \in {ModelOnly, SimpleRag, PrimaFull} :
          /\ s = Without(base, "MEMORY_COMMIT")
          /\ base = PrimaFull <=> r = "factual_full"
    BY <2>3
  <2>5. Straight(base) /\ "MEMORY_COMMIT" \in Elems(base)
    BY ModelOnlyOrder, SimpleRagOrder, PrimaFullOrder, PhaseNames
  <2>6. Straight(s) /\ Elems(s) = Elems(base) \ {"MEMORY_COMMIT"}
    BY <2>4, <2>5, WithoutOrder
  <2>7. Starts /\ "ANSWER_GENERATION" \in Elems(s)
    BY <2>6, ModelOnlyOrder, SimpleRagOrder, PrimaFullOrder, PhaseNames
  <2>8. Elems(s) \subseteq Allowed(r) /\ (Full(r) => "EXECUTION_DECISION" \in Elems(s))
    <3>1. Routes[r].task \notin PlainTasks
      BY <1>2, RouteFacts DEF PlainTasks
    <3>2. CASE r = "factual_full"
      BY <2>1, <2>4, <2>6, <3>1, <3>2, PrimaFullOrder, PhaseNames DEF Allowed
    <3>3. CASE r # "factual_full"
      BY <2>2, <2>4, <2>6, <3>1, <3>3, ModelOnlyOrder, SimpleRagOrder, PhaseNames DEF Allowed
    <3> QED
      BY <3>2, <3>3
  <2>9. Final(r) = "ANSWER_GENERATION"
    BY <1>2, RouteFacts DEF Final, PlainTasks
  <2> HIDE DEF s
  <2>10. Flow(r, {}, s) /\ Reaches(r, s) /\ s \in Seq(Phases)
    BY <2>6, <2>7, <2>8, <2>9, StraightFlow DEF Straight
  <2> QED
    BY <2>7, <2>10 DEF s
<1>3. CASE r = "tool_full"
  <2>1. Full(r) /\ Final(r) = "ACTION" /\ Routes[r].task \notin PlainTasks
    BY <1>3, RouteFacts DEF Full, Final, PlainTasks
  <2>2. Straight(s) /\ Elems(s) = Elems(PrimaFull) \ {"ANSWER_GENERATION"}
    BY <1>3, RouteFacts, PrimaFullOrder, PhaseNames, WithoutOrder
  <2>3. Starts /\ {"ACTION", "EXECUTION_DECISION"} \subseteq Elems(s)
    BY <2>2, PrimaFullOrder, PhaseNames
  <2>4. Elems(s) \subseteq Allowed(r)
    BY <2>1, <2>2, PrimaFullOrder DEF Allowed
  <2> HIDE DEF s
  <2>5. Flow(r, {}, s) /\ Reaches(r, s) /\ s \in Seq(Phases)
    BY <2>1, <2>2, <2>3, <2>4, StraightFlow DEF Straight
  <2> QED
    BY <2>3, <2>5 DEF s
<1>4. CASE r \in {"replay", "ingestion", "emotion"}
  <2>1. Routes[r].task \in PlainTasks
    BY <1>4, RouteFacts DEF PlainTasks
  <2>2. Straight(s) /\ Starts /\ Elems(s) \subseteq PlainPhases
    BY <1>4, RouteFacts, HistoricalReplayOrder, IngestionOrder, AffectOnlyOrder DEF PlainPhases
  <2>3. r = "ingestion" => "DOCUMENT_INGESTION" \in Elems(s)
    BY RouteFacts, IngestionOrder
  <2>4. r # "ingestion" => Routes[r].task \in {"historical_replay", "emotion_classification"}
    BY <1>4, RouteFacts
  <2> HIDE DEF s
  <2>5. Flow(r, {}, s) /\ ("DOCUMENT_INGESTION" \in Elems(s) => Reaches(r, s)) /\ s \in Seq(Phases)
    BY <2>1, <2>2, PlainFlow DEF Straight
  <2> QED
    BY <2>2, <2>3, <2>4, <2>5 DEF s
<1> QED
  BY <1>1, <1>2, <1>3, <1>4, RouteFacts

-----------------------------------------------------------------------------
(* What a correction splices in. *)

\* Of what is fresh, only the judgement matters to a flow.
LEMMA SameJudgement ==
    ASSUME NEW r, NEW f, NEW g, NEW s, "judgement" \in f => "judgement" \in g, Flow(r, f, s)
    PROVE  Flow(r, g, s)
<1>1. Judged(r, g, s)
  BY DEF Flow, Judged
<1> QED
  BY <1>1 DEF Flow

\* A list that an execution of route r can have ahead, where f is fresh.
Leading(r, f, s) == s \in Seq(Phases) /\ Flow(r, f, s)

LEMMA FrontLeading ==
    ASSUME NEW r, NEW f, NEW g, NEW p \in Phases, NEW s, Leading(r, g, s), Fits(r, f, p, s),
           "judgement" \in g => "judgement" \in After(f, p)
    PROVE  Leading(r, f, <<p>> \o s)
<1>1. s \in Seq(Phases) /\ Flow(r, After(f, p), s)
  BY SameJudgement DEF Leading
<1>2. <<p>> \o s \in Seq(Phases) /\ Flow(r, f, <<p>> \o s)
  BY <1>1, Front, FrontFlow
<1> QED
  BY <1>2 DEF Leading

LEMMA FrontParts ==
    ASSUME NEW r, NEW g, NEW p \in Phases, NEW s, Leading(r, g, s)
    PROVE  /\ Elems(<<p>> \o s) = {p} \cup Elems(s)
           /\ Reaches(r, <<p>> \o s) <=> p # "OUTPUT" /\ (p = Final(r) \/ Reaches(r, s))
BY Front, FrontReaches DEF Leading

LEMMA SpliceAnswer ==
    ASSUME NEW r, NEW f, NEW s, Leading(r, f, s), Elems(s) \cap Reworks = {},
           Routes[r].task \notin PlainTasks, Full(r) => "judgement" \in f
    PROVE  LET t == <<"ANSWER_GENERATION", "OUTPUT_VALIDATION">> \o s
           IN /\ Leading(r, f, t)
              /\ Elems(t) \cap Reworks = {} /\ Elems(s) \subseteq Elems(t)
              /\ Final(r) = "ANSWER_GENERATION" \/ Reaches(r, s) => Reaches(r, t)
<1> DEFINE u == <<"OUTPUT_VALIDATION">> \o s
           t == <<"ANSWER_GENERATION">> \o u
<1>0. <<"ANSWER_GENERATION", "OUTPUT_VALIDATION">> \o s = t
  BY DEF Leading
<1>1. /\ "OUTPUT_VALIDATION" \in Allowed(r) /\ Rank("OUTPUT_VALIDATION") = 0
      /\ "OUTPUT_VALIDATION" \notin Reworks
  BY PhaseNames DEF Allowed, Rank, Acting, Reworks, Remaking
<1>2. /\ "ANSWER_GENERATION" \in Allowed(r) /\ Rank("ANSWER_GENERATION") = 0
      /\ "ANSWER_GENERATION" \notin Reworks
  BY PhaseNames DEF Allowed, Rank, Acting, Reworks, Remaking
<1>3. /\ Leading(r, f, u)
      /\ Elems(u) = {"OUTPUT_VALIDATION"} \cup Elems(s)
      /\ "OUTPUT_VALIDATION" = Final(r) \/ Reaches(r, s) => Reaches(r, u)
  <2>1. "OUTPUT_VALIDATION" \in Phases /\ "OUTPUT_VALIDATION" # "OUTPUT"
    BY PhaseNames
  <2>2. Fits(r, f, "OUTPUT_VALIDATION", s)
    BY <1>1 DEF Fits
  <2>3. "judgement" \in f => "judgement" \in After(f, "OUTPUT_VALIDATION")
    BY DEF After, Remaking
  <2>4. Leading(r, f, u)
    BY <2>1, <2>2, <2>3, FrontLeading
  <2> QED
    BY <2>1, <2>4, FrontParts
<1> HIDE DEF u
<1>4. Elems(u) \cap Reworks = {}
  BY <1>1, <1>3
<1>5. /\ Leading(r, f, t)
      /\ Elems(t) = {"ANSWER_GENERATION"} \cup Elems(u)
      /\ "ANSWER_GENERATION" = Final(r) \/ Reaches(r, u) => Reaches(r, t)
  <2>1. "ANSWER_GENERATION" \in Phases /\ "ANSWER_GENERATION" # "OUTPUT"
    BY PhaseNames
  <2>2. Fits(r, f, "ANSWER_GENERATION", u)
    BY <1>2, <1>4 DEF Fits
  <2>3. "judgement" \in f => "judgement" \in After(f, "ANSWER_GENERATION")
    BY DEF After, Remaking
  <2>4. Leading(r, f, t)
    BY <1>3, <2>1, <2>2, <2>3, FrontLeading
  <2> QED
    BY <1>3, <2>1, <2>4, FrontParts
<1> HIDE DEF t
<1> QED
  BY <1>0, <1>2, <1>3, <1>4, <1>5

LEMMA SpliceAction ==
    ASSUME NEW r, NEW f, NEW s, Leading(r, f, s), Elems(s) \cap Reworks = {},
           Routes[r].task \notin PlainTasks, Full(r), "judgement" \in f
    PROVE  LET t == <<"ACTION">> \o s
           IN /\ Leading(r, f, t)
              /\ Elems(t) \cap Reworks = {} /\ Elems(s) \subseteq Elems(t)
              /\ Final(r) = "ACTION" \/ Reaches(r, s) => Reaches(r, t)
<1> DEFINE t == <<"ACTION">> \o s
<1>1. /\ "ACTION" \in Allowed(r) /\ Rank("ACTION") = 0
      /\ "ACTION" \notin Reworks
  BY PhaseNames DEF Allowed, Rank, Acting, Reworks, Remaking
<1>2. /\ Leading(r, f, t)
      /\ Elems(t) = {"ACTION"} \cup Elems(s)
      /\ "ACTION" = Final(r) \/ Reaches(r, s) => Reaches(r, t)
  <2>1. "ACTION" \in Phases /\ "ACTION" # "OUTPUT"
    BY PhaseNames
  <2>2. Fits(r, f, "ACTION", s)
    BY <1>1 DEF Fits
  <2>3. "judgement" \in f => "judgement" \in After(f, "ACTION")
    BY DEF After, Remaking
  <2>4. Leading(r, f, t)
    BY <2>1, <2>2, <2>3, FrontLeading
  <2> QED
    BY <2>1, <2>4, FrontParts
<1> HIDE DEF t
<1>3. Elems(t) \cap Reworks = {} /\ Elems(s) \subseteq Elems(t)
  BY <1>1, <1>2
<1> QED
  BY <1>2, <1>3 DEF t

LEMMA SpliceActed ==
    ASSUME NEW r, NEW f, NEW s, Leading(r, f, s), Elems(s) \cap Reworks = {},
           Routes[r].task \notin PlainTasks, Full(r), "judgement" \in f
    PROVE  LET t == <<"ACTION", "OUTPUT_VALIDATION">> \o s
           IN /\ Leading(r, f, t)
              /\ Elems(t) \cap Reworks = {} /\ Elems(s) \subseteq Elems(t)
              /\ Final(r) = "ACTION" \/ Reaches(r, s) => Reaches(r, t)
<1> DEFINE u == <<"OUTPUT_VALIDATION">> \o s
           t == <<"ACTION">> \o u
<1>0. <<"ACTION", "OUTPUT_VALIDATION">> \o s = t
  BY DEF Leading
<1>1. /\ "OUTPUT_VALIDATION" \in Allowed(r) /\ Rank("OUTPUT_VALIDATION") = 0
      /\ "OUTPUT_VALIDATION" \notin Reworks
  BY PhaseNames DEF Allowed, Rank, Acting, Reworks, Remaking
<1>2. /\ "ACTION" \in Allowed(r) /\ Rank("ACTION") = 0
      /\ "ACTION" \notin Reworks
  BY PhaseNames DEF Allowed, Rank, Acting, Reworks, Remaking
<1>3. /\ Leading(r, f, u)
      /\ Elems(u) = {"OUTPUT_VALIDATION"} \cup Elems(s)
      /\ "OUTPUT_VALIDATION" = Final(r) \/ Reaches(r, s) => Reaches(r, u)
  <2>1. "OUTPUT_VALIDATION" \in Phases /\ "OUTPUT_VALIDATION" # "OUTPUT"
    BY PhaseNames
  <2>2. Fits(r, f, "OUTPUT_VALIDATION", s)
    BY <1>1 DEF Fits
  <2>3. "judgement" \in f => "judgement" \in After(f, "OUTPUT_VALIDATION")
    BY DEF After, Remaking
  <2>4. Leading(r, f, u)
    BY <2>1, <2>2, <2>3, FrontLeading
  <2> QED
    BY <2>1, <2>4, FrontParts
<1> HIDE DEF u
<1>4. Elems(u) \cap Reworks = {}
  BY <1>1, <1>3
<1>5. /\ Leading(r, f, t)
      /\ Elems(t) = {"ACTION"} \cup Elems(u)
      /\ "ACTION" = Final(r) \/ Reaches(r, u) => Reaches(r, t)
  <2>1. "ACTION" \in Phases /\ "ACTION" # "OUTPUT"
    BY PhaseNames
  <2>2. Fits(r, f, "ACTION", u)
    BY <1>2, <1>4 DEF Fits
  <2>3. "judgement" \in f => "judgement" \in After(f, "ACTION")
    BY DEF After, Remaking
  <2>4. Leading(r, f, t)
    BY <1>3, <2>1, <2>2, <2>3, FrontLeading
  <2> QED
    BY <1>3, <2>1, <2>4, FrontParts
<1> HIDE DEF t
<1> QED
  BY <1>0, <1>2, <1>3, <1>4, <1>5

\* A new plan is judged before anything that acts, whatever was judged before.
LEMMA SpliceJudging ==
    ASSUME NEW r, NEW f, NEW g, NEW s, Leading(r, g, s), Reaches(r, s),
           Routes[r].task \notin PlainTasks, Full(r)
    PROVE  LET t == Judging \o s
           IN Leading(r, f, t) /\ Elems(s) \subseteq Elems(t) /\ Reaches(r, t)
<1> DEFINE d == <<"EXECUTION_DECISION">> \o s
           u == <<"UNCERTAINTY_ESTIMATION">> \o d
           w == <<"WORLD_SIMULATION">> \o u
           p == <<"PLANNING">> \o w
<1>0. Judging \o s = p
  BY DEF Judging, Leading
<1>1. /\ "EXECUTION_DECISION" \in Allowed(r) /\ Rank("EXECUTION_DECISION") = 0
      /\ "EXECUTION_DECISION" \notin Acting
  BY PhaseNames DEF Allowed, Rank, Acting, Reworks, Remaking
<1>2. /\ "UNCERTAINTY_ESTIMATION" \in Allowed(r) /\ Rank("UNCERTAINTY_ESTIMATION") = 0
      /\ "UNCERTAINTY_ESTIMATION" \notin Acting
  BY PhaseNames DEF Allowed, Rank, Acting, Reworks, Remaking
<1>3. /\ "WORLD_SIMULATION" \in Allowed(r) /\ Rank("WORLD_SIMULATION") = 0
      /\ "WORLD_SIMULATION" \notin Acting
  BY PhaseNames DEF Allowed, Rank, Acting, Reworks, Remaking
<1>4. /\ "PLANNING" \in Allowed(r) /\ Rank("PLANNING") = 0
      /\ "PLANNING" \notin Acting
  BY PhaseNames DEF Allowed, Rank, Acting, Reworks, Remaking
<1>5. /\ Leading(r, {}, d)
      /\ Elems(d) = {"EXECUTION_DECISION"} \cup Elems(s)
      /\ "EXECUTION_DECISION" = Final(r) \/ Reaches(r, s) => Reaches(r, d)
  <2>1. "EXECUTION_DECISION" \in Phases /\ "EXECUTION_DECISION" # "OUTPUT"
    BY PhaseNames
  <2>2. Fits(r, {}, "EXECUTION_DECISION", s)
    BY <1>1 DEF Fits
  <2>3. "judgement" \in g => "judgement" \in After({}, "EXECUTION_DECISION")
    BY DEF After, Remaking
  <2>4. Leading(r, {}, d)
    BY <2>1, <2>2, <2>3, FrontLeading
  <2> QED
    BY <2>1, <2>4, FrontParts
<1> HIDE DEF d
<1>6. /\ Leading(r, {}, u)
      /\ Elems(u) = {"UNCERTAINTY_ESTIMATION"} \cup Elems(d)
      /\ "UNCERTAINTY_ESTIMATION" = Final(r) \/ Reaches(r, d) => Reaches(r, u)
  <2>1. "UNCERTAINTY_ESTIMATION" \in Phases /\ "UNCERTAINTY_ESTIMATION" # "OUTPUT"
    BY PhaseNames
  <2>2. Fits(r, {}, "UNCERTAINTY_ESTIMATION", d)
    BY <1>2, <1>5 DEF Fits
  <2>3. "judgement" \in {} => "judgement" \in After({}, "UNCERTAINTY_ESTIMATION")
    BY DEF After, Remaking
  <2>4. Leading(r, {}, u)
    BY <1>5, <2>1, <2>2, <2>3, FrontLeading
  <2> QED
    BY <1>5, <2>1, <2>4, FrontParts
<1> HIDE DEF u
<1>7. /\ Leading(r, {}, w)
      /\ Elems(w) = {"WORLD_SIMULATION"} \cup Elems(u)
      /\ "WORLD_SIMULATION" = Final(r) \/ Reaches(r, u) => Reaches(r, w)
  <2>1. "WORLD_SIMULATION" \in Phases /\ "WORLD_SIMULATION" # "OUTPUT"
    BY PhaseNames
  <2>2. Fits(r, {}, "WORLD_SIMULATION", u)
    BY <1>3, <1>5, <1>6 DEF Fits
  <2>3. "judgement" \in {} => "judgement" \in After({}, "WORLD_SIMULATION")
    BY DEF After, Remaking
  <2>4. Leading(r, {}, w)
    BY <1>6, <2>1, <2>2, <2>3, FrontLeading
  <2> QED
    BY <1>6, <2>1, <2>4, FrontParts
<1> HIDE DEF w
<1>8. /\ Leading(r, f, p)
      /\ Elems(p) = {"PLANNING"} \cup Elems(w)
      /\ "PLANNING" = Final(r) \/ Reaches(r, w) => Reaches(r, p)
  <2>1. "PLANNING" \in Phases /\ "PLANNING" # "OUTPUT"
    BY PhaseNames
  <2>2. Fits(r, f, "PLANNING", w)
    BY <1>4, <1>5, <1>6, <1>7 DEF Fits
  <2>3. "judgement" \in {} => "judgement" \in After(f, "PLANNING")
    BY DEF After, Remaking
  <2>4. Leading(r, f, p)
    BY <1>7, <2>1, <2>2, <2>3, FrontLeading
  <2> QED
    BY <1>7, <2>1, <2>4, FrontParts
<1> HIDE DEF p
<1> QED
  BY <1>0, <1>5, <1>6, <1>7, <1>8

LEMMA SpliceEvidence ==
    ASSUME NEW r, NEW f, NEW s, Leading(r, {}, s), Reaches(r, s),
           Routes[r].task \notin PlainTasks
    PROVE  LET t == <<"EVIDENCE_ACQUISITION">> \o s
           IN Leading(r, f, t) /\ Elems(s) \subseteq Elems(t) /\ Reaches(r, t)
<1> DEFINE t == <<"EVIDENCE_ACQUISITION">> \o s
<1>1. /\ "EVIDENCE_ACQUISITION" \in Allowed(r) /\ Rank("EVIDENCE_ACQUISITION") = 0
      /\ "EVIDENCE_ACQUISITION" \notin Acting
  BY PhaseNames DEF Allowed, Rank, Acting, Reworks, Remaking
<1>2. /\ Leading(r, f, t)
      /\ Elems(t) = {"EVIDENCE_ACQUISITION"} \cup Elems(s)
      /\ "EVIDENCE_ACQUISITION" = Final(r) \/ Reaches(r, s) => Reaches(r, t)
  <2>1. "EVIDENCE_ACQUISITION" \in Phases /\ "EVIDENCE_ACQUISITION" # "OUTPUT"
    BY PhaseNames
  <2>2. Fits(r, f, "EVIDENCE_ACQUISITION", s)
    BY <1>1 DEF Fits
  <2>3. "judgement" \in {} => "judgement" \in After(f, "EVIDENCE_ACQUISITION")
    BY DEF After, Remaking
  <2>4. Leading(r, f, t)
    BY <2>1, <2>2, <2>3, FrontLeading
  <2> QED
    BY <2>1, <2>4, FrontParts
<1> HIDE DEF t
<1> QED
  BY <1>2 DEF t

LEMMA SpliceReflection ==
    ASSUME NEW r, NEW f, NEW s, Leading(r, f, s), Reaches(r, s), Elems(s) \cap Reworks = {},
           Routes[r].task \notin PlainTasks, Full(r), "judgement" \in f
    PROVE  LET t == <<"REFLECTION">> \o s
           IN Leading(r, f, t) /\ Elems(s) \subseteq Elems(t) /\ Reaches(r, t)
<1> DEFINE t == <<"REFLECTION">> \o s
<1>1. /\ "REFLECTION" \in Allowed(r) /\ Rank("REFLECTION") = 0
      /\ "REFLECTION" \in Acting
  BY PhaseNames DEF Allowed, Rank, Acting, Reworks, Remaking
<1>2. /\ Leading(r, f, t)
      /\ Elems(t) = {"REFLECTION"} \cup Elems(s)
      /\ "REFLECTION" = Final(r) \/ Reaches(r, s) => Reaches(r, t)
  <2>1. "REFLECTION" \in Phases /\ "REFLECTION" # "OUTPUT"
    BY PhaseNames
  <2>2. Fits(r, f, "REFLECTION", s)
    BY <1>1 DEF Fits
  <2>3. "judgement" \in f => "judgement" \in After(f, "REFLECTION")
    BY DEF After, Remaking
  <2>4. Leading(r, f, t)
    BY <2>1, <2>2, <2>3, FrontLeading
  <2> QED
    BY <2>1, <2>4, FrontParts
<1> HIDE DEF t
<1> QED
  BY <1>2 DEF t

LEMMA StageLists ==
    /\ <<>> \in Seq(Phases) /\ Judging \in Seq(Phases)
    /\ <<"EVIDENCE_ACQUISITION">> \in Seq(Phases) /\ <<"REFLECTION">> \in Seq(Phases)
    /\ ExecutionTail \in Seq(Phases)
<1>1. \A a, b, c \in Phases :
        <<a>> \in Seq(Phases) /\ <<a, b>> \in Seq(Phases) /\ <<a, b, c>> \in Seq(Phases)
  OBVIOUS
<1>2. ExecutionTail \in Seq(Phases)
  <2>1. CASE Task = "tool_request"
    BY <1>1, <2>1, PhaseNames DEF ExecutionTail
  <2>2. CASE Task # "tool_request"
    BY <1>1, <2>2, PhaseNames DEF ExecutionTail
  <2> QED
    BY <2>1, <2>2
<1>3. Judging \in Seq(Phases)
  <2>1. \A i \in DOMAIN Judging : Judging[i] \in Phases
    BY PhaseNames DEF Judging
  <2>2. Judging \in Seq({Judging[i] : i \in DOMAIN Judging})
    BY DEF Judging
  <2> QED
    BY <2>1, <2>2, SeqMonotonic
<1>4. <<"EVIDENCE_ACQUISITION">> \in Seq(Phases) /\ <<"REFLECTION">> \in Seq(Phases)
  BY <1>1, PhaseNames
<1>5. <<>> \in Seq(Phases)
  OBVIOUS
<1> QED
  BY <1>2, <1>3, <1>4, <1>5

LEMMA Apart ==
    ASSUME NEW S, NEW a \in Seq(S), NEW b \in Seq(S), NEW c \in Seq(S)
    PROVE  (a \o b) \o c = a \o (b \o c)
<1> DEFINE l == (a \o b) \o c
           r == a \o (b \o c)
<1>1. /\ l \in Seq(S) /\ Len(l) = Len(a) + Len(b) + Len(c)
      /\ Len(a) \in Nat /\ Len(b) \in Nat /\ Len(c) \in Nat
  OBVIOUS
<1>2. r \in Seq(S) /\ Len(r) = Len(a) + Len(b) + Len(c)
  OBVIOUS
<1>3. ASSUME NEW i \in 1..Len(l) PROVE l[i] = r[i]
  <2>1. i \in 1..(Len(a) + Len(b) + Len(c))
    BY <1>1
  <2>2. CASE i <= Len(a)
    BY <1>1, <2>1, <2>2
  <2>3. CASE i > Len(a) /\ i <= Len(a) + Len(b)
    BY <1>1, <2>1, <2>3
  <2>4. CASE i > Len(a) + Len(b)
    BY <1>1, <2>1, <2>4
  <2> QED
    BY <1>1, <2>1, <2>2, <2>3, <2>4
<1> HIDE DEF l, r
<1>4. l = r
  BY <1>1, <1>2, <1>3, SeqEqual
<1> QED
  BY <1>4 DEF l, r

\* The same with a name for each list: the provers do not follow nested concatenations.
Joins(z, x, y) == z = x \o y

LEMMA JoinsApart ==
    ASSUME NEW S, NEW a \in Seq(S), NEW b \in Seq(S), NEW c \in Seq(S),
           NEW x, NEW y, NEW z, Joins(x, a, b), Joins(y, b, c), Joins(z, x, c)
    PROVE  Joins(z, a, y)
<1>1. z = (a \o b) \o c
  BY DEF Joins
<1>2. z = a \o (b \o c)
  BY <1>1, Apart
<1> QED
  BY <1>2 DEF Joins

\* Concatenation from the left, as the code splices, and from the right.
Regroups(e, j, q, t, s) ==
    /\ <<>> \o s = s
    /\ (e \o j) \o s = e \o (j \o s)
    /\ (j \o q \o t) \o s = j \o (q \o (t \o s))
    /\ (e \o j \o q \o t) \o s = e \o (j \o (q \o (t \o s)))

LEMMA ListsRegroup ==
    ASSUME NEW S, NEW e \in Seq(S), NEW j \in Seq(S), NEW q \in Seq(S), NEW t \in Seq(S),
           NEW s \in Seq(S)
    PROVE  Regroups(e, j, q, t, s)
<1> DEFINE ts == t \o s
           qts == q \o ts
           jqts == j \o qts
           js == j \o s
           jq == j \o q
           jqt == jq \o t
           ej == e \o j
           ejq == ej \o q
           ejqt == ejq \o t
           ejs == ej \o s
           jqt_s == jqt \o s
           ejqt_s == ejqt \o s
<1>1. ts \in Seq(S) /\ jq \in Seq(S) /\ ej \in Seq(S) /\ <<>> \o s = s
  OBVIOUS
<1>2. qts \in Seq(S) /\ ejq \in Seq(S)
  <2> HIDE DEF ts, ej
  <2> QED
    BY <1>1
<1>3. /\ Joins(ts, t, s) /\ Joins(qts, q, ts) /\ Joins(jqts, j, qts) /\ Joins(js, j, s)
      /\ Joins(jq, j, q) /\ Joins(jqt, jq, t)
      /\ Joins(ej, e, j) /\ Joins(ejq, ej, q) /\ Joins(ejqt, ejq, t)
  BY DEF Joins
<1> HIDE DEF ts, qts, jqts, js, jq, jqt, ej, ejq, ejqt
<1>4. Joins(jqt_s, jqt, s) /\ Joins(ejqt_s, ejqt, s) /\ Joins(ejs, ej, s)
  BY DEF Joins
<1> HIDE DEF ejs, jqt_s, ejqt_s
<1>5. Joins(jqt_s, j, qts)
  <2>1. Joins(jqt_s, jq, ts)
    BY <1>1, <1>3, <1>4, JoinsApart
  <2> QED
    BY <1>1, <1>3, <2>1, JoinsApart
<1>6. Joins(ejqt_s, e, jqts)
  <2>1. Joins(ejqt_s, ejq, ts)
    BY <1>2, <1>3, <1>4, JoinsApart
  <2>2. Joins(ejqt_s, ej, qts)
    BY <1>1, <1>3, <2>1, JoinsApart
  <2> QED
    BY <1>2, <1>3, <2>2, JoinsApart
<1>7. Joins(ejs, e, js)
  BY <1>3, <1>4, JoinsApart
<1>8. (e \o j) \o s = e \o (j \o s)
  BY <1>7 DEF Joins, ejs, ej, js
<1>9. (j \o q \o t) \o s = j \o (q \o (t \o s))
  BY <1>5 DEF Joins, ts, qts, jq, jqt, jqt_s
<1>10. (e \o j \o q \o t) \o s = e \o (j \o (q \o (t \o s)))
  BY <1>6 DEF Joins, ts, qts, jqts, ej, ejq, ejqt, ejqt_s
<1> QED
  BY <1>1, <1>8, <1>9, <1>10 DEF Regroups

LEMMA SpliceApart ==
    ASSUME NEW s \in Seq(Phases), NEW t \in Seq(Phases)
    PROVE  Regroups(<<"EVIDENCE_ACQUISITION">>, Judging, <<"REFLECTION">>, t, s)
BY StageLists, ListsRegroup

\* The stages that come with a new plan, before what may act on it.
LEMMA SpliceReplan ==
    ASSUME NEW r, NEW f, NEW s, Leading(r, {"judgement"}, s), Reaches(r, s),
           Elems(s) \cap Reworks = {}, Routes[r].task \notin PlainTasks, Full(r)
    PROVE  LET t == Judging \o (<<"REFLECTION">> \o s)
           IN Leading(r, f, t) /\ Elems(s) \subseteq Elems(t) /\ Reaches(r, t)
<1> DEFINE q == <<"REFLECTION">> \o s
           t == Judging \o q
<1>1. Leading(r, {"judgement"}, q) /\ Elems(s) \subseteq Elems(q) /\ Reaches(r, q)
  BY SpliceReflection
<1> HIDE DEF q
<1>2. Leading(r, f, t) /\ Elems(q) \subseteq Elems(t) /\ Reaches(r, t)
  BY <1>1, SpliceJudging
<1> HIDE DEF t
<1>3. Elems(s) \subseteq Elems(t)
  BY <1>1, <1>2
<1> QED
  BY <1>2, <1>3 DEF q, t

LEMMA SpliceQuery ==
    ASSUME NEW r, NEW f, NEW s, Leading(r, {"judgement"}, s), Reaches(r, s),
           Elems(s) \cap Reworks = {}, Routes[r].task \notin PlainTasks, Full(r)
    PROVE  LET t == <<"EVIDENCE_ACQUISITION">> \o (Judging \o (<<"REFLECTION">> \o s))
           IN Leading(r, f, t) /\ Elems(s) \subseteq Elems(t) /\ Reaches(r, t)
<1> DEFINE q == Judging \o (<<"REFLECTION">> \o s)
           t == <<"EVIDENCE_ACQUISITION">> \o q
<1>1. Leading(r, {}, q) /\ Elems(s) \subseteq Elems(q) /\ Reaches(r, q)
  BY SpliceReplan
<1> HIDE DEF q
<1>2. Leading(r, f, t) /\ Elems(q) \subseteq Elems(t) /\ Reaches(r, t)
  BY <1>1, SpliceEvidence
<1> HIDE DEF t
<1>3. Elems(s) \subseteq Elems(t)
  BY <1>1, <1>2
<1> QED
  BY <1>2, <1>3 DEF q, t

\* What the advisor's correction splices in, before the execution acts.
LEMMA PreStages ==
    ASSUME Leading(request, fresh, todo), Reaches(request, todo), Elems(todo) \cap Reworks = {},
           Task \notin PlainTasks, Full(request), "judgement" \in fresh,
           NEW a \in AdviceActions
    PROVE  LET t == Stages(a, FALSE) \o todo
           IN Leading(request, fresh, t) /\ Elems(todo) \subseteq Elems(t) /\ Reaches(request, t)
<1> DEFINE stages == Stages(a, FALSE)
           t == stages \o todo
<1>0. todo \in Seq(Phases) /\ Leading(request, {"judgement"}, todo)
  BY SameJudgement DEF Leading
<1>task. Routes[request].task \notin PlainTasks
  BY DEF Task
<1>regroup. Regroups(<<"EVIDENCE_ACQUISITION">>, Judging, <<"REFLECTION">>, <<>>, todo)
  BY <1>0, SpliceApart, StageLists
<1>1. CASE a \in QueryActions \cup {"RETRY_TRANSIENT_FAILURE"}
  <2>1. stages
          = <<"EVIDENCE_ACQUISITION">> \o Judging \o <<"REFLECTION">> \o <<>>
    BY <1>1 DEF Stages, QueryRoute, QueryActions, Full
  <2>2. t = <<"EVIDENCE_ACQUISITION">> \o (Judging \o (<<"REFLECTION">> \o todo))
    <3> HIDE DEF stages
    <3> QED
      BY <1>regroup, <2>1 DEF Regroups
  <2> QED
    BY <1>0, <1>task, <2>2, SpliceQuery
<1>2. CASE a = "REPLAN"
  <2>1. stages = Judging \o <<"REFLECTION">> \o <<>>
    BY <1>2 DEF Stages, QueryActions
  <2>2. t = Judging \o (<<"REFLECTION">> \o todo)
    <3> HIDE DEF stages
    <3> QED
      BY <1>regroup, <2>1 DEF Regroups
  <2> QED
    BY <1>0, <1>task, <2>2, SpliceReplan
<1>3. CASE a = "REGENERATE"
  <2>1. t = <<"ANSWER_GENERATION", "OUTPUT_VALIDATION">> \o todo
    BY <1>3 DEF Stages, QueryActions
  <2> QED
    BY <1>task, <2>1, SpliceAnswer
<1>4. CASE a \in {"ASK_USER", "ABSTAIN"}
  <2>1. t = todo
    <3>1. stages = <<>>
      BY <1>4 DEF Stages, QueryActions
    <3> HIDE DEF stages
    <3> QED
      BY <1>0, <3>1
  <2> QED
    BY <2>1
<1> QED
  BY <1>1, <1>2, <1>3, <1>4 DEF AdviceActions, Retrieving

\* What a signal of the validation splices in, after the execution acted.
LEMMA PostStages ==
    ASSUME request \in DOMAIN Routes,
           Leading(request, fresh, todo), Elems(todo) \cap Reworks = {},
           Task \notin PlainTasks, Full(request) => "judgement" \in fresh,
           action # "none" => Full(request),
           Signal[1] # "NO_ACTION"
    PROVE  LET t == Stages(Signal[1], TRUE) \o todo
           IN /\ Signal[1] \in AdviceActions /\ Signal[2] \in {NoQuery, Supporting}
              /\ Leading(request, fresh, t) /\ Elems(todo) \subseteq Elems(t)
              /\ Reaches(request, todo) => Reaches(request, t)
              /\ Task = "tool_request" => Elems(t) \cap Reworks = {}
<1> DEFINE stages == Stages(Signal[1], TRUE)
           t == stages \o todo
<1>0. todo \in Seq(Phases)
  BY DEF Leading
<1>task. Routes[request].task \notin PlainTasks
  BY DEF Task
<1>1. \/ Signal = <<"REGENERATE", NoQuery>>
      \/ Task = "factual_qa" /\ Signal = <<"REVISE_QUERY", Supporting>>
      \/ action = "failed" /\ Signal = <<"RETRY_TRANSIENT_FAILURE", NoQuery>>
      \/ Signal = <<"ABSTAIN", NoQuery>>
  BY DEF Signal
<1>2. Signal[1] \in AdviceActions /\ Signal[2] \in {NoQuery, Supporting}
  BY <1>1 DEF AdviceActions, Retrieving, QueryActions
<1>3. CASE Signal = <<"REGENERATE", NoQuery>>
  <2>1. t = <<"ANSWER_GENERATION", "OUTPUT_VALIDATION">> \o todo
    BY <1>3 DEF Stages, QueryActions
  <2> QED
    BY <1>task, <1>2, <2>1, SpliceAnswer
<1>4. CASE Task = "factual_qa" /\ Signal = <<"REVISE_QUERY", Supporting>>
  <2>1. Final(request) = "ANSWER_GENERATION" /\ Task # "tool_request"
    BY <1>4 DEF Final, PlainTasks, Task
  <2>2. stages = QueryRoute(TRUE)
    BY <1>4 DEF Stages, QueryActions
  <2> DEFINE b == <<"ANSWER_GENERATION", "OUTPUT_VALIDATION">> \o todo
  <2>3. CASE ~Full(request)
    <3>1. stages
            = <<"EVIDENCE_ACQUISITION", "ANSWER_GENERATION", "OUTPUT_VALIDATION">>
      BY <2>2, <2>3 DEF QueryRoute, Full
    <3>2. t = <<"EVIDENCE_ACQUISITION">> \o b
      <4> DEFINE e == <<"EVIDENCE_ACQUISITION">>
                 a == <<"ANSWER_GENERATION", "OUTPUT_VALIDATION">>
      <4>1. e \in Seq(Phases) /\ a \in Seq(Phases) /\ stages = e \o a
        <5> HIDE DEF stages
        <5>1. stages = e \o a
          BY <3>1
        <5>2. e \in Seq(Phases)
          BY PhaseNames
        <5>3. a \in Seq(Phases)
          BY PhaseNames
        <5> QED
          BY <5>1, <5>2, <5>3
      <4> HIDE DEF stages, e, a
      <4>2. (e \o a) \o todo = e \o (a \o todo)
        BY <1>0, <4>1, ConcatAssociative
      <4> QED
        BY <4>1, <4>2 DEF e, a
    <3>3. Leading(request, {}, todo)
      BY <2>3 DEF Leading, Flow, Judged
    <3>4. /\ Leading(request, {}, b) /\ Elems(todo) \subseteq Elems(b) /\ Reaches(request, b)
      BY <1>task, <2>1, <2>3, <3>3, SpliceAnswer
    <3> HIDE DEF b
    <3>5. Leading(request, fresh, t) /\ Elems(b) \subseteq Elems(t) /\ Reaches(request, t)
      BY <1>task, <3>2, <3>4, SpliceEvidence
    <3> HIDE DEF t
    <3>6. Elems(todo) \subseteq Elems(t)
      BY <3>4, <3>5
    <3> QED
      BY <1>2, <2>1, <3>5, <3>6 DEF t
  <2>4. CASE Full(request)
    <3> DEFINE c == <<"ACTION">> \o b
    <3>1. ExecutionTail \o todo = c
      BY <1>0, <2>1 DEF ExecutionTail
    <3>2. stages
            = <<"EVIDENCE_ACQUISITION">> \o Judging \o <<"REFLECTION">> \o ExecutionTail
      BY <2>2, <2>4 DEF QueryRoute, Full
    <3>3. t = <<"EVIDENCE_ACQUISITION">> \o (Judging \o (<<"REFLECTION">> \o c))
      <4>1. Regroups(<<"EVIDENCE_ACQUISITION">>, Judging, <<"REFLECTION">>, ExecutionTail, todo)
        BY <1>0, SpliceApart, StageLists
      <4> HIDE DEF stages, c
      <4> QED
        BY <3>1, <3>2, <4>1 DEF Regroups
    <3>4. Leading(request, {"judgement"}, todo)
      BY SameJudgement DEF Leading
    <3>5. /\ Leading(request, {"judgement"}, b) /\ Elems(todo) \subseteq Elems(b)
          /\ Elems(b) \cap Reworks = {} /\ Reaches(request, b)
      BY <1>task, <2>1, <3>4, SpliceAnswer
    <3> HIDE DEF b
    <3>6. /\ Leading(request, {"judgement"}, c) /\ Elems(b) \subseteq Elems(c)
          /\ Elems(c) \cap Reworks = {} /\ Reaches(request, c)
      BY <1>task, <2>4, <3>5, SpliceAction
    <3> HIDE DEF c
    <3>7. Leading(request, fresh, t) /\ Elems(c) \subseteq Elems(t) /\ Reaches(request, t)
      BY <1>task, <2>4, <3>3, <3>6, SpliceQuery
    <3> HIDE DEF t
    <3>8. Elems(todo) \subseteq Elems(t)
      BY <3>5, <3>6, <3>7
    <3> QED
      BY <1>2, <2>1, <3>7, <3>8 DEF t
  <2> QED
    BY <2>3, <2>4
<1>5. CASE action = "failed" /\ Signal = <<"RETRY_TRANSIENT_FAILURE", NoQuery>>
  <2>1. t = <<"ACTION", "OUTPUT_VALIDATION">> \o todo
    BY <1>5 DEF Stages, QueryActions
  <2>2. Full(request) /\ "judgement" \in fresh
    BY <1>5
  <2> QED
    BY <1>task, <1>2, <2>1, <2>2, SpliceActed
<1>6. CASE Signal = <<"ABSTAIN", NoQuery>>
  <2>1. stages = <<>>
    BY <1>6 DEF Stages, QueryActions
  <2>2. t = todo
    <3> HIDE DEF stages
    <3> QED
      BY <1>0, <2>1
  <2> QED
    BY <1>2, <2>2
<1> QED
  BY <1>1, <1>3, <1>4, <1>5, <1>6

-----------------------------------------------------------------------------
(* What the invariant says of the phase at the head. *)

LEMMA RequestHasRoute ==
    ASSUME TypeOK
    PROVE  /\ request \in DOMAIN Routes
           /\ Task \in Conversing \cup PlainTasks
           /\ Task = "tool_request" => Full(request)
           /\ Task \in Conversing =>
                Final(request) = IF Task = "tool_request" THEN "ACTION" ELSE "ANSWER_GENERATION"
           /\ Task \in PlainTasks => Final(request) = "DOCUMENT_INGESTION"
<1>1. request \in DOMAIN Routes
  BY ConstantsAssumption DEF TypeOK, Values
<1> QED
  BY <1>1, RouteTasks DEF Task

LEMMA AllowedPhases ==
    \A r : /\ Allowed(r) \cap {"PLANNING", "EXECUTION_DECISION", "REFLECTION", "ACTION"} # {} =>
                Full(r) /\ Routes[r].task \notin PlainTasks
           /\ Allowed(r) \cap {"EVIDENCE_ACQUISITION", "ANSWER_GENERATION", "OUTPUT_VALIDATION"} # {} =>
                Routes[r].task \notin PlainTasks
           /\ "DOCUMENT_INGESTION" \in Allowed(r) => Routes[r].task \in PlainTasks
BY DEF Allowed, PlainPhases

LEMMA HeadOf ==
    ASSUME IInv, Live, NEW p \in Phases, NEW s \in Seq(Phases), Ahead = <<p>> \o s
    PROVE  /\ Fits(request, fresh, p, s) /\ Leading(request, After(fresh, p), s)
           /\ Elems(Ahead) = {p} \cup Elems(s)
           /\ "OUTPUT" \in Elems(s) =>
                p # "OUTPUT" /\ (p = Final(request) \/ Reaches(request, s) \/ Ready)
           /\ p = "OUTPUT" => Ready /\ outcome = "none" /\ \A q \in Elems(s) : Rank(q) > 1
           /\ outcome = "none" =>
                /\ Rank(p) < 2 /\ "STATE_COMMIT" \in Elems(s) /\ "state" \notin effects
                /\ p # "OUTPUT" => "OUTPUT" \in Elems(s)
           /\ outcome # "none" => Rank(p) > 1 /\ \A q \in Elems(s) : Rank(q) > 1
           /\ outcome \in Contract!Kept =>
                ("state" \in effects <=> p # "STATE_COMMIT" /\ "STATE_COMMIT" \notin Elems(s))
           /\ p = "STATE_COMMIT" => "STATE_COMMIT" \notin Elems(s)
           /\ Task = "tool_request" /\ generation # "none" =>
                "answer" \in fresh /\ p \notin Reworks /\ Elems(s) \cap Reworks = {}
<1>1. Flow(request, fresh, Ahead)
  BY DEF IInv, FlowsOn
<1>2. Fits(request, fresh, p, s) /\ Flow(request, After(fresh, p), s)
  BY <1>1, FrontFlow
<1>3. Elems(Ahead) = {p} \cup Elems(s)
  BY Front
<1>4. Reaches(request, Ahead) <=> p # "OUTPUT" /\ (p = Final(request) \/ Reaches(request, s))
  BY FrontReaches
<1>5. Rank(p) > 0 => \A q \in Elems(s) : Rank(q) > Rank(p)
  BY <1>2 DEF Fits
<1>6. /\ Rank("OUTPUT") = 1 /\ Rank("STATE_COMMIT") = 2
      /\ \A q : Rank(q) \in 0..4
  BY DEF Rank
<1>7. "OUTPUT" \in Elems(s) =>
        p # "OUTPUT" /\ (p = Final(request) \/ Reaches(request, s) \/ Ready)
  <2>1. "OUTPUT" \in Elems(s) => p # "OUTPUT"
    BY <1>5, <1>6
  <2> QED
    BY <1>3, <1>4, <2>1 DEF IInv, ResultComes, Has
<1>8. /\ outcome = "none" =>
           "OUTPUT" \in Elems(Ahead) /\ "STATE_COMMIT" \in Elems(Ahead) /\ "state" \notin effects
      /\ outcome # "none" => \A q \in Elems(Ahead) : Rank(q) > 1
      /\ outcome \in Contract!Kept => ("state" \in effects <=> "STATE_COMMIT" \notin Elems(Ahead))
  BY DEF IInv, CommitsInOrder, Has
<1>9. outcome = "none" =>
        /\ Rank(p) < 2 /\ "STATE_COMMIT" \in Elems(s) /\ "state" \notin effects
        /\ p # "OUTPUT" => "OUTPUT" \in Elems(s)
  <2> SUFFICES ASSUME outcome = "none"
               PROVE  /\ Rank(p) < 2 /\ "STATE_COMMIT" \in Elems(s) /\ "state" \notin effects
                      /\ p # "OUTPUT" => "OUTPUT" \in Elems(s)
    OBVIOUS
  <2>1. p # "OUTPUT" => "OUTPUT" \in Elems(s)
    BY <1>3, <1>8
  <2>2. Rank(p) < 2
    BY <1>5, <1>6, <2>1
  <2>3. p # "STATE_COMMIT"
    BY <1>6, <2>2
  <2> QED
    BY <1>3, <1>8, <2>1, <2>2, <2>3
<1>10. outcome # "none" => Rank(p) > 1 /\ \A q \in Elems(s) : Rank(q) > 1
  BY <1>3, <1>8
<1>11. p = "OUTPUT" => Ready /\ outcome = "none" /\ \A q \in Elems(s) : Rank(q) > 1
  <2> SUFFICES ASSUME p = "OUTPUT"
               PROVE  Ready /\ outcome = "none" /\ \A q \in Elems(s) : Rank(q) > 1
    OBVIOUS
  <2>1. Ready
    BY <1>3, <1>4 DEF IInv, ResultComes, Has
  <2>2. outcome = "none"
    BY <1>6, <1>10
  <2> QED
    BY <1>5, <1>6, <2>1, <2>2
<1>12. outcome \in Contract!Kept =>
         ("state" \in effects <=> p # "STATE_COMMIT" /\ "STATE_COMMIT" \notin Elems(s))
  BY <1>3, <1>8
<1>13. p = "STATE_COMMIT" => "STATE_COMMIT" \notin Elems(s)
  BY <1>5, <1>6
<1>14. Task = "tool_request" /\ generation # "none" =>
         "answer" \in fresh /\ p \notin Reworks /\ Elems(s) \cap Reworks = {}
  BY <1>3 DEF IInv, ResultOfRoute
<1> QED
  BY <1>2, <1>3, <1>7, <1>9, <1>10, <1>11, <1>12, <1>13, <1>14 DEF Leading

LEMMA Running ==
    ASSUME IInv, status = "RUNNING", running
    PROVE  Live /\ current \in Phases /\ todo \in Seq(Phases) /\ Ahead = <<current>> \o todo
BY DEF IInv, TypeOK, Values, Live, Ahead

LEMMA Waiting ==
    ASSUME IInv, BetweenPhases, todo # <<>>
    PROVE  /\ Live /\ Head(todo) \in Phases /\ Tail(todo) \in Seq(Phases)
           /\ Ahead = todo /\ todo = <<Head(todo)>> \o Tail(todo)
<1>1. Live /\ Ahead = todo /\ todo \in Seq(Phases)
  BY DEF IInv, TypeOK, Values, Live, Ahead, BetweenPhases
<1>2. /\ Head(todo) \in Phases /\ Tail(todo) \in Seq(Phases) /\ Len(Tail(todo)) = Len(todo) - 1
      /\ \A i \in 1..Len(Tail(todo)) : Tail(todo)[i] = todo[i + 1]
  BY <1>1, HeadTailProperties
<1>3. todo = <<Head(todo)>> \o Tail(todo)
  BY <1>1
<1> QED
  BY <1>1, <1>2, <1>3

-----------------------------------------------------------------------------
(* The steps keep the invariant. *)

Rest == FlowsOn /\ ResultComes /\ RunsAllowed /\ CommitsInOrder

\* A phase returns and splices nothing in.
LEMMA PassesOn ==
    ASSUME IInv, status = "RUNNING", running, Return(<<>>), outcome' = outcome,
           "judgement" \in After(fresh, current) => "judgement" \in fresh',
           current # "OUTPUT",
           /\ current \notin Reworks /\ "OUTPUT" \in Elems(todo)
           /\ Ready \/ current = Final(request)
           => Ready',
           IF current = "STATE_COMMIT" THEN outcome \in Contract!Kept => "state" \in effects'
           ELSE "state" \in effects' <=> "state" \in effects
    PROVE  Rest' /\ Ahead' = todo /\ todo' = todo
<1>1. Live /\ current \in Phases /\ todo \in Seq(Phases) /\ Ahead = <<current>> \o todo
  BY Running
<1>2. Fits(request, fresh, current, todo) /\ Leading(request, After(fresh, current), todo)
  BY <1>1, HeadOf
<1>3. todo' = todo /\ request' = request /\ running' = FALSE /\ status' = "RUNNING"
  BY <1>1 DEF Return
<1>4. Ahead' = todo /\ Live'
  BY <1>3 DEF Ahead, Live
<1>5. FlowsOn'
  <2>1. PICK g : g = fresh'
    OBVIOUS
  <2>2. Flow(request, g, todo)
    BY <1>2, <2>1, SameJudgement DEF Leading
  <2> QED
    BY <1>3, <1>4, <2>1, <2>2 DEF FlowsOn
<1>6. ResultComes'
  <2>1. ASSUME "OUTPUT" \in Elems(todo) PROVE Reaches(request, todo) \/ Ready'
    <3>1. current = Final(request) \/ Reaches(request, todo) \/ Ready
      BY <1>1, <2>1, HeadOf
    <3>2. current \in Reworks => Reaches(request, todo)
      BY <1>2 DEF Fits
    <3> QED
      BY <2>1, <3>1, <3>2
  <2> QED
    BY <1>3, <1>4, <2>1 DEF ResultComes, Has
<1>7. RunsAllowed'
  BY <1>3 DEF RunsAllowed
<1>8. CommitsInOrder'
  <2>1. outcome = "none" =>
          "OUTPUT" \in Elems(todo) /\ "STATE_COMMIT" \in Elems(todo) /\ "state" \notin effects'
    <3>1. outcome = "none" =>
            /\ Rank(current) < 2 /\ "STATE_COMMIT" \in Elems(todo) /\ "state" \notin effects
            /\ "OUTPUT" \in Elems(todo)
      BY <1>1, HeadOf
    <3>2. Rank("STATE_COMMIT") = 2
      BY DEF Rank
    <3> QED
      BY <3>1, <3>2
  <2>2. outcome # "none" => \A q \in Elems(todo) : Rank(q) > 1
    BY <1>1, HeadOf
  <2>3. outcome \in Contract!Kept => ("state" \in effects' <=> "STATE_COMMIT" \notin Elems(todo))
    <3>1. outcome \in Contract!Kept =>
            ("state" \in effects <=> current # "STATE_COMMIT" /\ "STATE_COMMIT" \notin Elems(todo))
      BY <1>1, HeadOf
    <3>2. current = "STATE_COMMIT" => "STATE_COMMIT" \notin Elems(todo)
      BY <1>1, HeadOf
    <3> QED
      BY <3>1, <3>2
  <2> QED
    BY <1>4, <2>1, <2>2, <2>3 DEF CommitsInOrder, Has, Contract!Kept
<1> QED
  BY <1>3, <1>4, <1>5, <1>6, <1>7, <1>8 DEF Rest

\* A phase before the end of the route returns and splices stages in.
LEMMA SplicesIn ==
    ASSUME IInv, status = "RUNNING", running, request' = request, status' = status,
           running' = FALSE, outcome' = outcome, effects' = effects,
           Rank(current) = 0, current # Final(request),
           Flow(request, fresh', todo'), Elems(todo) \subseteq Elems(todo'),
           Reaches(request, todo) => Reaches(request, todo'),
           current \notin Reworks /\ Ready => Ready'
    PROVE  Rest' /\ Ahead' = todo'
<1>1. Live /\ current \in Phases /\ todo \in Seq(Phases) /\ Ahead = <<current>> \o todo
  BY Running
<1>2. Fits(request, fresh, current, todo)
  BY <1>1, HeadOf
<1>3. Ahead' = todo' /\ Live'
  BY <1>1 DEF Ahead, Live
<1>4. FlowsOn'
  BY <1>3 DEF FlowsOn
<1>5. /\ outcome = "none" /\ "STATE_COMMIT" \in Elems(todo) /\ "state" \notin effects
      /\ "OUTPUT" \in Elems(todo)
  <2>1. current # "OUTPUT"
    BY DEF Rank
  <2>2. outcome = "none"
    BY <1>1, HeadOf
  <2> QED
    BY <1>1, <2>1, <2>2, HeadOf
<1>6. ResultComes'
  <2>1. Reaches(request, todo) \/ Ready
    BY <1>1, <1>5, HeadOf
  <2>2. current \in Reworks => Reaches(request, todo)
    BY <1>2 DEF Fits
  <2>3. Reaches(request, todo') \/ Ready'
    BY <2>1, <2>2
  <2> QED
    BY <1>3, <2>3 DEF ResultComes
<1>7. RunsAllowed'
  BY DEF RunsAllowed
<1>8. CommitsInOrder'
  BY <1>3, <1>5 DEF CommitsInOrder, Has, Contract!Kept
<1> QED
  BY <1>3, <1>4, <1>6, <1>7, <1>8 DEF Rest

\* The same phase goes on, or the next one starts.
LEMMA GoesOn ==
    ASSUME IInv, Live, request' = request, status' = "RUNNING", Ahead' = Ahead,
           UNCHANGED <<outcome, terminal, decision, generation, action, fresh, notes>>,
           "state" \in effects' <=> "state" \in effects,
           running' /\ ~(running /\ status = "RUNNING" /\ current' = current) => ~Skipped(current')
    PROVE  Rest'
<1>1. FlowsOn'
  BY DEF FlowsOn, IInv, Live
<1>2. ResultComes'
  BY DEF ResultComes, IInv, Live, Has, Ready, Task
<1>3. RunsAllowed'
  BY DEF RunsAllowed, IInv, Skipped
<1>4. CommitsInOrder'
  BY DEF CommitsInOrder, IInv, Live, Has
<1> QED
  BY <1>1, <1>2, <1>3, <1>4 DEF Rest

\* An execution that has ended.
LEMMA Ended ==
    ASSUME status' \in {"COMPLETED", "FAILED", "CANCELLED"}
    PROVE  Rest'
BY DEF Rest, FlowsOn, ResultComes, RunsAllowed, CommitsInOrder, Live

Own == ResultOfRoute /\ NotesAreKept /\ ReportedResultIsFresh

\* The results of the route are as they were.
LEMMA OwnStays ==
    ASSUME IInv, request' = request, Live' => Live, Live' => Elems(Ahead') \subseteq Elems(Ahead),
           saved' => saved,
           UNCHANGED <<generation, action, fresh, outcome, notes>>, effects \subseteq effects'
    PROVE  Own'
<1>1. ResultOfRoute'
  BY DEF ResultOfRoute, IInv, Task, Full
<1>2. NotesAreKept'
  BY DEF NotesAreKept, IInv
<1>3. ReportedResultIsFresh'
  BY DEF ReportedResultIsFresh, IInv
<1> QED
  BY <1>1, <1>2, <1>3 DEF Own

Kept == Rest /\ Own /\ todo \in Seq(Phases)

\* The engine's own steps.

LEMMA BeginKeeps == ASSUME IInv, Begin PROVE Kept'
<1>1. Live /\ Ahead' = Ahead /\ ~running' /\ status' = "RUNNING"
  BY DEF Begin, Live, Ahead, IInv, RunsAllowed
<1>2. UNCHANGED <<request, todo, outcome, terminal, decision, generation, action, fresh, notes, effects,
                  saved>>
  BY DEF Begin, correction, results, durable
<1>3. Rest'
  BY <1>1, <1>2, GoesOn
<1>4. Own'
  BY <1>1, <1>2, OwnStays
<1> QED
  BY <1>2, <1>3, <1>4 DEF Kept, IInv, TypeOK, Values

LEMMA StartPhaseKeeps == ASSUME IInv, StartPhase PROVE Kept'
<1>1. BetweenPhases /\ todo # <<>> /\ ~Skipped(Head(todo))
  BY DEF StartPhase
<1>2. Live /\ Ahead = <<Head(todo)>> \o Tail(todo) /\ Tail(todo) \in Seq(Phases)
  BY <1>1, Waiting
<1>3. /\ Ahead' = Ahead /\ todo' = Tail(todo) /\ status' = "RUNNING" /\ running'
      /\ current' = Head(todo)
  BY <1>2 DEF StartPhase, Ahead, BetweenPhases
<1>4. UNCHANGED <<request, outcome, terminal, decision, generation, action, fresh, notes, effects, saved>>
  BY DEF StartPhase, correction, results, durable
<1>5. Rest'
  BY <1>1, <1>2, <1>3, <1>4, GoesOn
<1>6. Own'
  BY <1>2, <1>3, <1>4, OwnStays
<1> QED
  BY <1>2, <1>3, <1>5, <1>6 DEF Kept

\* A phase that is skipped is one that only a withheld execution does without.
LEMMA SkipPhaseKeeps == ASSUME IInv, SkipPhase PROVE Kept'
<1> DEFINE p == Head(todo)
           s == Tail(todo)
<1>1. BetweenPhases /\ todo # <<>> /\ Skipped(p)
  BY DEF SkipPhase
<1>2. Live /\ p \in Phases /\ s \in Seq(Phases) /\ Ahead = <<p>> \o s /\ Ahead = todo
  BY <1>1, Waiting
<1>3. todo' = s /\ Ahead' = s /\ Live' /\ status' = "RUNNING" /\ ~running'
  BY DEF SkipPhase, Ahead, Live, BetweenPhases
<1>4. /\ UNCHANGED <<request, outcome, terminal, decision, generation, action, fresh, notes, effects, saved>>
      /\ UNCHANGED <<request, outcome, decision, action, generation>>
  BY DEF SkipPhase, correction, results, durable
<1>5. p \in {"REFLECTION", "ACTION", "ANSWER_GENERATION"}
  BY <1>1 DEF Skipped
<1> HIDE DEF p, s
<1>6. /\ Fits(request, fresh, p, s) /\ Leading(request, After(fresh, p), s)
      /\ Elems(Ahead) = {p} \cup Elems(s)
  BY <1>2, HeadOf
<1>7. After(fresh, p) = fresh /\ Rank(p) = 0
  BY <1>5 DEF After, Remaking, Rank
<1>8. FlowsOn'
  BY <1>3, <1>4, <1>6, <1>7 DEF FlowsOn, Leading
<1>9. ResultComes'
  <2>1. ASSUME "OUTPUT" \in Elems(s) PROVE Reaches(request, s) \/ Ready
    <3>1. p = Final(request) \/ Reaches(request, s) \/ Ready
      BY <1>2, <2>1, HeadOf
    <3>2. p \in Reworks => Reaches(request, s)
      BY <1>6 DEF Fits
    <3>3. p = "REFLECTION" => p \in Reworks
      BY DEF Reworks
    <3>4. p # "REFLECTION" => Ready
      BY <1>1, <1>5 DEF Skipped, Ready
    <3> QED
      BY <3>1, <3>2, <3>3, <3>4
  <2>2. Ready => Ready'
    BY <1>4 DEF Ready, Task
  <2> QED
    BY <1>3, <1>4, <2>1, <2>2 DEF ResultComes, Has
<1>10. RunsAllowed'
  BY <1>3 DEF RunsAllowed
<1>11. CommitsInOrder'
  <2>1. /\ outcome = "none" /\ "STATE_COMMIT" \in Elems(s) /\ "state" \notin effects
        /\ "OUTPUT" \in Elems(s)
    BY <1>2, <1>5, <1>7, HeadOf
  <2> QED
    BY <1>3, <1>4, <2>1 DEF CommitsInOrder, Has, Contract!Kept
<1>12. Own'
  <2>1. Elems(Ahead') \subseteq Elems(Ahead)
    BY <1>3, <1>6
  <2> QED
    BY <1>2, <1>4, <2>1, OwnStays
<1> QED
  BY <1>2, <1>3, <1>8, <1>9, <1>10, <1>11, <1>12 DEF Kept, Rest

\* Steps that end the execution.
LEMMA EndKeeps ==
    ASSUME IInv, status' \in {"COMPLETED", "FAILED", "CANCELLED"}, saved' => saved,
           UNCHANGED <<request, todo, generation, action, fresh, outcome, notes, effects>>
    PROVE  Kept'
<1>1. ~Live'
  BY DEF Live
<1>2. Own'
  BY <1>1, OwnStays
<1>3. Rest'
  BY Ended
<1> QED
  BY <1>2, <1>3 DEF Kept, IInv, TypeOK, Values

LEMMA StopsKeep ==
    ASSUME IInv, StopCancelled \/ Finish \/ TaskCancelled PROVE Kept'
<1>1. /\ status' \in {"COMPLETED", "FAILED", "CANCELLED"}
      /\ UNCHANGED <<request, todo, generation, action, fresh, outcome, notes, effects, saved>>
  BY DEF StopCancelled, Finish, TaskCancelled, correction, results, durable
<1> QED
  BY <1>1, EndKeeps

\* Steps around a phase: nothing that is ahead changes.
LEMMA AroundKeeps ==
    ASSUME IInv, status = "RUNNING", status' = "RUNNING",
           UNCHANGED <<request, todo, current, running, outcome, terminal, decision, generation, action,
                       fresh, notes, effects>>,
           saved' => saved
    PROVE  Kept'
<1>1. Live /\ Ahead' = Ahead
  BY DEF Live, Ahead
<1>2. Rest'
  BY <1>1, GoesOn
<1>3. Own'
  BY <1>1, OwnStays
<1> QED
  BY <1>2, <1>3 DEF Kept, IInv, TypeOK, Values

LEMMA PhaseRaisesKeeps == ASSUME IInv, PhaseRaises PROVE Kept'
<1>1. /\ UNCHANGED <<request, todo, current, outcome, terminal, decision, generation, action, fresh,
                     notes, effects>>
      /\ status = "RUNNING" /\ saved' = FALSE
  BY DEF PhaseRaises, correction, results
<1>2. CASE status' = status /\ running' = running
  BY <1>1, <1>2, AroundKeeps
<1>3. CASE status' = "FAILED"
  BY <1>1, <1>3, EndKeeps
<1> QED
  BY <1>2, <1>3 DEF PhaseRaises

LEMMA AsideKeeps == ASSUME IInv, RequestCancel \/ OtherCommits PROVE Kept'
<1>1. /\ status = "RUNNING" /\ status' = "RUNNING"
      /\ UNCHANGED <<request, todo, current, running, outcome, terminal, decision, generation, action,
                     fresh, notes, effects, saved>>
  BY DEF RequestCancel, OtherCommits, engine, correction, results, durable
<1> QED
  BY <1>1, AroundKeeps

-----------------------------------------------------------------------------
(* Phases that return what the execution already has. *)

LEMMA NowRunning ==
    ASSUME IInv, NEW p, In(p)
    PROVE  /\ status = "RUNNING" /\ running /\ current = p /\ p \in Phases
           /\ Live /\ todo \in Seq(Phases) /\ Ahead = <<p>> \o todo
           /\ Fits(request, fresh, p, todo) /\ Leading(request, After(fresh, p), todo)
           /\ Elems(Ahead) = {p} \cup Elems(todo)
<1>1. status = "RUNNING" /\ running /\ current = p
  BY DEF In
<1>2. Live /\ p \in Phases /\ todo \in Seq(Phases) /\ Ahead = <<p>> \o todo
  BY <1>1, Running
<1> QED
  BY <1>1, <1>2, HeadOf

LEMMA Returned ==
    ASSUME todo \in Seq(Phases), Return(<<>>)
    PROVE  todo' = todo /\ ~running' /\ UNCHANGED <<request, status, current, cancelled>>
BY DEF Return

Quiet ==
    {"STATE_LOAD", "AFFECT", "WORLD_SIMULATION", "UNCERTAINTY_ESTIMATION", "REFLECTION",
     "OUTPUT_VALIDATION", "MEMORY_COMMIT", "MAINTENANCE_ENQUEUE"}

LEMMA QuietKeeps ==
    ASSUME IInv, NEW p \in Quiet, In(p), Return(<<>>), saved' => saved,
           UNCHANGED <<decision, generation, action, fresh, terminal, outcome, notes, effects>>
    PROVE  Kept'
<1>1. /\ status = "RUNNING" /\ running /\ current = p /\ p \in Phases
      /\ Live /\ todo \in Seq(Phases) /\ Elems(Ahead) = {p} \cup Elems(todo)
  BY NowRunning
<1>2. /\ After(fresh, p) \subseteq fresh
      /\ p # "OUTPUT" /\ p # "STATE_COMMIT" /\ p # Final(request)
  BY DEF After, Quiet, Final
<1>3. todo' = todo /\ request' = request
  BY <1>1, Returned
<1>4. Ready => Ready'
  BY <1>3 DEF Ready, Task
<1>5. Rest' /\ Ahead' = todo
  BY <1>1, <1>2, <1>3, <1>4, PassesOn
<1>6. Own'
  <2>1. Elems(Ahead') \subseteq Elems(Ahead)
    BY <1>1, <1>5
  <2> QED
    BY <1>1, <1>3, <2>1, OwnStays
<1> QED
  BY <1>1, <1>3, <1>5, <1>6 DEF Kept

LEMMA QuietPhases ==
    ASSUME IInv, LoadState \/ Analyse \/ RememberNothing \/ EnqueueReturns
    PROVE  Kept'
<1>1. /\ Return(<<>>) /\ saved' = saved
      /\ UNCHANGED <<decision, generation, action, fresh, terminal, outcome, notes, effects>>
  BY DEF LoadState, Analyse, RememberNothing, EnqueueReturns, CarryOn, correction, results, durable
<1>2. \E p \in Quiet : In(p)
  BY DEF LoadState, Analyse, RememberNothing, EnqueueReturns, Quiet
<1> QED
  BY <1>1, <1>2, QuietKeeps

\* While something is still reworked nothing is shaped, and no tool request is answered.
LEMMA ReworkingOwn ==
    ASSUME IInv, NEW p \in Reworks, In(p), UNCHANGED <<request, saved>>,
           UNCHANGED <<generation, action, outcome, notes, effects>>
    PROVE  Own'
<1>1. Live /\ Ahead = <<p>> \o todo /\ p \in Phases /\ todo \in Seq(Phases)
  BY NowRunning
<1>2. ~(Task = "tool_request" /\ generation # "none")
  BY <1>1, HeadOf
<1>3. outcome = "none"
  <2>1. outcome # "none" => Rank(p) > 1
    BY <1>1, HeadOf
  <2>2. Rank(p) = 0
    BY DEF Rank, Reworks, Remaking
  <2> QED
    BY <2>1, <2>2
<1>4. ResultOfRoute'
  BY <1>2 DEF ResultOfRoute, IInv, Task, Full
<1>5. NotesAreKept'
  BY DEF NotesAreKept, IInv
<1>6. ReportedResultIsFresh'
  BY <1>3 DEF ReportedResultIsFresh
<1> QED
  BY <1>4, <1>5, <1>6 DEF Own

\* Evidence and plans make the results before them out of date.
LEMMA RemakingKeeps == ASSUME IInv, AcquireEvidence \/ MakePlan PROVE Kept'
<1>1. PICK p \in Remaking : In(p)
  BY DEF AcquireEvidence, MakePlan, Remaking
<1>2. /\ Return(<<>>) /\ fresh' = {}
      /\ UNCHANGED <<decision, generation, action, terminal, outcome, notes, effects, saved>>
  BY DEF AcquireEvidence, MakePlan, CarryOn, correction, durable
<1>3. /\ status = "RUNNING" /\ running /\ current = p /\ p \in Phases
      /\ Live /\ todo \in Seq(Phases) /\ Ahead = <<p>> \o todo
      /\ Elems(Ahead) = {p} \cup Elems(todo)
  BY <1>1, NowRunning
<1>4. After(fresh, p) = {} /\ p # "OUTPUT" /\ p # "STATE_COMMIT" /\ p \in Reworks /\ Rank(p) = 0
  BY <1>1 DEF After, Remaking, Reworks, Rank
<1>5. todo' = todo /\ request' = request
  BY <1>2, <1>3, Returned
<1>6. Rest' /\ Ahead' = todo
  BY <1>2, <1>3, <1>4, PassesOn
<1>7. Own'
  BY <1>1, <1>2, <1>4, <1>5, ReworkingOwn
<1> QED
  BY <1>3, <1>5, <1>6, <1>7 DEF Kept

\* A judgement is fresh; the gate may first ask for more evidence.
LEMMA DecideKeeps == ASSUME IInv, Decide PROVE Kept'
<1> DEFINE p == "EXECUTION_DECISION"
           again == <<"EVIDENCE_ACQUISITION">> \o Judging
<1>1. /\ In(p) /\ fresh' = fresh \cup {"judgement"}
      /\ UNCHANGED <<generation, action, outcome, notes, effects, saved>>
      /\ Return(again) \/ Return(<<>>)
  BY DEF Decide, durable
<1>2. /\ status = "RUNNING" /\ running /\ current = p /\ p \in Phases
      /\ Live /\ todo \in Seq(Phases)
      /\ Fits(request, fresh, p, todo) /\ Leading(request, After(fresh, p), todo)
  BY <1>1, NowRunning
<1>3. /\ After(fresh, p) = fresh' /\ p # "OUTPUT" /\ p # "STATE_COMMIT"
      /\ p \in Reworks /\ Rank(p) = 0 /\ p # Final(request)
  BY <1>1 DEF After, Reworks, Rank, Final
<1>4. /\ request' = request /\ status' = status /\ ~running' /\ running' = FALSE
  BY <1>1 DEF Return
<1>5. Own'
  BY <1>1, <1>3, <1>4, ReworkingOwn
<1>6. CASE Return(<<>>)
  <2>1. Rest' /\ todo' = todo
    BY <1>1, <1>2, <1>3, <1>6, PassesOn
  <2> QED
    BY <1>2, <1>5, <2>1 DEF Kept
<1>7. CASE Return(again)
  <2> DEFINE t == Judging \o todo
             u == <<"EVIDENCE_ACQUISITION">> \o t
  <2>1. todo' = u
    <3>1. Regroups(<<"EVIDENCE_ACQUISITION">>, Judging, <<"REFLECTION">>, <<>>, todo)
      BY <1>2, SpliceApart, StageLists
    <3>2. todo' = again \o todo
      BY <1>7 DEF Return
    <3> QED
      BY <3>1, <3>2 DEF Regroups
  <2>2. Reaches(request, todo) /\ Full(request) /\ Routes[request].task \notin PlainTasks
    <3>1. Reaches(request, todo) /\ p \in Allowed(request)
      BY <1>2, <1>3 DEF Fits
    <3> QED
      BY <3>1, AllowedPhases
  <2>3. PICK g : g = fresh'
    OBVIOUS
  <2>4. Leading(request, {}, t) /\ Elems(todo) \subseteq Elems(t) /\ Reaches(request, t)
    BY <1>2, <2>2, SpliceJudging
  <2> HIDE DEF t
  <2>5. Leading(request, g, u) /\ Elems(t) \subseteq Elems(u) /\ Reaches(request, u)
    BY <2>2, <2>4, SpliceEvidence
  <2> HIDE DEF u
  <2>6. PICK v : v = todo'
    OBVIOUS
  <2>7. Flow(request, g, v) /\ Elems(todo) \subseteq Elems(v) /\ Reaches(request, v) /\ v \in Seq(Phases)
    BY <2>1, <2>4, <2>5, <2>6 DEF Leading
  <2>8. Rest'
    BY <1>1, <1>2, <1>3, <1>4, <2>3, <2>6, <2>7, SplicesIn
  <2> QED
    BY <1>5, <2>6, <2>7, <2>8 DEF Kept
<1> QED
  BY <1>1, <1>6, <1>7

\* The advisor: an accepted correction splices its stages in.
LEMMA ReflectKeeps == ASSUME IInv, Reflect PROVE Kept'
<1> DEFINE p == "REFLECTION"
<1>1. /\ In(p)
      /\ UNCHANGED <<decision, generation, action, fresh, outcome, notes, effects, saved>>
  BY DEF Reflect, results, durable
<1>2. /\ status = "RUNNING" /\ running /\ current = p /\ p \in Phases
      /\ Live /\ todo \in Seq(Phases)
      /\ Fits(request, fresh, p, todo) /\ Leading(request, After(fresh, p), todo)
  BY <1>1, NowRunning
<1>3. /\ p \in Quiet /\ p \in Acting /\ p \in Reworks /\ p # Final(request)
      /\ After(fresh, p) = fresh /\ Rank(p) = 0
  BY DEF Quiet, Acting, Reworks, Final, After, Remaking, Rank
<1>4. CASE CarryOn
  <2>1. Return(<<>>) /\ terminal' = terminal
    BY <1>4 DEF CarryOn, correction
  <2> QED
    BY <1>1, <1>3, <2>1, QuietKeeps
<1>5. ASSUME NEW advised \in Advisable, NEW candidate, Correct(advised, candidate, FALSE)
      PROVE  Kept'
  <2>1. advised \in AdviceActions
    BY ConstantsAssumption
  <2>2. /\ Reaches(request, todo) /\ Elems(todo) \cap Reworks = {} /\ p \in Allowed(request)
        /\ Leading(request, fresh, todo)
    BY <1>2, <1>3 DEF Fits
  <2>3. Full(request) /\ Task \notin PlainTasks
    BY <2>2, AllowedPhases DEF Task
  <2>4. "judgement" \in fresh
    BY <1>2, <1>3, <2>3 DEF Fits
  <2>5. PICK t : t = Stages(advised, FALSE) \o todo
    OBVIOUS
  <2>6. Leading(request, fresh, t) /\ Elems(todo) \subseteq Elems(t) /\ Reaches(request, t)
    BY <2>1, <2>2, <2>3, <2>4, <2>5, PreStages
  <2>7. Return(Stages(advised, FALSE))
    BY <1>5 DEF Correct
  <2>8. todo' = t /\ request' = request /\ status' = status /\ ~running' /\ running' = FALSE
    BY <2>5, <2>7 DEF Return
  <2>9. Rest'
    <3>1. Flow(request, fresh, t) /\ t \in Seq(Phases)
      BY <2>6 DEF Leading
    <3> QED
      BY <1>1, <1>2, <1>3, <2>6, <2>8, <3>1, SplicesIn
  <2>10. Own'
    BY <1>1, <1>3, <2>8, ReworkingOwn
  <2> QED
    BY <2>6, <2>8, <2>9, <2>10 DEF Kept, Leading
<1> QED
  BY <1>4, <1>5 DEF Reflect

\* A signal of the validation, or none.
LEMMA ValidateKeeps == ASSUME IInv, ValidateOutput PROVE Kept'
<1> DEFINE p == "OUTPUT_VALIDATION"
<1>1. /\ In(p)
      /\ UNCHANGED <<decision, generation, action, fresh, outcome, notes, effects, saved>>
  BY DEF ValidateOutput, results, durable
<1>2. /\ status = "RUNNING" /\ running /\ current = p /\ p \in Phases
      /\ Live /\ todo \in Seq(Phases)
      /\ Fits(request, fresh, p, todo) /\ Leading(request, After(fresh, p), todo)
      /\ Elems(Ahead) = {p} \cup Elems(todo)
  BY <1>1, NowRunning
<1>3. /\ p \in Quiet /\ p \in Acting /\ p \notin Reworks /\ p # Final(request)
      /\ After(fresh, p) = fresh /\ Rank(p) = 0
  BY DEF Quiet, Acting, Reworks, Final, After, Remaking, Rank
<1>4. CASE CarryOn
  <2>1. Return(<<>>) /\ terminal' = terminal
    BY <1>4 DEF CarryOn, correction
  <2> QED
    BY <1>1, <1>3, <2>1, QuietKeeps
<1>5. CASE Signal[1] # "NO_ACTION" /\ Correct(Signal[1], Signal[2], TRUE)
  <2>1. /\ Elems(todo) \cap Reworks = {} /\ p \in Allowed(request)
        /\ Leading(request, fresh, todo)
        /\ Full(request) => "judgement" \in fresh
    BY <1>2, <1>3 DEF Fits
  <2>2. Task \notin PlainTasks
    BY <2>1, AllowedPhases DEF Task
  <2>3. request \in DOMAIN Routes /\ action # "none" => Full(request)
    BY RequestHasRoute DEF IInv, ResultOfRoute
  <2>4. PICK t : t = Stages(Signal[1], TRUE) \o todo
    OBVIOUS
  <2>5. /\ Leading(request, fresh, t) /\ Elems(todo) \subseteq Elems(t)
        /\ Reaches(request, todo) => Reaches(request, t)
        /\ Task = "tool_request" => Elems(t) \cap Reworks = {}
    BY <1>5, <2>1, <2>2, <2>3, <2>4, RequestHasRoute, PostStages DEF IInv
  <2>6. Return(Stages(Signal[1], TRUE)) /\ (terminal # "none" => terminal' # "none")
    BY <1>5 DEF Correct
  <2>7. todo' = t /\ request' = request /\ status' = status /\ ~running' /\ running' = FALSE
    BY <2>4, <2>6 DEF Return
  <2>8. Ready => Ready'
    BY <1>1, <2>6, <2>7 DEF Ready, Task
  <2>9. Rest' /\ Ahead' = t
    <3>1. Flow(request, fresh, t) /\ t \in Seq(Phases)
      BY <2>5 DEF Leading
    <3> QED
      BY <1>1, <1>2, <1>3, <2>5, <2>7, <2>8, <3>1, SplicesIn
  <2>10. ResultOfRoute'
    BY <1>1, <2>5, <2>7, <2>9, <1>2 DEF ResultOfRoute, IInv, Task, Full
  <2>11. NotesAreKept' /\ ReportedResultIsFresh'
    BY <1>1 DEF NotesAreKept, ReportedResultIsFresh, IInv
  <2> QED
    BY <2>5, <2>7, <2>9, <2>10, <2>11 DEF Kept, Leading, Own
<1> QED
  BY <1>4, <1>5 DEF ValidateOutput

-----------------------------------------------------------------------------
(* Phases that produce a result. *)

LEMMA ActKeeps == ASSUME IInv, Act PROVE Kept'
<1> DEFINE p == "ACTION"
<1>1. /\ In(p) /\ Return(<<>>) /\ action' # "none" /\ fresh' = fresh \cup {"action"}
      /\ UNCHANGED <<decision, generation, terminal, outcome, notes, effects, saved>>
  BY DEF Act, CarryOn, correction, durable
<1>2. /\ status = "RUNNING" /\ running /\ current = p /\ p \in Phases
      /\ Live /\ todo \in Seq(Phases) /\ Ahead = <<p>> \o todo
      /\ Fits(request, fresh, p, todo)
  BY <1>1, NowRunning
<1>3. After(fresh, p) = fresh /\ p # "OUTPUT" /\ p # "STATE_COMMIT"
  BY DEF After, Remaking
<1>4. Full(request) /\ Task \notin PlainTasks
  BY <1>2, AllowedPhases DEF Fits, Task
<1>5. todo' = todo /\ request' = request
  BY <1>1, <1>2, Returned
<1>6. Ready \/ p = Final(request) => Ready'
  BY <1>1, <1>5 DEF Ready, Task, Final
<1>7. Rest' /\ Ahead' = todo
  BY <1>1, <1>2, <1>3, <1>5, <1>6, PassesOn
<1>8. ResultOfRoute'
  <2>1. Task = "tool_request" /\ generation # "none" =>
          "answer" \in fresh' /\ Elems(todo) \cap Reworks = {}
    BY <1>1, <1>2, HeadOf
  <2> QED
    BY <1>1, <1>4, <1>5, <1>7, <2>1 DEF ResultOfRoute, Task, Full
<1>9. NotesAreKept' /\ ReportedResultIsFresh'
  BY <1>1 DEF NotesAreKept, ReportedResultIsFresh, IInv
<1> QED
  BY <1>2, <1>5, <1>7, <1>8, <1>9 DEF Kept, Own

LEMMA GenerateKeeps == ASSUME IInv, Generate PROVE Kept'
<1> DEFINE p == "ANSWER_GENERATION"
<1>1. /\ In(p) /\ Return(<<>>) /\ generation' # "none" /\ fresh' = fresh \cup {"answer"}
      /\ UNCHANGED <<decision, action, terminal, outcome, notes, effects, saved>>
  BY DEF Generate, Generations, durable
<1>2. /\ status = "RUNNING" /\ running /\ current = p /\ p \in Phases
      /\ Live /\ todo \in Seq(Phases) /\ Ahead = <<p>> \o todo
      /\ Fits(request, fresh, p, todo)
  BY <1>1, NowRunning
<1>3. After(fresh, p) = fresh /\ p # "OUTPUT" /\ p # "STATE_COMMIT" /\ p \in Acting
  BY DEF After, Remaking, Acting
<1>4. Task \notin PlainTasks
  BY <1>2, AllowedPhases DEF Fits, Task
<1>5. todo' = todo /\ request' = request
  BY <1>1, <1>2, Returned
<1>6. Ready \/ p = Final(request) => Ready'
  BY <1>1, <1>5 DEF Ready, Task, Final
<1>7. Rest' /\ Ahead' = todo
  BY <1>1, <1>2, <1>3, <1>5, <1>6, PassesOn
<1>8. ResultOfRoute'
  <2>1. Elems(todo) \cap Reworks = {}
    BY <1>2, <1>3 DEF Fits
  <2> QED
    BY <1>1, <1>4, <1>5, <1>7, <2>1 DEF ResultOfRoute, IInv, Task, Full
<1>9. NotesAreKept' /\ ReportedResultIsFresh'
  BY <1>1 DEF NotesAreKept, ReportedResultIsFresh, IInv
<1> QED
  BY <1>2, <1>5, <1>7, <1>8, <1>9 DEF Kept, Own

LEMMA IngestKeeps == ASSUME IInv, IngestDocument PROVE Kept'
<1> DEFINE p == "DOCUMENT_INGESTION"
<1>1. /\ In(p) /\ Return(<<>>)
      /\ notes' = notes \cup {"document"} /\ effects' = effects \cup {"document"}
      /\ UNCHANGED <<decision, generation, action, fresh, terminal, outcome, saved>>
  BY DEF IngestDocument, CarryOn, correction, results
<1>2. /\ status = "RUNNING" /\ running /\ current = p /\ p \in Phases
      /\ Live /\ todo \in Seq(Phases) /\ Ahead = <<p>> \o todo
      /\ Fits(request, fresh, p, todo) /\ Elems(Ahead) = {p} \cup Elems(todo)
  BY <1>1, NowRunning
<1>3. After(fresh, p) = fresh /\ p # "OUTPUT" /\ p # "STATE_COMMIT"
  BY DEF After, Remaking
<1>4. todo' = todo /\ request' = request
  BY <1>1, <1>2, Returned
<1>5. Final(request) = p
  <2>1. Task \in PlainTasks
    BY <1>2, AllowedPhases DEF Fits, Task
  <2> QED
    BY <2>1, RequestHasRoute DEF IInv
<1>6. Ready'
  BY <1>1, <1>4, <1>5 DEF Ready, Task
<1>7. Rest' /\ Ahead' = todo
  BY <1>1, <1>2, <1>3, <1>4, <1>6, PassesOn
<1>8. ResultOfRoute'
  BY <1>1, <1>2, <1>4, <1>7 DEF ResultOfRoute, IInv, Task, Full
<1>9. NotesAreKept'
  BY <1>1 DEF NotesAreKept, Contract!Notes, IInv
<1>10. ReportedResultIsFresh'
  BY <1>1 DEF ReportedResultIsFresh, IInv
<1> QED
  BY <1>2, <1>4, <1>7, <1>8, <1>9, <1>10 DEF Kept, Own

\* Where a result is shaped there is one, and it is not out of date.
LEMMA ShapesResult ==
    ASSUME IInv, In("OUTPUT")
    PROVE  /\ Shaped \in Outcomes
           /\ Shaped = "answered" => "answer" \in fresh
           /\ Shaped = "actioned" => "action" \in fresh
<1>1. /\ Live /\ Ahead = <<"OUTPUT">> \o todo /\ "OUTPUT" \in Phases /\ todo \in Seq(Phases)
  BY NowRunning
<1>2. Ready
  BY <1>1, HeadOf
<1>3. CASE terminal # "none" \/ decision \in Withheld
  <2>1. Shaped = "abstained"
    BY <1>3 DEF Shaped
  <2> QED
    BY <2>1 DEF Outcomes
<1>4. CASE ~(terminal # "none" \/ decision \in Withheld)
  <2>1. Task \in Conversing \cup PlainTasks
    BY RequestHasRoute DEF IInv
  <2>2. CASE generation # "none"
    <3>1. Shaped = IF generation = "uncited" THEN "answered" ELSE generation
      BY <1>4, <2>2 DEF Shaped
    <3>2. generation \in {"answered", "uncited", "abstained", "failed"}
      BY <2>2 DEF IInv, TypeOK, Values
    <3>3. "answer" \in fresh
      <4>1. CASE Task = "tool_request"
        BY <1>1, <2>2, <4>1, HeadOf
      <4>2. CASE Task \in Conversing /\ Task # "tool_request"
        <5>1. Final(request) = "ANSWER_GENERATION"
          BY <4>2, RequestHasRoute DEF IInv
        <5> QED
          BY <1>2, <1>4, <5>1 DEF Ready
      <4>3. Task \notin PlainTasks
        BY <2>2 DEF IInv, ResultOfRoute
      <4> QED
        BY <2>1, <4>1, <4>2, <4>3
    <3> QED
      BY <3>1, <3>2, <3>3 DEF Outcomes
  <2>3. CASE generation = "none" /\ Task \in PlainTasks
    <3>1. Final(request) = "DOCUMENT_INGESTION"
      BY <2>3, RequestHasRoute DEF IInv
    <3>2. Task = "document_ingestion" => "document" \in notes
      BY <1>2, <1>4, <3>1 DEF Ready
    <3>3. Shaped \in {"ingested", "classified"}
      BY <1>4, <2>3, <3>2 DEF Shaped, PlainTasks
    <3> QED
      BY <3>3 DEF Outcomes
  <2>4. CASE generation = "none" /\ Task \in Conversing
    <3>1. Final(request) = IF Task = "tool_request" THEN "ACTION" ELSE "ANSWER_GENERATION"
      BY <2>4, RequestHasRoute DEF IInv
    <3>2. action # "none" /\ "action" \in fresh
      BY <1>2, <1>4, <2>4, <3>1 DEF Ready
    <3>3. Shaped \in {"ingested", "classified", "actioned"}
      BY <1>4, <2>4, <3>2 DEF Shaped
    <3> QED
      BY <3>2, <3>3 DEF Outcomes
  <2> QED
    BY <2>1, <2>2, <2>3, <2>4
<1> QED
  BY <1>3, <1>4

LEMMA ShapeKeeps == ASSUME IInv, ShapeOutput PROVE Kept'
<1> DEFINE p == "OUTPUT"
<1>1. /\ In(p) /\ Return(<<>>) /\ outcome' = Shaped
      /\ UNCHANGED <<decision, generation, action, fresh, terminal, notes, effects, saved>>
  BY DEF ShapeOutput, CarryOn, correction, results
<1>2. /\ Live /\ todo \in Seq(Phases) /\ p \in Phases /\ Ahead = <<p>> \o todo
      /\ Leading(request, After(fresh, p), todo) /\ Elems(Ahead) = {p} \cup Elems(todo)
  BY <1>1, NowRunning
<1>3. todo' = todo /\ request' = request /\ ~running' /\ Ahead' = todo
  BY <1>1, <1>2, Returned DEF Ahead
<1>4. /\ outcome = "none" /\ \A q \in Elems(todo) : Rank(q) > 1
      /\ "STATE_COMMIT" \in Elems(todo) /\ "state" \notin effects
  BY <1>2, HeadOf
<1>5. FlowsOn'
  <2>1. After(fresh, p) = fresh
    BY DEF After, Remaking
  <2> QED
    BY <1>1, <1>2, <1>3, <2>1 DEF FlowsOn, Leading
<1>6. ResultComes' /\ RunsAllowed'
  <2>1. Rank(p) = 1
    BY DEF Rank
  <2>2. p \notin Elems(todo)
    BY <1>4, <2>1
  <2> QED
    BY <1>3, <2>2 DEF ResultComes, Has, RunsAllowed
<1>7. outcome' # "none"
  BY <1>1, ShapesResult DEF Outcomes
<1>8. CommitsInOrder'
  BY <1>1, <1>3, <1>4, <1>7 DEF CommitsInOrder, Has
<1>9. ResultOfRoute'
  BY <1>1, <1>2, <1>3 DEF ResultOfRoute, IInv, Task, Full
<1>10. NotesAreKept'
  BY <1>1, <1>4 DEF NotesAreKept, IInv, Contract!Remembered, Contract!Kept
<1>11. ReportedResultIsFresh'
  BY <1>1, ShapesResult DEF ReportedResultIsFresh
<1> QED
  BY <1>2, <1>3, <1>5, <1>6, <1>8, <1>9, <1>10, <1>11 DEF Kept, Rest, Own

-----------------------------------------------------------------------------
(* What the execution leaves behind. *)

LEMMA CommitKeeps == ASSUME IInv, CommitState PROVE Kept'
<1> DEFINE p == "STATE_COMMIT"
<1>1. /\ In(p) /\ Return(<<>>) /\ effects \subseteq effects'
      /\ outcome = "failed" \/ "state" \in effects'
      /\ UNCHANGED <<decision, generation, action, fresh, terminal, outcome, notes, saved>>
  BY DEF CommitState, CarryOn, correction, results
<1>2. /\ status = "RUNNING" /\ running /\ current = p /\ p \in Phases
      /\ Live /\ todo \in Seq(Phases) /\ Elems(Ahead) = {p} \cup Elems(todo)
  BY <1>1, NowRunning
<1>3. After(fresh, p) = fresh /\ p # "OUTPUT" /\ p # Final(request)
  BY DEF After, Remaking, Final
<1>4. todo' = todo /\ request' = request
  BY <1>1, <1>2, Returned
<1>5. Ready => Ready'
  BY <1>1, <1>4 DEF Ready, Task
<1>6. outcome \in Contract!Kept => "state" \in effects'
  BY <1>1 DEF Contract!Kept
<1>7. Rest' /\ Ahead' = todo
  BY <1>1, <1>2, <1>3, <1>4, <1>5, <1>6, PassesOn
<1>8. Own'
  <2>1. Elems(Ahead') \subseteq Elems(Ahead)
    BY <1>2, <1>7
  <2> QED
    BY <1>1, <1>2, <1>4, <2>1, OwnStays
<1> QED
  BY <1>2, <1>4, <1>7, <1>8 DEF Kept

\* Memory is committed only for an outcome that was shaped and whose state is committed.
LEMMA RemembersAfterCommit ==
    ASSUME IInv, In("MEMORY_COMMIT"), outcome \notin {"failed", "abstained"}
    PROVE  outcome \in Contract!Remembered /\ "state" \in effects
<1> DEFINE p == "MEMORY_COMMIT"
<1>1. /\ Live /\ p \in Phases /\ todo \in Seq(Phases) /\ Ahead = <<p>> \o todo
      /\ Fits(request, fresh, p, todo)
  BY NowRunning
<1>2. Rank(p) = 3 /\ Rank("STATE_COMMIT") = 2
  BY DEF Rank
<1>3. outcome # "none"
  BY <1>1, <1>2, HeadOf
<1>4. outcome \in Contract!Remembered
  BY <1>3 DEF IInv, TypeOK, Values, Outcomes, Contract!Remembered, Contract!Kept
<1>5. "STATE_COMMIT" \notin Elems(todo)
  <2>1. \A q \in Elems(todo) : Rank(q) > 3
    BY <1>1, <1>2 DEF Fits
  <2> QED
    BY <1>2, <2>1
<1>6. "state" \in effects
  <2>1. outcome \in Contract!Kept
    BY <1>4 DEF Contract!Remembered
  <2> QED
    BY <1>1, <1>5, <2>1, HeadOf
<1> QED
  BY <1>4, <1>6

\* The notes of a memory commit.
LEMMA RemembersKeep ==
    ASSUME IInv, In("MEMORY_COMMIT"), Return(<<>>), saved' => saved,
           UNCHANGED <<decision, generation, action, fresh, terminal, outcome>>,
           notes' \subseteq Contract!Notes \cap effects', effects \subseteq effects',
           "state" \in effects' <=> "state" \in effects
    PROVE  Kept'
<1> DEFINE p == "MEMORY_COMMIT"
<1>1. /\ status = "RUNNING" /\ running /\ current = p /\ p \in Phases
      /\ Live /\ todo \in Seq(Phases) /\ Fits(request, fresh, p, todo)
      /\ Elems(Ahead) = {p} \cup Elems(todo)
  BY NowRunning
<1>2. After(fresh, p) = fresh /\ p # "OUTPUT" /\ p # "STATE_COMMIT"
  BY DEF After, Remaking
<1>3. "OUTPUT" \notin Elems(todo)
  <2>1. Rank(p) = 3 /\ Rank("OUTPUT") = 1
    BY DEF Rank
  <2>2. \A q \in Elems(todo) : Rank(q) > 3
    BY <1>1, <2>1 DEF Fits
  <2> QED
    BY <2>1, <2>2
<1>4. todo' = todo /\ request' = request
  BY <1>1, Returned
<1>5. Rest' /\ Ahead' = todo
  BY <1>1, <1>2, <1>3, <1>4, PassesOn
<1>6. ResultOfRoute'
  BY <1>1, <1>4, <1>5 DEF ResultOfRoute, IInv, Task, Full
<1>7. NotesAreKept'
  BY DEF NotesAreKept, IInv, Contract!Notes
<1>8. ReportedResultIsFresh'
  BY DEF ReportedResultIsFresh, IInv
<1> QED
  BY <1>1, <1>4, <1>5, <1>6, <1>7, <1>8 DEF Kept, Own

LEMMA RememberProcedureKeeps == ASSUME IInv, RememberProcedure PROVE Kept'
<1>1. /\ In("MEMORY_COMMIT") /\ Return(<<>>) /\ saved' = saved
      /\ UNCHANGED <<decision, generation, action, fresh, terminal, outcome>>
      /\ notes' = {"procedure"} /\ effects' = effects \cup {"procedure"}
  BY DEF RememberProcedure, CarryOn, correction, results
<1>2. /\ notes' \subseteq Contract!Notes \cap effects'
      /\ effects \subseteq effects' /\ ("state" \in effects' <=> "state" \in effects)
  BY <1>1 DEF Contract!Notes
<1> QED
  BY <1>1, <1>2, RemembersKeep

LEMMA RememberExchangeKeeps == ASSUME IInv, RememberExchange PROVE Kept'
<1>1. /\ In("MEMORY_COMMIT") /\ Return(<<>>) /\ ~saved'
      /\ UNCHANGED <<decision, generation, action, fresh, terminal, outcome>>
      /\ notes' \subseteq {"user", "assistant"} /\ effects' = effects \cup notes'
  BY DEF RememberExchange, CarryOn, correction, results
<1>2. /\ notes' \subseteq Contract!Notes \cap effects'
      /\ effects \subseteq effects' /\ ("state" \in effects' <=> "state" \in effects)
  BY <1>1 DEF Contract!Notes
<1> QED
  BY <1>1, <1>2, RemembersKeep

\* The user note, or one maintenance event: the phase goes on.
LEMMA LeavesKeep == ASSUME IInv, RememberUser \/ EnqueueMaintenance PROVE Kept'
<1>1. /\ status = "RUNNING" /\ running
      /\ UNCHANGED <<request, status, todo, current, running, decision, generation, action, fresh,
                     terminal, outcome, notes>>
      /\ effects' \in {effects \cup {"user"}, effects \cup {"maintenance"}}
      /\ saved' => saved \/ "user" \in effects'
  BY DEF RememberUser, EnqueueMaintenance, In, engine, correction, results
<1>2. Live /\ Ahead' = Ahead
  BY <1>1 DEF Live, Ahead
<1>3. effects \subseteq effects' /\ ("state" \in effects' <=> "state" \in effects)
  BY <1>1
<1>4. Rest'
  BY <1>1, <1>2, <1>3, GoesOn
<1>5. ResultOfRoute'
  BY <1>1, <1>2 DEF ResultOfRoute, IInv, Task, Full, Live
<1>6. NotesAreKept'
  <2>1. saved' /\ ~saved => outcome \in Contract!Remembered
    BY RemembersAfterCommit DEF RememberUser, EnqueueMaintenance
  <2> QED
    BY <1>1, <1>3, <2>1 DEF NotesAreKept, IInv, Contract!Remembered, Contract!Kept
<1>7. ReportedResultIsFresh'
  BY <1>1 DEF ReportedResultIsFresh, IInv
<1> QED
  BY <1>1, <1>4, <1>5, <1>6, <1>7 DEF Kept, Own, IInv, TypeOK, Values

-----------------------------------------------------------------------------
(* The types. *)

LEMMA SpentStays ==
    ASSUME Values, NEW advised, NEW candidate, Acceptable(advised, candidate)
    PROVE  Consumed(advised) \in [interventions : 0..MaxInterventions,
                                  retrievals : 0..MaxRetrievalRetries, replans : 0..MaxReplans,
                                  gate : 0..GateRetries, generations : Nat]
<1>1. /\ spent \in [interventions : 0..MaxInterventions, retrievals : 0..MaxRetrievalRetries,
                    replans : 0..MaxReplans, gate : 0..GateRetries, generations : Nat]
      /\ {MaxInterventions, MaxRetrievalRetries, MaxReplans, GateRetries} \subseteq Nat
  BY ConstantsAssumption DEF Values
<1>2. spent.interventions + 1 \in 0..MaxInterventions
  BY <1>1 DEF Acceptable
<1>3. advised \in Retrieving => spent.retrievals + 1 \in 0..MaxRetrievalRetries
  BY <1>1 DEF Acceptable
<1>4. advised = "REPLAN" => spent.replans + 1 \in 0..MaxReplans
  BY <1>1 DEF Acceptable
<1> QED
  BY <1>1, <1>2, <1>3, <1>4 DEF Consumed

LEMMA CorrectTypes ==
    ASSUME Values, NEW advised \in AdviceActions, NEW candidate \in Queries \cup {NoQuery},
           NEW post \in BOOLEAN, Correct(advised, candidate, post), todo' \in Seq(Phases),
           UNCHANGED <<results, durable>>
    PROVE  Values'
<1>1. Acceptable(advised, candidate) /\ spent' = Consumed(advised)
  BY DEF Correct
<1>2. signatures' \subseteq AdviceActions \X (Queries \cup {NoQuery})
  BY DEF Correct, Values
<1>3. query' \in Queries
  BY DEF Correct, Values, Override
<1>4. terminal' \in {"none", "ASK_USER", "ABSTAIN"}
  BY DEF Correct, Values
<1>5. request' = request /\ status' = status /\ cancelled' = cancelled /\ ~running'
      /\ running' \in BOOLEAN /\ attempts' = 0
  BY DEF Correct, Return
<1>6. 0 \in 0..MaxRetries
  BY ConstantsAssumption
<1>7. UNCHANGED <<decision, evidence, generation, action, fresh, outcome, loaded, stored, saved, notes,
                  effects>>
  BY DEF results, durable
<1> QED
  BY <1>1, <1>2, <1>3, <1>4, <1>5, <1>6, <1>7, SpentStays DEF Values, Contract!Notes

LEMMA ReturnTypes ==
    ASSUME NEW stages, Return(stages)
    PROVE  /\ request' = request /\ status' = status /\ cancelled' = cancelled
           /\ running' \in BOOLEAN /\ ~running' /\ attempts' \in 0..MaxRetries
<1>1. running' = FALSE /\ attempts' = 0 /\ UNCHANGED <<request, status, current, cancelled>>
  BY DEF Return
<1>2. 0 \in 0..MaxRetries
  BY ConstantsAssumption
<1> QED
  BY <1>1, <1>2

LEMMA FlagsStay ==
    ASSUME Flags, Next
    PROVE  Flags'
<1>1. CASE Begin \/ SkipPhase \/ StopCancelled \/ Finish \/ RequestCancel \/ OtherCommits
           \/ EnqueueMaintenance
  <2>1. /\ cancelled' = cancelled \/ cancelled' = TRUE
        /\ UNCHANGED <<running, evidence, saved>>
    BY <1>1 DEF Begin, SkipPhase, StopCancelled, Finish, RequestCancel, OtherCommits,
                EnqueueMaintenance, engine, results, durable
  <2> QED
    BY <2>1 DEF Flags
<1>2. CASE StartPhase \/ PhaseRaises \/ TaskCancelled \/ RememberUser
  <2>1. /\ running' = running \/ running' = TRUE \/ running' = FALSE
        /\ cancelled' = cancelled \/ cancelled' = TRUE
        /\ saved' = saved \/ saved' = FALSE \/ saved' = TRUE
        /\ UNCHANGED evidence
    BY <1>2 DEF StartPhase, PhaseRaises, TaskCancelled, RememberUser, engine, results, durable
  <2> QED
    BY <2>1 DEF Flags
<1>3. CASE LoadState \/ Analyse \/ AcquireEvidence \/ MakePlan \/ Act \/ Generate
  <2>1. Return(<<>>) /\ evidence' \in {evidence, TRUE, FALSE} /\ saved' = saved
    BY <1>3 DEF LoadState, Analyse, AcquireEvidence, MakePlan, Act, Generate, CarryOn, results, durable
  <2> QED
    BY <2>1 DEF Flags, Return
<1>4. CASE Decide \/ Reflect \/ ValidateOutput
  <2>1. (\E stages : Return(stages)) /\ evidence' = evidence /\ saved' = saved
    BY <1>4 DEF Decide, Reflect, ValidateOutput, CarryOn, Correct, results, durable
  <2> QED
    BY <2>1 DEF Flags, Return
<1>5. CASE \/ IngestDocument \/ ShapeOutput \/ CommitState \/ RememberNothing \/ RememberProcedure
           \/ RememberExchange \/ EnqueueReturns
  <2>1. Return(<<>>) /\ evidence' = evidence /\ (saved' = saved \/ saved' = FALSE)
    BY <1>5 DEF IngestDocument, ShapeOutput, CommitState, RememberNothing, RememberProcedure,
                RememberExchange, EnqueueReturns, CarryOn, results, durable
  <2> QED
    BY <2>1 DEF Flags, Return
<1> QED
  BY <1>1, <1>2, <1>3, <1>4, <1>5 DEF Next, EngineStep, PhaseStep

LEMMA EngineTypes ==
    ASSUME IInv, todo' \in Seq(Phases),
           Begin \/ SkipPhase \/ StartPhase \/ StopCancelled \/ Finish \/ PhaseRaises \/ RequestCancel
           \/ TaskCancelled \/ OtherCommits
    PROVE  Values'
<1>1. Values /\ MaxRetries \in Nat
  BY ConstantsAssumption DEF IInv, TypeOK
<1>2. CASE Begin \/ SkipPhase \/ StopCancelled \/ Finish \/ RequestCancel
  <2>1. /\ status' \in {status, "RUNNING", "CANCELLED", "COMPLETED"}
        /\ UNCHANGED <<request, current, running, attempts, correction, results, durable>>
    BY <1>2 DEF Begin, SkipPhase, StopCancelled, Finish, RequestCancel
  <2> QED
    BY <1>1, <2>1 DEF Values, correction, results, durable, Contract!Notes
<1>3. CASE StartPhase
  <2>1. current' \in Phases
    BY <1>3, Waiting DEF StartPhase
  <2>2. /\ running' = TRUE /\ attempts' = 0
        /\ UNCHANGED <<request, status, cancelled, correction, results, durable>>
    BY <1>3 DEF StartPhase
  <2> QED
    BY <1>1, <2>1, <2>2 DEF Values, correction, results, durable, Contract!Notes
<1>4. CASE PhaseRaises
  <2>1. /\ UNCHANGED <<request, todo, current, correction, results, outcome, loaded, stored, notes, effects>>
    BY <1>4 DEF PhaseRaises
  <2>2. \/ /\ status' = status /\ running' = running
           /\ attempts < MaxRetries /\ attempts' = attempts + 1
        \/ status' = "FAILED" /\ ~running' /\ attempts' = 0
    BY <1>4 DEF PhaseRaises
  <2>3. attempts' \in 0..MaxRetries
    BY <1>1, <2>2 DEF Values
  <2>4. (status' = status \/ status' = "FAILED") /\ (running' => running)
    BY <2>2
  <2> QED
    BY <1>1, <2>1, <2>3, <2>4 DEF Values, correction, results, Contract!Notes
<1>5. CASE TaskCancelled
  BY <1>1, <1>5 DEF Values, TaskCancelled, correction, results, durable, Contract!Notes
<1>6. CASE OtherCommits
  BY <1>1, <1>6 DEF Values, OtherCommits, engine, correction, results, Contract!Notes
<1> QED
  BY <1>2, <1>3, <1>4, <1>5, <1>6

LEMMA DeliberationTypes ==
    ASSUME IInv, todo' \in Seq(Phases),
           LoadState \/ Analyse \/ AcquireEvidence \/ MakePlan \/ Decide \/ Reflect \/ Act \/ Generate
           \/ ValidateOutput
    PROVE  Values'
<1>0. UNCHANGED Contract!Notes
  BY DEF Contract!Notes
<1>1. Values
  BY DEF IInv, TypeOK
<1>2. CASE LoadState \/ Analyse \/ AcquireEvidence \/ MakePlan \/ Act
  <2>1. Return(<<>>) /\ UNCHANGED correction
    BY <1>2 DEF LoadState, Analyse, AcquireEvidence, MakePlan, Act, CarryOn
  <2>2. /\ loaded' \in {loaded, stored} /\ fresh' \in {fresh, {}, fresh \cup {"action"}}
        /\ action' \in {action, "success", "no_op", "failed", "blocked"}
        /\ UNCHANGED <<decision, generation, outcome, stored, notes, effects>>
    BY <1>2 DEF LoadState, Analyse, AcquireEvidence, MakePlan, Act, results, durable
  <2> QED
    BY <1>1, <2>1, <2>2, ReturnTypes DEF Values, correction, Contract!Notes
<1>3. CASE Decide
  <2>1. \E stages : Return(stages)
    BY <1>3 DEF Decide
  <2>2. UNCHANGED <<evidence, generation, action, terminal, query, signatures, outcome, loaded, stored,
                    saved, notes, effects>> /\ fresh' = fresh \cup {"judgement"}
    BY <1>3 DEF Decide, durable
  <2>3. decision' \in Decisions
    BY <1>3 DEF Decide
  <2>4. spent' \in [interventions : 0..MaxInterventions, retrievals : 0..MaxRetrievalRetries,
                    replans : 0..MaxReplans, gate : 0..GateRetries, generations : Nat]
    <3>1. \/ spent' = spent
          \/ spent' = [spent EXCEPT !.gate = @ + 1] /\ spent.gate < GateRetries
      BY <1>3 DEF Decide, RetrievalAllowed
    <3>2. GateRetries \in Nat
      BY ConstantsAssumption
    <3> QED
      BY <1>1, <3>1, <3>2 DEF Values
  <2>5. fresh' \subseteq {"judgement", "action", "answer"}
    BY <1>1, <2>2 DEF Values
  <2> QED
    BY <1>0, <1>1, <2>1, <2>2, <2>3, <2>4, <2>5, ReturnTypes DEF Values
<1>4. CASE Reflect
  <2>1. UNCHANGED <<results, durable>>
    BY <1>4 DEF Reflect
  <2>2. CASE CarryOn
    <3>1. Return(<<>>) /\ UNCHANGED correction
      BY <2>2 DEF CarryOn
    <3> QED
      BY <1>0, <1>1, <2>1, <3>1, ReturnTypes DEF Values, correction, results, durable
  <2>3. ASSUME NEW advised \in Advisable, NEW candidate \in Queries \cup {NoQuery},
               Correct(advised, candidate, FALSE)
        PROVE  Values'
    <3>1. advised \in AdviceActions /\ FALSE \in BOOLEAN
      BY ConstantsAssumption
    <3> QED
      BY <1>1, <2>1, <2>3, <3>1, CorrectTypes
  <2> QED
    BY <1>4, <2>2, <2>3 DEF Reflect
<1>5. CASE Generate
  <2>1. spent' \in [interventions : 0..MaxInterventions, retrievals : 0..MaxRetrievalRetries,
                    replans : 0..MaxReplans, gate : 0..GateRetries, generations : Nat]
    <3>1. spent' = [spent EXCEPT !.generations = @ + 1]
      BY <1>5 DEF Generate
    <3>2. spent \in [interventions : 0..MaxInterventions, retrievals : 0..MaxRetrievalRetries,
                     replans : 0..MaxReplans, gate : 0..GateRetries, generations : Nat]
      BY <1>1 DEF Values
    <3>3. spent.generations + 1 \in Nat
      BY <3>2
    <3> QED
      BY <3>1, <3>2, <3>3
  <2>2. Return(<<>>)
    BY <1>5 DEF Generate
  <2> QED
    <3>1. /\ generation' \in {"none", "answered", "uncited", "abstained", "failed"}
          /\ UNCHANGED <<decision, action, terminal, query, signatures, durable>>
      BY <1>5 DEF Generate, Generations
    <3>2. fresh' \subseteq {"judgement", "action", "answer"}
      BY <1>1, <1>5 DEF Generate, Values
    <3> QED
      BY <1>0, <1>1, <2>1, <2>2, <3>1, <3>2, ReturnTypes DEF Values, durable
<1>6. CASE ValidateOutput
  <2>1. UNCHANGED <<results, durable>>
    BY <1>6 DEF ValidateOutput
  <2>2. CASE CarryOn
    <3>1. Return(<<>>) /\ UNCHANGED correction
      BY <2>2 DEF CarryOn
    <3> QED
      BY <1>0, <1>1, <2>1, <3>1, ReturnTypes DEF Values, correction, results, durable
  <2>3. CASE Signal[1] # "NO_ACTION" /\ Correct(Signal[1], Signal[2], TRUE)
    <3>1. Signal[1] \in AdviceActions /\ Signal[2] \in Queries \cup {NoQuery} /\ TRUE \in BOOLEAN
      BY <2>3, ConstantsAssumption DEF Signal, AdviceActions, Retrieving, QueryActions
    <3> QED
      BY <1>1, <2>1, <2>3, <3>1, CorrectTypes
  <2> QED
    BY <1>6, <2>2, <2>3 DEF ValidateOutput
<1> QED
  BY <1>2, <1>3, <1>4, <1>5, <1>6

LEMMA EffectTypes ==
    ASSUME IInv, todo' \in Seq(Phases),
           IngestDocument \/ ShapeOutput \/ CommitState \/ RememberNothing \/ RememberProcedure
           \/ RememberUser \/ RememberExchange \/ EnqueueMaintenance \/ EnqueueReturns
    PROVE  Values'
<1>1. Values
  BY DEF IInv, TypeOK
<1>2. CASE IngestDocument \/ CommitState \/ RememberNothing \/ RememberProcedure \/ RememberExchange
           \/ EnqueueReturns
  <2>1. Return(<<>>) /\ UNCHANGED correction
    BY <1>2 DEF IngestDocument, CommitState, RememberNothing, RememberProcedure, RememberExchange,
                EnqueueReturns, CarryOn
  <2>2. /\ {loaded', stored'} \subseteq {loaded, stored, stored + 1}
        /\ notes' = notes \/ notes' \subseteq notes \cup Contract!Notes
        /\ effects' \subseteq effects \cup Contract!Notes \cup {"state"}
        /\ UNCHANGED <<results, outcome>>
    BY <1>2 DEF IngestDocument, CommitState, RememberNothing, RememberProcedure, RememberExchange,
                EnqueueReturns, durable, Contract!Notes
  <2>3. loaded' \in Nat /\ stored' \in Nat
    BY <1>1, <2>2 DEF Values
  <2>4. notes' \subseteq Contract!Notes /\ effects' \subseteq Contract!Notes \cup {"state", "maintenance"}
    BY <1>1, <2>2 DEF Values
  <2>5. UNCHANGED <<decision, generation, action, fresh, outcome>>
    BY <2>2 DEF results
  <2> QED
    BY <1>1, <2>1, <2>3, <2>4, <2>5, ReturnTypes DEF Values, correction, Contract!Notes
<1>3. CASE ShapeOutput
  <2>1. Return(<<>>) /\ UNCHANGED correction
    BY <1>3 DEF ShapeOutput, CarryOn
  <2>2. outcome' \in Outcomes
    BY <1>3, ShapesResult DEF ShapeOutput
  <2>3. UNCHANGED <<results, loaded, stored, notes, effects>>
    BY <1>3 DEF ShapeOutput
  <2> QED
    BY <1>1, <2>1, <2>2, <2>3, ReturnTypes DEF Values, correction, results, Contract!Notes
<1>4. CASE RememberUser \/ EnqueueMaintenance
  <2>1. /\ UNCHANGED <<engine, correction, results, outcome, loaded, stored, notes>>
        /\ effects' \subseteq effects \cup {"user", "maintenance"}
    BY <1>4 DEF RememberUser, EnqueueMaintenance
  <2> QED
    BY <1>1, <2>1 DEF Values, engine, correction, results, Contract!Notes
<1> QED
  BY <1>2, <1>3, <1>4

-----------------------------------------------------------------------------
(* The invariant. *)

LEMMA InitKeeps == ASSUME Init PROVE IInv
<1>1. request \in DOMAIN Routes
  BY ConstantsAssumption DEF Init
<1>2. PICK s : s = Routes[request].phases
  OBVIOUS
<1>3. /\ s \in Seq(Phases) /\ Flow(request, {}, s)
      /\ "OUTPUT" \in Elems(s) /\ "STATE_COMMIT" \in Elems(s)
      /\ Reaches(request, s) \/ Task \in {"historical_replay", "emotion_classification"}
  BY <1>1, <1>2, RouteStart DEF Task
<1>4. Ahead = s /\ todo = s /\ status = "PENDING" /\ ~running /\ fresh = {}
  BY <1>2 DEF Init, Ahead
<1>5. TypeOK
  <2>1. Flags
    BY DEF Init, Flags
  <2>2. 0 \in 0..MaxRetries /\ 0 \in 0..MaxInterventions /\ 0 \in 0..MaxRetrievalRetries
        /\ 0 \in 0..MaxReplans /\ 0 \in 0..GateRetries /\ 0 \in Nat
    BY ConstantsAssumption
  <2>3. spent \in [interventions : 0..MaxInterventions, retrievals : 0..MaxRetrievalRetries,
                   replans : 0..MaxReplans, gate : 0..GateRetries, generations : Nat]
    BY <2>2 DEF Init
  <2>4. Values
    BY <1>3, <1>4, <2>2, <2>3, ConstantsAssumption DEF Init, Values
  <2> QED
    BY <2>1, <2>4 DEF TypeOK
<1>6. FlowsOn
  BY <1>3, <1>4 DEF FlowsOn
<1>7. ResultComes
  <2>1. ASSUME Task \in {"historical_replay", "emotion_classification"} PROVE Ready
    <3>1. Final(request) = "DOCUMENT_INGESTION"
      BY <1>5, <2>1, RequestHasRoute DEF PlainTasks
    <3> QED
      BY <2>1, <3>1 DEF Ready
  <2> QED
    BY <1>3, <1>4, <2>1 DEF ResultComes
<1>8. RunsAllowed
  BY <1>4 DEF RunsAllowed
<1>9. ResultOfRoute
  BY DEF Init, ResultOfRoute
<1>10. CommitsInOrder
  BY <1>3, <1>4 DEF Init, CommitsInOrder, Has, Contract!Kept
<1>11. NotesAreKept /\ ReportedResultIsFresh
  BY DEF Init, NotesAreKept, ReportedResultIsFresh
<1> QED
  BY <1>5, <1>6, <1>7, <1>8, <1>9, <1>10, <1>11 DEF IInv

LEMMA StepKeeps == ASSUME IInv, Next PROVE IInv'
<1>1. Kept'
  BY BeginKeeps, SkipPhaseKeeps, StartPhaseKeeps, StopsKeep, PhaseRaisesKeeps, AsideKeeps, QuietPhases,
     RemakingKeeps, DecideKeeps, ReflectKeeps, ValidateKeeps, ActKeeps, GenerateKeeps, IngestKeeps,
     ShapeKeeps, CommitKeeps, RememberProcedureKeeps, RememberExchangeKeeps, LeavesKeep
     DEF Next, EngineStep, PhaseStep
<1>2. todo' \in Seq(Phases)
  BY <1>1 DEF Kept
<1>3. Flags'
  BY FlagsStay DEF IInv, TypeOK
<1>4. Values'
  BY <1>2, EngineTypes, DeliberationTypes, EffectTypes DEF Next, EngineStep, PhaseStep
<1> QED
  BY <1>1, <1>3, <1>4 DEF IInv, TypeOK, Kept, Rest, Own

LEMMA StutterKeeps == ASSUME IInv, UNCHANGED vars PROVE IInv'
<1>1. UNCHANGED <<request, status, todo, current, running, attempts, cancelled, terminal, query,
                  signatures, spent, decision, evidence, generation, action, fresh, outcome, loaded,
                  stored, saved, notes, effects>>
  BY DEF vars, engine, correction, results, durable
<1>2. Flags'
  BY <1>1 DEF IInv, TypeOK, Flags
<1>3. Values'
  BY <1>1 DEF IInv, TypeOK, Values, Contract!Notes
<1>4. Ahead' = Ahead /\ (Live <=> Live')
  BY <1>1 DEF Ahead, Live
<1>5. Rest'
  <2>1. FlowsOn'
    BY <1>1, <1>4 DEF IInv, FlowsOn
  <2>2. ResultComes'
    BY <1>1, <1>4 DEF IInv, ResultComes, Has, Ready, Task
  <2>3. RunsAllowed'
    BY <1>1 DEF IInv, RunsAllowed, Skipped
  <2>4. CommitsInOrder'
    BY <1>1, <1>4 DEF IInv, CommitsInOrder, Has
  <2> QED
    BY <2>1, <2>2, <2>3, <2>4 DEF Rest
<1>6. Own'
  BY <1>1, <1>4, OwnStays
<1> QED
  BY <1>2, <1>3, <1>5, <1>6 DEF IInv, TypeOK, Rest, Own

LEMMA Inv == Spec => []IInv
<1>1. Init => IInv
  BY InitKeeps
<1>2. IInv /\ [Next]_vars => IInv'
  BY StepKeeps, StutterKeeps
<1> QED
  BY <1>1, <1>2, PTL DEF Spec

-----------------------------------------------------------------------------
(* The theorems. *)

\* Every variable keeps its type; in particular the list of phases is made of phases and no
\* counter that a budget limits passes its limit.
THEOREM TypeCorrect == Spec => []TypeOK
<1>1. IInv => TypeOK
  BY DEF IInv
<1> QED
  BY <1>1, Inv, PTL

\* However the gate and the corrections re-route an execution, no action runs, and no answer
\* is generated on the full route, on a plan that was not judged since it was made, or that
\* the judgement withholds.
THEOREM ActsWhenJudged == Spec => []ActsOnJudgedPlan
<1>1. ASSUME IInv PROVE ActsOnJudgedPlan
  <2> SUFFICES ASSUME NEW p \in {"ACTION", "ANSWER_GENERATION"}, In(p),
                      p = "ACTION" \/ Full(request)
               PROVE  "judgement" \in fresh /\ decision \notin Withheld
    BY DEF ActsOnJudgedPlan, Full
  <2>1. Fits(request, fresh, p, todo) /\ status = "RUNNING" /\ running /\ current = p
    BY <1>1, NowRunning
  <2>2. Full(request)
    BY <2>1, AllowedPhases DEF Fits
  <2>3. "judgement" \in fresh
    BY <2>1, <2>2 DEF Fits, Acting
  <2>4. ~Skipped(p)
    BY <1>1, <2>1 DEF IInv, RunsAllowed
  <2> QED
    BY <2>3, <2>4 DEF Skipped
<1> QED
  BY <1>1, Inv, PTL

\* No route and no correction brings an execution to OUTPUT with nothing to shape.
THEOREM ShapesSomething == Spec => []OutputHasResult
<1>1. IInv => OutputHasResult
  BY ShapesResult DEF OutputHasResult, Outcomes
<1> QED
  BY <1>1, Inv, PTL

\* The answer, or the action, that an execution reports was produced after its latest
\* evidence acquisition and its latest plan.
THEOREM ReportsFreshResult == Spec => []ReportedResultIsFresh
<1>1. IInv => ReportedResultIsFresh
  BY DEF IInv
<1> QED
  BY <1>1, Inv, PTL

\* What a step leaves behind is what the contract allows.
LEMMA EngineRefines ==
    ASSUME IInv, EngineStep \/ RequestCancel \/ TaskCancelled \/ OtherCommits, ~PhaseStep
    PROVE  [Contract!Next]_<<status, outcome, effects>>
<1>1. CASE SkipPhase \/ StartPhase \/ RequestCancel \/ OtherCommits
  BY <1>1 DEF SkipPhase, StartPhase, RequestCancel, OtherCommits, engine, durable
<1>2. CASE Begin
  BY <1>2 DEF Begin, durable, Contract!Next, Contract!Begin
<1>3. CASE StopCancelled \/ TaskCancelled
  <2>1. status = "RUNNING" /\ status' = "CANCELLED" /\ UNCHANGED <<outcome, effects>>
    BY <1>3 DEF StopCancelled, TaskCancelled, BetweenPhases, In, durable
  <2> QED
    BY <2>1 DEF Contract!Next, Contract!Stop
<1>4. CASE Finish
  <2>1. /\ status = "RUNNING" /\ ~running /\ todo = <<>>
        /\ status' = "COMPLETED" /\ UNCHANGED <<outcome, effects>>
    BY <1>4 DEF Finish, BetweenPhases, durable
  <2>2. Live /\ Elems(Ahead) = {}
    BY <2>1 DEF Live, Ahead, Elems
  <2>3. outcome # "none" /\ (outcome \in Contract!Kept => "state" \in effects)
    BY <2>2 DEF IInv, CommitsInOrder, Has
  <2> QED
    BY <2>1, <2>3 DEF Contract!Next, Contract!Complete, Contract!Stop
<1> QED
  BY <1>1, <1>2, <1>3, <1>4 DEF EngineStep

LEMMA PhaseRefines ==
    ASSUME IInv, PhaseStep
    PROVE  [Contract!Next]_<<status, outcome, effects>>
<1>1. CASE LoadState \/ Analyse \/ AcquireEvidence \/ MakePlan \/ Act \/ RememberNothing \/ EnqueueReturns
  BY <1>1 DEF LoadState, Analyse, AcquireEvidence, MakePlan, Act, RememberNothing, EnqueueReturns,
              CarryOn, Return, durable
<1>2. CASE Decide \/ Reflect \/ Generate \/ ValidateOutput
  BY <1>2 DEF Decide, Reflect, Generate, ValidateOutput, Correct, CarryOn, Return, durable
<1>3. CASE PhaseRaises
  <2>1. /\ status = "RUNNING" /\ UNCHANGED <<outcome, effects>>
        /\ status' = status \/ status' = "FAILED"
    BY <1>3 DEF PhaseRaises
  <2> QED
    BY <2>1 DEF Contract!Next, Contract!Stop
<1>4. CASE ShapeOutput
  <2>1. /\ In("OUTPUT") /\ status = "RUNNING" /\ outcome' = Shaped /\ UNCHANGED <<status, effects>>
    BY <1>4 DEF ShapeOutput, In, CarryOn, Return
  <2>2. outcome = "none"
    BY <2>1, NowRunning, HeadOf
  <2>3. outcome' \in Contract!Kept \cup {"failed"}
    BY <2>1, ShapesResult DEF Outcomes, Contract!Kept
  <2> QED
    BY <2>1, <2>2, <2>3 DEF Contract!Next, Contract!Shape
<1>5. CASE IngestDocument
  <2>1. /\ In("DOCUMENT_INGESTION") /\ status = "RUNNING" /\ effects' = effects \cup {"document"}
        /\ UNCHANGED <<status, outcome>>
    BY <1>5 DEF IngestDocument, In, CarryOn, Return
  <2>2. outcome = "none"
    <3> DEFINE p == "DOCUMENT_INGESTION"
    <3>1. Rank(p) = 0
      BY DEF Rank
    <3>2. Live /\ p \in Phases /\ todo \in Seq(Phases) /\ Ahead = <<p>> \o todo
      BY <2>1, NowRunning
    <3>3. outcome # "none" => Rank(p) > 1
      BY <3>2, HeadOf
    <3> QED
      BY <3>1, <3>3
  <2> QED
    BY <2>1, <2>2 DEF Contract!Next, Contract!IndexDocument, Contract!Leave
<1>6. CASE CommitState
  <2>1. /\ In("STATE_COMMIT") /\ status = "RUNNING" /\ UNCHANGED <<status, outcome>>
        /\ \/ UNCHANGED effects
           \/ outcome # "failed" /\ effects' = effects \cup {"state"}
    BY <1>6 DEF CommitState, In, CarryOn, Return
  <2>2. outcome # "failed" => outcome \in Contract!Kept
    <3>1. Rank("STATE_COMMIT") = 2
      BY DEF Rank
    <3>2. outcome # "none"
      BY <2>1, <3>1, NowRunning, HeadOf
    <3> QED
      BY <3>2 DEF IInv, TypeOK, Values, Outcomes, Contract!Kept
  <2>3. outcome # "failed" => "state" \notin effects
    BY <2>1, <2>2, NowRunning, HeadOf
  <2> QED
    BY <2>1, <2>2, <2>3 DEF Contract!Next, Contract!CommitState, Contract!Leave
<1>7. CASE RememberProcedure \/ RememberUser \/ RememberExchange
  <2>1. /\ In("MEMORY_COMMIT") /\ status = "RUNNING" /\ UNCHANGED <<status, outcome>>
    BY <1>7 DEF RememberProcedure, RememberUser, RememberExchange, In, CarryOn, Return, engine
  <2>2. outcome \notin {"failed", "abstained"}
    BY <1>7 DEF RememberProcedure, RememberUser, RememberExchange, IInv, NotesAreKept,
                Contract!Remembered, Contract!Kept
  <2>3. outcome \in Contract!Remembered /\ "state" \in effects
    BY <2>1, <2>2, RemembersAfterCommit
  <2>4. \/ \E n \in {"user", "assistant", "procedure"} : effects' = effects \cup {n}
        \/ effects' = effects
    <3>1. CASE RememberProcedure \/ RememberUser
      BY <3>1 DEF RememberProcedure, RememberUser
    <3>2. CASE RememberExchange
      <4>1. "user" \in effects
        BY <3>2 DEF RememberExchange, IInv, NotesAreKept
      <4>2. effects' = effects \cup {"user"} \/ effects' = effects \cup {"user", "assistant"}
        BY <3>2 DEF RememberExchange
      <4>3. effects' = effects \/ effects' = effects \cup {"assistant"}
        BY <4>1, <4>2
      <4> QED
        BY <4>3
    <3> QED
      BY <1>7, <3>1, <3>2
  <2> QED
    BY <2>1, <2>3, <2>4 DEF Contract!Next, Contract!Remember, Contract!Leave
<1>8. CASE EnqueueMaintenance
  <2>1. /\ status = "RUNNING" /\ notes # {} /\ effects' = effects \cup {"maintenance"}
        /\ UNCHANGED <<status, outcome>>
    BY <1>8 DEF EnqueueMaintenance, In, engine
  <2>2. effects \cap Contract!Notes # {}
    BY <2>1 DEF IInv, NotesAreKept
  <2> QED
    BY <2>1, <2>2 DEF Contract!Next, Contract!Maintain, Contract!Leave
<1> QED
  BY <1>1, <1>2, <1>3, <1>4, <1>5, <1>6, <1>7, <1>8 DEF PhaseStep

\* An execution keeps its contract: the outcome is shaped once, the state is committed once
\* and only for an outcome worth keeping, memory is written after that commit and never for
\* an abstention, and maintenance is asked for a memory that was written.
THEOREM Implements == Spec => KeepsContract
<1>1. Init => Contract!Init
  BY DEF Init, Contract!Init
<1>2. IInv /\ [Next]_vars => [Contract!Next]_<<status, outcome, effects>>
  <2>1. ASSUME IInv, Next PROVE [Contract!Next]_<<status, outcome, effects>>
    BY <2>1, EngineRefines, PhaseRefines DEF Next
  <2>2. UNCHANGED vars => UNCHANGED <<status, outcome, effects>>
    BY DEF vars, engine, durable
  <2> QED
    BY <2>1, <2>2
<1> QED
  BY <1>1, <1>2, Inv, PTL DEF Spec, KeepsContract, Contract!Spec
=============================================================================
