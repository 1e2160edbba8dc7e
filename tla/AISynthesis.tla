---------------------------- MODULE AISynthesis ----------------------------
(***************************************************************************)
(* The overall risk a response shows when an AI may help.                  *)
(*                                                                         *)
(* The request has its assessments already, as RiskSynthesis returns them; *)
(* only now are the source records read, the newest of each, and their own *)
(* risk findings set beside the claims.  Both ways of asking are here.     *)
(* Bounded: findings that the policy maps count as they stand, the AI may  *)
(* only interpret those that it does not map, and the policy is run again. *)
(* With capabilities: the AI gets all the evidence its budget allows, and  *)
(* its level is shown beside the governed one.                             *)
(*                                                                         *)
(* What a model answers, and prompts and their sizes in characters, are    *)
(* left to the instance.                                                   *)
(***************************************************************************)
EXTENDS RiskSynthesis, SequencesExt

CONSTANTS
  SourceRow,      \* source records, one per run that acquired one
  RowSays,        \* row -> source, record, run, identifiers; findings, each once
  DirectRefs,     \* the source records the document names
  FormatIds,      \* the strong identifiers of the document
  FindingKind,    \* finding -> its evidence_kind
  RecordOf,       \* claim or finding -> its source_record_id, or Absent
  CriterionClaims,\* the criterion claims of the format, possibly
  AILevel,        \* levels the AI may answer with
  MaxAnswers,     \* bound: interpretations in one answer
  MaxRecords, MaxFindings,   \* limits of the evidence that is gathered
  BundleLimit,    \* limit of the evidence sent in the bounded way
  ItemLimit,      \* limit of the evidence sent with capabilities
  Budgets,        \* prompt budgets in items, and Absent for none
  FixedSize, FrameworkSize   \* sizes of what else is in the prompt

ASSUME ConsultationConstants ==
  /\ IsFiniteSet(RiskClaim) /\ IsFiniteSet(SourceRow)
  /\ IsFiniteSet(DOMAIN CriterionClaims)
  /\ DOMAIN CriterionClaims \cap DOMAIN FindingKind = {}
  /\ AILevel \subseteq Level
  /\ {MaxRecords, MaxFindings, BundleLimit, ItemLimit} \subseteq Nat \ {0}
  /\ \A a \in DOMAIN FindingKind :
       FindingKind[a] \in {"source_native_risk_assessment",
                           "source_native_sustainability_factor",
                           "source_native_documentation",
                           "source_native_description"}

VARIABLES
  consult,   \* the consultation of the AI: where it stands and what it has
  outcome    \* overall_synthesized_risk, or Absent

aiSynthesisVars == <<consult, outcome>>

NativeRisk == "source_native_risk_assessment"
ThePolicy == PolicyText[Shipped]

\* The members of S in order: before each stand those ahead of it.
Arranged(S, ahead) ==
  [k \in 1 .. Cardinality(S) |->
     CHOOSE x \in S : Cardinality({y \in S : <<y, x>> \in ahead}) = k - 1]

Permuted(s, order) == [k \in DOMAIN order |-> s[order[k]]]

\* What stands at these places of s.
AtPlaces(s, places) ==
  Permuted(s, Arranged(places, {p \in places \X places : p[1] < p[2]}))

FirstN(s, n) == [i \in 1 .. (IF n < Len(s) THEN n ELSE Len(s)) |-> s[i]]

Outcome(level, aiAssisted, aiConsulted) ==
  [level |-> level, assisted |-> aiAssisted, consulted |-> aiConsulted]

ConsultationStart(assessments) ==
  /\ consult = [pc |-> "start", assessments |-> assessments, findings |-> <<>>,
                mode |-> "none", sent |-> <<>>, web |-> FALSE]
  /\ outcome = Absent

\* The claims of a response: each may have been current when its id was read.
AISynthesisInit == \E read \in SUBSET RiskClaim : ConsultationStart(read)

\* policy_synthesized_risk of the response.
Governed == Headline(ThePolicy, consult.assessments)

-----------------------------------------------------------------------------
(* Source evidence.                                                        *)

RecordKey(r) == <<RowSays[r].source, RowSays[r].record>>

\* A finding names its record; a run stores a record once; and the adapters
\* give a record one risk assessment (the hazard of NARA and of standard JSON,
\* the risk_assessment of the DPC), so there is one scope per record.
ASSUME SourceRecords ==
  /\ \A r \in SourceRow : LET findings == RowSays[r].findings IN
       /\ RowSays[r].order \in Int /\ RowSays[r].run \in Int
       /\ findings \in Seq(DOMAIN FindingKind)
       /\ \A i, j \in DOMAIN findings :
            /\ RecordOf[findings[i]] = RowSays[r].record
            /\ Term[findings[i]].source = RowSays[r].source
            /\ FindingKind[findings[i]] = NativeRisk
                 /\ FindingKind[findings[j]] = NativeRisk
                 => Term[findings[i]].scope = Term[findings[j]].scope
  /\ \A q, r \in SourceRow :
       q = r \/ IF RecordKey(q) = RecordKey(r)
                 THEN RowSays[q].run # RowSays[r].run
                 ELSE RowSays[q].order # RowSays[r].order

\* The newest by run identifier, whatever became of the run.
LatestRows(rows) ==
  {r \in rows : \A q \in rows :
     RecordKey(q) = RecordKey(r) => RowSays[q].run <= RowSays[r].run}

IsAuthorityRecord(r) == RowSays[r].authority /\ RowSays[r].record \in FormatIds

LinkRank(r) ==
  IF RecordKey(r) \in DirectRefs THEN 0
  ELSE IF IsAuthorityRecord(r) THEN 1
  ELSE 2

LinkedRows(rows) ==
  {r \in LatestRows(rows) :
     \/ RecordKey(r) \in DirectRefs
     \/ IsAuthorityRecord(r)
     \/ RowSays[r].ids \cap FormatIds # {}}

\* Closer records first, by source and record those that are equally close.
Closer(q, r) ==
  \/ LinkRank(q) < LinkRank(r)
  \/ LinkRank(q) = LinkRank(r) /\ RowSays[q].order < RowSays[r].order

\* The findings of the closest records, within the limits.
SourceFindings(rows) ==
  LET linked  == LinkedRows(rows)
      closest == {r \in linked :
                    Cardinality({q \in linked : Closer(q, r)}) < MaxRecords}
      found   == UNION {{r} \X DOMAIN RowSays[r].findings : r \in closest}
      ahead   == {p \in found \X found :
                    \/ Closer(p[1][1], p[2][1])
                    \/ p[1][1] = p[2][1] /\ p[1][2] < p[2][2]}
      order   == Arranged(found, ahead)
  IN
    FirstN([k \in DOMAIN order |-> RowSays[order[k][1]].findings[order[k][2]]],
           MaxFindings)

-----------------------------------------------------------------------------
(* The bounded way.                                                        *)

SameRecord(a, b) ==
  RecordOf[a] # Absent /\ RecordOf[a] = RecordOf[b] /\ Term[a].source = Term[b].source

\* The slip: a finding of a record a claim speaks for is dropped whatever
\* its level.
WrongRepeats(a, b) ==
  SameRecord(a, b) /\ LevelOf(ThePolicy, b) # Absent

Repeats(a, b) ==
  SameRecord(a, b) /\ LevelOf(ThePolicy, a) = LevelOf(ThePolicy, b)

IsMapped(a) == LevelOf(ThePolicy, a) # Absent
IsNativeRisk(a) == FindingKind[a] = NativeRisk

\* Mapped findings count beside the claims, once per record and level.  One
\* that repeats an earlier finding repeats what made that one count or not.
ConfiguredPlaces(assessments, findings) ==
  LET mapped == {i \in DOMAIN findings :
                   IsNativeRisk(findings[i]) /\ IsMapped(findings[i])}
  IN {i \in mapped :
        /\ ~ \E b \in assessments : IsMapped(b) /\ Repeats(findings[i], b)
        /\ ~ \E j \in mapped : j < i /\ Repeats(findings[i], findings[j])}

ConfiguredRows(assessments, findings) ==
  AtPlaces(findings, ConfiguredPlaces(assessments, findings))

LeftToAI(findings) ==
  AtPlaces(findings, {i \in DOMAIN findings :
                        ~(IsNativeRisk(findings[i]) /\ IsMapped(findings[i]))})

Effective == consult.assessments \cup ToSet(ConfiguredRows(consult.assessments,
                                                           consult.findings))

Ref(kind, of) == [kind |-> kind, of |-> of]
Refs(kind, s) == [i \in DOMAIN s |-> Ref(kind, s[i])]
FindingRefs(s) == [i \in DOMAIN s |-> Ref(FindingKind[s[i]], s[i])]

\* Assessments, then criterion claims, then findings, up to a limit.
SynthesisEvidence(assessments, configured, criteria, findings, limit) ==
  FirstN(Refs("governed_source_risk_assessment", SetToSeq(assessments))
           \o Refs("config_normalized_source_risk_assessment", configured)
           \o Refs("governed_criterion_claim", SetToSeq(criteria))
           \o FindingRefs(findings),
         limit)

Conclude(how, result) ==
  /\ outcome' = result
  /\ consult' = [consult EXCEPT !.pc = how]

\* The response is there; the evidence is read now.
GatherFindings(rows) ==
  /\ consult.pc = "start"
  /\ consult' = [consult EXCEPT !.pc = "gathered", !.findings = SourceFindings(rows)]
  /\ UNCHANGED outcome

\* Nothing is left to interpret, or nothing could be sent.
SkipAI ==
  /\ consult.pc = "gathered"
  /\ Headline(ThePolicy, Effective) # Absent
  /\ ~ \E i \in DOMAIN consult.findings :
         IsNativeRisk(consult.findings[i]) /\ ~IsMapped(consult.findings[i])
  /\ Conclude("skipped", Outcome(Headline(ThePolicy, Effective), FALSE, FALSE))

SendBounded(criteria) ==
  LET left == LeftToAI(consult.findings)
      evidence == SynthesisEvidence(consult.assessments,
                    ConfiguredRows(consult.assessments, consult.findings),
                    criteria, left, BundleLimit)
  IN
    /\ consult.pc = "gathered"
    /\ \/ Headline(ThePolicy, Effective) = Absent
       \/ \E i \in DOMAIN left : IsNativeRisk(left[i])
    /\ IF evidence = <<>>
         THEN Conclude("skipped", Outcome(Headline(ThePolicy, Effective), FALSE, FALSE))
         ELSE /\ consult' = [consult EXCEPT !.pc = "asked", !.mode = "bounded",
                                !.sent = evidence]
              /\ UNCHANGED outcome

\* What _validate_response lets the AI interpret.
Interpretable ==
  {consult.sent[i].of : i \in {j \in DOMAIN consult.sent : consult.sent[j].kind = NativeRisk}}

\* An interpretation takes the scope of its finding, not that of its rule;
\* a finding that is interpreted twice counts twice.
AddedRows(answers) ==
  {LET a == answers[k].of IN
     [of |-> a, nth |-> k, level |-> answers[k].level,
      tier |-> ScopeTier(ThePolicy,
                 IF Term[a].scope = Absent THEN "contextual" ELSE Term[a].scope)]
     : k \in DOMAIN answers}

\* A valid answer: the policy decides where it can, the proposal where not.
AnswerBounded(answers, proposal) ==
  LET byPolicy == HeadlineWith(ThePolicy, Effective, AddedRows(answers)) IN
    /\ consult.pc = "asked" /\ consult.mode = "bounded"
    /\ \A k \in DOMAIN answers : answers[k].of \in Interpretable
    /\ IF byPolicy # Absent
         THEN Conclude("answered", Outcome(byPolicy, answers # <<>>, TRUE))
         ELSE Conclude("answered", Outcome(proposal, TRUE, TRUE))

-----------------------------------------------------------------------------
(* With capabilities.                                                      *)

EvidencePriority(ref) ==
  CASE ref.kind \in {"governed_source_risk_assessment",
                     "config_normalized_source_risk_assessment"} -> 0
    [] ref.kind = "governed_criterion_claim"             -> 1
    [] ref.kind = NativeRisk                             -> 2
    [] ref.kind \in {"source_native_sustainability_factor",
                     "source_native_documentation"}      -> 3
    [] OTHER                                             -> 4

\* A stable sort.
ByPriority(s) ==
  LET ahead == {p \in (DOMAIN s) \X DOMAIN s :
                  LET a == EvidencePriority(s[p[1]])
                      b == EvidencePriority(s[p[2]])
                  IN a < b \/ (a = b /\ p[1] < p[2])}
  IN Permuted(s, Arranged(DOMAIN s, ahead))

\* The slip: governed assessments are given up like the rest.
WrongRemovable(s) == DOMAIN s

Removable(s) == {i \in DOMAIN s : EvidencePriority(s[i]) > 0}

\* What is left after n removals, as many as can be made: each takes the last
\* of the least important.
Trimmed(s, n) ==
  LET Sooner(i, j) ==
        \/ EvidencePriority(s[i]) > EvidencePriority(s[j])
        \/ EvidencePriority(s[i]) = EvidencePriority(s[j]) /\ i > j
      gone == {j \in Removable(s) :
                 Cardinality({i \in Removable(s) : Sooner(i, j)}) < n}
  IN AtPlaces(s, DOMAIN s \ gone)

Fits(s, framework, budget) ==
  budget = Absent \/ FixedSize + framework + Len(s) <= budget

\* The fewest removals that suffice, or all that can be made.
FittingTo(s, budget) ==
  LET enough == {n \in 0 .. Len(s) : Fits(Trimmed(s, n), FrameworkSize, budget)}
  IN IF enough = {} THEN Trimmed(s, Len(s)) ELSE Trimmed(s, FirstOf(enough))

\* Anything of an institution, in what is to be sent or was left out.
InstitutionScoped(criteria) ==
  \/ \E a \in consult.assessments \cup ToSet(consult.findings) :
       Term[a].scope = "institutional_format"
  \/ \E c \in criteria : CriterionClaims[c].institutional

\* One call, with the framework cut to its questions where that is needed;
\* what cannot be made to fit is an error.
SendWithCapabilities(criteria, budget, webCapable) ==
  LET all == SynthesisEvidence(consult.assessments, <<>>, criteria, consult.findings,
                               Cardinality(RiskClaim) + Cardinality(criteria)
                                 + Len(consult.findings))
      supplied == FittingTo(FirstN(ByPriority(all), ItemLimit), budget)
  IN
    /\ consult.pc = "gathered"
    /\ IF Fits(supplied, FrameworkSize, budget) \/ Fits(supplied, 0, budget)
         THEN /\ consult' = [consult EXCEPT !.pc = "asked", !.mode = "capable",
                               !.sent = supplied,
                               !.web = webCapable /\ ~InstitutionScoped(criteria)]
              /\ UNCHANGED outcome
         ELSE Conclude("failed", Outcome(Governed, FALSE, FALSE))

\* Its level is shown as it is; the governed synthesis stays beside it.
AnswerWithCapabilities(level) ==
  /\ consult.pc = "asked" /\ consult.mode = "capable"
  /\ Conclude("answered", Outcome(level, TRUE, TRUE))

\* An error, or an answer that does not pass the checks.
CallFails ==
  /\ consult.pc = "asked"
  /\ Conclude("failed", Outcome(Governed, FALSE, TRUE))

-----------------------------------------------------------------------------
Interpretation == [of : {a \in DOMAIN FindingKind : IsNativeRisk(a)}, level : AILevel]

AISynthesisNext ==
  \/ \E rows \in SUBSET SourceRow : GatherFindings(rows)
  \/ SkipAI
  \/ \E criteria \in SUBSET DOMAIN CriterionClaims :
       \/ SendBounded(criteria)
       \/ \E budget \in Budgets, webCapable \in BOOLEAN :
            SendWithCapabilities(criteria, budget, webCapable)
  \/ \E answers \in UNION {[1 .. n -> Interpretation] : n \in 0 .. MaxAnswers},
        proposal \in AILevel \cup {Absent} : AnswerBounded(answers, proposal)
  \/ \E level \in AILevel \cup {Absent} : AnswerWithCapabilities(level)
  \/ CallFails

AISynthesisSpec == AISynthesisInit /\ [][AISynthesisNext]_aiSynthesisVars

-----------------------------------------------------------------------------
(* Properties.                                                             *)

Natives == {a \in ToSet(consult.findings) : IsNativeRisk(a)}

\* What the policy maps itself, leaving out findings that repeat a claim.
Stated ==
  Mapped(ThePolicy, consult.assessments)
    \cup {a \in Mapped(ThePolicy, Natives) :
            ~ \E b \in consult.assessments :
                SameRecord(a, b) /\ ShippedLevel(a) = ShippedLevel(b)}

\* What only an AI can interpret, and the tier that interpretation has.
OpenTiers ==
  {ScopeTier(ThePolicy, IF Term[a].scope = Absent THEN "contextual" ELSE Term[a].scope)
     : a \in {b \in Natives : ~IsMapped(b)}}

\* The findings a claim of the same record contradicts are not lost, and
\* what the policy maps is not the AI's to change: the overall level is at
\* least that of each mapped assessment or finding than which neither a
\* mapped nor an open one is more specific; where no AI assisted it is one
\* of those levels; and with nothing open the AI is not asked at all
\* (synthesize_with_ai: "Configured mappings and synthesis rules are
\* binding").
ConfiguredRiskIsBinding ==
  consult.mode # "capable" /\ consult.pc \in {"skipped", "answered"} =>
    /\ \A a \in Stated :
         /\ \A b \in Stated : ShippedScope(a) <= ShippedScope(b)
         /\ \A tier \in OpenTiers : ShippedScope(a) <= tier
         => outcome.level # Absent /\ Concern[outcome.level] >= Concern[ShippedLevel(a)]
    /\ ~outcome.assisted =>
         outcome.level \in {ShippedLevel(a) : a \in Stated} \cup {Absent}
    /\ Stated # {} /\ OpenTiers = {} => ~outcome.consulted

Sent == {consult.sent[i] : i \in DOMAIN consult.sent}

\* The call with capabilities gets every governed assessment, however small
\* its budget, unless they alone exceed the limit of items; no finding is
\* left out for a less important one; no finding of an institution goes out
\* with web tools; and an error leaves the governed level
\* (_fit_context_to_budget: "Governed source-level risk assessments are
\* retained").
GovernedRiskIsSupplied ==
  /\ consult.mode = "capable" =>
       /\ Cardinality(consult.assessments) <= ItemLimit =>
            consult.assessments \subseteq {ref.of : ref \in Sent}
       /\ \A a \in ToSet(consult.findings) \ {ref.of : ref \in Sent} :
            \A ref \in Sent :
              EvidencePriority(ref) <= EvidencePriority(Ref(FindingKind[a], a))
       /\ consult.web => \A a \in {ref.of : ref \in Sent} \cap DOMAIN FindingKind :
                           Term[a].scope # "institutional_format"
  /\ consult.pc = "failed" => outcome.level = Governed

=============================================================================
