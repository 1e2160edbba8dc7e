--------------------------- MODULE RiskAssessment ---------------------------
(***************************************************************************)
(* Answering a risk framework for one format, from the claims the registry *)
(* holds at the time.                                                      *)
(*                                                                         *)
(* A request takes the format's document, reads the current claims of each *)
(* canonical id the document is known by, one store query after another,   *)
(* and derives from them an answer to every question of the framework, a   *)
(* score, the gaps and a plan to fill them.  If asked to, it then lets an  *)
(* AI provider interpret the evidence: the document is resolved and the    *)
(* claims are read once more for that.  The registry builder goes on       *)
(* meanwhile: it supersedes claims, saves new ones and publishes another   *)
(* document, or none, between any two of these reads.                      *)
(*                                                                         *)
(* A framework is a record: its questions with their evidence fields,      *)
(* value maps, domains and options; the points of the options and which of *)
(* them abstain; weights, critical questions and bands.  Percentages stand *)
(* for fractions.  What an evidence item says is given by Data; that two   *)
(* texts name one field, value or option is decided there.                 *)
(***************************************************************************)
EXTENDS Integers, Sequences, FiniteSets, FiniteSetsExt

CONSTANTS
  Claim,        \* criterion claims
  Legacy,       \* evidence items carried by documents
  Recognition,  \* the item derived from a verified PUID
  Data,         \* what each of these says
  Document,     \* the documents the format may have
  Framework,    \* the frameworks a request may name
  Rules,        \* the content of each
  Institution,  \* institutions with evidence of their own
  Compatible,   \* evidence field -> the fields it also accepts
  GlobalMap,    \* evidence field -> value -> option, for every framework
  OptionRank,   \* the order of option ids, for ties
  Nil,          \* no value
  MaxChange     \* bound: registry changes during a request

Item == Claim \cup Legacy \cup {Recognition}

VARIABLES
  document,  \* the format's document in the registry, or Nil
  current,   \* the claims that are current
  changes,   \* registry changes so far
  request,   \* the request
  result,    \* its answer, or Nil
  reviewed,  \* what the AI stage made of the answers, or Nil
  steady,    \* history: claims current since the request began
  ever       \* history: claims current at some time since then

assessmentVars ==
  <<document, current, changes, request, result, reviewed, steady, ever>>

NoRequest == [pc |-> "none", document |-> Nil, framework |-> Nil,
              institution |-> Nil, mode |-> "off", next |-> 1, read |-> {}]

AssessmentStart(doc, claims) ==
  /\ document = doc
  /\ current = claims
  /\ changes = 0
  /\ request = NoRequest
  /\ result = Nil
  /\ reviewed = Nil
  /\ steady = {}
  /\ ever = {}

AssessmentInit ==
  \E d \in Document, claims \in SUBSET Claim : AssessmentStart(d, claims)

-----------------------------------------------------------------------------
(* Scope and evidence.                                                     *)

Scoped(x) == Data[x].institution # Nil \/ Data[x].independence = "institution_scoped"

\* A global request sees no institution's claims, a request of an
\* institution sees the global ones and its own.
InScope(c, institution) ==
  \/ ~Scoped(c)
  \/ institution # Nil /\ Data[c].institution = institution

\* Drafts, rejected, withdrawn and superseded items are not evidence.
Usable(x) == Data[x].review \notin {"draft", "rejected", "withdrawn", "superseded"}

SourceIdentity(x) ==
  IF Data[x].source = Nil
    THEN Nil
    ELSE <<Data[x].source, Data[x].record, Data[x].criterion, Data[x].institution>>

\* A claim stands for the legacy item of the same observation.
Shadowed(l, claims) ==
  /\ SourceIdentity(l) # Nil
  /\ \E c \in claims : SourceIdentity(c) = SourceIdentity(l)

Evidence(doc, read, institution) ==
  LET usable == {c \in read : Usable(c)}
      global == {c \in usable : ~Scoped(c)}
      local  == {c \in usable : Scoped(c) /\ institution # Nil
                                /\ Data[c].institution = institution}
  IN
    global \cup local
    \cup {l \in doc.globalEvidence : Usable(l) /\ ~Shadowed(l, global)}
    \cup {l \in doc.institutionEvidence :
            /\ institution # Nil
            /\ Data[l].institution = institution
            /\ Usable(l)
            /\ ~Shadowed(l, local)}
    \cup {x \in {Recognition} : doc.verifiedPuid}

-----------------------------------------------------------------------------
(* The answer to a question.                                               *)

MatchesField(x, field) == Data[x].criterion \in {field} \cup Compatible[field]

\* An option the item names; else the option the framework, or else the
\* global map, gives its value; Nil if none of the question's options.
AnswerFrom(fw, q, field, x) ==
  LET mapped == IF fw.valueMap[q][Data[x].value] # Nil
                  THEN fw.valueMap[q][Data[x].value]
                  ELSE GlobalMap[field][Data[x].value]
  IN
    IF Data[x].option \in fw.options[q] THEN Data[x].option
    ELSE IF Data[x].value # Nil /\ mapped \in fw.options[q] THEN mapped
    ELSE Nil

\* What loading a framework enforces: questions, and a finite choice of
\* options for each, with points (Question.from_dict, RiskFramework.from_dict).
SoundFramework(fw) ==
  /\ fw.questions # {}
  /\ \A q \in fw.questions :
       /\ IsFiniteSet(fw.options[q]) /\ IsFiniteSet(fw.fields[q])
       /\ \A o \in fw.options[q] : fw.points[q][o] \in Int /\ OptionRank[o] \in Int

ASSUME AssessmentConstants ==
  /\ Nil \notin Document
  /\ \A d \in Document : /\ d.ids \in Seq(STRING)
                          /\ d.globalEvidence \cup d.institutionEvidence \subseteq Legacy
  /\ \A f \in Framework : SoundFramework(Rules[f])

\* In the shipped frameworks no value maps to the abstention, and nothing
\* that writes evidence names an option of a framework.
ASSUME NoItemAbstains ==
  \A f \in Framework, x \in Item : \A q \in Rules[f].questions :
    \A field \in Rules[f].fields[q] :
      AnswerFrom(Rules[f], q, field, x) \notin Rules[f].abstains

Matched(fw, q, items) ==
  {x \in items : \E f \in fw.fields[q] : MatchesField(x, f)}

AnswersUnder(fw, q, field, items) ==
  {AnswerFrom(fw, q, field, x) : x \in {y \in items : MatchesField(y, field)}} \ {Nil}

Candidates(fw, q, items) ==
  UNION {AnswersUnder(fw, q, f, items) : f \in fw.fields[q]}

\* The slip: the least instead of the most points.
WrongMostPoints(fw, q, answers) ==
  CHOOSE a \in answers : \A b \in answers :
    \/ fw.points[q][a] < fw.points[q][b]
    \/ fw.points[q][a] = fw.points[q][b] /\ OptionRank[a] >= OptionRank[b]

MostPoints(fw, q, answers) ==
  CHOOSE a \in answers : \A b \in answers :
    \/ fw.points[q][a] > fw.points[q][b]
    \/ fw.points[q][a] = fw.points[q][b] /\ OptionRank[a] >= OptionRank[b]

DerivationStatus(fw, q, items) ==
  LET answers == Candidates(fw, q, items) IN
    IF answers = {}
      THEN IF Matched(fw, q, items) = {} THEN "missing_evidence" ELSE "unknown"
      ELSE IF Cardinality(answers) = 1 THEN "derived"
      ELSE "derived_conflict_conservative"

DerivedAnswer(fw, q, items) ==
  IF Candidates(fw, q, items) = {}
    THEN fw.unknown
    ELSE MostPoints(fw, q, Candidates(fw, q, items))

-----------------------------------------------------------------------------
(* The score.  An abstention weighs nothing.                               *)

Abstains(fw, answers, q) == answers[q] \in fw.abstains

Points(fw, answers, q) ==
  IF Abstains(fw, answers, q) THEN 0 ELSE fw.points[q][answers[q]]

Score(fw, answers) ==
  MapThenSumSet(LAMBDA q : Points(fw, answers, q) * fw.weight[q], fw.questions)

Answered(fw, answers) == {q \in fw.questions : ~Abstains(fw, answers, q)}

AnalysisStatus(fw, answers) ==
  LET abstentions == fw.questions \ Answered(fw, answers) IN
    IF Answered(fw, answers) = {} THEN "Not Assessed"
    ELSE IF abstentions \cap fw.critical # {} THEN "Needs Assessment"
    ELSE IF abstentions # {} THEN "Partially Assessed"
    ELSE "Assessed"

BandSuppressed(fw, answers) ==
  IF ~fw.banding THEN "framework_not_calibrated"
  ELSE IF AnalysisStatus(fw, answers) = "Not Assessed" THEN "not_assessed"
  ELSE IF AnalysisStatus(fw, answers) = "Needs Assessment"
    THEN "critical_abstention"
  ELSE IF 100 * Cardinality(Answered(fw, answers))
            < fw.minCompleteness * Cardinality(fw.questions)
    THEN "insufficient_evidence_completeness"
  ELSE Nil

\* The band whose range holds the score; a score between two bands is an
\* error.
Band(fw, answers) ==
  IF BandSuppressed(fw, answers) # Nil THEN Nil
  ELSE IF \E b \in fw.bands : Score(fw, answers) \in b.min..b.max
    THEN (CHOOSE b \in fw.bands : Score(fw, answers) \in b.min..b.max).band
    ELSE "FrameworkError"

-----------------------------------------------------------------------------
(* Gaps and the plan to fill them.                                         *)

\* The slip: only questions without any matching item are gaps.
WrongGaps(statuses) ==
  {q \in DOMAIN statuses : statuses[q] = "missing_evidence"}

Gaps(statuses) ==
  {q \in DOMAIN statuses : statuses[q] \in {"missing_evidence", "unknown"}}

WorkType(fw, q, status) ==
  IF status = "unknown" THEN "deterministic_mapping_review"
  ELSE IF fw.domain[q] = "local_institutional_feasibility"
    THEN "institution_evidence_required"
  ELSE IF fw.domain[q] = "essential_characteristics" \/ fw.applicability[q] # {}
    THEN "content_specific_assessment_required"
  ELSE IF fw.domain[q] # Nil THEN "automated_evidence_research_required"
  ELSE "source_evidence_required"

Priority(fw, q, work) ==
  IF q \in fw.critical THEN "P1"
  ELSE IF work \in {"deterministic_mapping_review",
                                      "institution_evidence_required",
                                      "content_specific_assessment_required"}
    THEN "P2"
  ELSE "P3"

ActionType ==
  [deterministic_mapping_review         |-> "mapping_rule_needed",
   institution_evidence_required        |-> "institution_evidence_needed",
   content_specific_assessment_required |-> "content_specific_assessment_needed",
   automated_evidence_research_required |-> "automated_evidence_research",
   source_evidence_required             |-> "source_evidence_needed"]

GapClassification(fw, statuses, items, claims) ==
  LET gaps == Gaps(statuses)
      unmapped == {q \in gaps : statuses[q] = "unknown"}
  IN
    IF gaps = {} THEN "none"
    ELSE IF unmapped # {} /\ gaps # unmapped THEN "mixed_mapping_and_evidence_gaps"
    ELSE IF unmapped # {} THEN "claims_exist_but_do_not_map"
    ELSE IF claims = {} THEN "no_evidence"
    ELSE IF \A q \in fw.questions : Matched(fw, q, items) = {}
      THEN "claims_exist_but_not_for_framework"
    ELSE "missing_matching_evidence"

GapItems(fw, statuses) ==
  LET Work(q) == WorkType(fw, q, statuses[q]) IN
    {[question |-> q, priority |-> Priority(fw, q, Work(q)),
      action |-> ActionType[Work(q)]] : q \in Gaps(statuses)}

AlignmentReview(fw, statuses) ==
  [question |-> Nil, action |-> "framework_alignment_review",
   priority |-> IF Gaps(statuses) \cap fw.critical # {} THEN "P1" ELSE "P2"]

\* One item per gap, and one for a framework that nothing on record fits.
Remediation(fw, statuses, classification) ==
  GapItems(fw, statuses)
  \cup IF classification = "claims_exist_but_not_for_framework"
         THEN {AlignmentReview(fw, statuses)}
         ELSE {}

-----------------------------------------------------------------------------
(* The registry changes.                                                   *)

Reading == request.pc \in {"claims", "ai_format", "ai_claims"}

Changed ==
  /\ Reading
  /\ changes < MaxChange
  /\ changes' = changes + 1

Supersede(c) ==
  /\ Changed
  /\ c \in current
  /\ current' = current \ {c}
  /\ steady' = steady \ {c}
  /\ UNCHANGED <<document, request, result, reviewed, ever>>

SaveClaim(c) ==
  /\ Changed
  /\ c \notin current
  /\ current' = current \cup {c}
  /\ ever' = ever \cup {c}
  /\ UNCHANGED <<document, request, result, reviewed, steady>>

\* Before the AI stage resolves it, the document may change or go.
Republish(d) ==
  /\ request.pc = "ai_format"
  /\ d # document
  /\ Changed
  /\ document' = d
  /\ UNCHANGED <<current, request, result, reviewed, steady, ever>>

-----------------------------------------------------------------------------
(* The request.                                                            *)

Ask(fw, institution) ==
  /\ request.pc = "none"
  /\ request' = [NoRequest EXCEPT !.pc = "claims", !.document = document,
                                  !.framework = fw,
                                  !.institution = institution]
  /\ steady' = current
  /\ ever' = current
  /\ UNCHANGED <<document, current, changes, result, reviewed>>

\* The current claims in scope of the next id the document is known by.
ReadClaims ==
  /\ request.pc \in {"claims", "ai_claims"}
  /\ request.next <= Len(request.document.ids)
  /\ request' =
       [request EXCEPT
          !.next = @ + 1,
          !.read = @ \cup {c \in current :
                             /\ Data[c].home = request.document.ids[request.next]
                             /\ InScope(c, request.institution)}]
  /\ UNCHANGED <<document, current, changes, result, reviewed, steady, ever>>

AllRead == request.next > Len(request.document.ids)
Asked == Rules[request.framework]
EvidenceRead ==
  Evidence(request.document, request.read, request.institution)

Answers(fw, items) == [q \in fw.questions |-> DerivedAnswer(fw, q, items)]

Statuses(fw, items) == [q \in fw.questions |-> DerivationStatus(fw, q, items)]

Respond ==
  /\ request.pc = "claims"
  /\ AllRead
  /\ \E answers \in {Answers(Asked, EvidenceRead)},
        statuses \in {Statuses(Asked, EvidenceRead)} :
       LET gaps == GapClassification(Asked, statuses, EvidenceRead,
                                     request.read)
       IN
         result' = [answers |-> answers,
                    statuses |-> statuses,
                    score |-> Score(Asked, answers),
                    status |-> AnalysisStatus(Asked, answers),
                    suppressed |-> BandSuppressed(Asked, answers),
                    band |-> Band(Asked, answers),
                    gaps |-> gaps,
                    plan |-> Remediation(Asked, statuses, gaps)]
  /\ request' = [request EXCEPT !.pc = "answered"]
  /\ UNCHANGED <<document, current, changes, reviewed, steady, ever>>

-----------------------------------------------------------------------------
(* The AI stage.                                                           *)

AskAI(mode) ==
  /\ request.pc = "answered"
  /\ request' = [request EXCEPT !.pc = "ai_format", !.mode = mode]
  /\ UNCHANGED <<document, current, changes, result, reviewed, steady, ever>>

\* The document is resolved again; without one the stage does not run.
ResolveForAI ==
  /\ request.pc = "ai_format"
  /\ request' =
       IF document = Nil
         THEN [request EXCEPT !.pc = "ai_done"]
         ELSE [request EXCEPT !.pc = "ai_claims", !.document = document,
                              !.next = 1, !.read = {}]
  /\ UNCHANGED <<document, current, changes, result, reviewed, steady, ever>>

\* The slip: whatever has an answer is interpreted, too.
WrongEligible(mode, statuses) ==
  IF mode = "fill-gaps" THEN DOMAIN statuses ELSE {}

\* A review of all questions is a comparison and replaces no answer.
Eligible(mode, statuses) ==
  IF mode = "fill-gaps"
    THEN {q \in DOMAIN statuses :
            statuses[q] \in {"unknown", "missing_evidence",
                             "derived_conflict_conservative"}}
    ELSE {}

\* What the provider may make of the eligible questions: a valid option
\* each, or Nil where it fails or there is no evidence to show it.
Interpretations(fw, eligible, evidence) ==
  {choice \in [eligible -> UNION {fw.options[q] : q \in eligible} \cup {Nil}] :
     \A q \in eligible :
       choice[q] # Nil => evidence /\ choice[q] \in fw.options[q]}

Interpret ==
  /\ request.pc = "ai_claims"
  /\ AllRead
  /\ \E answers \in {Answers(Asked, EvidenceRead)},
        eligible \in {Eligible(request.mode, Statuses(Asked, EvidenceRead))} :
       LET shown == EvidenceRead # {} \/ request.document.sourceEvidence IN
         \E choice \in Interpretations(Asked, eligible, shown) :
           LET final == [q \in Asked.questions |->
                           IF q \in eligible /\ choice[q] # Nil
                             THEN choice[q] ELSE answers[q]]
           IN
             reviewed' = [answers |-> final,
                          score |-> Score(Asked, final),
                          band |-> Band(Asked, final)]
  /\ request' = [request EXCEPT !.pc = "ai_done"]
  /\ UNCHANGED <<document, current, changes, result, steady, ever>>

AssessmentNext ==
  \/ \E c \in Claim : Supersede(c) \/ SaveClaim(c)
  \/ \E d \in Document \cup {Nil} : Republish(d)
  \/ \E fw \in Framework, i \in Institution \cup {Nil} : Ask(fw, i)
  \/ ReadClaims
  \/ Respond
  \/ \E mode \in {"fill-gaps", "review-all"} : AskAI(mode)
  \/ ResolveForAI
  \/ Interpret

AssessmentSpec == AssessmentInit /\ [][AssessmentNext]_assessmentVars

-----------------------------------------------------------------------------
(* Properties.                                                             *)

AnsweredRequest == request.pc = "answered"

\* The claims a request must not overlook, and what they answer.
Steady ==
  {c \in steady : /\ \E i \in DOMAIN request.document.ids :
                       Data[c].home = request.document.ids[i]
                  /\ InScope(c, request.institution)
                  /\ Usable(c)}

(* What was on record all along counts: if a usable claim in scope, of any *)
(* id the format is known by, was current from the start of the request to *)
(* its answer, no question it answers gets fewer points than it gives,     *)
(* whatever else the builder supersedes and saves meanwhile                *)
(* (get_criterion_claims_for_format, _derive_question_answer).             *)

SteadyRiskIsCounted ==
  AnsweredRequest =>
    \A c \in Steady, q \in Asked.questions :
      \A f \in Asked.fields[q] :
        LET a == AnswerFrom(Asked, q, f, c) IN
          MatchesField(c, f) /\ a # Nil =>
            Asked.points[q][result.answers[q]] >= Asked.points[q][a]

(* Whatever is left unanswered is planned for: every question without an   *)
(* answer has an item in the remediation plan, a critical one at P1, and   *)
(* an assessment that needs attention ("Needs Assessment", "Not Assessed") *)
(* is never handed over with an empty plan (_question_gap,                 *)
(* plan_format_evidence_remediation).  In the shipped frameworks no value   *)
(* of a claim maps to the abstention, so an unanswered question has none.  *)

UnansweredIsPlanned ==
  AnsweredRequest =>
    /\ \A q \in Asked.questions :
         Abstains(Asked, result.answers, q) =>
           \E item \in result.plan :
             /\ item.question = q
             /\ q \in Asked.critical => item.priority = "P1"
    /\ result.plan = {} => result.status = "Assessed"

(* The AI stage fills gaps and settles conflicts, and nothing else: where  *)
(* a usable claim was there throughout and everything that was on record   *)
(* at any time since the request began agrees with it, the answer is still *)
(* the one it gives, whatever the provider returned, in every mode         *)
(* (_apply_ai_risk_assessment: "it cannot replace deterministically        *)
(* resolved answers").                                                     *)

OnRecord ==
  {c \in ever : InScope(c, request.institution)}
  \cup request.document.globalEvidence
  \cup request.document.institutionEvidence
  \cup {Recognition}

AIFillsGapsOnly ==
  request.pc = "ai_done" /\ reviewed # Nil =>
    \A q \in Asked.questions :
      \A a \in Candidates(Asked, q, Steady) :
        Candidates(Asked, q, OnRecord) = {a} => reviewed.answers[q] = a

=============================================================================
