-------------------------- MODULE AssessmentProofs --------------------------
(***************************************************************************)
(* Requests for an assessment, audits and the overall source risk, for any *)
(* frameworks, claims and documents, and any changes of the registry       *)
(* between two reads.                                                      *)
(*                                                                         *)
(* A request: what was on record from its start to its answer is among     *)
(* what it read, whatever else changed (CoverageInv), so that what such    *)
(* claims answer is among the candidates of every question.  Of these the  *)
(* answer has the most points, and a question has no answer only if it has *)
(* no candidate.  What it read was all on record at some time (OriginInv), *)
(* so that the AI stage meets no conflict and no gap where all of that     *)
(* agrees.                                                                 *)
(***************************************************************************)
EXTENDS RegistryAudit, AISynthesis, TLAPS, FiniteSetTheorems, WellFoundedInduction

-----------------------------------------------------------------------------
(* The conservative choice.                                                *)

\* Of the sets of elements that score more than each element, one is
\* smallest.
LEMMA HasGreatest ==
  ASSUME NEW S, IsFiniteSet(S), S # {}, NEW f, \A x \in S : f[x] \in Int
  PROVE  \E m \in S : \A n \in S : f[n] <= f[m]
<1>. DEFINE Above(m) == {n \in S : f[n] > f[m]}
            T == {Above(m) : m \in S}
<1>1. T \subseteq FiniteSubsetsOf(S) /\ T # {}
  <2>1. T \subseteq SUBSET S
    OBVIOUS
  <2>2. PICK m : m \in S
    OBVIOUS
  <2>3. Above(m) \in T
    BY <2>2
  <2>. QED
    BY <2>1, <2>3, FS_FiniteSubsetsOfFinite
<1>2. IsWellFoundedOn(StrictSubsetOrdering(S), FiniteSubsetsOf(S))
  BY FS_StrictSubsetOrderingWellFounded
<1>3. PICK x \in T : \A y \in T : <<y, x>> \notin StrictSubsetOrdering(S)
  <2>. HIDE DEF T
  <2>. QED
    BY <1>1, <1>2, WFMin, Zenon
<1>4. PICK m \in S : x = Above(m)
  OBVIOUS
<1>5. SUFFICES ASSUME NEW n \in S, ~(f[n] <= f[m]) PROVE FALSE
  BY <1>4
<1>6. f[n] > f[m] /\ ~(f[n] > f[n])
  BY <1>5
<1>7. Above(n) \subseteq Above(m) /\ n \in Above(m) /\ n \notin Above(n)
  <2>1. \A e \in S : f[e] > f[n] => f[e] > f[m]
    BY <1>6
  <2>. QED
    BY <1>6, <2>1, Zenon
<1>8. <<Above(n), Above(m)>> \in StrictSubsetOrdering(S)
  BY <1>7 DEF StrictSubsetOrdering
<1>. QED
  BY <1>3, <1>4, <1>8

LEMMA MostPointsIs ==
  ASSUME NEW fw, SoundFramework(fw), NEW q \in fw.questions,
         NEW S \in SUBSET fw.options[q], S # {}
  PROVE  /\ MostPoints(fw, q, S) \in S
         /\ \A a \in S : fw.points[q][MostPoints(fw, q, S)] >= fw.points[q][a]
<1>1. /\ IsFiniteSet(S)
      /\ \A o \in S : fw.points[q][o] \in Int /\ OptionRank[o] \in Int
  BY FS_Subset DEF SoundFramework
<1>2. PICK m \in S : \A n \in S : fw.points[q][n] <= fw.points[q][m]
  BY <1>1, HasGreatest
<1>. DEFINE level == {o \in S : fw.points[q][o] = fw.points[q][m]}
<1>3. IsFiniteSet(level) /\ level # {} /\ \A o \in level : OptionRank[o] \in Int
  BY <1>1, FS_Subset
<1>4. PICK a \in level : \A b \in level : OptionRank[b] <= OptionRank[a]
  BY <1>3, HasGreatest
<1>5. \A b \in S : \/ fw.points[q][a] > fw.points[q][b]
                   \/ fw.points[q][a] = fw.points[q][b] /\ OptionRank[a] >= OptionRank[b]
  BY <1>1, <1>2, <1>4
<1>6. /\ MostPoints(fw, q, S) \in S
      /\ \A b \in S :
           \/ fw.points[q][MostPoints(fw, q, S)] > fw.points[q][b]
           \/ /\ fw.points[q][MostPoints(fw, q, S)] = fw.points[q][b]
              /\ OptionRank[MostPoints(fw, q, S)] >= OptionRank[b]
  BY <1>5 DEF MostPoints
<1>. QED
  BY <1>1, <1>6

-----------------------------------------------------------------------------
(* Candidates.                                                             *)

LEMMA AnswersAre ==
  ASSUME NEW fw, NEW q, NEW f, NEW items
  PROVE  \A a : a \in AnswersUnder(fw, q, f, items) <=>
           a # Nil /\ \E x \in items : MatchesField(x, f) /\ a = AnswerFrom(fw, q, f, x)
BY DEF AnswersUnder

LEMMA CandidatesAre ==
  ASSUME NEW fw, NEW q \in fw.questions, NEW items
  PROVE  /\ Candidates(fw, q, items) \subseteq fw.options[q]
         /\ \A a : a \in Candidates(fw, q, items) <=>
              \E f \in fw.fields[q] : a \in AnswersUnder(fw, q, f, items)
<1>1. \A a : a \in Candidates(fw, q, items) <=>
        \E f \in fw.fields[q] : a \in AnswersUnder(fw, q, f, items)
  BY DEF Candidates
<1>2. \A f, x : AnswerFrom(fw, q, f, x) \in fw.options[q] \cup {Nil}
  BY DEF AnswerFrom
<1>3. \A f, a : a \in AnswersUnder(fw, q, f, items) => a \in fw.options[q]
  BY <1>2, AnswersAre
<1>. QED
  BY <1>1, <1>3

LEMMA CandidatesGrow ==
  ASSUME NEW fw, NEW q \in fw.questions, NEW items, NEW more, items \subseteq more
  PROVE  Candidates(fw, q, items) \subseteq Candidates(fw, q, more)
<1>1. \A f : AnswersUnder(fw, q, f, items) \subseteq AnswersUnder(fw, q, f, more)
  BY AnswersAre
<1>. QED
  BY <1>1, CandidatesAre

\* An answer that was derived is one of its candidates, and none of them has
\* more points.
LEMMA DerivedIs ==
  ASSUME NEW fw, SoundFramework(fw), NEW q \in fw.questions, NEW items,
         Candidates(fw, q, items) # {}
  PROVE  /\ DerivedAnswer(fw, q, items) \in Candidates(fw, q, items)
         /\ \A a \in Candidates(fw, q, items) :
              fw.points[q][DerivedAnswer(fw, q, items)] >= fw.points[q][a]
         /\ DerivationStatus(fw, q, items) \in {"derived", "derived_conflict_conservative"}
         /\ \A a : Candidates(fw, q, items) = {a} => DerivationStatus(fw, q, items) = "derived"
<1>1. Candidates(fw, q, items) \in SUBSET fw.options[q]
  BY CandidatesAre
<1>2. \A a : Cardinality({a}) = 1
  BY FS_Singleton
<1>. QED
  BY <1>1, <1>2, MostPointsIs DEF DerivedAnswer, DerivationStatus

-----------------------------------------------------------------------------
(* What a request has read.                                                *)

RequestPhase == {"none", "claims", "answered", "ai_format", "ai_claims", "ai_done"}
Mode == {"off", "fill-gaps", "review-all"}

Request ==
  [pc : RequestPhase, document : Document \cup {Nil}, framework : Framework \cup {Nil},
   institution : Institution \cup {Nil}, mode : Mode, next : Nat \ {0},
   read : SUBSET Claim]

RequestInv ==
  /\ document \in Document \cup {Nil}
  /\ request \in Request
  /\ IF request.pc = "none"
       THEN document \in Document
       ELSE request.document \in Document /\ request.framework \in Framework

OriginInv ==
  /\ current \subseteq Claim
  /\ request.pc # "none" => steady \subseteq current /\ current \subseteq ever
  /\ \A c \in request.read : c \in ever /\ InScope(c, request.institution)

Covered ==
  \A c \in steady, i \in DOMAIN request.document.ids :
    /\ i < request.next
    /\ Data[c].home = request.document.ids[i]
    /\ InScope(c, request.institution)
    => c \in request.read

CoverageInv == request.pc \in {"claims", "answered", "ai_claims"} => Covered

ResponseInv ==
  AnsweredRequest =>
    /\ AllRead
    /\ result.answers = Answers(Asked, EvidenceRead)
    /\ result.status = AnalysisStatus(Asked, result.answers)
    /\ result.plan = Remediation(Asked, Statuses(Asked, EvidenceRead), result.gaps)

AssessmentInv == RequestInv /\ OriginInv /\ CoverageInv

\* Everything that was on record throughout is evidence of the request, and
\* nothing is that was not on record at some time.
LEMMA EvidenceIs ==
  ASSUME AssessmentInv, request.pc \in {"claims", "answered", "ai_claims"}, AllRead
  PROVE  Steady \subseteq EvidenceRead /\ EvidenceRead \subseteq OnRecord
<1>1. request.document.ids \in Seq(STRING) /\ request.next \in Nat
  BY AssessmentConstants DEF AssessmentInv, RequestInv, Request
<1>2. \A i \in DOMAIN request.document.ids : i < request.next
  BY <1>1 DEF AllRead
<1>3. \A c \in Steady : c \in request.read /\ Usable(c) /\ InScope(c, request.institution)
  BY <1>2 DEF AssessmentInv, CoverageInv, Covered, Steady
<1>4. Steady \subseteq EvidenceRead
  BY <1>3 DEF EvidenceRead, Evidence, InScope
<1>5. EvidenceRead \subseteq OnRecord
  BY DEF EvidenceRead, Evidence, OnRecord, AssessmentInv, OriginInv
<1>. QED
  BY <1>4, <1>5

LEMMA AssessmentInitInv == AssessmentInit => AssessmentInv /\ ResponseInv
BY AssessmentConstants
   DEF AssessmentInit, AssessmentStart, NoRequest, AssessmentInv, RequestInv,
       OriginInv, CoverageInv, ResponseInv, AnsweredRequest, Request, RequestPhase, Mode

LEMMA ChangeStep ==
  ASSUME AssessmentInv, Reading,
         \/ \E c \in Claim : Supersede(c) \/ SaveClaim(c)
         \/ \E d \in Document \cup {Nil} : Republish(d)
  PROVE  AssessmentInv'
<1>1. UNCHANGED request /\ request.pc # "none"
  BY DEF Reading, Supersede, SaveClaim, Republish
<1>2. RequestInv'
  BY <1>1 DEF AssessmentInv, RequestInv, Request, Supersede, SaveClaim, Republish
<1>3. steady' \subseteq steady /\ ever \subseteq ever'
  BY DEF Supersede, SaveClaim, Republish
<1>4. current' \subseteq Claim /\ steady' \subseteq current' /\ current' \subseteq ever'
  BY <1>1 DEF AssessmentInv, OriginInv, Supersede, SaveClaim, Republish
<1>5. OriginInv'
  BY <1>1, <1>3, <1>4 DEF AssessmentInv, OriginInv, InScope, Scoped
<1>6. CoverageInv'
  BY <1>1, <1>3 DEF AssessmentInv, CoverageInv, Covered, InScope, Scoped
<1>. QED
  BY <1>2, <1>5, <1>6 DEF AssessmentInv

LEMMA AskStep ==
  ASSUME AssessmentInv, NEW fw \in Framework, NEW i \in Institution \cup {Nil}, Ask(fw, i)
  PROVE  AssessmentInv'
<1>1. request' = [pc |-> "claims", document |-> document, framework |-> fw,
                  institution |-> i, mode |-> "off", next |-> 1, read |-> {}]
  BY DEF Ask, NoRequest
<1>2. RequestInv'
  <2>1. document \in Document /\ UNCHANGED document
    BY DEF Ask, AssessmentInv, RequestInv
  <2>2. request' \in Request
    BY <1>1, <2>1 DEF Request, RequestPhase, Mode
  <2>3. /\ request'.pc = "claims" /\ request'.document = document
        /\ request'.framework = fw
    BY <1>1
  <2>. QED
    BY <2>1, <2>2, <2>3 DEF RequestInv
<1>3. OriginInv'
  <2>1. request'.read = {}
    BY <1>1
  <2>2. steady' = current /\ ever' = current /\ current' = current
    BY DEF Ask
  <2>. QED
    BY <2>1, <2>2 DEF AssessmentInv, OriginInv
<1>4. \A k \in DOMAIN document.ids : ~ (k < 1)
  BY AssessmentConstants DEF AssessmentInv, RequestInv, Request, Ask
<1>5. CoverageInv'
  BY <1>1, <1>4 DEF CoverageInv, Covered
<1>. QED
  BY <1>2, <1>3, <1>5 DEF AssessmentInv

LEMMA ReadClaimsStep ==
  ASSUME AssessmentInv, ReadClaims
  PROVE  AssessmentInv'
<1>. DEFINE found == {c \in current : /\ Data[c].home = request.document.ids[request.next]
                                      /\ InScope(c, request.institution)}
<1>1. /\ request' = [request EXCEPT !.next = request.next + 1,
                                    !.read = request.read \cup found]
      /\ request.pc \in {"claims", "ai_claims"}
      /\ UNCHANGED <<document, current, changes, result, reviewed, steady, ever>>
  BY DEF ReadClaims
<1>2. found \subseteq current /\ \A c \in found : InScope(c, request.institution)
  OBVIOUS
<1>. HIDE DEF found
<1>3. /\ request'.pc = request.pc /\ request'.document = request.document
      /\ request'.institution = request.institution
      /\ request'.next = request.next + 1 /\ request'.read = request.read \cup found
  BY <1>1 DEF AssessmentInv, RequestInv, Request
<1>4. RequestInv'
  <2>1. request.read \cup found \in SUBSET Claim
    BY <1>2 DEF AssessmentInv, RequestInv, OriginInv, Request
  <2>2. request.next + 1 \in Nat \ {0}
    BY DEF AssessmentInv, RequestInv, Request
  <2>3. request' \in Request
    BY <1>1, <2>1, <2>2 DEF AssessmentInv, RequestInv, Request
  <2>. QED
    BY <1>1, <1>3, <2>3 DEF AssessmentInv, RequestInv, Request
<1>5. OriginInv'
  BY <1>1, <1>2, <1>3 DEF AssessmentInv, OriginInv, InScope, Scoped
<1>6. CoverageInv'
  <2>. SUFFICES ASSUME NEW c \in steady, NEW k \in DOMAIN request.document.ids,
                       k < request.next + 1, Data[c].home = request.document.ids[k],
                       InScope(c, request.institution)
                PROVE  c \in request'.read
    BY <1>1, <1>3 DEF CoverageInv, Covered, InScope, Scoped
  <2>1. k \in Nat /\ request.next \in Nat
    BY AssessmentConstants, <1>1 DEF AssessmentInv, RequestInv, Request
  <2>2. CASE k = request.next
    BY <2>2, <1>1, <1>3 DEF found, AssessmentInv, OriginInv
  <2>3. CASE k < request.next
    BY <2>3, <1>1, <1>3 DEF AssessmentInv, CoverageInv, Covered
  <2>. QED
    BY <2>1, <2>2, <2>3
<1>. QED
  BY <1>4, <1>5, <1>6 DEF AssessmentInv

\* The AI stage reads everything anew.
LEMMA ResolveForAIStep ==
  ASSUME AssessmentInv, ResolveForAI
  PROVE  AssessmentInv'
<1>1. CASE document = Nil
  BY <1>1 DEF ResolveForAI, AssessmentInv, RequestInv, Request, OriginInv, CoverageInv,
              RequestPhase, InScope, Scoped
<1>2. CASE document # Nil
  <2>1. /\ request' = [request EXCEPT !.pc = "ai_claims", !.document = document,
                                      !.next = 1, !.read = {}]
        /\ document \in Document
    BY <1>2 DEF ResolveForAI, AssessmentInv, RequestInv, Request
  <2>2. RequestInv'
    <3>1. request' \in Request /\ request'.pc = "ai_claims"
          /\ request'.document = document /\ request'.framework = request.framework
      <4>1. request \in Request /\ document \in Document \cup {Nil}
        BY DEF AssessmentInv, RequestInv
      <4>2. request' = [pc |-> "ai_claims", document |-> document,
                        framework |-> request.framework,
                        institution |-> request.institution,
                        mode |-> request.mode, next |-> 1, read |-> {}]
        BY <2>1, <4>1 DEF Request
      <4>. QED
        BY <4>1, <4>2 DEF Request, RequestPhase
    <3>. QED
      BY <2>1, <3>1 DEF ResolveForAI, AssessmentInv, RequestInv
  <2>3. /\ request'.document = document /\ request'.next = 1 /\ request'.read = {}
    BY <2>1 DEF AssessmentInv, RequestInv, Request
  <2>4. OriginInv'
    BY <2>3 DEF ResolveForAI, AssessmentInv, OriginInv
  <2>5. \A k \in DOMAIN document.ids : ~ (k < 1)
    BY <2>1, AssessmentConstants
  <2>6. CoverageInv'
    BY <2>3, <2>5 DEF CoverageInv, Covered
  <2>. QED
    BY <2>2, <2>4, <2>6 DEF AssessmentInv
<1>. QED
  BY <1>1, <1>2

\* The other steps move a request on without reading.
LEMMA PhaseStep ==
  ASSUME AssessmentInv,
         \/ Respond \/ Interpret
         \/ \E mode \in {"fill-gaps", "review-all"} : AskAI(mode)
  PROVE  AssessmentInv'
<1>1. \E pc \in {"answered", "ai_format", "ai_done"}, mode \in Mode :
        /\ request' = [request EXCEPT !.pc = pc, !.mode = mode]
        /\ request.pc \in {"claims", "answered", "ai_claims"}
        /\ pc = "answered" => request.pc = "claims"
  <2>1. request.mode \in Mode /\ request = [request EXCEPT !.mode = request.mode]
    BY DEF AssessmentInv, RequestInv, Request
  <2>2. \A pc : [request EXCEPT !.pc = pc, !.mode = request.mode] = [request EXCEPT !.pc = pc]
    BY DEF AssessmentInv, RequestInv, Request
  <2>3. CASE Respond
    BY <2>1, <2>2, <2>3 DEF Respond
  <2>4. CASE Interpret
    BY <2>1, <2>2, <2>4 DEF Interpret
  <2>5. CASE \E mode \in {"fill-gaps", "review-all"} : AskAI(mode)
    BY <2>5 DEF AskAI, Mode
  <2>. QED
    BY <2>3, <2>4, <2>5
<1>2. UNCHANGED <<document, current, steady, ever>>
  BY DEF Respond, Interpret, AskAI
<1>. QED
  BY <1>1, <1>2 DEF AssessmentInv, RequestInv, Request, OriginInv, CoverageInv, Covered,
                    RequestPhase, InScope, Scoped

LEMMA AssessmentStep ==
  ASSUME AssessmentInv, [AssessmentNext]_assessmentVars
  PROVE  AssessmentInv'
<1>1. CASE UNCHANGED assessmentVars
  BY <1>1 DEF assessmentVars, AssessmentInv, RequestInv, Request, OriginInv, CoverageInv, Covered,
              InScope, Scoped
<1>2. CASE AssessmentNext
  BY <1>2, ChangeStep, AskStep, ReadClaimsStep, ResolveForAIStep, PhaseStep
     DEF AssessmentNext, Supersede, SaveClaim, Republish, Changed
<1>. QED
  BY <1>1, <1>2

-----------------------------------------------------------------------------
(* The answer.                                                             *)

LEMMA ResponseStep ==
  ASSUME AssessmentInv, ResponseInv, [AssessmentNext]_assessmentVars
  PROVE  ResponseInv'
<1>1. CASE Respond
  <2>1. /\ request'.document = request.document /\ request'.read = request.read
        /\ request'.institution = request.institution
        /\ request'.framework = request.framework /\ request'.next = request.next
    BY <1>1 DEF Respond, AssessmentInv, RequestInv, Request
  <2>2. Asked' = Asked /\ EvidenceRead' = EvidenceRead /\ AllRead' = AllRead
    BY <2>1 DEF Asked, EvidenceRead, AllRead
  <2>. DEFINE answers == Answers(Asked, EvidenceRead)
              statuses == Statuses(Asked, EvidenceRead)
              gaps == GapClassification(Asked, statuses, EvidenceRead, request.read)
  <2>3. result' = [answers |-> answers, statuses |-> statuses,
                   score |-> Score(Asked, answers),
                   status |-> AnalysisStatus(Asked, answers),
                   suppressed |-> BandSuppressed(Asked, answers),
                   band |-> Band(Asked, answers), gaps |-> gaps,
                   plan |-> Remediation(Asked, statuses, gaps)]
    BY <1>1 DEF Respond
  <2>. HIDE DEF answers, statuses, gaps
  <2>4. /\ result'.answers = answers /\ result'.status = AnalysisStatus(Asked, answers)
        /\ result'.gaps = gaps /\ result'.plan = Remediation(Asked, statuses, gaps)
    BY <2>3
  <2>5. AllRead
    BY <1>1 DEF Respond
  <2>. QED
    BY <2>2, <2>4, <2>5 DEF answers, statuses, ResponseInv
<1>2. CASE ~Respond
  <2>1. AnsweredRequest' => UNCHANGED <<request, result>>
    BY <1>2 DEF AnsweredRequest, assessmentVars, AssessmentNext, Supersede, SaveClaim,
         Republish, Ask, ReadClaims, AskAI, ResolveForAI, Interpret, NoRequest,
         AssessmentInv, RequestInv, Request
  <2>. QED
    BY <2>1 DEF ResponseInv, AnsweredRequest, Asked, EvidenceRead, AllRead
<1>. QED
  BY <1>1, <1>2

LEMMA AssessmentInvHolds == AssessmentSpec => [](AssessmentInv /\ ResponseInv)
<1>1. /\ AssessmentInv /\ ResponseInv
      /\ [AssessmentNext]_assessmentVars
      => (AssessmentInv /\ ResponseInv)'
  BY AssessmentStep, ResponseStep
<1>. QED
  BY AssessmentInitInv, <1>1, PTL DEF AssessmentSpec

LEMMA FrameworkAsked ==
  ASSUME AssessmentInv, request.pc # "none"
  PROVE  SoundFramework(Asked)
BY AssessmentConstants DEF AssessmentInv, RequestInv, Asked

\* Whatever the builder supersedes and saves meanwhile, no question gets
\* fewer points than a claim gives that was on record all along.
THEOREM SteadyRiskCounts == AssessmentSpec => []SteadyRiskIsCounted
<1>1. AssessmentInv /\ ResponseInv => SteadyRiskIsCounted
  <2>. SUFFICES ASSUME AssessmentInv, ResponseInv, AnsweredRequest,
                       NEW c \in Steady, NEW q \in Asked.questions,
                       NEW f \in Asked.fields[q], MatchesField(c, f),
                       AnswerFrom(Asked, q, f, c) # Nil
                PROVE  Asked.points[q][result.answers[q]]
                         >= Asked.points[q][AnswerFrom(Asked, q, f, c)]
    BY DEF SteadyRiskIsCounted
  <2>1. c \in EvidenceRead
    BY EvidenceIs DEF AnsweredRequest, ResponseInv
  <2>2. AnswerFrom(Asked, q, f, c) \in Candidates(Asked, q, EvidenceRead)
    BY <2>1, AnswersAre, CandidatesAre
  <2>3. result.answers[q] = DerivedAnswer(Asked, q, EvidenceRead)
    BY DEF ResponseInv, Answers
  <2>4. SoundFramework(Asked)
    BY FrameworkAsked DEF AnsweredRequest
  <2>. QED
    BY <2>2, <2>3, <2>4, DerivedIs
<1>. QED
  BY <1>1, AssessmentInvHolds, PTL

\* A question is without an answer only if nothing on record gives one.
LEMMA AbstentionIsGap ==
  ASSUME AssessmentInv, ResponseInv, AnsweredRequest, NEW q \in Asked.questions,
         Abstains(Asked, result.answers, q)
  PROVE  q \in Gaps(Statuses(Asked, EvidenceRead))
<1>1. request.document \in Document /\ request.framework \in Framework
      /\ request.read \subseteq Claim
  BY DEF AnsweredRequest, AssessmentInv, RequestInv, Request
<1>2. EvidenceRead \subseteq Item
  BY <1>1, AssessmentConstants DEF EvidenceRead, Evidence, Item
<1>3. DerivedAnswer(Asked, q, EvidenceRead) \in Asked.abstains
  BY DEF ResponseInv, Answers, Abstains
<1>4. Candidates(Asked, q, EvidenceRead) = {}
  <2>. SUFFICES ASSUME Candidates(Asked, q, EvidenceRead) # {} PROVE FALSE
    OBVIOUS
  <2>1. DerivedAnswer(Asked, q, EvidenceRead) \in Candidates(Asked, q, EvidenceRead)
    BY DerivedIs, FrameworkAsked DEF AnsweredRequest
  <2>2. PICK f \in Asked.fields[q], x \in EvidenceRead :
          DerivedAnswer(Asked, q, EvidenceRead) = AnswerFrom(Asked, q, f, x)
    BY <2>1, CandidatesAre, AnswersAre
  <2>3. AnswerFrom(Asked, q, f, x) \notin Asked.abstains
    BY <1>1, <1>2, NoItemAbstains DEF Asked
  <2>. QED
    BY <1>3, <2>2, <2>3
<1>. QED
  BY <1>4 DEF Gaps, Statuses, DerivationStatus

\* Every question that is left without an answer is in the plan, a critical one
\* first, and no assessment that needs attention has an empty plan.
THEOREM UnansweredArePlanned == AssessmentSpec => []UnansweredIsPlanned
<1>1. AssessmentInv /\ ResponseInv => UnansweredIsPlanned
  <2>. SUFFICES ASSUME AssessmentInv, ResponseInv, AnsweredRequest
                PROVE  UnansweredIsPlanned
    BY DEF UnansweredIsPlanned
  <2>. DEFINE statuses == Statuses(Asked, EvidenceRead)
  <2>1. ASSUME NEW q \in Asked.questions, Abstains(Asked, result.answers, q)
        PROVE  \E item \in result.plan :
                 item.question = q /\ (q \in Asked.critical => item.priority = "P1")
    <3>. DEFINE work == WorkType(Asked, q, statuses[q])
                item == [question |-> q, priority |-> Priority(Asked, q, work),
                         action |-> ActionType[work]]
    <3>1. q \in Gaps(statuses)
      BY <2>1, AbstentionIsGap
    <3>2. item \in GapItems(Asked, statuses)
      BY <3>1 DEF GapItems
    <3>3. item \in result.plan
      BY <3>2 DEF ResponseInv, Remediation
    <3>4. item.question = q /\ (q \in Asked.critical => item.priority = "P1")
      BY DEF Priority
    <3>. QED
      BY <3>3, <3>4
  <2>2. ASSUME result.plan = {} PROVE result.status = "Assessed"
    <3>1. Answered(Asked, result.answers) = Asked.questions
      BY <2>1, <2>2 DEF Answered
    <3>2. Asked.questions # {}
      BY FrameworkAsked DEF AnsweredRequest, SoundFramework
    <3>. QED
      BY <3>1, <3>2 DEF ResponseInv, AnalysisStatus
  <2>. QED
    BY <2>1, <2>2 DEF UnansweredIsPlanned
<1>. QED
  BY <1>1, AssessmentInvHolds, PTL

-----------------------------------------------------------------------------
(* The AI stage.                                                           *)

ReviewInv ==
  /\ reviewed # Nil => request.pc = "ai_done"
  /\ AIFillsGapsOnly

\* Where all that was on record gives one answer, and some of it was there
\* throughout, the question is derived and has that answer.
LEMMA AgreementIsDerived ==
  ASSUME AssessmentInv, request.pc = "ai_claims", AllRead, NEW q \in Asked.questions,
         NEW a, a \in Candidates(Asked, q, Steady), Candidates(Asked, q, OnRecord) = {a}
  PROVE  /\ DerivationStatus(Asked, q, EvidenceRead) = "derived"
         /\ DerivedAnswer(Asked, q, EvidenceRead) = a
<1>1. Steady \subseteq EvidenceRead /\ EvidenceRead \subseteq OnRecord
  BY EvidenceIs
<1>2. Candidates(Asked, q, EvidenceRead) = {a}
  BY <1>1, CandidatesGrow
<1>. QED
  BY <1>2, DerivedIs, FrameworkAsked

LEMMA InterpretStep ==
  ASSUME AssessmentInv, Interpret
  PROVE  ReviewInv'
<1>1. request' = [request EXCEPT !.pc = "ai_done"] /\ request.pc = "ai_claims" /\ AllRead
      /\ steady' = steady /\ ever' = ever
  BY DEF Interpret
<1>2. /\ request'.document = request.document /\ request'.read = request.read
      /\ request'.institution = request.institution
      /\ request'.framework = request.framework /\ request'.pc = "ai_done"
  BY <1>1 DEF AssessmentInv, RequestInv, Request
<1>3. Asked' = Asked /\ Steady' = Steady /\ OnRecord' = OnRecord
  BY <1>1, <1>2 DEF Asked, Steady, OnRecord, InScope, Scoped
<1>. DEFINE answers == Answers(Asked, EvidenceRead)
            eligible == Eligible(request.mode, Statuses(Asked, EvidenceRead))
            final(choice) == [q \in Asked.questions |->
                                IF q \in eligible /\ choice[q] # Nil
                                  THEN choice[q] ELSE answers[q]]
<1>4. PICK choice :
        reviewed' = [answers |-> final(choice), score |-> Score(Asked, final(choice)),
                     band |-> Band(Asked, final(choice))]
  BY Zenon DEF Interpret
<1>5. ASSUME NEW q \in Asked.questions, NEW a \in Candidates(Asked, q, Steady),
             Candidates(Asked, q, OnRecord) = {a}
      PROVE  reviewed'.answers[q] = a
  <2>1. /\ DerivationStatus(Asked, q, EvidenceRead) = "derived"
        /\ DerivedAnswer(Asked, q, EvidenceRead) = a
    BY <1>1, <1>5, AgreementIsDerived
  <2>2. q \notin eligible
    BY <2>1 DEF Eligible, Statuses
  <2>3. final(choice)[q] = a
    BY <2>1, <2>2 DEF Answers
  <2>. QED
    BY <1>4, <2>3
<1>. QED
  BY <1>2, <1>3, <1>5 DEF ReviewInv, AIFillsGapsOnly

LEMMA ReviewStep ==
  ASSUME AssessmentInv, ReviewInv, [AssessmentNext]_assessmentVars
  PROVE  ReviewInv'
<1>1. CASE Interpret
  BY <1>1, InterpretStep
<1>2. CASE ~Interpret
  <2>1. UNCHANGED reviewed
    BY <1>2 DEF assessmentVars, AssessmentNext, Supersede, SaveClaim, Republish, Ask,
         ReadClaims, Respond, AskAI, ResolveForAI
  <2>2. request.pc = "ai_done" => UNCHANGED assessmentVars
    BY <1>2 DEF assessmentVars, AssessmentNext, Supersede, SaveClaim, Republish, Ask,
         ReadClaims, Respond, AskAI, ResolveForAI, Changed, Reading
  <2>3. CASE request.pc = "ai_done"
    BY <2>2, <2>3 DEF assessmentVars, ReviewInv, AIFillsGapsOnly, Asked, Steady, OnRecord,
                      InScope, Scoped
  <2>4. CASE request.pc # "ai_done"
    BY <2>1, <2>4 DEF ReviewInv, AIFillsGapsOnly
  <2>. QED
    BY <2>3, <2>4
<1>. QED
  BY <1>1, <1>2

\* The AI stage replaces no answer that all there was on record agrees on.
THEOREM AIOnlyFillsGaps == AssessmentSpec => []AIFillsGapsOnly
<1>1. AssessmentInit => ReviewInv
  BY DEF AssessmentInit, AssessmentStart, ReviewInv, AIFillsGapsOnly
<1>2. AssessmentInv /\ ReviewInv /\ [AssessmentNext]_assessmentVars => ReviewInv'
  BY ReviewStep
<1>3. ReviewInv => AIFillsGapsOnly
  BY DEF ReviewInv
<1>. QED
  BY <1>1, <1>2, <1>3, AssessmentInvHolds, PTL DEF AssessmentSpec

-----------------------------------------------------------------------------
(* Disagreement.                                                           *)

LEMMA TwoAnswers ==
  ASSUME NEW a, NEW b
  PROVE  Cardinality({a, b} \ {Nil}) = 2 <=> a # b /\ a # Nil /\ b # Nil
<1>1. CASE a # b /\ a # Nil /\ b # Nil
  <2>1. {a, b} \ {Nil} = {a} \cup {b}
    BY <1>1
  <2>2. IsFiniteSet({a}) /\ Cardinality({a}) = 1 /\ b \notin {a}
    BY <1>1, FS_Singleton
  <2>3. Cardinality({a} \cup {b}) = 1 + 1
    BY <2>2, FS_AddElement
  <2>. QED
    BY <1>1, <2>1, <2>3
<1>2. CASE ~ (a # b /\ a # Nil /\ b # Nil)
  <2>1. \E x : {a, b} \ {Nil} = {} \/ {a, b} \ {Nil} = {x}
    <3>1. CASE a = Nil
      BY <3>1
    <3>2. CASE b = Nil
      BY <3>2
    <3>3. CASE a = b
      BY <3>3
    <3>. QED
      BY <1>2, <3>1, <3>2, <3>3
  <2>. QED
    <3>1. PICK x : {a, b} \ {Nil} = {} \/ {a, b} \ {Nil} = {x}
      BY <2>1
    <3>2. Cardinality({}) = 0
      BY FS_EmptySet
    <3>3. Cardinality({x}) = 1
      BY FS_Singleton
    <3>4. Cardinality({a, b} \ {Nil}) \in {0, 1}
      BY <3>1, <3>2, <3>3
    <3>. QED
      BY <1>2, <3>4
<1>. QED
  BY <1>1, <1>2

LEMMA MoreThanOne ==
  ASSUME NEW S, IsFiniteSet(S)
  PROVE  /\ Cardinality(S) \in Nat
         /\ Cardinality(S) > 1 <=> \E a, b \in S : a # b
<1>1. Cardinality(S) \in Nat
  BY FS_CardinalityType
<1>2. ASSUME NEW a \in S, NEW b \in S, a # b PROVE Cardinality(S) > 1
  <2>1. Cardinality(S) # 0
    BY FS_EmptySet
  <2>2. Cardinality(S) # 1
    BY <1>2, FS_Singleton
  <2>. QED
    BY <1>1, <2>1, <2>2
<1>3. ASSUME Cardinality(S) > 1 PROVE \E a, b \in S : a # b
  <2>1. S # {}
    BY <1>3, FS_EmptySet
  <2>2. PICK a : a \in S
    BY <2>1
  <2>3. S # {a}
    BY <1>1, <1>3, FS_Singleton
  <2>. QED
    BY <2>2, <2>3
<1>. QED
  BY <1>1, <1>2, <1>3

LEMMA AnswersAreFinite ==
  ASSUME NEW fw, SoundFramework(fw), NEW q \in fw.questions, NEW items
  PROVE  /\ IsFiniteSet(Candidates(fw, q, items))
         /\ \A f : IsFiniteSet(AnswersUnder(fw, q, f, items))
<1>1. IsFiniteSet(fw.options[q])
  BY DEF SoundFramework
<1>2. \A f : AnswersUnder(fw, q, f, items) \in SUBSET fw.options[q]
  BY AnswersAre DEF AnswerFrom
<1>3. Candidates(fw, q, items) \in SUBSET fw.options[q]
  BY CandidatesAre
<1>. QED
  BY <1>1, <1>2, <1>3, FS_Subset

\* A conflict is more than one candidate.
LEMMA ConflictIs ==
  ASSUME NEW fw, SoundFramework(fw), NEW q \in fw.questions, NEW items
  PROVE  DerivationStatus(fw, q, items) = "derived_conflict_conservative"
           <=> \E a, b \in Candidates(fw, q, items) : a # b
<1>1. IsFiniteSet(Candidates(fw, q, items))
  BY AnswersAreFinite
<1>2. Candidates(fw, q, items) = {} <=> Cardinality(Candidates(fw, q, items)) = 0
  BY <1>1, FS_EmptySet
<1>3. DerivationStatus(fw, q, items) = "derived_conflict_conservative"
        <=> Cardinality(Candidates(fw, q, items)) \notin {0, 1}
  BY <1>2 DEF DerivationStatus
<1>. QED
  BY <1>1, <1>3, MoreThanOne

-----------------------------------------------------------------------------
(* What the passes of an audit have read.                                  *)

PassName == {"none", "base", "governance", "diagnostics", "conflicts", "done"}
AfterBase == {"governance", "diagnostics", "conflicts", "done"}

FormatsListed == audit.unread \in {<<>>, <<"claims">>}
ClaimsQueried == audit.unread \in {<<>>, <<"formats">>}

AuditRecord ==
  [pass : PassName, framework : AuditFramework \cup {Nil},
   institution : Institution \cup {Nil},
   unread : {<<>>, <<"claims">>, <<"formats">>, <<"formats", "claims">>,
             <<"claims", "formats">>},
   formats : Registry \cup {<<>>}, claims : SUBSET AuditClaim, edits : Nat]

AuditTypeInv ==
  /\ formats \in Registry /\ onRecord \subseteq AuditClaim
  /\ edits \in Nat /\ audit.edits <= edits
  /\ audit \in AuditRecord
  /\ audit.pass # "none" => audit.framework \in AuditFramework
  /\ kept = [formats |-> kept.formats, claims |-> kept.claims]
  /\ report = [base |-> report.base, governance |-> report.governance,
               diagnostics |-> report.diagnostics, conflicts |-> report.conflicts]

\* What stayed is in what a pass read, what it read was on record at some
\* time, and all of it is as it is now if nothing was changed.
FormatsKnown(listed) ==
  /\ kept.formats \subseteq Listed(listed)
  /\ audit.edits = edits => listed = formats

ClaimsKnown(claims) ==
  /\ kept.claims \subseteq claims /\ claims \subseteq seen
  /\ audit.edits = edits => claims = onRecord

ReadingInv ==
  audit.pass # "none" =>
    /\ FormatsKnown(formats) /\ ClaimsKnown(onRecord)
    /\ audit.pass # "done" =>
         /\ FormatsListed => audit.formats \in Registry /\ FormatsKnown(audit.formats)
         /\ ClaimsQueried => ClaimsKnown(audit.claims)

BaseIs(listed, claims) ==
  /\ report.base.claims = Cardinality(InThisScope(claims))
  /\ report.base.assessed = [d \in Listed(listed) |-> Assessed(d, InThisScope(claims))]
  /\ report.base.conflicts = Conflicts(Listed(listed), InThisScope(claims))

GovernanceIs(listed, claims) ==
  /\ report.governance.claims = Cardinality(InThisScope(claims))
  /\ report.governance.accepted = Cardinality(InThisScope(Made(listed, Accepted)))

DiagnosticsIs(listed, claims) ==
  /\ report.diagnostics.assessed = [d \in {x \in Listed(listed) : x.puid} |->
                                      Assessed(d, InThisScope(claims))]
  /\ report.diagnostics.conflicts = Conflicts(Listed(listed), InThisScope(claims))
  /\ report.diagnostics.matches
       = (Cardinality(report.diagnostics.conflicts) = Cardinality(report.base.conflicts))

ConflictsIs(listed, claims) ==
  report.conflicts = [x \in Conflicts(Listed(listed), InThisScope(claims)) |->
                        Classification(x[2], AuditEvidence(x[1], InThisScope(claims)))]

Known(listed, claims) == FormatsKnown(listed) /\ ClaimsKnown(claims)

BaseInv ==
  audit.pass \in AfterBase =>
    \E listed \in Registry, claims \in SUBSET AuditClaim :
      Known(listed, claims) /\ BaseIs(listed, claims)

GovernanceInv ==
  audit.pass \in AfterBase \ {"governance"} =>
    \E listed \in Registry, claims \in SUBSET AuditClaim :
      Known(listed, claims) /\ GovernanceIs(listed, claims)

DiagnosticsInv ==
  audit.pass \in {"conflicts", "done"} =>
    \E listed \in Registry, claims \in SUBSET AuditClaim :
      Known(listed, claims) /\ DiagnosticsIs(listed, claims)

ConflictsInv ==
  audit.pass = "done" =>
    \E listed \in Registry, claims \in SUBSET AuditClaim :
      Known(listed, claims) /\ ConflictsIs(listed, claims)

ReportInv == BaseInv /\ GovernanceInv /\ DiagnosticsInv /\ ConflictsInv

AuditInv == AuditTypeInv /\ ReadingInv /\ ReportInv

LEMMA AuditInitInv == AuditInit => AuditInv
BY DEF AuditInit, AuditStart, NoAudit, NoReport, AuditInv, AuditTypeInv, AuditRecord,
       PassName, AfterBase, ReadingInv, ReportInv, BaseInv, GovernanceInv,
       DiagnosticsInv, ConflictsInv

\* What is known stays known, for an audit that goes on.
LEMMA KnownKeeps ==
  ASSUME kept'.formats \subseteq kept.formats, kept'.claims \subseteq kept.claims,
         seen \subseteq seen', audit'.edits = audit.edits,
         audit'.edits = edits' =>
           audit.edits = edits /\ formats' = formats /\ onRecord' = onRecord
  PROVE  /\ \A listed : FormatsKnown(listed) => FormatsKnown(listed)'
         /\ \A claims : ClaimsKnown(claims) => ClaimsKnown(claims)'
BY DEF FormatsKnown, ClaimsKnown, Listed

\* What a pass computes is about the framework and the institution.
LEMMA SameAudit ==
  ASSUME audit'.framework = audit.framework, audit'.institution = audit.institution
  PROVE  /\ Framed' = Framed
         /\ \A claims : InThisScope(claims)' = InThisScope(claims)
         /\ \A listed : Made(listed, Accepted)' = Made(listed, Accepted)
         /\ \A d, items : AuditEvidence(d, items)' = AuditEvidence(d, items)
         /\ \A d, items : Assessed(d, items)' = Assessed(d, items)
         /\ \A docs, items : Conflicts(docs, items)' = Conflicts(docs, items)
         /\ \A q, items : Classification(q, items)' = Classification(q, items)
<1>1. Framed' = Framed
  BY DEF Framed
<1>2. \A claims : InThisScope(claims)' = InThisScope(claims)
  BY DEF InThisScope
<1>3. \A d, items : AuditEvidence(d, items)' = AuditEvidence(d, items)
  BY DEF AuditEvidence
<1>4. \A d, items : Assessed(d, items)' = Assessed(d, items)
  BY <1>1, <1>3 DEF Assessed, Analysed
<1>5. \A docs, items : Conflicts(docs, items)' = Conflicts(docs, items)
  BY <1>1, <1>3 DEF Conflicts
<1>6. \A q, items : Classification(q, items)' = Classification(q, items)
  BY <1>1 DEF Classification, ActiveFields, FieldAnswers
<1>7. \A listed : Made(listed, Accepted)' = Made(listed, Accepted)
  BY DEF Made
<1>. QED
  BY <1>1, <1>2, <1>3, <1>4, <1>5, <1>6, <1>7

\* What a report says is about what its pass has read.
LEMMA ReportsKeep ==
  ASSUME audit'.framework = audit.framework, audit'.institution = audit.institution,
         NEW listed, NEW claims
  PROVE  /\ report'.base = report.base => BaseIs(listed, claims)' = BaseIs(listed, claims)
         /\ report'.governance = report.governance =>
              GovernanceIs(listed, claims)' = GovernanceIs(listed, claims)
         /\ report'.base = report.base /\ report'.diagnostics = report.diagnostics =>
              DiagnosticsIs(listed, claims)' = DiagnosticsIs(listed, claims)
         /\ report'.conflicts = report.conflicts =>
              ConflictsIs(listed, claims)' = ConflictsIs(listed, claims)
<1>1. ASSUME report'.base = report.base
      PROVE  BaseIs(listed, claims)' = BaseIs(listed, claims)
  BY <1>1, SameAudit DEF BaseIs, Listed
<1>2. ASSUME report'.governance = report.governance
      PROVE  GovernanceIs(listed, claims)' = GovernanceIs(listed, claims)
  <2>1. InThisScope(Made(listed, Accepted))' = InThisScope(Made(listed, Accepted))
    BY DEF InThisScope
  <2>. QED
    BY <1>2, <2>1, SameAudit DEF GovernanceIs
<1>3. ASSUME report'.base = report.base, report'.diagnostics = report.diagnostics
      PROVE  DiagnosticsIs(listed, claims)' = DiagnosticsIs(listed, claims)
  BY <1>3, SameAudit DEF DiagnosticsIs, Listed
<1>4. ASSUME report'.conflicts = report.conflicts
      PROVE  ConflictsIs(listed, claims)' = ConflictsIs(listed, claims)
  BY <1>4, SameAudit DEF ConflictsIs, Listed
<1>. QED
  BY <1>1, <1>2, <1>3, <1>4

\* What a change of the registry does, of whatever kind.
Edited ==
  /\ UNCHANGED <<audit, report>>
  /\ audit.pass \notin {"none", "done"}
  /\ edits' = edits + 1
  /\ formats' \in Registry /\ onRecord' \subseteq AuditClaim
  /\ kept' = [formats |-> kept'.formats, claims |-> kept'.claims]
  /\ kept'.formats \subseteq kept.formats \cap Listed(formats')
  /\ kept'.claims \subseteq kept.claims \cap onRecord'
  /\ seen \cup onRecord' \subseteq seen'

LEMMA EditIs ==
  ASSUME AuditInv,
         \/ \E claims \in SUBSET AuditClaim : EditClaims(claims)
         \/ \E published \in Registry : PublishFormats(published)
  PROVE  Edited
<1>1. ASSUME NEW claims \in SUBSET AuditClaim, EditClaims(claims)
      PROVE  Edited
  BY <1>1 DEF EditClaims, Editing, Edited, AuditInv, AuditTypeInv, ReadingInv,
              FormatsKnown, ClaimsKnown
<1>2. ASSUME NEW listed \in Registry, PublishFormats(listed)
      PROVE  Edited
  BY <1>2 DEF PublishFormats, Editing, Edited, AuditInv, AuditTypeInv, ReadingInv,
              FormatsKnown, ClaimsKnown
<1>. QED
  BY <1>1, <1>2

LEMMA EditStep ==
  ASSUME AuditInv, Edited
  PROVE  AuditInv'
<1>1. edits \in Nat /\ audit.edits \in Nat /\ audit.edits <= edits
  BY DEF AuditInv, AuditTypeInv, AuditRecord
<1>2. audit'.edits # edits' /\ audit'.edits <= edits' /\ edits' \in Nat
  BY <1>1 DEF Edited
<1>3. AuditTypeInv'
  BY <1>2 DEF AuditInv, AuditTypeInv, AuditRecord, Edited
<1>4. /\ \A listed : FormatsKnown(listed) => FormatsKnown(listed)'
      /\ \A claims : ClaimsKnown(claims) => ClaimsKnown(claims)'
  BY <1>2, KnownKeeps DEF Edited
<1>5. FormatsKnown(formats)' /\ ClaimsKnown(onRecord)'
  BY <1>2 DEF FormatsKnown, ClaimsKnown, Edited
<1>6. ReadingInv'
  BY <1>4, <1>5 DEF AuditInv, ReadingInv, FormatsListed, ClaimsQueried, Edited
<1>7. \A listed, claims : Known(listed, claims) => Known(listed, claims)'
  BY <1>4 DEF Known
<1>8. \A listed, claims :
        /\ BaseIs(listed, claims)' = BaseIs(listed, claims)
        /\ GovernanceIs(listed, claims)' = GovernanceIs(listed, claims)
        /\ DiagnosticsIs(listed, claims)' = DiagnosticsIs(listed, claims)
        /\ ConflictsIs(listed, claims)' = ConflictsIs(listed, claims)
  BY ReportsKeep DEF Edited
<1>9. ReportInv'
  BY <1>7, <1>8 DEF AuditInv, ReportInv, BaseInv, GovernanceInv, DiagnosticsInv,
                    ConflictsInv, Edited
<1>. QED
  BY <1>3, <1>6, <1>9 DEF AuditInv

LEMMA BeginAuditStep ==
  ASSUME AuditInv, NEW fw \in AuditFramework, NEW i \in Institution \cup {Nil},
         BeginAudit(fw, i)
  PROVE  AuditInv'
<1>1. audit' = [pass |-> "base", framework |-> fw, institution |-> i,
                unread |-> <<"formats", "claims">>, formats |-> <<>>, claims |-> {},
                edits |-> edits]
  BY DEF BeginAudit, NoAudit, PassReads
<1>2. audit' \in AuditRecord
  BY <1>1 DEF AuditRecord, PassName, AuditInv, AuditTypeInv
<1>3. /\ audit'.pass = "base" /\ audit'.framework = fw /\ audit'.edits = edits
      /\ audit'.unread = <<"formats", "claims">>
  BY <1>1
<1>4. AuditTypeInv'
  BY <1>2, <1>3 DEF AuditInv, AuditTypeInv, BeginAudit
<1>5. ReadingInv'
  <2>1. FormatsKnown(formats)' /\ ClaimsKnown(onRecord)'
    BY <1>3 DEF FormatsKnown, ClaimsKnown, BeginAudit, Listed
  <2>2. ~FormatsListed' /\ ~ClaimsQueried'
    BY <1>3 DEF FormatsListed, ClaimsQueried
  <2>. QED
    BY <2>1, <2>2 DEF ReadingInv
<1>6. ReportInv'
  BY <1>3 DEF ReportInv, BaseInv, GovernanceInv, DiagnosticsInv, ConflictsInv, AfterBase
<1>. QED
  BY <1>4, <1>5, <1>6 DEF AuditInv

\* A pass lists the formats and queries the claims as they are then.
LEMMA AuditReadStep ==
  ASSUME AuditInv, ListFormats \/ QueryClaims
  PROVE  AuditInv'
<1>1. /\ UNCHANGED <<formats, onRecord, edits, report, kept, seen>>
      /\ audit \in AuditRecord /\ formats \in Registry /\ onRecord \in SUBSET AuditClaim
  BY DEF ListFormats, QueryClaims, AuditInv, AuditTypeInv
<1>2. /\ audit' \in AuditRecord
      /\ audit'.pass = audit.pass /\ audit'.framework = audit.framework
      /\ audit'.institution = audit.institution /\ audit'.edits = audit.edits
      /\ FormatsListed' => \/ audit'.formats = formats
                           \/ FormatsListed /\ audit'.formats = audit.formats
      /\ ClaimsQueried' => \/ audit'.claims = onRecord
                           \/ ClaimsQueried /\ audit'.claims = audit.claims
  <2>1. /\ Head(<<"formats">>) = "formats" /\ Tail(<<"formats">>) = <<>>
        /\ Head(<<"claims">>) = "claims" /\ Tail(<<"claims">>) = <<>>
        /\ Head(<<"formats", "claims">>) = "formats"
        /\ Tail(<<"formats", "claims">>) = <<"claims">>
        /\ Head(<<"claims", "formats">>) = "claims"
        /\ Tail(<<"claims", "formats">>) = <<"formats">>
        /\ <<"claims">> # <<"formats">>
    OBVIOUS
  <2>2. audit.unread \in {<<>>, <<"claims">>, <<"formats">>, <<"formats", "claims">>,
                          <<"claims", "formats">>}
    BY <1>1 DEF AuditRecord
  <2>3. CASE ListFormats
    <3>1. audit' = [audit EXCEPT !.formats = formats, !.unread = Tail(audit.unread)]
      BY <2>3 DEF ListFormats
    <3>2. \/ audit.unread = <<"formats">> /\ Tail(audit.unread) = <<>>
          \/ audit.unread = <<"formats", "claims">> /\ Tail(audit.unread) = <<"claims">>
      BY <2>1, <2>2, <2>3 DEF ListFormats
    <3>3. /\ audit' \in AuditRecord
          /\ audit'.pass = audit.pass /\ audit'.framework = audit.framework
          /\ audit'.institution = audit.institution /\ audit'.edits = audit.edits
          /\ audit'.formats = formats /\ audit'.claims = audit.claims
          /\ audit'.unread = Tail(audit.unread)
      BY <1>1, <3>1, <3>2 DEF AuditRecord
    <3>4. ClaimsQueried' => ClaimsQueried
      BY <2>1, <3>2, <3>3 DEF ClaimsQueried
    <3>. QED
      BY <3>3, <3>4
  <2>4. CASE QueryClaims
    <3>1. audit' = [audit EXCEPT !.claims = onRecord, !.unread = Tail(audit.unread)]
      BY <2>4 DEF QueryClaims
    <3>2. \/ audit.unread = <<"claims">> /\ Tail(audit.unread) = <<>>
          \/ audit.unread = <<"claims", "formats">> /\ Tail(audit.unread) = <<"formats">>
      BY <2>1, <2>2, <2>4 DEF QueryClaims
    <3>3. /\ audit' \in AuditRecord
          /\ audit'.pass = audit.pass /\ audit'.framework = audit.framework
          /\ audit'.institution = audit.institution /\ audit'.edits = audit.edits
          /\ audit'.claims = onRecord /\ audit'.formats = audit.formats
          /\ audit'.unread = Tail(audit.unread)
      BY <1>1, <3>1, <3>2 DEF AuditRecord
    <3>4. FormatsListed' => FormatsListed
      BY <2>1, <3>2, <3>3 DEF FormatsListed
    <3>. QED
      BY <3>3, <3>4
  <2>. QED
    BY <2>3, <2>4
<1>3. AuditTypeInv'
  BY <1>1, <1>2 DEF AuditInv, AuditTypeInv
<1>4. /\ \A listed : FormatsKnown(listed)' = FormatsKnown(listed)
      /\ \A claims : ClaimsKnown(claims)' = ClaimsKnown(claims)
  BY <1>1, <1>2 DEF FormatsKnown, ClaimsKnown, Listed
<1>5. ReadingInv'
  BY <1>1, <1>2, <1>4 DEF AuditInv, ReadingInv
<1>6. \A listed, claims :
        /\ Known(listed, claims)' = Known(listed, claims)
        /\ BaseIs(listed, claims)' = BaseIs(listed, claims)
        /\ GovernanceIs(listed, claims)' = GovernanceIs(listed, claims)
        /\ DiagnosticsIs(listed, claims)' = DiagnosticsIs(listed, claims)
        /\ ConflictsIs(listed, claims)' = ConflictsIs(listed, claims)
  BY <1>1, <1>2, <1>4, ReportsKeep DEF Known
<1>7. ReportInv'
  BY <1>2, <1>6 DEF AuditInv, ReportInv, BaseInv, GovernanceInv, DiagnosticsInv,
                    ConflictsInv
<1>. QED
  BY <1>3, <1>5, <1>7 DEF AuditInv

\* The end of a pass, whatever it reports.
LEMMA GoToStep ==
  ASSUME AuditInv, audit.pass \notin {"none", "done"}, audit.unread = <<>>,
         NEW pass \in AfterBase, GoTo(pass),
         UNCHANGED <<formats, onRecord, edits, kept, seen>>,
         report' = [base |-> report'.base, governance |-> report'.governance,
                    diagnostics |-> report'.diagnostics, conflicts |-> report'.conflicts]
  PROVE  /\ AuditTypeInv' /\ ReadingInv'
         /\ audit'.pass = pass /\ audit'.framework = audit.framework
         /\ audit'.institution = audit.institution
         /\ audit.formats \in Registry /\ audit.claims \in SUBSET AuditClaim
         /\ Known(audit.formats, audit.claims)
         /\ \A listed, claims : Known(listed, claims)' = Known(listed, claims)
<1>1. /\ audit' = [audit EXCEPT !.pass = pass, !.unread = PassReads[pass],
                                !.formats = <<>>, !.claims = {}]
      /\ audit \in AuditRecord
  BY DEF GoTo, AuditInv, AuditTypeInv
<1>2. PassReads[pass] \in {<<>>, <<"formats", "claims">>, <<"claims", "formats">>}
      /\ (pass # "done" => PassReads[pass] \in {<<"formats", "claims">>, <<"claims", "formats">>})
  BY DEF PassReads, AfterBase
<1>3. /\ audit' \in AuditRecord
      /\ audit'.pass = pass /\ audit'.framework = audit.framework
      /\ audit'.institution = audit.institution /\ audit'.edits = audit.edits
      /\ audit'.unread = PassReads[pass]
  BY <1>1, <1>2 DEF AuditRecord, PassName, AfterBase
<1>4. AuditTypeInv'
  BY <1>3 DEF AuditInv, AuditTypeInv
<1>5. /\ \A listed : FormatsKnown(listed)' = FormatsKnown(listed)
      /\ \A claims : ClaimsKnown(claims)' = ClaimsKnown(claims)
      /\ \A listed, claims : Known(listed, claims)' = Known(listed, claims)
  BY <1>3 DEF FormatsKnown, ClaimsKnown, Known, Listed
<1>6. ReadingInv'
  <2>1. ASSUME pass # "done" PROVE ~FormatsListed' /\ ~ClaimsQueried'
    <3>1. audit'.unread \in {<<"formats", "claims">>, <<"claims", "formats">>}
      BY <1>2, <1>3, <2>1
    <3>2. Len(audit'.unread) = 2
      BY <3>1
    <3>3. Len(<<>>) = 0 /\ Len(<<"claims">>) = 1 /\ Len(<<"formats">>) = 1
      OBVIOUS
    <3>. QED
      BY <3>2, <3>3 DEF FormatsListed, ClaimsQueried
  <2>2. FormatsKnown(formats) /\ ClaimsKnown(onRecord)
    BY DEF AuditInv, ReadingInv
  <2>. QED
    BY <1>3, <1>5, <2>1, <2>2 DEF ReadingInv
<1>7. audit.formats \in Registry /\ audit.claims \in SUBSET AuditClaim
      /\ Known(audit.formats, audit.claims)
  BY <1>1 DEF AuditInv, ReadingInv, FormatsListed, ClaimsQueried, AuditRecord, Known
<1>. QED
  BY <1>3, <1>4, <1>5, <1>6, <1>7

LEMMA RelevantIs == Relevant = InThisScope(audit.claims)
BY DEF Relevant, InThisScope

LEMMA BasePassStep ==
  ASSUME AuditInv, BasePass
  PROVE  AuditInv'
<1>. DEFINE assessed == [d \in Listed(audit.formats) |-> Assessed(d, Relevant)]
            conflicts == Conflicts(Listed(audit.formats), Relevant)
            fills == GapFills(audit.formats, assessed,
                              DraftOnly(Made(audit.formats, Accepted),
                                        Made(audit.formats, Drafted)))
<1>1. /\ Pass("base") /\ GoTo("governance")
      /\ UNCHANGED <<formats, onRecord, edits, kept, seen>>
      /\ report' = [report EXCEPT !.base =
           [claims |-> Cardinality(Relevant), assessed |-> assessed,
            conflicts |-> conflicts, fills |-> fills]]
  BY DEF BasePass
<1>. HIDE DEF assessed, conflicts, fills
<1>2. /\ report'.base.claims = Cardinality(Relevant)
      /\ report'.base.assessed = assessed /\ report'.base.conflicts = conflicts
      /\ report' = [base |-> report'.base, governance |-> report'.governance,
                    diagnostics |-> report'.diagnostics, conflicts |-> report'.conflicts]
  BY <1>1 DEF AuditInv, AuditTypeInv
<1>3. "governance" \in AfterBase /\ audit.pass = "base" /\ audit.unread = <<>>
  BY <1>1 DEF Pass, AfterBase
<1>4. /\ AuditTypeInv' /\ ReadingInv'
      /\ audit'.pass = "governance" /\ audit'.framework = audit.framework
      /\ audit'.institution = audit.institution
      /\ audit.formats \in Registry /\ audit.claims \in SUBSET AuditClaim
      /\ Known(audit.formats, audit.claims)
      /\ \A listed, claims : Known(listed, claims)' = Known(listed, claims)
  BY <1>1, <1>2, <1>3, GoToStep
<1>5. PICK listed \in Registry, claims \in SUBSET AuditClaim :
        listed = audit.formats /\ claims = audit.claims
  BY <1>4
<1>6. BaseIs(listed, claims)'
  BY <1>2, <1>4, <1>5, SameAudit, RelevantIs DEF assessed, conflicts, BaseIs, Listed
<1>. QED
  BY <1>4, <1>5, <1>6 DEF AuditInv, ReportInv, BaseInv, GovernanceInv, DiagnosticsInv,
                          ConflictsInv, AfterBase

LEMMA GovernancePassStep ==
  ASSUME AuditInv, GovernancePass
  PROVE  AuditInv'
<1>. DEFINE accepted == InThisScope(Made(audit.formats, Accepted))
            drafted  == InThisScope(Made(audit.formats, Drafted))
            total == Cardinality(audit.claims)
            local == Cardinality({c \in audit.claims : Scoped(c)})
            projected == Cardinality(accepted \cup drafted)
            draftOnly == Cardinality(DraftOnly(accepted, drafted))
<1>1. /\ Pass("governance") /\ GoTo("diagnostics")
      /\ UNCHANGED <<formats, onRecord, edits, kept, seen>>
      /\ report' = [report EXCEPT !.governance =
           [claims |-> Cardinality(Relevant), total |-> total, local |-> local,
            accepted |-> Cardinality(accepted), projected |-> projected,
            draftOnly |-> draftOnly]]
  BY DEF GovernancePass
<1>. HIDE DEF accepted, drafted, total, local, projected, draftOnly
<1>2. /\ report'.governance.claims = Cardinality(Relevant)
      /\ report'.governance.accepted = Cardinality(accepted)
      /\ report'.base = report.base
      /\ report' = [base |-> report'.base, governance |-> report'.governance,
                    diagnostics |-> report'.diagnostics, conflicts |-> report'.conflicts]
  BY <1>1 DEF AuditInv, AuditTypeInv
<1>3. "diagnostics" \in AfterBase /\ audit.pass = "governance" /\ audit.unread = <<>>
  BY <1>1 DEF Pass, AfterBase
<1>4. /\ AuditTypeInv' /\ ReadingInv'
      /\ audit'.pass = "diagnostics" /\ audit'.framework = audit.framework
      /\ audit'.institution = audit.institution
      /\ audit.formats \in Registry /\ audit.claims \in SUBSET AuditClaim
      /\ Known(audit.formats, audit.claims)
      /\ \A listed, claims : Known(listed, claims)' = Known(listed, claims)
  BY <1>1, <1>2, <1>3, GoToStep
<1>5. PICK listed \in Registry, claims \in SUBSET AuditClaim :
        listed = audit.formats /\ claims = audit.claims
  BY <1>4
<1>6. GovernanceIs(listed, claims)'
  <2>1. InThisScope(Made(listed, Accepted))' = InThisScope(Made(listed, Accepted))
    BY <1>4 DEF InThisScope
  <2>. QED
    BY <1>2, <1>4, <1>5, <2>1, SameAudit, RelevantIs DEF accepted, GovernanceIs
<1>7. \A x, y : BaseIs(x, y)' = BaseIs(x, y)
  BY <1>2, <1>4, ReportsKeep
<1>8. BaseInv'
  BY <1>3, <1>4, <1>7 DEF AuditInv, ReportInv, BaseInv, AfterBase
<1>. QED
  BY <1>4, <1>5, <1>6, <1>8 DEF AuditInv, ReportInv, GovernanceInv, DiagnosticsInv,
                                ConflictsInv, AfterBase

LEMMA DiagnosticsPassStep ==
  ASSUME AuditInv, DiagnosticsPass
  PROVE  AuditInv'
<1>. DEFINE assessed == [d \in {x \in Listed(audit.formats) : x.puid} |->
                           Assessed(d, Relevant)]
            conflicts == Conflicts(Listed(audit.formats), Relevant)
            matches == Cardinality(conflicts) = Cardinality(report.base.conflicts)
<1>1. /\ Pass("diagnostics") /\ GoTo("conflicts")
      /\ UNCHANGED <<formats, onRecord, edits, kept, seen>>
      /\ report' = [report EXCEPT !.diagnostics =
           [assessed |-> assessed, conflicts |-> conflicts, matches |-> matches]]
  BY DEF DiagnosticsPass
<1>. HIDE DEF assessed, conflicts, matches
<1>2. /\ report'.diagnostics.assessed = assessed
      /\ report'.diagnostics.conflicts = conflicts
      /\ report'.diagnostics.matches = matches
      /\ report'.base = report.base /\ report'.governance = report.governance
      /\ report' = [base |-> report'.base, governance |-> report'.governance,
                    diagnostics |-> report'.diagnostics, conflicts |-> report'.conflicts]
  BY <1>1 DEF AuditInv, AuditTypeInv
<1>3. "conflicts" \in AfterBase /\ audit.pass = "diagnostics" /\ audit.unread = <<>>
  BY <1>1 DEF Pass, AfterBase
<1>4. /\ AuditTypeInv' /\ ReadingInv'
      /\ audit'.pass = "conflicts" /\ audit'.framework = audit.framework
      /\ audit'.institution = audit.institution
      /\ audit.formats \in Registry /\ audit.claims \in SUBSET AuditClaim
      /\ Known(audit.formats, audit.claims)
      /\ \A listed, claims : Known(listed, claims)' = Known(listed, claims)
  BY <1>1, <1>2, <1>3, GoToStep
<1>5. PICK listed \in Registry, claims \in SUBSET AuditClaim :
        listed = audit.formats /\ claims = audit.claims
  BY <1>4
<1>6. DiagnosticsIs(listed, claims)'
  BY <1>2, <1>4, <1>5, SameAudit, RelevantIs
     DEF assessed, conflicts, matches, DiagnosticsIs, Listed
<1>7. \A x, y : /\ BaseIs(x, y)' = BaseIs(x, y)
                /\ GovernanceIs(x, y)' = GovernanceIs(x, y)
  BY <1>2, <1>4, ReportsKeep
<1>8. BaseInv' /\ GovernanceInv'
  BY <1>3, <1>4, <1>7 DEF AuditInv, ReportInv, BaseInv, GovernanceInv, AfterBase
<1>. QED
  BY <1>4, <1>5, <1>6, <1>8 DEF AuditInv, ReportInv, DiagnosticsInv, ConflictsInv, AfterBase

LEMMA ConflictsPassStep ==
  ASSUME AuditInv, ConflictsPass
  PROVE  AuditInv'
<1>. DEFINE kinds == [x \in Conflicts(Listed(audit.formats), Relevant) |->
                        Classification(x[2], AuditEvidence(x[1], Relevant))]
<1>1. /\ Pass("conflicts") /\ GoTo("done")
      /\ UNCHANGED <<formats, onRecord, edits, kept, seen>>
      /\ report' = [report EXCEPT !.conflicts = kinds]
  BY DEF ConflictsPass
<1>. HIDE DEF kinds
<1>2. /\ report'.conflicts = kinds /\ report'.base = report.base
      /\ report'.governance = report.governance
      /\ report'.diagnostics = report.diagnostics
      /\ report' = [base |-> report'.base, governance |-> report'.governance,
                    diagnostics |-> report'.diagnostics, conflicts |-> report'.conflicts]
  BY <1>1 DEF AuditInv, AuditTypeInv
<1>3. "done" \in AfterBase /\ audit.pass = "conflicts" /\ audit.unread = <<>>
  BY <1>1 DEF Pass, AfterBase
<1>4. /\ AuditTypeInv' /\ ReadingInv'
      /\ audit'.pass = "done" /\ audit'.framework = audit.framework
      /\ audit'.institution = audit.institution
      /\ audit.formats \in Registry /\ audit.claims \in SUBSET AuditClaim
      /\ Known(audit.formats, audit.claims)
      /\ \A listed, claims : Known(listed, claims)' = Known(listed, claims)
  BY <1>1, <1>2, <1>3, GoToStep
<1>5. PICK listed \in Registry, claims \in SUBSET AuditClaim :
        listed = audit.formats /\ claims = audit.claims
  BY <1>4
<1>6. ConflictsIs(listed, claims)'
  BY <1>2, <1>4, <1>5, SameAudit, RelevantIs DEF kinds, ConflictsIs, Listed
<1>7. \A x, y : /\ BaseIs(x, y)' = BaseIs(x, y)
                /\ GovernanceIs(x, y)' = GovernanceIs(x, y)
                /\ DiagnosticsIs(x, y)' = DiagnosticsIs(x, y)
  BY <1>2, <1>4, ReportsKeep
<1>8. BaseInv' /\ GovernanceInv' /\ DiagnosticsInv'
  BY <1>3, <1>4, <1>7 DEF AuditInv, ReportInv, BaseInv, GovernanceInv, DiagnosticsInv,
                          AfterBase
<1>. QED
  BY <1>4, <1>5, <1>6, <1>8 DEF AuditInv, ReportInv, ConflictsInv

LEMMA AuditStep ==
  ASSUME AuditInv, [AuditNext]_auditVars
  PROVE  AuditInv'
<1>1. CASE UNCHANGED auditVars
  <2>1. /\ \A listed : FormatsKnown(listed)' = FormatsKnown(listed)
        /\ \A claims : ClaimsKnown(claims)' = ClaimsKnown(claims)
        /\ \A listed, claims : Known(listed, claims)' = Known(listed, claims)
    BY <1>1 DEF auditVars, FormatsKnown, ClaimsKnown, Known, Listed
  <2>2. \A listed, claims :
          /\ BaseIs(listed, claims)' = BaseIs(listed, claims)
          /\ GovernanceIs(listed, claims)' = GovernanceIs(listed, claims)
          /\ DiagnosticsIs(listed, claims)' = DiagnosticsIs(listed, claims)
          /\ ConflictsIs(listed, claims)' = ConflictsIs(listed, claims)
    BY <1>1, ReportsKeep DEF auditVars
  <2>3. AuditTypeInv' /\ ReadingInv'
    BY <1>1, <2>1 DEF auditVars, AuditInv, AuditTypeInv, ReadingInv, FormatsListed,
                      ClaimsQueried
  <2>4. ReportInv'
    BY <1>1, <2>1, <2>2 DEF auditVars, AuditInv, ReportInv, BaseInv, GovernanceInv,
                            DiagnosticsInv, ConflictsInv
  <2>. QED
    BY <2>3, <2>4 DEF AuditInv
<1>2. ASSUME NEW c \in AuditClaim,
             EditClaims(onRecord \cup {c}) \/ EditClaims(onRecord \ {c})
      PROVE  AuditInv'
  <2>1. onRecord \cup {c} \in SUBSET AuditClaim /\ onRecord \ {c} \in SUBSET AuditClaim
    BY DEF AuditInv, AuditTypeInv
  <2>. QED
    BY <1>2, <2>1, EditIs, EditStep
<1>3. ASSUME NEW published \in Registry, PublishFormats(published)
      PROVE  AuditInv'
  BY <1>3, EditIs, EditStep
<1>. QED
  BY <1>1, <1>2, <1>3, BeginAuditStep, AuditReadStep, BasePassStep, GovernancePassStep,
     DiagnosticsPassStep, ConflictsPassStep DEF AuditNext

LEMMA AuditInvHolds == AuditSpec => []AuditInv
BY AuditInitInv, AuditStep, PTL DEF AuditSpec

-----------------------------------------------------------------------------
(* What the audit reports.                                                 *)

LEMMA EvidenceGrows ==
  ASSUME NEW doc, NEW claims, NEW i, NEW c \in claims,
         Data[c].home \in KnownIds(doc), Usable(c), InScope(c, i)
  PROVE  c \in Evidence(doc, ClaimsFor(doc, claims), i)
BY DEF Evidence, ClaimsFor, InScope

LEMMA EvidenceFrom ==
  ASSUME NEW doc, NEW claims, NEW i, NEW x \in Evidence(doc, ClaimsFor(doc, claims), i)
  PROVE  \/ x \in claims /\ Data[x].home \in KnownIds(doc) /\ Usable(x)
         \/ x \in doc.globalEvidence \cup doc.institutionEvidence \cup {Recognition}
BY DEF Evidence, ClaimsFor

Disagreement(q, items) ==
  \E f \in Framed.fields[q] : \E x, y \in items :
    /\ MatchesField(x, f) /\ MatchesField(y, f)
    /\ Cardinality({AnswerFrom(Framed, q, f, x), AnswerFrom(Framed, q, f, y)} \ {Nil}) = 2

\* The claims in scope and usable, under any id of a format.
UnderIds(doc, claims) ==
  {c \in InThisScope(claims) : Data[c].home \in KnownIds(doc) /\ Usable(c)}

LEMMA DisagreementGrows ==
  ASSUME NEW q, NEW items, NEW more, items \subseteq more, Disagreement(q, items)
  PROVE  Disagreement(q, more)
BY DEF Disagreement

\* Evidence disagrees exactly where one field gets two answers.
LEMMA DisagreementIs ==
  ASSUME SoundFramework(Framed), NEW q \in Framed.questions, NEW items
  PROVE  Disagreement(q, items)
           <=> \E f \in Framed.fields[q] : Cardinality(FieldAnswers(q, f, items)) > 1
<1>1. ASSUME NEW f \in Framed.fields[q]
      PROVE  Cardinality(FieldAnswers(q, f, items)) > 1 <=>
               \E x, y \in items :
                 /\ MatchesField(x, f) /\ MatchesField(y, f)
                 /\ Cardinality({AnswerFrom(Framed, q, f, x),
                                 AnswerFrom(Framed, q, f, y)} \ {Nil}) = 2
  <2>1. IsFiniteSet(FieldAnswers(q, f, items))
    BY AnswersAreFinite DEF FieldAnswers
  <2>2. Cardinality(FieldAnswers(q, f, items)) > 1
          <=> \E a, b \in FieldAnswers(q, f, items) : a # b
    BY <2>1, MoreThanOne
  <2>3. \A a : a \in FieldAnswers(q, f, items) <=>
          a # Nil /\ \E x \in items : MatchesField(x, f) /\ a = AnswerFrom(Framed, q, f, x)
    BY AnswersAre DEF FieldAnswers
  <2>4. \A x, y :
          Cardinality({AnswerFrom(Framed, q, f, x), AnswerFrom(Framed, q, f, y)} \ {Nil}) = 2
            <=> /\ AnswerFrom(Framed, q, f, x) # AnswerFrom(Framed, q, f, y)
                /\ AnswerFrom(Framed, q, f, x) # Nil /\ AnswerFrom(Framed, q, f, y) # Nil
    BY TwoAnswers
  <2>5. (\E a, b \in FieldAnswers(q, f, items) : a # b) <=>
          \E x, y \in items :
            /\ MatchesField(x, f) /\ MatchesField(y, f)
            /\ AnswerFrom(Framed, q, f, x) # AnswerFrom(Framed, q, f, y)
            /\ AnswerFrom(Framed, q, f, x) # Nil /\ AnswerFrom(Framed, q, f, y) # Nil
    BY <2>3
  <2>. QED
    BY <2>2, <2>4, <2>5
<1>. QED
  BY <1>1 DEF Disagreement

LEMMA SoundlyFramed ==
  ASSUME AuditInv, audit.pass # "none"
  PROVE  SoundFramework(Framed)
BY AuditConstants DEF AuditInv, AuditTypeInv, Framed

\* A disagreement is a conflict, and called a genuine one.
LEMMA DisagreementIsConflict ==
  ASSUME SoundFramework(Framed), NEW docs, NEW doc \in docs, NEW claims,
         NEW q \in Framed.questions, Disagreement(q, AuditEvidence(doc, claims))
  PROVE  /\ <<doc, q>> \in Conflicts(docs, claims)
         /\ Classification(q, AuditEvidence(doc, claims)) = "same_criterion_evidence_conflict"
<1>. DEFINE items == AuditEvidence(doc, claims)
<1>. HIDE DEF items
<1>1. PICK f \in Framed.fields[q] : Cardinality(FieldAnswers(q, f, items)) > 1
  BY DisagreementIs DEF items
<1>2. Classification(q, items) = "same_criterion_evidence_conflict"
  BY <1>1 DEF Classification
<1>3. \E a, b \in FieldAnswers(q, f, items) : a # b
  BY <1>1, AnswersAreFinite, MoreThanOne DEF FieldAnswers
<1>4. FieldAnswers(q, f, items) \subseteq Candidates(Framed, q, items)
  BY CandidatesAre DEF FieldAnswers
<1>5. DerivationStatus(Framed, q, items) = "derived_conflict_conservative"
  BY <1>3, <1>4, ConflictIs
<1>. QED
  BY <1>2, <1>5 DEF Conflicts, items

LEMMA GenuineIsDisagreement ==
  ASSUME SoundFramework(Framed), NEW q \in Framed.questions, NEW items,
         Classification(q, items) = "same_criterion_evidence_conflict"
  PROVE  Disagreement(q, items)
BY DisagreementIs DEF Classification

\* A disagreement that was there all along is reported by every pass, and as a
\* genuine one; and only evidence that was on record at some time disagrees.
THEOREM SteadyConflictsAreGenuine == AuditSpec => []SteadyConflictIsGenuine
<1>1. AuditInv => SteadyConflictIsGenuine
  <2>. SUFFICES ASSUME AuditInv, AuditDone PROVE SteadyConflictIsGenuine
    BY DEF SteadyConflictIsGenuine
  <2>. DEFINE genuine == Kind("same_criterion_evidence_conflict")
  <2>1. SoundFramework(Framed)
    BY SoundlyFramed DEF AuditDone
  <2>2. PICK l1 \in Registry, c1 \in SUBSET AuditClaim : Known(l1, c1) /\ BaseIs(l1, c1)
    BY DEF AuditDone, AuditInv, ReportInv, BaseInv, AfterBase
  <2>3. PICK l3 \in Registry, c3 \in SUBSET AuditClaim : Known(l3, c3) /\ DiagnosticsIs(l3, c3)
    BY DEF AuditDone, AuditInv, ReportInv, DiagnosticsInv
  <2>4. PICK l4 \in Registry, c4 \in SUBSET AuditClaim : Known(l4, c4) /\ ConflictsIs(l4, c4)
    BY DEF AuditDone, AuditInv, ReportInv, ConflictsInv
  <2>5. ASSUME NEW doc \in kept.formats, NEW q \in Framed.questions,
               Disagreement(q, UnderIds(doc, kept.claims)),
               NEW listed, NEW claims, Known(listed, claims)
        PROVE  /\ <<doc, q>> \in Conflicts(Listed(listed), InThisScope(claims))
               /\ Classification(q, AuditEvidence(doc, InThisScope(claims)))
                    = "same_criterion_evidence_conflict"
    <3>1. doc \in Listed(listed) /\ kept.claims \subseteq claims
      BY <2>5 DEF Known, FormatsKnown, ClaimsKnown
    <3>2. UnderIds(doc, kept.claims) \subseteq AuditEvidence(doc, InThisScope(claims))
      BY <3>1, EvidenceGrows DEF UnderIds, InThisScope, AuditEvidence
    <3>3. Disagreement(q, AuditEvidence(doc, InThisScope(claims)))
      BY <2>5, <3>2, DisagreementGrows
    <3>. QED
      BY <2>1, <3>1, <3>3, DisagreementIsConflict
  <2>6. ASSUME NEW doc \in kept.formats, NEW q \in Framed.questions,
               Disagreement(q, UnderIds(doc, kept.claims))
        PROVE  <<doc, q>> \in report.base.conflicts \cap report.diagnostics.conflicts
                                \cap genuine
    <3>1. <<doc, q>> \in report.base.conflicts
      BY <2>2, <2>5, <2>6 DEF BaseIs
    <3>2. <<doc, q>> \in report.diagnostics.conflicts
      BY <2>3, <2>5, <2>6 DEF DiagnosticsIs
    <3>3. <<doc, q>> \in genuine
      BY <2>4, <2>5, <2>6 DEF ConflictsIs, Kind
    <3>. QED
      BY <3>1, <3>2, <3>3
  <2>7. ASSUME NEW x \in genuine
        PROVE  Disagreement(x[2], UnderIds(x[1], seen) \cup x[1].globalEvidence
                                   \cup x[1].institutionEvidence \cup {Recognition})
    <3>1. /\ x[2] \in Framed.questions
          /\ Classification(x[2], AuditEvidence(x[1], InThisScope(c4)))
               = "same_criterion_evidence_conflict"
      BY <2>4, <2>7 DEF Kind, ConflictsIs, Conflicts
    <3>2. Disagreement(x[2], AuditEvidence(x[1], InThisScope(c4)))
      BY <2>1, <3>1, GenuineIsDisagreement
    <3>3. AuditEvidence(x[1], InThisScope(c4))
            \subseteq UnderIds(x[1], seen) \cup x[1].globalEvidence
                        \cup x[1].institutionEvidence \cup {Recognition}
      BY <2>4, EvidenceFrom DEF AuditEvidence, UnderIds, InThisScope, Known, ClaimsKnown
    <3>. QED
      BY <3>2, <3>3, DisagreementGrows
  <2>. QED
    BY <2>6, <2>7 DEF SteadyConflictIsGenuine, Disagreement, UnderIds
<1>. QED
  BY <1>1, AuditInvHolds, PTL

\* Every conflict is either a disagreement on one field or the combination of
\* several.
LEMMA ConflictsAreClassified ==
  ASSUME SoundFramework(Framed), NEW q \in Framed.questions, NEW items,
         DerivationStatus(Framed, q, items) = "derived_conflict_conservative"
  PROVE  Classification(q, items)
           \in {"same_criterion_evidence_conflict", "composite_field_aggregation"}
<1>1. PICK a, b \in Candidates(Framed, q, items) : a # b
  BY ConflictIs
<1>2. PICK f \in Framed.fields[q], g \in Framed.fields[q] :
        a \in FieldAnswers(q, f, items) /\ b \in FieldAnswers(q, g, items)
  BY CandidatesAre DEF FieldAnswers
<1>3. CASE f = g
  <2>1. Cardinality(FieldAnswers(q, f, items)) > 1
    BY <1>1, <1>2, <1>3, AnswersAreFinite, MoreThanOne DEF FieldAnswers
  <2>. QED
    BY <2>1 DEF Classification
<1>4. CASE f # g
  <2>1. f \in ActiveFields(q, items) /\ g \in ActiveFields(q, items)
    BY <1>2 DEF ActiveFields
  <2>2. IsFiniteSet(ActiveFields(q, items))
    BY FS_Subset DEF SoundFramework, ActiveFields
  <2>3. Cardinality(ActiveFields(q, items)) > 1
    BY <1>4, <2>1, <2>2, MoreThanOne
  <2>. QED
    BY <2>3 DEF Classification
<1>. QED
  BY <1>3, <1>4

\* An audit of a registry that nobody changed meanwhile is one statement.
THEOREM QuietAuditsAgree == AuditSpec => []QuietAuditAgrees
<1>1. AuditInv => QuietAuditAgrees
  <2>. SUFFICES ASSUME AuditInv, AuditDone, audit.edits = edits
                PROVE  QuietAuditAgrees
    BY DEF QuietAuditAgrees
  <2>. DEFINE scored == InThisScope(onRecord)
              conflicts == Conflicts(Listed(formats), scored)
  <2>1. SoundFramework(Framed)
    BY SoundlyFramed DEF AuditDone
  <2>2. \A listed, claims : Known(listed, claims) => listed = formats /\ claims = onRecord
    BY DEF Known, FormatsKnown, ClaimsKnown
  <2>3. BaseIs(formats, onRecord)
    BY <2>2 DEF AuditDone, AuditInv, ReportInv, BaseInv, AfterBase
  <2>4. GovernanceIs(formats, onRecord)
    BY <2>2 DEF AuditDone, AuditInv, ReportInv, GovernanceInv, AfterBase
  <2>5. DiagnosticsIs(formats, onRecord)
    BY <2>2 DEF AuditDone, AuditInv, ReportInv, DiagnosticsInv
  <2>6. ConflictsIs(formats, onRecord)
    BY <2>2 DEF AuditDone, AuditInv, ReportInv, ConflictsInv
  <2>7. report.governance.claims = report.base.claims
    BY <2>3, <2>4 DEF BaseIs, GovernanceIs
  <2>8. ASSUME NEW d \in Listed(formats)
        PROVE  report.base.assessed[d].answers
                 = Answers(Framed, Evidence(d, {c \in scored :
                                      \E i \in DOMAIN d.ids : Data[c].home = d.ids[i]},
                                    audit.institution))
    <3>1. {c \in scored : \E i \in DOMAIN d.ids : Data[c].home = d.ids[i]}
            = ClaimsFor(d, scored)
      BY DEF ClaimsFor, KnownIds
    <3>2. report.base.assessed[d] = Assessed(d, scored)
      BY <2>3 DEF BaseIs
    <3>3. \A items : Assessed(d, items).answers = Answers(Framed, AuditEvidence(d, items))
      BY DEF Assessed, Analysed
    <3>4. AuditEvidence(d, scored)
            = Evidence(d, {c \in scored : \E i \in DOMAIN d.ids : Data[c].home = d.ids[i]},
                       audit.institution)
      BY <3>1 DEF AuditEvidence
    <3>. HIDE DEF scored
    <3>. QED
      BY <3>2, <3>3, <3>4
  <2>9. \A d \in DOMAIN report.diagnostics.assessed :
          report.diagnostics.assessed[d] = report.base.assessed[d]
    BY <2>3, <2>5 DEF BaseIs, DiagnosticsIs
  <2>10. report.diagnostics.matches
    BY <2>3, <2>5 DEF BaseIs, DiagnosticsIs
  <2>11. Kind("same_criterion_evidence_conflict") \cup Kind("composite_field_aggregation")
           = report.base.conflicts
    <3>1. ASSUME NEW x \in conflicts
          PROVE  report.conflicts[x] \in {"same_criterion_evidence_conflict",
                                          "composite_field_aggregation"}
      <4>1. /\ x[2] \in Framed.questions
            /\ DerivationStatus(Framed, x[2], AuditEvidence(x[1], scored))
                 = "derived_conflict_conservative"
        BY DEF Conflicts
      <4>2. report.conflicts[x] = Classification(x[2], AuditEvidence(x[1], scored))
        BY <2>6 DEF ConflictsIs
      <4>. QED
        BY <2>1, <4>1, <4>2, ConflictsAreClassified
    <3>2. DOMAIN report.conflicts = conflicts
      BY <2>6 DEF ConflictsIs
    <3>. QED
      BY <2>3, <3>1, <3>2 DEF Kind, BaseIs
  <2>12. onRecord = Made(formats, Accepted) =>
           report.governance.accepted = report.base.claims
    BY <2>3, <2>4 DEF BaseIs, GovernanceIs
  <2>. QED
    BY <2>7, <2>8, <2>9, <2>10, <2>11, <2>12 DEF QuietAuditAgrees
<1>. QED
  BY <1>1, AuditInvHolds, PTL

-----------------------------------------------------------------------------
(* The overall source risk: what a request for it has read.                *)

Lookup == [pc : {"none", "claims", "done"}, policy : Policy \cup {Absent},
           next : Nat \ {0}, read : SUBSET RiskClaim]

LookupInv ==
  /\ riskClaims \subseteq RiskClaim
  /\ lookup \in Lookup

RiskOriginInv ==
  /\ lookup.pc # "none" =>
       /\ throughout \subseteq riskClaims /\ riskClaims \subseteq sometime
       /\ lookup.read \subseteq OfDocument(sometime)
  /\ lookup.pc = "none" => lookup.read = {} /\ lookup.next = 1 /\ context = Absent

RiskCoverageInv ==
  lookup.pc # "none" =>
    \A c \in throughout, i \in DOMAIN KnownAs :
      i < lookup.next /\ Term[c].home = KnownAs[i] => c \in lookup.read

ContextInv ==
  context # Absent =>
    /\ lookup.pc = "done" /\ lookup.next > Len(KnownAs)
    /\ context.assessments = lookup.read
    /\ context.policyLevel = Headline(PolicyText[lookup.policy], lookup.read)
    /\ context.registryLevel = BuilderHeadline(context.carried)
    /\ context.match = (context.policyLevel = context.registryLevel)

SynthesisInv == LookupInv /\ RiskOriginInv /\ RiskCoverageInv

LEMMA SynthesisInitInv == SynthesisInit => SynthesisInv /\ ContextInv
BY DEF SynthesisInit, SynthesisStart, SynthesisInv, LookupInv, Lookup, RiskOriginInv,
       RiskCoverageInv, ContextInv, OfDocument

LEMMA RefreshStep ==
  ASSUME SynthesisInv, NEW c \in RiskClaim, SaveRiskClaim(c) \/ SupersedeRiskClaim(c)
  PROVE  SynthesisInv'
BY DEF SynthesisInv, LookupInv, Lookup, RiskOriginInv, RiskCoverageInv, OfDocument,
       SaveRiskClaim, SupersedeRiskClaim, Refreshing

LEMMA AskRiskStep ==
  ASSUME SynthesisInv, NEW p \in Policy, AskRisk(p)
  PROVE  SynthesisInv'
<1>1. /\ lookup' = [pc |-> "claims", policy |-> p, next |-> 1, read |-> {}]
      /\ riskClaims' = riskClaims /\ throughout' = riskClaims /\ sometime' = riskClaims
  BY DEF AskRisk, SynthesisInv, LookupInv, Lookup, RiskOriginInv
<1>2. LookupInv'
  BY <1>1 DEF SynthesisInv, LookupInv, Lookup
<1>3. RiskOriginInv'
  BY <1>1 DEF RiskOriginInv, OfDocument
<1>4. RiskCoverageInv'
  <2>1. \A i \in DOMAIN KnownAs : ~(i < 1)
    BY SynthesisConstants
  <2>. QED
    BY <1>1, <2>1 DEF RiskCoverageInv
<1>. QED
  BY <1>2, <1>3, <1>4 DEF SynthesisInv

LEMMA ReadRiskClaimsStep ==
  ASSUME SynthesisInv, ReadRiskClaims
  PROVE  SynthesisInv'
<1>. DEFINE found == {c \in riskClaims : Term[c].home = KnownAs[lookup.next]}
<1>1. /\ lookup' = [lookup EXCEPT !.next = lookup.next + 1,
                                  !.read = lookup.read \cup found]
      /\ lookup.pc = "claims" /\ lookup.next \in DOMAIN KnownAs
      /\ UNCHANGED <<riskClaims, context, throughout, sometime>>
  BY SynthesisConstants DEF ReadRiskClaims, SynthesisInv, LookupInv, Lookup
<1>2. /\ found \subseteq riskClaims /\ found \subseteq OfDocument(riskClaims)
      /\ \A c \in riskClaims : Term[c].home = KnownAs[lookup.next] => c \in found
  BY <1>1 DEF OfDocument
<1>. HIDE DEF found
<1>3. /\ lookup' \in Lookup /\ lookup'.pc = "claims"
      /\ lookup'.next = lookup.next + 1 /\ lookup'.read = lookup.read \cup found
  <2>1. lookup \in Lookup /\ lookup.next + 1 \in Nat \ {0}
    BY DEF SynthesisInv, LookupInv, Lookup
  <2>2. lookup.read \cup found \in SUBSET RiskClaim
    BY <1>2, <2>1 DEF SynthesisInv, LookupInv, Lookup
  <2>. QED
    BY <1>1, <2>1, <2>2 DEF Lookup
<1>4. LookupInv'
  BY <1>1, <1>3 DEF SynthesisInv, LookupInv
<1>5. RiskOriginInv'
  BY <1>1, <1>2, <1>3 DEF SynthesisInv, RiskOriginInv, OfDocument
<1>6. RiskCoverageInv'
  <2>. SUFFICES ASSUME NEW c \in throughout, NEW i \in DOMAIN KnownAs,
                       i < lookup.next + 1, Term[c].home = KnownAs[i]
                PROVE  c \in lookup'.read
    BY <1>1, <1>3 DEF RiskCoverageInv
  <2>1. i \in Nat /\ lookup.next \in Nat
    BY SynthesisConstants DEF SynthesisInv, LookupInv, Lookup
  <2>2. CASE i = lookup.next
    BY <1>1, <1>2, <1>3, <2>2 DEF SynthesisInv, RiskOriginInv
  <2>3. CASE i < lookup.next
    BY <1>1, <1>3, <2>3 DEF SynthesisInv, RiskCoverageInv
  <2>. QED
    BY <2>1, <2>2, <2>3
<1>. QED
  BY <1>4, <1>5, <1>6 DEF SynthesisInv

LEMMA ReturnContextStep ==
  ASSUME SynthesisInv, NEW carried, ReturnContext(carried)
  PROVE  SynthesisInv' /\ ContextInv'
<1>1. /\ lookup' = [lookup EXCEPT !.pc = "done"]
      /\ lookup.pc = "claims" /\ lookup.next > Len(KnownAs)
      /\ UNCHANGED <<riskClaims, throughout, sometime>>
      /\ context' = [assessments |-> lookup.read, carried |-> carried,
                     policyLevel |-> Headline(PolicyText[lookup.policy], lookup.read),
                     registryLevel |-> BuilderHeadline(carried),
                     match |-> Headline(PolicyText[lookup.policy], lookup.read)
                                 = BuilderHeadline(carried)]
  BY DEF ReturnContext
<1>2. /\ lookup' \in Lookup /\ lookup'.pc = "done" /\ lookup'.policy = lookup.policy
      /\ lookup'.next = lookup.next /\ lookup'.read = lookup.read
  BY <1>1 DEF SynthesisInv, LookupInv, Lookup
<1>3. SynthesisInv'
  BY <1>1, <1>2 DEF SynthesisInv, LookupInv, RiskOriginInv, RiskCoverageInv, OfDocument
<1>. DEFINE headline == Headline(PolicyText[lookup.policy], lookup.read)
<1>4. headline' = headline
  BY <1>2 DEF Headline
<1>5. ContextInv'
  BY <1>1, <1>2, <1>4 DEF ContextInv
<1>. QED
  BY <1>3, <1>5

LEMMA SynthesisStep ==
  ASSUME SynthesisInv, ContextInv, [SynthesisNext]_synthesisVars
  PROVE  SynthesisInv' /\ ContextInv'
<1>1. CASE UNCHANGED synthesisVars
  BY <1>1 DEF synthesisVars, SynthesisInv, LookupInv, RiskOriginInv, RiskCoverageInv,
              OfDocument, ContextInv
<1>2. ASSUME NEW c \in RiskClaim, SaveRiskClaim(c) \/ SupersedeRiskClaim(c)
      PROVE  ContextInv'
  BY <1>2 DEF SaveRiskClaim, SupersedeRiskClaim, Refreshing, ContextInv
<1>3. ASSUME NEW p \in Policy, AskRisk(p) PROVE ContextInv'
  BY <1>3 DEF AskRisk, SynthesisInv, RiskOriginInv, ContextInv
<1>4. CASE ReadRiskClaims
  BY <1>4, ReadRiskClaimsStep DEF ReadRiskClaims, ContextInv
<1>. QED
  BY <1>1, <1>2, <1>3, <1>4, RefreshStep, AskRiskStep, ReturnContextStep DEF SynthesisNext

LEMMA SynthesisInvHolds == SynthesisSpec => [](SynthesisInv /\ ContextInv)
<1>1. SynthesisInv /\ ContextInv /\ [SynthesisNext]_synthesisVars
        => (SynthesisInv /\ ContextInv)'
  BY SynthesisStep
<1>. QED
  BY SynthesisInitInv, <1>1, PTL DEF SynthesisSpec

-----------------------------------------------------------------------------
(* The shipped policy.                                                     *)

LEMMA FirstIs ==
  ASSUME NEW S \in SUBSET Int, IsFiniteSet(S), S # {}
  PROVE  FirstOf(S) \in S /\ \A j \in S : FirstOf(S) <= j
<1>. DEFINE f == [i \in S |-> 0 - i]
<1>1. \A i \in S : f[i] \in Int
  OBVIOUS
<1>2. PICK m \in S : \A n \in S : f[n] <= f[m]
  <2>. HIDE DEF f
  <2>. QED
    BY <1>1, HasGreatest
<1>3. \A n \in S : m <= n
  BY <1>2
<1>. QED
  BY <1>3 DEF FirstOf

LEMMA LastIs ==
  ASSUME NEW S \in SUBSET Int, IsFiniteSet(S), S # {}
  PROVE  LastOf(S) \in S
<1>. DEFINE f == [i \in S |-> i]
<1>1. \A i \in S : f[i] \in Int
  OBVIOUS
<1>2. PICK m \in S : \A n \in S : f[n] <= f[m]
  <2>. HIDE DEF f
  <2>. QED
    BY <1>1, HasGreatest
<1>3. \A n \in S : m >= n
  BY <1>2
<1>. QED
  BY <1>3 DEF LastOf

LEMMA WorstIs ==
  ASSUME NEW S \in SUBSET Level, S # {}
  PROVE  Worst(S) \in S /\ \A l \in S : Concern[Worst(S)] >= Concern[l]
<1>1. IsFiniteSet(S) /\ \A l \in S : Concern[l] \in Int
  BY SynthesisConstants, FS_Subset
<1>2. PICK m \in S : \A n \in S : Concern[n] <= Concern[m]
  BY <1>1, HasGreatest
<1>3. \A n \in S : Concern[m] >= Concern[n]
  BY <1>1, <1>2
<1>. QED
  BY <1>3 DEF Worst

LEMMA ShippedRuleIs ==
  ASSUME NEW a
  PROVE  \/ RuleFor(ShippedText, a) = Absent
         \/ \E i \in DOMAIN ShippedText.rules : RuleFor(ShippedText, a) = ShippedText.rules[i]
<1>. DEFINE fitting == {i \in DOMAIN ShippedText.rules :
                          ShippedText.rules[i].source \in {Absent, Term[a].source}}
<1>1. /\ Len(ShippedText.rules) \in Nat
      /\ DOMAIN ShippedText.rules = 1..Len(ShippedText.rules)
  BY ShippedPolicy DEF ShippedText
<1>2. ASSUME fitting # {} PROVE FirstOf(fitting) \in fitting
  <2>1. fitting \in SUBSET Int
    BY <1>1
  <2>2. IsFiniteSet(fitting)
    <3>1. IsFiniteSet(1..Len(ShippedText.rules))
      BY <1>1, FS_Interval
    <3>. QED
      BY <1>1, <3>1, FS_Subset
  <2>. QED
    BY <1>2, <2>1, <2>2, FirstIs
<1>. QED
  BY <1>2 DEF RuleFor

LEMMA ShippedLevelIs ==
  ASSUME NEW a
  PROVE  /\ ShippedLevel(a) \in Level \cup {Absent}
         /\ ShippedLevel(a) # Absent => InHeadlineRole(ShippedText, a)
<1>1. CASE RuleFor(ShippedText, a) = Absent
  BY <1>1 DEF ShippedLevel, LevelOf
<1>2. CASE RuleFor(ShippedText, a) # Absent
  <2>. DEFINE rule == RuleFor(ShippedText, a)
              giving == {i \in DOMAIN rule.fields : FieldLevel(rule, a, rule.fields[i]) # Absent}
  <2>1. PICK n \in DOMAIN ShippedText.rules : rule = ShippedText.rules[n]
    BY <1>2, ShippedRuleIs
  <2>2. /\ rule.role \in ShippedText.headlineRoles
        /\ Len(rule.fields) \in Nat /\ DOMAIN rule.fields = 1..Len(rule.fields)
        /\ \A t \in DOMAIN rule.valueMap : rule.valueMap[t] \in Level
    BY <2>1, ShippedPolicy DEF ShippedText
  <2>3. InHeadlineRole(ShippedText, a)
    BY <1>2, <2>2 DEF InHeadlineRole
  <2>4. \A field : FieldLevel(rule, a, field) \in Level \cup {Absent}
    BY <2>2 DEF FieldLevel
  <2>5. MappedLevel(rule, a) \in Level \cup {Absent}
    BY <2>4 DEF MappedLevel
  <2>. QED
    BY <1>2, <2>3, <2>5 DEF ShippedLevel, LevelOf
<1>. QED
  BY <1>1, <1>2

LEMMA TierIs ==
  ASSUME NEW scope
  PROVE  ScopeTier(ShippedText, scope) \in 1..(Len(ShippedText.scopes) + 1)
<1>. DEFINE tiers == {i \in DOMAIN ShippedText.scopes : scope \in ShippedText.scopes[i]}
<1>1. Len(ShippedText.scopes) \in Nat
      /\ DOMAIN ShippedText.scopes = 1..Len(ShippedText.scopes)
  BY ShippedPolicy DEF ShippedText
<1>2. tiers \in SUBSET Int /\ IsFiniteSet(tiers)
  <2>1. IsFiniteSet(1..Len(ShippedText.scopes))
    <3>1. \A m \in Nat : IsFiniteSet(1..m)
      BY FS_Interval
    <3>. QED
      BY <1>1, <3>1
  <2>. QED
    BY <1>1, <2>1, FS_Subset
<1>3. tiers # {} => LastOf(tiers) \in tiers
  BY <1>2, LastIs
<1>. QED
  BY <1>1, <1>3 DEF ScopeTier

\* The mapped assessments than which none is more specific.
Nearest(assessments) ==
  {a \in Mapped(ShippedText, assessments) :
     \A b \in Mapped(ShippedText, assessments) : ShippedScope(a) <= ShippedScope(b)}

LEMMA SomeNearest ==
  ASSUME NEW assessments, Mapped(ShippedText, assessments) # {}
  PROVE  Nearest(assessments) # {}
<1>. DEFINE n == Len(ShippedText.scopes) + 1
            S == {ShippedScope(a) : a \in Mapped(ShippedText, assessments)}
<1>1. \A a : ShippedScope(a) \in 1..n
  BY TierIs DEF ShippedScope, ScopeOf
<1>2. n \in Int /\ IsFiniteSet(1..n)
  BY ShippedPolicy, FS_Interval DEF ShippedText
<1>3. S \in SUBSET Int /\ S # {}
  BY <1>1
<1>4. IsFiniteSet(S)
  BY <1>1, <1>2, FS_Subset
<1>5. \E t \in S : \A u \in S : t <= u
  <2>. HIDE DEF S
  <2>. QED
    BY <1>3, <1>4, FirstIs
<1>. QED
  BY <1>5 DEF Nearest

\* The headline of the shipped policy is the worst level of those.
LEMMA ShippedHeadlineIs ==
  ASSUME NEW assessments
  PROVE  Headline(ShippedText, assessments)
           = IF Mapped(ShippedText, assessments) = {} THEN Absent
             ELSE Worst({ShippedLevel(a) : a \in Nearest(assessments)})
<1>. DEFINE mapped == Mapped(ShippedText, assessments)
            rows == {Normalized(ShippedText, a) : a \in mapped}
<1>1. /\ ShippedText.missing = "exclude"
      /\ ShippedText.selection = "most_specific_available"
      /\ ShippedText.broader = "context_only"
      /\ ShippedText.aggregation = "highest_semantic_concern"
  BY ShippedPolicy DEF ShippedText
<1>2. Considered(ShippedText, assessments, {}) = rows
  BY <1>1 DEF Considered
<1>3. \A a : /\ Normalized(ShippedText, a).level = ShippedLevel(a)
             /\ Normalized(ShippedText, a).tier = ShippedScope(a)
             /\ Normalized(ShippedText, a).of = a
  BY DEF Normalized, ShippedLevel, ShippedScope
<1>4. Primary(ShippedText, rows) = {r \in rows : \A q \in rows : r.tier <= q.tier}
  BY <1>1 DEF Primary
<1>5. {r.level : r \in Primary(ShippedText, rows)}
        = {ShippedLevel(a) : a \in Nearest(assessments)}
  <2>1. ASSUME NEW r \in Primary(ShippedText, rows)
        PROVE  \E a \in Nearest(assessments) : r.level = ShippedLevel(a)
    BY <1>3, <1>4, <2>1 DEF Nearest
  <2>2. ASSUME NEW a \in Nearest(assessments)
        PROVE  Normalized(ShippedText, a) \in Primary(ShippedText, rows)
    BY <1>3, <1>4, <2>2 DEF Nearest
  <2>3. ASSUME NEW a \in Nearest(assessments)
        PROVE  \E r \in Primary(ShippedText, rows) : r.level = ShippedLevel(a)
    BY <1>3, <2>2, <2>3
  <2>. HIDE DEF rows
  <2>. QED
    BY <2>1, <2>3
<1>6. Aggregate(ShippedText, Primary(ShippedText, rows))
        = Worst({r.level : r \in Primary(ShippedText, rows)})
  BY <1>1 DEF Aggregate
<1>7. rows = {} <=> mapped = {}
  OBVIOUS
<1>. HIDE DEF rows
<1>. QED
  BY <1>2, <1>5, <1>6, <1>7 DEF Headline, HeadlineWith

LEMMA NearestLevels ==
  ASSUME NEW assessments, Mapped(ShippedText, assessments) # {}
  PROVE  /\ {ShippedLevel(a) : a \in Nearest(assessments)} \in SUBSET Level
         /\ {ShippedLevel(a) : a \in Nearest(assessments)} # {}
<1>1. \A a \in Nearest(assessments) : ShippedLevel(a) \in Level
  BY ShippedLevelIs DEF Nearest, Mapped, ShippedLevel
<1>. QED
  BY <1>1, SomeNearest

\* Where both read scope and level alike, the builder's rule is the policy.
LEMMA BuilderAgrees ==
  ASSUME NEW assessments \in SUBSET Canonical
  PROVE  BuilderHeadline(assessments) = Headline(ShippedText, assessments)
<1>. DEFINE scored  == {a \in assessments : Term[a].semantic_level \in Level}
            nearest == {a \in scored : \A b \in scored : BuilderScope(a) <= BuilderScope(b)}
<1>1. \A a \in assessments : /\ Term[a].scope \in DOMAIN BuilderScopes
                             /\ Term[a].semantic_level = ShippedLevel(a)
  BY DEF Canonical
<1>2. scored = Mapped(ShippedText, assessments)
  <2>1. \A a \in assessments : Term[a].semantic_level \in Level <=> ShippedLevel(a) # Absent
    BY <1>1, ShippedLevelIs, SynthesisConstants
  <2>. QED
    BY <2>1, ShippedLevelIs DEF Mapped, ShippedLevel
<1>3. \A a \in assessments :
        /\ BuilderScope(a) = BuilderScopes[Term[a].scope]
        /\ ShippedScope(a) = ScopeTier(ShippedText, Term[a].scope)
  <2>1. Absent \notin DOMAIN BuilderScopes
    BY ShippedPolicy
  <2>. QED
    BY <1>1, <2>1 DEF BuilderScope, ShippedScope, ScopeOf
<1>4. \A a, b \in assessments :
        BuilderScope(a) <= BuilderScope(b) <=> ShippedScope(a) <= ShippedScope(b)
  BY <1>1, <1>3, ShippedPolicy DEF ShippedText
<1>5. scored \subseteq assessments /\ nearest \subseteq assessments
  OBVIOUS
<1>6. nearest = Nearest(assessments)
  BY <1>2, <1>4, <1>5 DEF Nearest
<1>7. {Term[a].semantic_level : a \in nearest}
        = {ShippedLevel(a) : a \in Nearest(assessments)}
  BY <1>1, <1>5, <1>6
<1>. HIDE DEF scored
<1>. QED
  BY <1>2, <1>7, ShippedHeadlineIs DEF scored, BuilderHeadline

\* The shipped policy's headline is the worst of the most specific, whatever the
\* refreshes do between two reads; and the builder's, where it is computed from
\* the same.
THEOREM HeadlinesAreWorstOfNearest == SynthesisSpec => []HeadlineIsWorstOfNearest
<1>1. SynthesisInv /\ ContextInv => HeadlineIsWorstOfNearest
  <2>. SUFFICES ASSUME SynthesisInv, ContextInv, context # Absent, lookup.policy = Shipped
                PROVE  HeadlineIsWorstOfNearest
    BY DEF HeadlineIsWorstOfNearest
  <2>. DEFINE levels == {ShippedLevel(a) : a \in Nearest(lookup.read)}
  <2>1. context.policyLevel = IF Mapped(ShippedText, lookup.read) = {} THEN Absent
                              ELSE Worst(levels)
    BY ShippedHeadlineIs DEF ContextInv, ShippedText
  <2>2. /\ OfDocument(throughout) \subseteq lookup.read
        /\ lookup.read \subseteq OfDocument(sometime)
    <3>1. \A i \in DOMAIN KnownAs : i < lookup.next
      BY SynthesisConstants DEF ContextInv, SynthesisInv, LookupInv, Lookup
    <3>. QED
      BY <3>1 DEF ContextInv, SynthesisInv, RiskCoverageInv, RiskOriginInv, OfDocument
  <2>3. /\ MappedThroughout \subseteq Mapped(ShippedText, lookup.read)
        /\ Mapped(ShippedText, lookup.read) \subseteq MappedSometime
    BY <2>2 DEF MappedThroughout, MappedSometime, Mapped
  <2>4. Mapped(ShippedText, lookup.read) # {} =>
          /\ Worst(levels) \in levels /\ Worst(levels) \in Level
          /\ \A l \in levels : Concern[Worst(levels)] >= Concern[l]
    <3>. HIDE DEF levels
    <3>1. Mapped(ShippedText, lookup.read) # {} => levels \in SUBSET Level /\ levels # {}
      BY NearestLevels DEF levels
    <3>. QED
      BY <3>1, WorstIs
  <2>5. context.policyLevel = Absent => MappedThroughout = {}
    BY <2>1, <2>3, <2>4, SynthesisConstants
  <2>6. ASSUME context.policyLevel # Absent
        PROVE  \E a \in MappedSometime :
                 /\ ShippedLevel(a) = context.policyLevel
                 /\ \A c \in MappedThroughout : ShippedScope(a) <= ShippedScope(c)
    <3>1. PICK a \in Nearest(lookup.read) : ShippedLevel(a) = context.policyLevel
      BY <2>1, <2>4, <2>6
    <3>. QED
      BY <2>3, <3>1 DEF Nearest
  <2>7. ASSUME NEW c \in MappedThroughout,
               \A b \in MappedSometime : ShippedScope(c) <= ShippedScope(b)
        PROVE  Concern[context.policyLevel] >= Concern[ShippedLevel(c)]
    <3>1. c \in Nearest(lookup.read)
      BY <2>3, <2>7 DEF Nearest
    <3>. QED
      BY <2>1, <2>3, <2>4, <3>1
  <2>8. context.carried = context.assessments /\ context.carried \subseteq Canonical
          => context.match
    BY BuilderAgrees DEF ContextInv, ShippedText
  <2>. QED
    BY <2>5, <2>6, <2>7, <2>8 DEF HeadlineIsWorstOfNearest
<1>. QED
  BY <1>1, SynthesisInvHolds, PTL

-----------------------------------------------------------------------------
(* Lists: what is arranged by a strict total order.                        *)

IsOrder(S, ahead) ==
  /\ \A x \in S : <<x, x>> \notin ahead
  /\ \A x, y \in S : x = y \/ <<x, y>> \in ahead \/ <<y, x>> \in ahead
  /\ \A x, y, z \in S : <<x, y>> \in ahead /\ <<y, z>> \in ahead => <<x, z>> \in ahead

\* Counting who is ahead gives each member a place of its own.
LEMMA ArrangedIs ==
  ASSUME NEW S, IsFiniteSet(S), NEW ahead, IsOrder(S, ahead)
  PROVE  /\ Cardinality(S) \in Nat
         /\ Arranged(S, ahead) \in [1..Cardinality(S) -> S]
         /\ \A x \in S : \E k \in 1..Cardinality(S) : Arranged(S, ahead)[k] = x
         /\ \A k, l \in 1..Cardinality(S) :
              k < l => <<Arranged(S, ahead)[k], Arranged(S, ahead)[l]>> \in ahead
<1>. DEFINE n == Cardinality(S)
            Ahead(x) == {y \in S : <<y, x>> \in ahead}
            rank == [x \in S |-> Cardinality(Ahead(x)) + 1]
<1>1. n \in Nat
  BY FS_CardinalityType
<1>2. \A x \in S : IsFiniteSet(Ahead(x)) /\ Cardinality(Ahead(x)) \in Nat
  <2>1. \A x \in S : IsFiniteSet(Ahead(x))
    BY FS_Subset
  <2>. QED
    BY <2>1, FS_CardinalityType
<1>3. ASSUME NEW x \in S, NEW T \in SUBSET S, Ahead(x) \subseteq T, x \in T
      PROVE  Cardinality(Ahead(x)) < Cardinality(T)
  <2>1. x \notin Ahead(x)
    BY DEF IsOrder
  <2>2. IsFiniteSet(T)
    BY FS_Subset
  <2>3. /\ Cardinality(Ahead(x)) <= Cardinality(T)
        /\ Cardinality(T) = Cardinality(Ahead(x)) => T = Ahead(x)
    <3>. HIDE DEF Ahead
    <3>. QED
      BY <1>3, <2>2, FS_Subset
  <2>4. Cardinality(T) \in Nat
    BY <2>2, FS_CardinalityType
  <2>. QED
    BY <1>2, <1>3, <2>1, <2>3, <2>4
<1>4. \A x, y \in S : <<x, y>> \in ahead => Cardinality(Ahead(x)) < Cardinality(Ahead(y))
  <2>. SUFFICES ASSUME NEW x \in S, NEW y \in S, <<x, y>> \in ahead
                PROVE  Cardinality(Ahead(x)) < Cardinality(Ahead(y))
    OBVIOUS
  <2>1. Ahead(x) \subseteq Ahead(y) /\ x \in Ahead(y)
    BY DEF IsOrder
  <2>. QED
    BY <1>3, <2>1
<1>5. \A x \in S : Cardinality(Ahead(x)) < n
  BY <1>3
<1>. HIDE DEF Ahead, n
<1>5a. rank \in [S -> 1..n] /\ \A x \in S : rank[x] = Cardinality(Ahead(x)) + 1
  BY <1>1, <1>2, <1>5
<1>. HIDE DEF rank
<1>6. \A x, y \in S : rank[x] = rank[y] => x = y
  <2>. TAKE x, y \in S
  <2>1. <<x, y>> \in ahead => rank[x] < rank[y]
    BY <1>2, <1>4, <1>5a
  <2>2. <<y, x>> \in ahead => rank[y] < rank[x]
    BY <1>2, <1>4, <1>5a
  <2>3. rank[x] \in Int /\ rank[y] \in Int
    BY <1>5a
  <2>. QED
    BY <2>1, <2>2, <2>3 DEF IsOrder
<1>7. \A k \in 1..n : \E x \in S : rank[x] = k
  <2>1. rank \in Injection(S, 1..n)
    BY <1>5a, <1>6 DEF Injection, IsInjective
  <2>2. IsFiniteSet(1..n) /\ Cardinality(1..n) = n
    BY <1>1, FS_Interval
  <2>3. rank \in Surjection(S, 1..n)
    BY <2>1, <2>2, FS_Injection DEF n
  <2>. QED
    BY <2>3 DEF Surjection
<1>8. \A k \in 1..n : Arranged(S, ahead)[k] \in S /\ rank[Arranged(S, ahead)[k]] = k
  <2>. SUFFICES ASSUME NEW k \in 1..n
                PROVE  Arranged(S, ahead)[k] \in S /\ rank[Arranged(S, ahead)[k]] = k
    OBVIOUS
  <2>1. Arranged(S, ahead)[k] = CHOOSE x \in S : Cardinality(Ahead(x)) = k - 1
    BY DEF Arranged, n, Ahead
  <2>2. \A x \in S : rank[x] = k <=> Cardinality(Ahead(x)) = k - 1
    BY <1>1, <1>2, <1>5a
  <2>3. \E x \in S : Cardinality(Ahead(x)) = k - 1
    BY <1>7, <2>2
  <2>4. Arranged(S, ahead)[k] \in S /\ Cardinality(Ahead(Arranged(S, ahead)[k])) = k - 1
    BY <2>1, <2>3
  <2>. QED
    BY <2>2, <2>4
<1>9. Arranged(S, ahead) \in [1..n -> S]
  BY <1>8 DEF Arranged, n
<1>10. \A x \in S : \E k \in 1..n : Arranged(S, ahead)[k] = x
  <2>. TAKE x \in S
  <2>1. rank[x] \in 1..n
    BY <1>5a
  <2>2. Arranged(S, ahead)[rank[x]] \in S /\ rank[Arranged(S, ahead)[rank[x]]] = rank[x]
    BY <1>8, <2>1
  <2>. QED
    BY <1>6, <2>1, <2>2
<1>11. \A k, l \in 1..n : k < l => <<Arranged(S, ahead)[k], Arranged(S, ahead)[l]>> \in ahead
  <2>. TAKE k, l \in 1..n
  <2>. DEFINE x == Arranged(S, ahead)[k]
              y == Arranged(S, ahead)[l]
  <2>1. x \in S /\ y \in S /\ rank[x] = k /\ rank[y] = l
    BY <1>8
  <2>. HIDE DEF x, y
  <2>2. <<y, x>> \in ahead => l < k
    BY <1>2, <1>4, <1>5a, <2>1
  <2>3. k < l => x # y /\ ~(l < k)
    BY <1>1, <2>1
  <2>4. k < l => <<x, y>> \in ahead
    BY <2>1, <2>2, <2>3 DEF IsOrder
  <2>. QED
    BY <2>4 DEF x, y
<1>. QED
  BY <1>1, <1>9, <1>10, <1>11 DEF n

LEMMA AtPlacesIs ==
  ASSUME NEW places \in SUBSET Int, IsFiniteSet(places), NEW V, NEW s,
         \A p \in places : s[p] \in V
  PROVE  /\ AtPlaces(s, places) \in Seq(V)
         /\ ToSet(AtPlaces(s, places)) = {s[p] : p \in places}
<1>. DEFINE n == Cardinality(places)
            ahead == {p \in places \X places : p[1] < p[2]}
            order == Arranged(places, ahead)
            t == AtPlaces(s, places)
<1>1. \A x, y \in places : <<x, y>> \in ahead <=> x < y
  OBVIOUS
<1>2. IsOrder(places, ahead)
  <2>. HIDE DEF ahead
  <2>. QED
    BY <1>1 DEF IsOrder
<1>3. /\ n \in Nat /\ order \in [1..n -> places]
      /\ \A x \in places : \E k \in 1..n : order[k] = x
  <2>. HIDE DEF ahead
  <2>. QED
    BY <1>2, ArrangedIs
<1>4. t = [k \in DOMAIN order |-> s[order[k]]]
  BY DEF AtPlaces, Permuted
<1>. HIDE DEF order, n, t
<1>5. t = [k \in 1..n |-> s[order[k]]]
  BY <1>3, <1>4
<1>6. t \in [1..n -> V]
  BY <1>3, <1>5
<1>7. t \in Seq(V) /\ DOMAIN t = 1..n
  BY <1>3, <1>6
<1>8. \A p \in places : \E k \in 1..n : t[k] = s[p]
  BY <1>3, <1>5
<1>9. \A k \in 1..n : order[k] \in places /\ t[k] = s[order[k]]
  BY <1>3, <1>5
<1>10. {t[k] : k \in DOMAIN t} = {s[p] : p \in places}
  <2>1. \A k \in 1..n : t[k] \in {s[p] : p \in places}
    <3>. TAKE k \in 1..n
    <3>1. order[k] \in places /\ t[k] = s[order[k]]
      BY <1>9
    <3>. QED
      BY <3>1
  <2>2. {s[p] : p \in places} \subseteq {t[k] : k \in 1..n}
    BY <1>8
  <2>. QED
    BY <1>7, <2>1, <2>2
<1>. QED
  BY <1>7, <1>10 DEF t, ToSet

LEMMA FirstNIs ==
  ASSUME NEW V, NEW s \in Seq(V), NEW n \in Nat
  PROVE  /\ FirstN(s, n) \in Seq(V)
         /\ Len(FirstN(s, n)) = IF n < Len(s) THEN n ELSE Len(s)
         /\ \A i \in 1..Len(FirstN(s, n)) : FirstN(s, n)[i] = s[i]
         /\ ToSet(FirstN(s, n)) \subseteq ToSet(s)
<1>. DEFINE m == IF n < Len(s) THEN n ELSE Len(s)
            t == FirstN(s, n)
<1>1. m \in Nat /\ m <= Len(s)
  OBVIOUS
<1>2. t = [i \in 1..m |-> s[i]]
  BY DEF FirstN
<1>3. t \in [1..m -> V]
  BY <1>1, <1>2
<1>4. t \in Seq(V) /\ Len(t) = m /\ DOMAIN t = 1..m
  <2>. HIDE DEF t, m
  <2>. QED
    BY <1>1, <1>3
<1>5. \A i \in 1..m : t[i] = s[i] /\ i \in DOMAIN s
  BY <1>1, <1>2
<1>6. ToSet(t) \subseteq ToSet(s)
  <2>. HIDE DEF t, m
  <2>. QED
    BY <1>4, <1>5 DEF ToSet
<1>. QED
  BY <1>4, <1>5, <1>6

LEMMA SetToSeqIs ==
  ASSUME NEW S, IsFiniteSet(S)
  PROVE  /\ SetToSeq(S) \in Seq(S)
         /\ Len(SetToSeq(S)) = Cardinality(S)
         /\ ToSet(SetToSeq(S)) = S
<1>. DEFINE n == Cardinality(S)
            s == SetToSeq(S)
<1>1. n \in Nat /\ ExistsBijection(1..n, S)
  BY FS_CardinalityType
<1>2. \E f \in [1..n -> S] : IsInjective(f)
  BY <1>1 DEF ExistsBijection, Bijection, Injection
<1>3. s \in [1..n -> S] /\ IsInjective(s)
  BY <1>2 DEF SetToSeq
<1>. HIDE DEF n, s
<1>4. IsFiniteSet(1..n) /\ Cardinality(1..n) = n
  BY <1>1, FS_Interval
<1>5. s \in Injection(1..n, S)
  BY <1>3 DEF Injection
<1>6. s \in Surjection(1..n, S)
  BY <1>4, <1>5, FS_Injection DEF n
<1>7. s \in Seq(S) /\ Len(s) = n /\ DOMAIN s = 1..n
  BY <1>1, <1>3
<1>8. ToSet(s) = S
  BY <1>3, <1>6, <1>7 DEF Surjection, ToSet
<1>. QED
  BY <1>7, <1>8 DEF s, n

-----------------------------------------------------------------------------
(* Source evidence.                                                        *)

LEMMA CloserIs ==
  ASSUME NEW rows \in SUBSET SourceRow
  PROVE  /\ \A q \in LinkedRows(rows) : ~Closer(q, q)
         /\ \A q, r \in LinkedRows(rows) : q = r \/ Closer(q, r) \/ Closer(r, q)
         /\ \A q, r, t \in LinkedRows(rows) : Closer(q, r) /\ Closer(r, t) => Closer(q, t)
         /\ \A q, r \in LinkedRows(rows) : RecordKey(q) = RecordKey(r) => q = r
<1>1. LinkedRows(rows) \subseteq LatestRows(rows) /\ LatestRows(rows) \subseteq SourceRow
  BY DEF LinkedRows, LatestRows
<1>2. \A r \in LinkedRows(rows) :
        LinkRank(r) \in Int /\ RowSays[r].order \in Int /\ RowSays[r].run \in Int
  BY <1>1, SourceRecords DEF LinkRank
<1>3. \A q, r \in LinkedRows(rows) :
        RecordKey(q) = RecordKey(r) => RowSays[q].run = RowSays[r].run
  <2>1. \A q, r \in LinkedRows(rows) :
          RecordKey(q) = RecordKey(r) =>
            RowSays[q].run <= RowSays[r].run /\ RowSays[r].run <= RowSays[q].run
    BY <1>1 DEF LatestRows
  <2>. QED
    BY <1>2, <2>1
<1>4. \A q, r \in LinkedRows(rows) :
        q = r \/ (RecordKey(q) # RecordKey(r) /\ RowSays[q].order # RowSays[r].order)
  BY <1>1, <1>3, SourceRecords
<1>. QED
  BY <1>2, <1>4 DEF Closer

OneScope(findings) ==
  \A i, j \in DOMAIN findings :
    /\ IsNativeRisk(findings[i]) /\ IsNativeRisk(findings[j])
    /\ SameRecord(findings[i], findings[j])
    => Term[findings[i]].scope = Term[findings[j]].scope

\* Findings of one record are of one row, and so of one scope.
LEMMA FindingsAre ==
  ASSUME NEW rows \in SUBSET SourceRow
  PROVE  /\ SourceFindings(rows) \in Seq(DOMAIN FindingKind)
         /\ OneScope(SourceFindings(rows))
<1>. DEFINE linked  == LinkedRows(rows)
            closest == {r \in linked : Cardinality({q \in linked : Closer(q, r)}) < MaxRecords}
            Of(r)   == {r} \X DOMAIN RowSays[r].findings
            found   == UNION {Of(r) : r \in closest}
            ahead   == {p \in found \X found :
                          \/ Closer(p[1][1], p[2][1])
                          \/ p[1][1] = p[2][1] /\ p[1][2] < p[2][2]}
            order   == Arranged(found, ahead)
            n       == Cardinality(found)
            all     == [k \in DOMAIN order |-> RowSays[order[k][1]].findings[order[k][2]]]
<1>1. linked \in SUBSET SourceRow /\ closest \in SUBSET linked
  BY DEF LinkedRows, LatestRows
<1>2. \A x \in found : /\ x = <<x[1], x[2]>> /\ x[1] \in closest
                       /\ x[2] \in DOMAIN RowSays[x[1]].findings
  <2>. TAKE x \in found
  <2>1. PICK r \in closest : x \in Of(r)
    OBVIOUS
  <2>. HIDE DEF closest
  <2>. QED
    BY <2>1
<1>3. \A r \in closest : /\ RowSays[r].findings \in Seq(DOMAIN FindingKind)
                         /\ DOMAIN RowSays[r].findings \in SUBSET Int
                         /\ IsFiniteSet(DOMAIN RowSays[r].findings)
  <2>1. \A r \in closest : RowSays[r].findings \in Seq(DOMAIN FindingKind)
    BY <1>1, SourceRecords
  <2>2. \A m \in Nat : IsFiniteSet(1..m)
    BY FS_Interval
  <2>3. \A f \in Seq(DOMAIN FindingKind) : DOMAIN f = 1..Len(f) /\ Len(f) \in Nat
    OBVIOUS
  <2>4. \A f \in Seq(DOMAIN FindingKind) : DOMAIN f \in SUBSET Int /\ IsFiniteSet(DOMAIN f)
    BY <2>2, <2>3
  <2>. QED
    BY <2>1, <2>4
<1>4. IsFiniteSet(found)
  <2>. DEFINE g == [r \in closest |-> Of(r)]
  <2>1. IsFiniteSet(closest)
    BY <1>1, ConsultationConstants, FS_Subset
  <2>2. \A r \in closest : IsFiniteSet(Of(r))
    <3>. TAKE r \in closest
    <3>1. IsFiniteSet({r})
      BY FS_Singleton
    <3>2. IsFiniteSet(DOMAIN RowSays[r].findings)
      BY <1>3
    <3>. QED
      BY <3>1, <3>2, FS_Product
  <2>. HIDE DEF closest, Of
  <2>3. g \in Surjection(closest, {Of(r) : r \in closest})
    BY DEF Surjection
  <2>4. IsFiniteSet({Of(r) : r \in closest})
    BY <2>1, <2>3, FS_Surjection
  <2>. QED
    BY <2>2, <2>4, FS_UNION
<1>5. \A x, y \in found :
        <<x, y>> \in ahead <=> Closer(x[1], y[1]) \/ (x[1] = y[1] /\ x[2] < y[2])
  OBVIOUS
<1>6. \A x \in found : x[1] \in linked /\ x[2] \in Int
  BY <1>1, <1>2, <1>3
<1>. HIDE DEF ahead, found, closest
<1>7. IsOrder(found, ahead)
  <2>1. \A x \in found : <<x, x>> \notin ahead
    BY <1>5, <1>6, CloserIs
  <2>2. \A x, y \in found : x = y \/ <<x, y>> \in ahead \/ <<y, x>> \in ahead
    <3>. TAKE x, y \in found
    <3>1. x[1] = y[1] /\ x[2] = y[2] => x = y
      BY <1>2
    <3>2. x[1] = y[1] \/ Closer(x[1], y[1]) \/ Closer(y[1], x[1])
      BY <1>6, CloserIs
    <3>3. x[2] = y[2] \/ x[2] < y[2] \/ y[2] < x[2]
      BY <1>6
    <3>. QED
      BY <1>5, <3>1, <3>2, <3>3
  <2>3. \A x, y, z \in found : <<x, y>> \in ahead /\ <<y, z>> \in ahead => <<x, z>> \in ahead
    <3>. TAKE x, y, z \in found
    <3>1. Closer(x[1], y[1]) /\ Closer(y[1], z[1]) => Closer(x[1], z[1])
      BY <1>6, CloserIs
    <3>2. x[2] < y[2] /\ y[2] < z[2] => x[2] < z[2]
      BY <1>6
    <3>. QED
      BY <1>5, <3>1, <3>2
  <2>. QED
    BY <2>1, <2>2, <2>3 DEF IsOrder
<1>8. n \in Nat /\ order \in [1..n -> found]
  BY <1>4, <1>7, ArrangedIs
<1>. HIDE DEF order, n
<1>9. \A k \in 1..n : /\ order[k] \in found
                      /\ all[k] = RowSays[order[k][1]].findings[order[k][2]]
                      /\ all[k] \in DOMAIN FindingKind
  BY <1>2, <1>3, <1>8
<1>10. DOMAIN all = 1..n
  BY <1>8
<1>11. all \in [1..n -> DOMAIN FindingKind]
  BY <1>8, <1>9, <1>10
<1>12. SourceFindings(rows) = FirstN(all, MaxFindings)
  BY DEF SourceFindings, order, ahead, found, closest
<1>. HIDE DEF all
<1>13. all \in Seq(DOMAIN FindingKind) /\ Len(all) = n
  BY <1>8, <1>11
<1>14. MaxFindings \in Nat
  BY ConsultationConstants
<1>15. /\ SourceFindings(rows) \in Seq(DOMAIN FindingKind)
       /\ \A i \in DOMAIN SourceFindings(rows) :
            i \in 1..n /\ SourceFindings(rows)[i] = all[i]
  <2>. DEFINE t == SourceFindings(rows)
  <2>1. /\ t \in Seq(DOMAIN FindingKind) /\ Len(t) <= n
        /\ \A i \in 1..Len(t) : t[i] = all[i]
    BY <1>12, <1>13, <1>14, FirstNIs
  <2>. HIDE DEF t
  <2>2. DOMAIN t = 1..Len(t) /\ Len(t) \in Nat
    BY <2>1
  <2>3. /\ t \in Seq(DOMAIN FindingKind)
        /\ \A i \in DOMAIN t : i \in 1..n /\ t[i] = all[i]
    BY <1>8, <2>1, <2>2
  <2>. QED
    BY <2>3 DEF t
<1>16. ASSUME NEW i \in 1..n, NEW j \in 1..n,
              IsNativeRisk(all[i]), IsNativeRisk(all[j]), SameRecord(all[i], all[j])
       PROVE  Term[all[i]].scope = Term[all[j]].scope
  <2>. DEFINE q == order[i][1]
              r == order[j][1]
  <2>1. /\ q \in linked /\ r \in linked /\ q \in SourceRow /\ r \in SourceRow
        /\ order[i][2] \in DOMAIN RowSays[q].findings
        /\ order[j][2] \in DOMAIN RowSays[r].findings
        /\ all[i] = RowSays[q].findings[order[i][2]]
        /\ all[j] = RowSays[r].findings[order[j][2]]
    BY <1>1, <1>2, <1>6, <1>9
  <2>. HIDE DEF q, r
  <2>2. /\ RecordOf[all[i]] = RowSays[q].record /\ Term[all[i]].source = RowSays[q].source
        /\ RecordOf[all[j]] = RowSays[r].record /\ Term[all[j]].source = RowSays[r].source
    BY <2>1, SourceRecords
  <2>3. RecordKey(q) = RecordKey(r)
    BY <1>16, <2>2 DEF SameRecord, RecordKey
  <2>4. q = r
    BY <2>1, <2>3, CloserIs
  <2>. QED
    BY <1>16, <2>1, <2>4, SourceRecords DEF IsNativeRisk
<1>. QED
  BY <1>15, <1>16 DEF OneScope

-----------------------------------------------------------------------------
(* What counts beside the claims.                                          *)

\* Each finding the policy maps counts, unless it repeats a claim or one that
\* counts.
LEMMA ConfiguredAre ==
  ASSUME NEW assessments, NEW findings \in Seq(DOMAIN FindingKind)
  PROVE  /\ ConfiguredRows(assessments, findings) \in Seq(DOMAIN FindingKind)
         /\ \A i \in ConfiguredPlaces(assessments, findings) :
              findings[i] \in ToSet(ConfiguredRows(assessments, findings))
         /\ \A a \in ToSet(ConfiguredRows(assessments, findings)) :
              \E i \in ConfiguredPlaces(assessments, findings) : a = findings[i]
<1>. DEFINE places == ConfiguredPlaces(assessments, findings)
<1>1. places \subseteq DOMAIN findings
  BY DEF ConfiguredPlaces
<1>2. DOMAIN findings = 1..Len(findings) /\ Len(findings) \in Nat
  OBVIOUS
<1>3. IsFiniteSet(DOMAIN findings)
  <2>1. \A m \in Nat : IsFiniteSet(1..m)
    BY FS_Interval
  <2>. QED
    BY <1>2, <2>1
<1>4. places \in SUBSET Int /\ IsFiniteSet(places)
  BY <1>1, <1>2, <1>3, FS_Subset
<1>5. \A i \in places : findings[i] \in DOMAIN FindingKind
  BY <1>1, <1>2
<1>. HIDE DEF places
<1>6. /\ AtPlaces(findings, places) \in Seq(DOMAIN FindingKind)
      /\ ToSet(AtPlaces(findings, places)) = {findings[p] : p \in places}
  BY <1>4, <1>5, AtPlacesIs
<1>. QED
  BY <1>6 DEF ConfiguredRows, places

LEMMA RepeatsAre ==
  ASSUME NEW a, NEW b, NEW c, Repeats(a, b), Repeats(b, c)
  PROVE  Repeats(a, c)
BY DEF Repeats, SameRecord

LEMMA OneOfThemCounts ==
  ASSUME NEW assessments, NEW findings \in Seq(DOMAIN FindingKind),
         NEW i \in DOMAIN findings, IsNativeRisk(findings[i]), IsMapped(findings[i]),
         ~ \E b \in assessments : IsMapped(b) /\ Repeats(findings[i], b)
  PROVE  \E j \in ConfiguredPlaces(assessments, findings) :
           j = i \/ Repeats(findings[i], findings[j])
<1>. DEFINE mapped == {j \in DOMAIN findings :
                         IsNativeRisk(findings[j]) /\ IsMapped(findings[j])}
            J == {j \in mapped : j = i \/ Repeats(findings[i], findings[j])}
<1>1. DOMAIN findings = 1..Len(findings) /\ Len(findings) \in Nat
  OBVIOUS
<1>2. IsFiniteSet(DOMAIN findings)
  <2>1. \A m \in Nat : IsFiniteSet(1..m)
    BY FS_Interval
  <2>. QED
    BY <1>1, <2>1
<1>3. J \in SUBSET Int /\ IsFiniteSet(J) /\ i \in J
  <2>1. J \subseteq DOMAIN findings /\ i \in J
    OBVIOUS
  <2>. HIDE DEF J
  <2>. QED
    BY <1>1, <1>2, <2>1, FS_Subset
<1>4. PICK j \in J : \A k \in J : j <= k
  <2>. HIDE DEF J
  <2>. QED
    BY <1>3, FirstIs
<1>5. j \in mapped /\ (j = i \/ Repeats(findings[i], findings[j]))
  OBVIOUS
<1>6. ~ \E b \in assessments : IsMapped(b) /\ Repeats(findings[j], b)
  BY <1>5, RepeatsAre
<1>7. ASSUME NEW k \in mapped, k < j, Repeats(findings[j], findings[k])
      PROVE  FALSE
  <2>1. Repeats(findings[i], findings[k])
    BY <1>5, <1>7, RepeatsAre
  <2>2. k \in J /\ k \in Int /\ j \in Int
    BY <1>1, <1>5, <2>1
  <2>. QED
    BY <1>4, <1>7, <2>2
<1>8. j \in ConfiguredPlaces(assessments, findings)
  BY <1>5, <1>6, <1>7 DEF ConfiguredPlaces
<1>. QED
  BY <1>5, <1>8

\* A headline with rows an AI added: the worst of the nearest again.
LEMMA HeadlineWithIs ==
  ASSUME NEW assessments, NEW added,
         \A r \in added : r.level \in Level /\ r.tier \in 1..(Len(ShippedText.scopes) + 1)
  PROVE  LET rows == {Normalized(ShippedText, a) : a \in Mapped(ShippedText, assessments)}
                       \cup added
             headline == HeadlineWith(ShippedText, assessments, added)
         IN /\ rows = {} => headline = Absent
            /\ rows # {} =>
                 /\ headline \in Level /\ headline # Absent
                 /\ \E r \in rows : headline = r.level
                 /\ \A r \in rows :
                      (\A q \in rows : r.tier <= q.tier)
                        => Concern[headline] >= Concern[r.level]
<1>. DEFINE n == Len(ShippedText.scopes) + 1
            rows == {Normalized(ShippedText, a) : a \in Mapped(ShippedText, assessments)}
                      \cup added
            headline == HeadlineWith(ShippedText, assessments, added)
            nearest == {r \in rows : \A q \in rows : r.tier <= q.tier}
            levels == {r.level : r \in nearest}
            tiers == {r.tier : r \in rows}
<1>1. /\ ShippedText.missing = "exclude"
      /\ ShippedText.selection = "most_specific_available"
      /\ ShippedText.broader = "context_only"
      /\ ShippedText.aggregation = "highest_semantic_concern"
  BY ShippedPolicy DEF ShippedText
<1>2. \A a : /\ Normalized(ShippedText, a).level = ShippedLevel(a)
             /\ Normalized(ShippedText, a).tier = ShippedScope(a)
  BY DEF Normalized, ShippedLevel, ShippedScope
<1>3. \A a \in Mapped(ShippedText, assessments) :
        ShippedLevel(a) \in Level /\ ShippedScope(a) \in 1..n
  BY ShippedLevelIs, TierIs DEF Mapped, ShippedLevel, ShippedScope, ScopeOf
<1>4. \A r \in rows : r.level \in Level /\ r.tier \in 1..n
  BY <1>2, <1>3
<1>5. Considered(ShippedText, assessments, added) = rows
  BY <1>1 DEF Considered
<1>6. Primary(ShippedText, rows) = nearest
  BY <1>1 DEF Primary
<1>7. Aggregate(ShippedText, nearest) = Worst(levels)
  BY <1>1 DEF Aggregate
<1>. HIDE DEF rows
<1>8. headline = IF rows = {} THEN Absent ELSE Worst(levels)
  BY <1>5, <1>6, <1>7 DEF HeadlineWith
<1>9. ASSUME rows # {} PROVE levels \in SUBSET Level /\ levels # {}
  <2>1. n \in Int /\ IsFiniteSet(1..n)
    BY ShippedPolicy, FS_Interval DEF ShippedText
  <2>2. tiers \in SUBSET Int /\ tiers # {} /\ IsFiniteSet(tiers)
    <3>1. tiers \subseteq 1..n
      BY <1>4
    <3>2. tiers # {}
      BY <1>9
    <3>. HIDE DEF tiers, n
    <3>3. \A t \in 1..n : t \in Int
      OBVIOUS
    <3>4. tiers \in SUBSET (1..n)
      BY <3>1
    <3>5. IsFiniteSet(tiers)
      BY <2>1, <3>4, FS_Subset
    <3>. QED
      BY <3>1, <3>2, <3>3, <3>5
  <2>3. \E t \in tiers : \A u \in tiers : t <= u
    <3>. HIDE DEF tiers
    <3>. QED
      BY <2>2, FirstIs
  <2>4. \E r \in rows : \A q \in rows : r.tier <= q.tier
    BY <2>3
  <2>. QED
    BY <1>4, <2>4
<1>10. rows # {} => /\ Worst(levels) \in levels /\ Worst(levels) \in Level
                    /\ \A l \in levels : Concern[Worst(levels)] >= Concern[l]
  <2>. HIDE DEF levels
  <2>. QED
    BY <1>9, WorstIs
<1>11. rows # {} => /\ headline \in Level /\ headline # Absent
                    /\ \E r \in rows : headline = r.level
                    /\ \A r \in rows : (\A q \in rows : r.tier <= q.tier)
                                         => Concern[headline] >= Concern[r.level]
  BY <1>8, <1>10, SynthesisConstants
<1>. QED
  BY <1>8, <1>11 DEF rows

-----------------------------------------------------------------------------
(* The consultation.                                                       *)

GovernedKind == "governed_source_risk_assessment"
ConfiguredKind == "config_normalized_source_risk_assessment"
CriterionKind == "governed_criterion_claim"

EvidenceKinds ==
  {GovernedKind, ConfiguredKind, CriterionKind, NativeRisk,
   "source_native_sustainability_factor", "source_native_documentation",
   "source_native_description"}

Reference ==
  [kind : EvidenceKinds,
   of : RiskClaim \cup DOMAIN CriterionClaims \cup DOMAIN FindingKind]

Consultation ==
  [pc : {"start", "gathered", "asked", "skipped", "answered", "failed"},
   assessments : SUBSET RiskClaim, findings : Seq(DOMAIN FindingKind),
   mode : {"none", "bounded", "capable"}, sent : Seq(Reference), web : BOOLEAN]

ConsultationInv ==
  /\ consult \in Consultation
  /\ OneScope(consult.findings)
  /\ consult.pc \in {"start", "gathered", "skipped"} => consult.mode = "none"
  /\ consult.mode = "none" => consult.pc \in {"start", "gathered", "skipped", "failed"}

\* What counts is what is stated, whatever repeats is left out: of what is
\* stated, something of the same level and scope counts.
LEMMA EffectiveIs ==
  ASSUME ConsultationInv
  PROVE  /\ Mapped(ShippedText, Effective) \subseteq Stated
         /\ \A a \in Stated : \E b \in Mapped(ShippedText, Effective) :
              ShippedLevel(b) = ShippedLevel(a) /\ ShippedScope(b) = ShippedScope(a)
<1>. DEFINE A == consult.assessments
            F == consult.findings
            rows == ConfiguredRows(A, F)
<1>1. F \in Seq(DOMAIN FindingKind)
  BY DEF ConsultationInv, Consultation
<1>2. \A a : IsMapped(a) <=> ShippedLevel(a) # Absent
  BY DEF IsMapped, ThePolicy, ShippedLevel, ShippedText
<1>3. \A a, S : a \in Mapped(ShippedText, S) <=> a \in S /\ IsMapped(a)
  BY <1>2, ShippedLevelIs DEF Mapped, ShippedLevel
<1>4. \A a, b : Repeats(a, b) <=> SameRecord(a, b) /\ ShippedLevel(a) = ShippedLevel(b)
  BY DEF Repeats, ThePolicy, ShippedLevel, ShippedText
<1>5. \A a : a \in Stated <=>
        \/ a \in A /\ IsMapped(a)
        \/ /\ a \in Natives /\ IsMapped(a)
           /\ ~ \E b \in A : IsMapped(b) /\ Repeats(a, b)
  BY <1>2, <1>3, <1>4 DEF Stated, ThePolicy, ShippedText
<1>6. \A a : a \in Mapped(ShippedText, Effective) <=>
        (a \in A \/ a \in ToSet(rows)) /\ IsMapped(a)
  BY <1>3 DEF Effective
<1>7. \A i \in DOMAIN F : IsNativeRisk(F[i]) => F[i] \in Natives
  BY DEF Natives, ToSet
<1>8. \A a \in ToSet(rows) : a \in Stated
  <2>. TAKE a \in ToSet(rows)
  <2>1. PICK i \in ConfiguredPlaces(A, F) : a = F[i]
    BY <1>1, ConfiguredAre
  <2>. QED
    BY <1>5, <1>7, <2>1 DEF ConfiguredPlaces
<1>9. Mapped(ShippedText, Effective) \subseteq Stated
  BY <1>5, <1>6, <1>8
<1>10. ASSUME NEW a \in Natives, IsMapped(a), ~ \E b \in A : IsMapped(b) /\ Repeats(a, b)
       PROVE  \E b \in Mapped(ShippedText, Effective) :
                ShippedLevel(b) = ShippedLevel(a) /\ ShippedScope(b) = ShippedScope(a)
  <2>1. PICK i \in DOMAIN F : a = F[i] /\ IsNativeRisk(F[i])
    BY DEF Natives, ToSet
  <2>2. PICK j \in ConfiguredPlaces(A, F) : j = i \/ Repeats(F[i], F[j])
    BY <1>1, <1>10, <2>1, OneOfThemCounts
  <2>3. /\ j \in DOMAIN F /\ IsNativeRisk(F[j]) /\ IsMapped(F[j])
        /\ F[j] \in ToSet(rows)
    BY <1>1, <2>2, ConfiguredAre DEF ConfiguredPlaces
  <2>4. F[j] \in Mapped(ShippedText, Effective)
    BY <1>6, <2>3
  <2>5. CASE j = i
    BY <2>1, <2>4, <2>5
  <2>6. CASE Repeats(F[i], F[j])
    <3>1. Term[F[i]].scope = Term[F[j]].scope /\ Term[F[i]].source = Term[F[j]].source
      BY <1>4, <2>1, <2>3, <2>6 DEF ConsultationInv, OneScope, SameRecord
    <3>2. ShippedScope(F[j]) = ShippedScope(F[i])
      BY <3>1 DEF ShippedScope, ScopeOf, RuleFor
    <3>. QED
      BY <1>4, <2>1, <2>4, <2>6, <3>2
  <2>. QED
    BY <2>2, <2>5, <2>6
<1>11. \A a \in A : IsMapped(a) => a \in Mapped(ShippedText, Effective)
  BY <1>6
<1>. QED
  BY <1>5, <1>9, <1>10, <1>11

-----------------------------------------------------------------------------
(* The evidence.                                                           *)

LEMMA ConcatIs ==
  ASSUME NEW V, NEW s \in Seq(V), NEW t \in Seq(V)
  PROVE  /\ s \o t \in Seq(V) /\ Len(s \o t) = Len(s) + Len(t)
         /\ \A i \in 1..Len(s) : (s \o t)[i] = s[i]
         /\ \A i \in 1..Len(t) : (s \o t)[Len(s) + i] = t[i]
         /\ \A i \in 1..Len(s \o t) :
              \/ i \in 1..Len(s)
              \/ i - Len(s) \in 1..Len(t) /\ (s \o t)[i] = t[i - Len(s)]
OBVIOUS

LEMMA ListedIs ==
  ASSUME NEW V, NEW s \in Seq(V)
  PROVE  /\ Len(s) \in Nat /\ DOMAIN s = 1..Len(s)
         /\ \A i \in 1..Len(s) : s[i] \in ToSet(s) /\ s[i] \in V
         /\ \A x \in ToSet(s) : x \in V /\ \E i \in 1..Len(s) : s[i] = x
<1>1. Len(s) \in Nat /\ DOMAIN s = 1..Len(s) /\ \A i \in 1..Len(s) : s[i] \in V
  OBVIOUS
<1>. QED
  BY <1>1 DEF ToSet

LEMMA RefsAre ==
  ASSUME NEW kind \in EvidenceKinds, NEW V, NEW s \in Seq(V),
         V \subseteq RiskClaim \cup DOMAIN CriterionClaims \cup DOMAIN FindingKind
  PROVE  /\ Refs(kind, s) \in Seq(Reference)
         /\ Len(Refs(kind, s)) = Len(s)
         /\ \A i \in 1..Len(s) : Refs(kind, s)[i] = Ref(kind, s[i])
<1>. DEFINE t == Refs(kind, s)
<1>1. Len(s) \in Nat /\ DOMAIN s = 1..Len(s) /\ \A i \in 1..Len(s) : s[i] \in V
  OBVIOUS
<1>2. t = [i \in 1..Len(s) |-> Ref(kind, s[i])]
  BY <1>1 DEF Refs
<1>3. \A i \in 1..Len(s) : Ref(kind, s[i]) \in Reference
  BY <1>1 DEF Ref, Reference
<1>. HIDE DEF t
<1>4. t \in [1..Len(s) -> Reference] /\ \A i \in 1..Len(s) : t[i] = Ref(kind, s[i])
  BY <1>2, <1>3
<1>5. t \in Seq(Reference) /\ Len(t) = Len(s)
  BY <1>1, <1>4
<1>. QED
  BY <1>4, <1>5 DEF t

LEMMA FindingRefsAre ==
  ASSUME NEW s \in Seq(DOMAIN FindingKind)
  PROVE  /\ FindingRefs(s) \in Seq(Reference)
         /\ Len(FindingRefs(s)) = Len(s)
         /\ \A i \in 1..Len(s) : FindingRefs(s)[i] = Ref(FindingKind[s[i]], s[i])
<1>. DEFINE t == FindingRefs(s)
<1>1. /\ Len(s) \in Nat /\ DOMAIN s = 1..Len(s)
      /\ \A i \in 1..Len(s) : s[i] \in DOMAIN FindingKind
  OBVIOUS
<1>2. t = [i \in 1..Len(s) |-> Ref(FindingKind[s[i]], s[i])]
  BY <1>1 DEF FindingRefs
<1>3. \A i \in 1..Len(s) : Ref(FindingKind[s[i]], s[i]) \in Reference
  <2>1. \A a \in DOMAIN FindingKind : FindingKind[a] \in EvidenceKinds
    BY ConsultationConstants DEF EvidenceKinds, NativeRisk
  <2>. QED
    BY <1>1, <2>1 DEF Ref, Reference
<1>. HIDE DEF t
<1>4. /\ t \in [1..Len(s) -> Reference]
      /\ \A i \in 1..Len(s) : t[i] = Ref(FindingKind[s[i]], s[i])
  BY <1>2, <1>3
<1>5. t \in Seq(Reference) /\ Len(t) = Len(s)
  BY <1>1, <1>4
<1>. QED
  BY <1>4, <1>5 DEF t

\* The evidence before it is cut to a limit.
Whole(assessments, configured, criteria, findings) ==
  Refs(GovernedKind, SetToSeq(assessments)) \o Refs(ConfiguredKind, configured)
    \o Refs(CriterionKind, SetToSeq(criteria)) \o FindingRefs(findings)

LEMMA WholeIs ==
  ASSUME NEW assessments \in SUBSET RiskClaim,
         NEW configured \in Seq(DOMAIN FindingKind),
         NEW criteria \in SUBSET DOMAIN CriterionClaims,
         NEW findings \in Seq(DOMAIN FindingKind)
  PROVE  LET whole == Whole(assessments, configured, criteria, findings)
             n == Cardinality(assessments)
         IN
           /\ whole \in Seq(Reference)
           /\ n \in Nat
           /\ Len(whole) = n + Len(configured) + Cardinality(criteria) + Len(findings)
           /\ \A i \in DOMAIN whole :
                \/ i <= n /\ \E a \in assessments : whole[i] = Ref(GovernedKind, a)
                \/ \E f \in ToSet(configured) : whole[i] = Ref(ConfiguredKind, f)
                \/ \E c \in criteria : whole[i] = Ref(CriterionKind, c)
                \/ \E f \in ToSet(findings) : whole[i] = Ref(FindingKind[f], f)
           /\ \A a \in assessments : \E i \in DOMAIN whole : whole[i] = Ref(GovernedKind, a)
           /\ \A f \in ToSet(findings) :
                \E i \in DOMAIN whole : whole[i] = Ref(FindingKind[f], f)
<1>. DEFINE n == Cardinality(assessments)
            m == Len(configured)
            p == Cardinality(criteria)
            q == Len(findings)
            a == SetToSeq(assessments)
            c == SetToSeq(criteria)
            r1 == Refs(GovernedKind, a)
            r2 == Refs(ConfiguredKind, configured)
            r3 == Refs(CriterionKind, c)
            r4 == FindingRefs(findings)
            whole == Whole(assessments, configured, criteria, findings)
<1>1. IsFiniteSet(assessments) /\ IsFiniteSet(criteria)
  BY ConsultationConstants, FS_Subset
<1>2. /\ a \in Seq(assessments) /\ Len(a) = n /\ ToSet(a) = assessments
      /\ c \in Seq(criteria) /\ Len(c) = p /\ ToSet(c) = criteria
  BY <1>1, SetToSeqIs
<1>3. n \in Nat /\ m \in Nat /\ p \in Nat /\ q \in Nat
  BY <1>1, FS_CardinalityType
<1>4. /\ r1 \in Seq(Reference) /\ Len(r1) = n
      /\ \A i \in 1..n : r1[i] = Ref(GovernedKind, a[i])
  <2>. HIDE DEF a, n
  <2>1. /\ GovernedKind \in EvidenceKinds
        /\ assessments \subseteq RiskClaim \cup DOMAIN CriterionClaims \cup DOMAIN FindingKind
    BY DEF EvidenceKinds
  <2>. QED
    BY <1>2, <2>1, RefsAre
<1>5. /\ r2 \in Seq(Reference) /\ Len(r2) = m
      /\ \A i \in 1..m : r2[i] = Ref(ConfiguredKind, configured[i])
  <2>1. /\ ConfiguredKind \in EvidenceKinds
        /\ DOMAIN FindingKind \subseteq RiskClaim \cup DOMAIN CriterionClaims \cup DOMAIN FindingKind
    BY DEF EvidenceKinds
  <2>. QED
    BY <2>1, RefsAre
<1>6. /\ r3 \in Seq(Reference) /\ Len(r3) = p
      /\ \A i \in 1..p : r3[i] = Ref(CriterionKind, c[i])
  <2>. HIDE DEF c, p
  <2>1. /\ CriterionKind \in EvidenceKinds
        /\ criteria \subseteq RiskClaim \cup DOMAIN CriterionClaims \cup DOMAIN FindingKind
    BY DEF EvidenceKinds
  <2>. QED
    BY <1>2, <2>1, RefsAre
<1>7. /\ r4 \in Seq(Reference) /\ Len(r4) = q
      /\ \A i \in 1..q : r4[i] = Ref(FindingKind[findings[i]], findings[i])
  BY FindingRefsAre
<1>8. whole = ((r1 \o r2) \o r3) \o r4
  BY DEF Whole
<1>9. /\ \A i \in 1..n : a[i] \in assessments
      /\ \A x \in assessments : \E i \in 1..n : a[i] = x
  <2>. HIDE DEF a, n
  <2>. QED
    BY <1>2, ListedIs
<1>10. \A i \in 1..p : c[i] \in criteria
  <2>. HIDE DEF c, p
  <2>. QED
    BY <1>2, ListedIs
<1>11. /\ \A i \in 1..m : configured[i] \in ToSet(configured)
       /\ \A i \in 1..q : findings[i] \in ToSet(findings)
       /\ \A f \in ToSet(findings) : \E i \in 1..q : findings[i] = f
  BY ListedIs
<1>. HIDE DEF n, m, p, q, a, c, r1, r2, r3, r4, whole
<1>12. /\ r1 \o r2 \in Seq(Reference) /\ Len(r1 \o r2) = n + m
       /\ \A i \in 1..n : (r1 \o r2)[i] = r1[i]
       /\ \A i \in 1..(n + m) : i \in 1..n \/ (i - n \in 1..m /\ (r1 \o r2)[i] = r2[i - n])
  <2>1. /\ r1 \o r2 \in Seq(Reference) /\ Len(r1 \o r2) = Len(r1) + Len(r2)
        /\ \A i \in 1..Len(r1) : (r1 \o r2)[i] = r1[i]
        /\ \A i \in 1..Len(r2) : (r1 \o r2)[Len(r1) + i] = r2[i]
        /\ \A i \in 1..Len(r1 \o r2) :
             \/ i \in 1..Len(r1)
             \/ i - Len(r1) \in 1..Len(r2) /\ (r1 \o r2)[i] = r2[i - Len(r1)]
    <3>1. r1 \in Seq(Reference) /\ r2 \in Seq(Reference)
      BY <1>4, <1>5
    <3>. QED
      BY <3>1, ConcatIs
  <2>. QED
    BY <1>3, <1>4, <1>5, <2>1
<1>. DEFINE s == r1 \o r2
            t == s \o r3
<1>. HIDE DEF s
<1>13. /\ t \in Seq(Reference) /\ Len(t) = n + m + p
       /\ \A i \in 1..(n + m) : t[i] = s[i]
       /\ \A i \in 1..(n + m + p) :
            i \in 1..(n + m) \/ (i - (n + m) \in 1..p /\ t[i] = r3[i - (n + m)])
  <2>1. s \in Seq(Reference) /\ Len(s) = n + m
    BY <1>12 DEF s
  <2>2. /\ s \o r3 \in Seq(Reference) /\ Len(s \o r3) = Len(s) + Len(r3)
        /\ \A i \in 1..Len(s) : (s \o r3)[i] = s[i]
        /\ \A i \in 1..Len(r3) : (s \o r3)[Len(s) + i] = r3[i]
        /\ \A i \in 1..Len(s \o r3) :
             \/ i \in 1..Len(s)
             \/ i - Len(s) \in 1..Len(r3) /\ (s \o r3)[i] = r3[i - Len(s)]
    BY <1>6, <2>1, ConcatIs
  <2>. QED
    BY <1>3, <1>6, <2>1, <2>2
<1>. HIDE DEF t
<1>14. /\ whole \in Seq(Reference) /\ Len(whole) = n + m + p + q
       /\ \A i \in 1..(n + m + p) : whole[i] = t[i]
       /\ \A i \in 1..q : whole[(n + m + p) + i] = r4[i]
       /\ \A i \in 1..(n + m + p + q) :
            \/ i \in 1..(n + m + p)
            \/ i - (n + m + p) \in 1..q /\ whole[i] = r4[i - (n + m + p)]
  <2>1. whole = t \o r4
    BY <1>8 DEF s, t
  <2>2. /\ t \o r4 \in Seq(Reference) /\ Len(t \o r4) = Len(t) + Len(r4)
        /\ \A i \in 1..Len(t) : (t \o r4)[i] = t[i]
        /\ \A i \in 1..Len(r4) : (t \o r4)[Len(t) + i] = r4[i]
        /\ \A i \in 1..Len(t \o r4) :
             \/ i \in 1..Len(t)
             \/ i - Len(t) \in 1..Len(r4) /\ (t \o r4)[i] = r4[i - Len(t)]
    <3>1. t \in Seq(Reference) /\ r4 \in Seq(Reference)
      BY <1>7, <1>13
    <3>. QED
      BY <3>1, ConcatIs
  <2>. QED
    BY <1>3, <1>7, <1>13, <2>1, <2>2
<1>15. DOMAIN whole = 1..(n + m + p + q)
  BY <1>3, <1>14
<1>16. ASSUME NEW i \in 1..n
       PROVE  i \in 1..(n + m + p + q) /\ whole[i] = Ref(GovernedKind, a[i])
  <2>1. i \in 1..(n + m) /\ i \in 1..(n + m + p) /\ i \in 1..(n + m + p + q)
    BY <1>3
  <2>. QED
    BY <1>4, <1>12, <1>13, <1>14, <2>1 DEF s
<1>17. ASSUME NEW i \in 1..(n + m + p + q)
       PROVE  \/ i <= n /\ \E x \in assessments : whole[i] = Ref(GovernedKind, x)
              \/ \E f \in ToSet(configured) : whole[i] = Ref(ConfiguredKind, f)
              \/ \E x \in criteria : whole[i] = Ref(CriterionKind, x)
              \/ \E f \in ToSet(findings) : whole[i] = Ref(FindingKind[f], f)
  <2>1. CASE i \in 1..n
    <3>1. i <= n /\ a[i] \in assessments /\ whole[i] = Ref(GovernedKind, a[i])
      BY <1>3, <1>9, <1>16, <2>1
    <3>. QED
      BY <3>1
  <2>2. CASE i \notin 1..n /\ i \in 1..(n + m)
    <3>1. i \in 1..(n + m + p) /\ i - n \in 1..m /\ s[i] = r2[i - n]
      BY <1>3, <1>12, <2>2 DEF s
    <3>2. whole[i] = Ref(ConfiguredKind, configured[i - n])
      BY <1>5, <1>13, <1>14, <2>2, <3>1
    <3>. QED
      BY <1>11, <3>1, <3>2
  <2>3. CASE i \notin 1..(n + m) /\ i \in 1..(n + m + p)
    <3>1. i - (n + m) \in 1..p /\ t[i] = r3[i - (n + m)]
      BY <1>13, <2>3
    <3>2. whole[i] = Ref(CriterionKind, c[i - (n + m)])
      BY <1>6, <1>14, <2>3, <3>1
    <3>. QED
      BY <1>10, <3>1, <3>2
  <2>4. CASE i \notin 1..(n + m + p)
    <3>1. i - (n + m + p) \in 1..q /\ whole[i] = r4[i - (n + m + p)]
      BY <1>14, <2>4
    <3>. DEFINE k == i - (n + m + p)
    <3>2. whole[i] = Ref(FindingKind[findings[k]], findings[k]) /\ findings[k] \in ToSet(findings)
      BY <1>7, <1>11, <3>1
    <3>. QED
      BY <3>2
  <2>. QED
    BY <2>1, <2>2, <2>3, <2>4
<1>18. \A x \in assessments : \E i \in 1..(n + m + p + q) : whole[i] = Ref(GovernedKind, x)
  BY <1>9, <1>16
<1>19. ASSUME NEW f \in ToSet(findings)
       PROVE  \E i \in 1..(n + m + p + q) : whole[i] = Ref(FindingKind[f], f)
  <2>1. PICK k \in 1..q : findings[k] = f
    BY <1>11
  <2>2. (n + m + p) + k \in 1..(n + m + p + q)
    BY <1>3
  <2>3. whole[(n + m + p) + k] = Ref(FindingKind[f], f)
    BY <1>7, <1>14, <2>1
  <2>. QED
    BY <2>2, <2>3
<1>20. /\ whole \in Seq(Reference) /\ n \in Nat
       /\ Len(whole) = n + m + p + q
  BY <1>3, <1>14
<1>. QED
  BY <1>15, <1>17, <1>18, <1>19, <1>20 DEF whole, n, m, p, q

LEMMA LeftIs ==
  ASSUME NEW findings \in Seq(DOMAIN FindingKind)
  PROVE  /\ LeftToAI(findings) \in Seq(DOMAIN FindingKind)
         /\ \A a : a \in ToSet(LeftToAI(findings))
                     <=> a \in ToSet(findings) /\ ~(IsNativeRisk(a) /\ IsMapped(a))
<1>. DEFINE places == {i \in DOMAIN findings :
                         ~(IsNativeRisk(findings[i]) /\ IsMapped(findings[i]))}
<1>1. /\ Len(findings) \in Nat /\ DOMAIN findings = 1..Len(findings)
      /\ \A i \in 1..Len(findings) : findings[i] \in DOMAIN FindingKind
  OBVIOUS
<1>2. places \in SUBSET Int /\ IsFiniteSet(places)
  <2>1. \A m \in Nat : IsFiniteSet(1..m)
    BY FS_Interval
  <2>2. IsFiniteSet(DOMAIN findings) /\ places \in SUBSET (DOMAIN findings)
    BY <1>1, <2>1
  <2>3. places \in SUBSET Int
    BY <1>1
  <2>. HIDE DEF places
  <2>. QED
    BY <2>2, <2>3, FS_Subset
<1>3. \A p \in places : findings[p] \in DOMAIN FindingKind
  BY <1>1
<1>4. \A a : a \in ToSet(findings) /\ ~(IsNativeRisk(a) /\ IsMapped(a))
               <=> a \in {findings[p] : p \in places}
  BY DEF ToSet
<1>. HIDE DEF places
<1>5. /\ AtPlaces(findings, places) \in Seq(DOMAIN FindingKind)
      /\ ToSet(AtPlaces(findings, places)) = {findings[p] : p \in places}
  BY <1>2, <1>3, AtPlacesIs
<1>. QED
  BY <1>4, <1>5 DEF LeftToAI, places

-----------------------------------------------------------------------------
(* The steps of a consultation.                                            *)

LEMMA ConsultationInitInv == AISynthesisInit => ConsultationInv
<1>. SUFFICES ASSUME NEW read \in SUBSET RiskClaim, ConsultationStart(read)
              PROVE  ConsultationInv
  BY DEF AISynthesisInit
<1>1. <<>> \in Seq(DOMAIN FindingKind) /\ <<>> \in Seq(Reference)
  OBVIOUS
<1>2. OneScope(<<>>)
  BY DEF OneScope
<1>. QED
  BY <1>1, <1>2 DEF ConsultationStart, ConsultationInv, Consultation

\* What a conclusion leaves as it was.
LEMMA ConcludeIs ==
  ASSUME ConsultationInv, NEW how \in {"skipped", "answered", "failed"}, NEW said,
         Conclude(how, said), how = "skipped" => consult.mode = "none",
         how = "answered" => consult.mode # "none"
  PROVE  /\ consult'.pc = how /\ outcome' = said
         /\ consult'.assessments = consult.assessments
         /\ consult'.findings = consult.findings
         /\ consult'.mode = consult.mode /\ consult'.sent = consult.sent
         /\ consult'.web = consult.web
         /\ ConsultationInv'
<1>1. /\ consult'.pc = how /\ outcome' = said
      /\ consult'.assessments = consult.assessments
      /\ consult'.findings = consult.findings
      /\ consult'.mode = consult.mode /\ consult'.sent = consult.sent
      /\ consult'.web = consult.web
      /\ consult' \in Consultation
  BY DEF Conclude, ConsultationInv, Consultation
<1>. QED
  BY <1>1 DEF ConsultationInv

LEMMA GatherFindingsStep ==
  ASSUME ConsultationInv, NEW rows \in SUBSET SourceRow, GatherFindings(rows)
  PROVE  ConsultationInv' /\ consult'.pc = "gathered" /\ consult'.mode = "none"
<1>1. SourceFindings(rows) \in Seq(DOMAIN FindingKind) /\ OneScope(SourceFindings(rows))
  BY FindingsAre
<1>2. /\ consult'.pc = "gathered" /\ consult'.findings = SourceFindings(rows)
      /\ consult'.mode = "none" /\ consult' \in Consultation
  BY <1>1 DEF GatherFindings, ConsultationInv, Consultation
<1>. QED
  BY <1>1, <1>2 DEF ConsultationInv

\* What is sent in the bounded way.
LEMMA BoundedEvidenceIs ==
  ASSUME ConsultationInv, NEW criteria \in SUBSET DOMAIN CriterionClaims
  PROVE  LET left == LeftToAI(consult.findings)
             evidence == SynthesisEvidence(consult.assessments,
                           ConfiguredRows(consult.assessments, consult.findings),
                           criteria, left, BundleLimit)
         IN
           /\ evidence \in Seq(Reference)
           /\ \A i \in DOMAIN evidence : evidence[i].kind = NativeRisk =>
                evidence[i].of \in Natives /\ ~IsMapped(evidence[i].of)
<1>. DEFINE left == LeftToAI(consult.findings)
            configured == ConfiguredRows(consult.assessments, consult.findings)
            whole == Whole(consult.assessments, configured, criteria, left)
            evidence == SynthesisEvidence(consult.assessments, configured, criteria,
                                          left, BundleLimit)
<1>1. /\ consult.assessments \in SUBSET RiskClaim
      /\ consult.findings \in Seq(DOMAIN FindingKind)
  BY DEF ConsultationInv, Consultation
<1>2. /\ left \in Seq(DOMAIN FindingKind)
      /\ \A a \in ToSet(left) : IsNativeRisk(a) => a \in Natives /\ ~IsMapped(a)
  BY <1>1, LeftIs DEF Natives
<1>3. configured \in Seq(DOMAIN FindingKind)
  BY <1>1, ConfiguredAre
<1>4. evidence = FirstN(whole, BundleLimit)
  BY DEF SynthesisEvidence, Whole, GovernedKind, ConfiguredKind, CriterionKind
<1>. HIDE DEF left, configured
<1>5. /\ whole \in Seq(Reference)
      /\ \A i \in DOMAIN whole :
           \/ \E a \in consult.assessments : whole[i] = Ref(GovernedKind, a)
           \/ \E f \in ToSet(configured) : whole[i] = Ref(ConfiguredKind, f)
           \/ \E c \in criteria : whole[i] = Ref(CriterionKind, c)
           \/ \E f \in ToSet(left) : whole[i] = Ref(FindingKind[f], f)
  BY <1>1, <1>2, <1>3, WholeIs
<1>. HIDE DEF whole, evidence
<1>6. /\ GovernedKind # NativeRisk /\ ConfiguredKind # NativeRisk
      /\ CriterionKind # NativeRisk
  BY DEF GovernedKind, ConfiguredKind, CriterionKind, NativeRisk
<1>7. ASSUME NEW i \in DOMAIN whole, whole[i].kind = NativeRisk
      PROVE  whole[i].of \in Natives /\ ~IsMapped(whole[i].of)
  <2>1. PICK f \in ToSet(left) : whole[i] = Ref(FindingKind[f], f)
    BY <1>5, <1>6, <1>7 DEF Ref
  <2>2. IsNativeRisk(f) /\ whole[i].of = f
    BY <1>7, <2>1 DEF Ref, IsNativeRisk
  <2>. QED
    BY <1>2, <2>2
<1>8. BundleLimit \in Nat
  BY ConsultationConstants
<1>9. /\ evidence \in Seq(Reference) /\ Len(evidence) <= Len(whole)
      /\ \A i \in 1..Len(evidence) : evidence[i] = whole[i]
  BY <1>4, <1>5, <1>8, FirstNIs
<1>10. \A i \in DOMAIN evidence : i \in DOMAIN whole /\ evidence[i] = whole[i]
  BY <1>5, <1>9
<1>. QED
  BY <1>7, <1>9, <1>10 DEF evidence, left, configured

LEMMA SendBoundedStep ==
  ASSUME ConsultationInv, NEW criteria \in SUBSET DOMAIN CriterionClaims,
         SendBounded(criteria)
  PROVE  /\ ConsultationInv'
         /\ consult'.assessments = consult.assessments
         /\ consult'.findings = consult.findings
         /\ \/ /\ consult'.pc = "skipped" /\ consult'.mode = "none"
               /\ outcome' = Outcome(Headline(ThePolicy, Effective), FALSE, FALSE)
            \/ /\ consult'.pc = "asked" /\ consult'.mode = "bounded"
               /\ \A i \in DOMAIN consult'.sent : consult'.sent[i].kind = NativeRisk =>
                    consult'.sent[i].of \in Natives /\ ~IsMapped(consult'.sent[i].of)
               /\ \/ Headline(ThePolicy, Effective) = Absent
                  \/ \E a \in Natives : ~IsMapped(a)
<1>. DEFINE left == LeftToAI(consult.findings)
            evidence == SynthesisEvidence(consult.assessments,
                          ConfiguredRows(consult.assessments, consult.findings),
                          criteria, left, BundleLimit)
<1>1. /\ evidence \in Seq(Reference)
      /\ \A i \in DOMAIN evidence : evidence[i].kind = NativeRisk =>
           evidence[i].of \in Natives /\ ~IsMapped(evidence[i].of)
  BY BoundedEvidenceIs
<1>2. (\E i \in DOMAIN left : IsNativeRisk(left[i])) => \E a \in Natives : ~IsMapped(a)
  <2>1. consult.findings \in Seq(DOMAIN FindingKind)
    BY DEF ConsultationInv, Consultation
  <2>2. \A i \in DOMAIN left : left[i] \in ToSet(left)
    BY DEF ToSet
  <2>. HIDE DEF left
  <2>3. \A a \in ToSet(left) : IsNativeRisk(a) => a \in Natives /\ ~IsMapped(a)
    BY <2>1, LeftIs DEF Natives, left
  <2>. QED
    BY <2>2, <2>3
<1>3. /\ consult.pc = "gathered" /\ consult.mode = "none" /\ consult \in Consultation
      /\ OneScope(consult.findings)
  BY DEF SendBounded, ConsultationInv
<1>4. CASE evidence = <<>>
  <2>1. Conclude("skipped", Outcome(Headline(ThePolicy, Effective), FALSE, FALSE))
    BY <1>4 DEF SendBounded
  <2>. QED
    BY <1>3, <2>1, ConcludeIs
<1>5. CASE evidence # <<>>
  <2>1. /\ consult' = [consult EXCEPT !.pc = "asked", !.mode = "bounded", !.sent = evidence]
        /\ \/ Headline(ThePolicy, Effective) = Absent
           \/ \E i \in DOMAIN left : IsNativeRisk(left[i])
    BY <1>5 DEF SendBounded
  <2>. HIDE DEF evidence, left
  <2>2. /\ consult'.pc = "asked" /\ consult'.mode = "bounded" /\ consult'.sent = evidence
        /\ consult'.assessments = consult.assessments
        /\ consult'.findings = consult.findings
        /\ consult' \in Consultation
    BY <1>1, <1>3, <2>1 DEF Consultation
  <2>. QED
    BY <1>1, <1>2, <1>3, <2>1, <2>2 DEF ConsultationInv
<1>. QED
  BY <1>4, <1>5

-----------------------------------------------------------------------------
(* What fits.                                                              *)

LEMMA PriorityIs ==
  /\ \A ref : EvidencePriority(ref) \in 0..4
  /\ \A a : EvidencePriority(Ref(GovernedKind, a)) = 0
  /\ \A c : EvidencePriority(Ref(CriterionKind, c)) = 1
  /\ \A f \in DOMAIN FindingKind : EvidencePriority(Ref(FindingKind[f], f)) # 0
<1>1. \A f \in DOMAIN FindingKind : FindingKind[f] \notin {GovernedKind, ConfiguredKind}
  BY ConsultationConstants DEF GovernedKind, ConfiguredKind
<1>. QED
  BY <1>1 DEF EvidencePriority, Ref, GovernedKind, ConfiguredKind, CriterionKind, NativeRisk

\* s in order of priority: nothing is lost, and nothing gets behind more than
\* what is as important.
LEMMA ByPriorityIs ==
  ASSUME NEW s \in Seq(Reference)
  PROVE  LET t == ByPriority(s) IN
           /\ t \in Seq(Reference) /\ Len(t) = Len(s) /\ ToSet(t) = ToSet(s)
           /\ \A k, l \in DOMAIN t :
                k < l => EvidencePriority(t[k]) <= EvidencePriority(t[l])
           /\ \A n \in Nat :
                (\A i \in DOMAIN s : EvidencePriority(s[i]) = 0 => i <= n)
                  => \A k \in DOMAIN t : EvidencePriority(t[k]) = 0 => k <= n
<1>. DEFINE m == Len(s)
            prio == [i \in 1..m |-> EvidencePriority(s[i])]
            ahead == {p \in (DOMAIN s) \X DOMAIN s :
                        LET a == EvidencePriority(s[p[1]])
                            b == EvidencePriority(s[p[2]])
                        IN a < b \/ (a = b /\ p[1] < p[2])}
            order == Arranged(DOMAIN s, ahead)
            t == ByPriority(s)
<1>1. m \in Nat /\ DOMAIN s = 1..m /\ \A i \in 1..m : s[i] \in Reference
  OBVIOUS
<1>2. IsFiniteSet(DOMAIN s) /\ Cardinality(DOMAIN s) = m
  <2>1. IsFiniteSet(1..m) /\ Cardinality(1..m) = IF 1 > m THEN 0 ELSE m - 1 + 1
    <3>. HIDE DEF m
    <3>. QED
      BY <1>1, FS_Interval
  <2>. QED
    BY <1>1, <2>1
<1>3. \A i \in 1..m : prio[i] = EvidencePriority(s[i]) /\ prio[i] \in Int /\ i \in Int
  BY PriorityIs
<1>4. \A i, j \in 1..m : <<i, j>> \in ahead
                           <=> prio[i] < prio[j] \/ (prio[i] = prio[j] /\ i < j)
  BY <1>1, <1>3
<1>5. t = [k \in DOMAIN order |-> s[order[k]]]
  BY DEF ByPriority, Permuted
<1>. HIDE DEF ahead, prio, t, m
<1>6. IsOrder(DOMAIN s, ahead)
  <2>1. \A i \in 1..m : <<i, i>> \notin ahead
    BY <1>3, <1>4
  <2>2. \A i, j \in 1..m : i = j \/ <<i, j>> \in ahead \/ <<j, i>> \in ahead
    <3>. TAKE i, j \in 1..m
    <3>1. prio[i] < prio[j] \/ prio[j] < prio[i] \/ prio[i] = prio[j]
      BY <1>3
    <3>2. i < j \/ j < i \/ i = j
      BY <1>3
    <3>. QED
      BY <1>4, <3>1, <3>2
  <2>3. \A i, j, k \in 1..m : <<i, j>> \in ahead /\ <<j, k>> \in ahead => <<i, k>> \in ahead
    BY <1>3, <1>4
  <2>. QED
    BY <1>1, <2>1, <2>2, <2>3 DEF IsOrder
<1>7. /\ order \in [1..m -> 1..m]
      /\ \A i \in 1..m : \E k \in 1..m : order[k] = i
      /\ \A k, l \in 1..m : k < l => <<order[k], order[l]>> \in ahead
  <2>. DEFINE D == DOMAIN s
  <2>1. IsFiniteSet(D) /\ IsOrder(D, ahead) /\ order = Arranged(D, ahead)
    BY <1>2, <1>6
  <2>2. D = 1..m /\ Cardinality(D) = m
    BY <1>1, <1>2
  <2>. HIDE DEF D, order
  <2>3. /\ order \in [1..Cardinality(D) -> D]
        /\ \A x \in D : \E k \in 1..Cardinality(D) : order[k] = x
        /\ \A k, l \in 1..Cardinality(D) : k < l => <<order[k], order[l]>> \in ahead
    BY <2>1, ArrangedIs
  <2>. QED
    BY <2>2, <2>3
<1>. HIDE DEF order
<1>8. t \in [1..m -> Reference] /\ \A k \in 1..m : t[k] = s[order[k]] /\ order[k] \in 1..m
  BY <1>1, <1>5, <1>7
<1>9. t \in Seq(Reference) /\ Len(t) = m /\ DOMAIN t = 1..m
  BY <1>1, <1>8
<1>10. ToSet(t) = ToSet(s)
  <2>1. \A k \in 1..m : t[k] \in {s[i] : i \in 1..m}
    BY <1>8
  <2>2. \A i \in 1..m : s[i] \in {t[k] : k \in 1..m}
    BY <1>7, <1>8
  <2>3. {t[k] : k \in 1..m} = {s[i] : i \in 1..m}
    BY <2>1, <2>2
  <2>. QED
    BY <1>1, <1>9, <2>3 DEF ToSet
<1>11. \A k \in 1..m : EvidencePriority(t[k]) = prio[order[k]]
  BY <1>3, <1>8
<1>12. \A k, l \in 1..m : k < l => EvidencePriority(t[k]) <= EvidencePriority(t[l])
  <2>. TAKE k, l \in 1..m
  <2>1. order[k] \in 1..m /\ order[l] \in 1..m
    BY <1>7
  <2>2. k < l => /\ <<order[k], order[l]>> \in ahead
                 /\ prio[order[k]] \in Int /\ prio[order[l]] \in Int
    BY <1>3, <1>7, <2>1
  <2>3. k < l => prio[order[k]] <= prio[order[l]]
    BY <1>4, <2>1, <2>2
  <2>. QED
    BY <1>11, <2>3
<1>13. ASSUME NEW n \in Nat, \A i \in 1..m : EvidencePriority(s[i]) = 0 => i <= n,
              NEW k \in 1..m, EvidencePriority(t[k]) = 0
       PROVE  k <= n
  <2>. DEFINE f == [l \in 1..k |-> order[l]]
  <2>1. \A l \in 1..k : l \in 1..m /\ order[l] \in 1..n
    <3>. TAKE l \in 1..k
    <3>1. l \in 1..m /\ (l = k \/ l < k)
      BY <1>1
    <3>2. EvidencePriority(t[l]) <= EvidencePriority(t[k])
      BY <1>12, <3>1, PriorityIs
    <3>3. EvidencePriority(t[l]) = 0
      BY <1>13, <3>2, PriorityIs
    <3>4. order[l] \in 1..m /\ EvidencePriority(s[order[l]]) = 0
      BY <1>8, <3>1, <3>3
    <3>. QED
      BY <1>1, <1>13, <3>1, <3>4
  <2>2. \A i, j \in 1..k : f[i] = f[j] => i = j
    <3>. TAKE i, j \in 1..k
    <3>1. i \in 1..m /\ j \in 1..m /\ order[i] \in 1..m /\ order[j] \in 1..m
      BY <1>7, <2>1
    <3>2. i \in Int /\ j \in Int
      BY <1>3, <3>1
    <3>3. \A l \in 1..m : <<l, l>> \notin ahead
      BY <1>1, <1>6 DEF IsOrder
    <3>4. i < j => order[i] # order[j]
      BY <1>7, <3>1, <3>3
    <3>5. j < i => order[i] # order[j]
      BY <1>7, <3>1, <3>3
    <3>. QED
      BY <3>2, <3>4, <3>5
  <2>3. f \in [1..k -> 1..n]
    BY <2>1
  <2>. HIDE DEF f
  <2>4. f \in Injection(1..k, 1..n)
    BY <2>2, <2>3 DEF Injection, IsInjective
  <2>5. /\ IsFiniteSet(1..n) /\ Cardinality(1..n) = n
        /\ Cardinality(1..k) = k
    <3>1. /\ IsFiniteSet(1..n) /\ Cardinality(1..n) = IF 1 > n THEN 0 ELSE n - 1 + 1
          /\ Cardinality(1..k) = IF 1 > k THEN 0 ELSE k - 1 + 1
      BY FS_Interval
    <3>2. k \in Nat /\ ~(1 > k)
      BY <1>1
    <3>. QED
      BY <3>1, <3>2
  <2>6. Cardinality(1..k) <= Cardinality(1..n)
    BY <2>4, <2>5, FS_Injection
  <2>. QED
    BY <2>5, <2>6
<1>. QED
  BY <1>1, <1>9, <1>10, <1>12, <1>13 DEF t, m

\* Trimming keeps the governed, and what it takes is no more important than
\* anything it keeps.
LEMMA TrimmedIs ==
  ASSUME NEW s \in Seq(Reference), NEW n \in Nat
  PROVE  LET t == Trimmed(s, n) IN
           /\ t \in Seq(Reference) /\ ToSet(t) \subseteq ToSet(s)
           /\ \A x \in ToSet(s) : EvidencePriority(x) = 0 => x \in ToSet(t)
           /\ \A x \in ToSet(s) \ ToSet(t) :
                \A y \in ToSet(t) : EvidencePriority(y) <= EvidencePriority(x)
<1>. DEFINE m == Len(s)
            R == Removable(s)
            Sooner(i, j) ==
              \/ EvidencePriority(s[i]) > EvidencePriority(s[j])
              \/ EvidencePriority(s[i]) = EvidencePriority(s[j]) /\ i > j
            Before(j) == {i \in R : Sooner(i, j)}
            gone == {j \in R : Cardinality(Before(j)) < n}
            staying == DOMAIN s \ gone
            t == Trimmed(s, n)
<1>1. m \in Nat /\ DOMAIN s = 1..m /\ \A i \in 1..m : s[i] \in Reference
  OBVIOUS
<1>2. IsFiniteSet(1..m) /\ IsFiniteSet(R) /\ R \subseteq 1..m
  <2>1. R \in SUBSET (1..m)
    BY <1>1 DEF Removable
  <2>2. IsFiniteSet(1..m)
    <3>1. \A k \in Nat : IsFiniteSet(1..k)
      BY FS_Interval
    <3>. QED
      BY <1>1, <3>1
  <2>. HIDE DEF R, m
  <2>. QED
    BY <2>1, <2>2, FS_Subset
<1>3. \A i \in 1..m : EvidencePriority(s[i]) \in 0..4
  BY PriorityIs
<1>4. \A i \in 1..m : i \in R <=> EvidencePriority(s[i]) > 0
  BY <1>1 DEF Removable
<1>5. ASSUME NEW j \in 1..m, NEW i \in R, EvidencePriority(s[i]) > EvidencePriority(s[j]),
             j \in gone
      PROVE  i \in gone
  <2>1. j \in R /\ i \in 1..m /\ Cardinality(Before(j)) < n
    BY <1>2, <1>5
  <2>2. \A k \in 1..m : Sooner(k, i) => Sooner(k, j)
    BY <1>3, <1>5, <2>1
  <2>3. Before(i) \in SUBSET Before(j)
    BY <1>2, <2>2
  <2>4. Before(j) \in SUBSET R
    OBVIOUS
  <2>. HIDE DEF Before, R
  <2>5. IsFiniteSet(Before(j))
    BY <1>2, <2>4, FS_Subset
  <2>6. Cardinality(Before(i)) <= Cardinality(Before(j)) /\ IsFiniteSet(Before(i))
    BY <2>3, <2>5, FS_Subset
  <2>7. Cardinality(Before(i)) \in Nat /\ Cardinality(Before(j)) \in Nat
    BY <2>5, <2>6, FS_CardinalityType
  <2>8. Cardinality(Before(i)) < n
    BY <2>1, <2>6, <2>7
  <2>. QED
    BY <1>5, <2>8
<1>6. t = AtPlaces(s, staying)
  BY DEF Trimmed
<1>7. \A i \in 1..m : i \in staying <=> i \notin gone
  BY <1>1
<1>8. staying \in SUBSET (1..m) /\ gone \in SUBSET R
  BY <1>1
<1>. HIDE DEF gone, staying, t, R, m
<1>9. staying \in SUBSET Int /\ IsFiniteSet(staying)
  <2>1. \A i \in 1..m : i \in Int
    OBVIOUS
  <2>. QED
    BY <1>2, <1>8, <2>1, FS_Subset
<1>10. t \in Seq(Reference) /\ ToSet(t) = {s[p] : p \in staying}
  <2>1. \A p \in staying : s[p] \in Reference
    BY <1>1, <1>8
  <2>. QED
    BY <1>6, <1>9, <2>1, AtPlacesIs
<1>11. \A x : x \in ToSet(s) <=> \E i \in 1..m : x = s[i]
  BY <1>1 DEF ToSet
<1>12. \A x : x \in ToSet(t) <=> \E i \in 1..m : i \notin gone /\ x = s[i]
  BY <1>7, <1>8, <1>10
<1>13. \A x \in ToSet(s) : EvidencePriority(x) = 0 => x \in ToSet(t)
  <2>. SUFFICES ASSUME NEW i \in 1..m, EvidencePriority(s[i]) = 0 PROVE s[i] \in ToSet(t)
    BY <1>11
  <2>1. i \notin R
    BY <1>4
  <2>. QED
    BY <1>8, <1>12, <2>1
<1>14. ASSUME NEW x \in ToSet(s) \ ToSet(t), NEW y \in ToSet(t)
       PROVE  EvidencePriority(y) <= EvidencePriority(x)
  <2>1. PICK j \in 1..m : x = s[j]
    BY <1>11
  <2>2. PICK i \in 1..m : i \notin gone /\ y = s[i]
    BY <1>12
  <2>3. j \in gone /\ j \in R
    BY <1>8, <1>12, <2>1
  <2>4. EvidencePriority(s[i]) > EvidencePriority(s[j]) => i \in R
    BY <1>3, <1>4
  <2>5. ~(EvidencePriority(s[i]) > EvidencePriority(s[j]))
    BY <1>5, <2>2, <2>3, <2>4
  <2>. QED
    BY <1>3, <2>1, <2>2, <2>5
<1>. QED
  BY <1>10, <1>11, <1>12, <1>13, <1>14 DEF t

LEMMA FittingIs ==
  ASSUME NEW s \in Seq(Reference), NEW budget
  PROVE  \E n \in Nat : FittingTo(s, budget) = Trimmed(s, n)
<1>. DEFINE enough == {n \in 0 .. Len(s) : Fits(Trimmed(s, n), FrameworkSize, budget)}
<1>1. Len(s) \in Nat
  OBVIOUS
<1>2. CASE enough = {}
  BY <1>1, <1>2 DEF FittingTo
<1>3. CASE enough # {}
  <2>1. IsFiniteSet(0 .. Len(s))
    BY <1>1, FS_Interval
  <2>2. enough \in SUBSET (0 .. Len(s)) /\ enough \in SUBSET Int /\ enough \in SUBSET Nat
    BY <1>1
  <2>3. FittingTo(s, budget) = Trimmed(s, FirstOf(enough))
    BY <1>3 DEF FittingTo
  <2>. HIDE DEF enough
  <2>4. FirstOf(enough) \in enough
    BY <1>3, <2>1, <2>2, FS_Subset, FirstIs
  <2>. QED
    BY <2>2, <2>3, <2>4
<1>. QED
  BY <1>2, <1>3

\* The same with nothing configured.
LEMMA WholeAloneIs ==
  ASSUME NEW assessments \in SUBSET RiskClaim,
         NEW criteria \in SUBSET DOMAIN CriterionClaims,
         NEW findings \in Seq(DOMAIN FindingKind)
  PROVE  LET whole == Whole(assessments, <<>>, criteria, findings)
             n == Cardinality(assessments)
         IN
           /\ whole \in Seq(Reference)
           /\ n \in Nat
           /\ Len(whole) = n + 0 + Cardinality(criteria) + Len(findings)
           /\ \A i \in DOMAIN whole :
                \/ i <= n /\ \E a \in assessments : whole[i] = Ref(GovernedKind, a)
                \/ \E c \in criteria : whole[i] = Ref(CriterionKind, c)
                \/ \E f \in ToSet(findings) : whole[i] = Ref(FindingKind[f], f)
           /\ \A a \in assessments : \E i \in DOMAIN whole : whole[i] = Ref(GovernedKind, a)
           /\ \A f \in ToSet(findings) :
                \E i \in DOMAIN whole : whole[i] = Ref(FindingKind[f], f)
<1>1. PICK none \in Seq(DOMAIN FindingKind) : none = <<>>
  <2>1. <<>> \in Seq(DOMAIN FindingKind)
    OBVIOUS
  <2>. QED
    BY <2>1
<1>2. Len(none) = 0 /\ ToSet(none) = {}
  BY <1>1 DEF ToSet
<1>. DEFINE whole == Whole(assessments, none, criteria, findings)
            n == Cardinality(assessments)
<1>3. /\ whole \in Seq(Reference) /\ n \in Nat
      /\ Len(whole) = n + Len(none) + Cardinality(criteria) + Len(findings)
      /\ \A i \in DOMAIN whole :
           \/ i <= n /\ \E a \in assessments : whole[i] = Ref(GovernedKind, a)
           \/ \E f \in ToSet(none) : whole[i] = Ref(ConfiguredKind, f)
           \/ \E c \in criteria : whole[i] = Ref(CriterionKind, c)
           \/ \E f \in ToSet(findings) : whole[i] = Ref(FindingKind[f], f)
      /\ \A a \in assessments : \E i \in DOMAIN whole : whole[i] = Ref(GovernedKind, a)
      /\ \A f \in ToSet(findings) :
           \E i \in DOMAIN whole : whole[i] = Ref(FindingKind[f], f)
  BY WholeIs
<1>4. Whole(assessments, <<>>, criteria, findings) = whole
  BY <1>1
<1>. HIDE DEF whole
<1>. QED
  BY <1>2, <1>3, <1>4

\* What is supplied with capabilities.
LEMMA SuppliedIs ==
  ASSUME ConsultationInv, NEW criteria \in SUBSET DOMAIN CriterionClaims, NEW budget
  PROVE  LET all == SynthesisEvidence(consult.assessments, <<>>, criteria,
                      consult.findings,
                      Cardinality(RiskClaim) + Cardinality(criteria) + Len(consult.findings))
             supplied == FittingTo(FirstN(ByPriority(all), ItemLimit), budget)
             sent == {supplied[i] : i \in DOMAIN supplied}
         IN
           /\ supplied \in Seq(Reference)
           /\ Cardinality(consult.assessments) <= ItemLimit =>
                consult.assessments \subseteq {ref.of : ref \in sent}
           /\ \A a \in ToSet(consult.findings) \ {ref.of : ref \in sent} : \A ref \in sent :
                EvidencePriority(ref) <= EvidencePriority(Ref(FindingKind[a], a))
           /\ \A ref \in sent :
                ref.of \in consult.assessments \cup ToSet(consult.findings) \cup criteria
<1>. DEFINE A == consult.assessments
            F == consult.findings
            n == Cardinality(A)
            limit == Cardinality(RiskClaim) + Cardinality(criteria) + Len(F)
            whole == Whole(A, <<>>, criteria, F)
            all == SynthesisEvidence(A, <<>>, criteria, F, limit)
            sorted == ByPriority(all)
            cut == FirstN(sorted, ItemLimit)
            supplied == FittingTo(cut, budget)
            sent == {supplied[i] : i \in DOMAIN supplied}
<1>1. A \in SUBSET RiskClaim /\ F \in Seq(DOMAIN FindingKind)
  BY DEF ConsultationInv, Consultation
<1>2. <<>> \in Seq(DOMAIN FindingKind) /\ Len(<<>>) = 0 /\ ToSet(<<>>) = {}
  BY DEF ToSet
<1>3. /\ whole \in Seq(Reference) /\ n \in Nat
      /\ Len(whole) = n + 0 + Cardinality(criteria) + Len(F)
      /\ \A i \in DOMAIN whole :
           \/ i <= n /\ \E a \in A : whole[i] = Ref(GovernedKind, a)
           \/ \E c \in criteria : whole[i] = Ref(CriterionKind, c)
           \/ \E f \in ToSet(F) : whole[i] = Ref(FindingKind[f], f)
      /\ \A a \in A : \E i \in DOMAIN whole : whole[i] = Ref(GovernedKind, a)
      /\ \A f \in ToSet(F) : \E i \in DOMAIN whole : whole[i] = Ref(FindingKind[f], f)
  <2>. HIDE DEF A, F
  <2>. QED
    BY <1>1, WholeAloneIs
<1>4. limit \in Nat /\ Len(whole) <= limit
  <2>1. /\ Cardinality(RiskClaim) \in Nat /\ n <= Cardinality(RiskClaim)
        /\ IsFiniteSet(criteria)
    <3>. HIDE DEF A
    <3>. QED
      BY <1>1, ConsultationConstants, FS_Subset, FS_CardinalityType
  <2>2. Cardinality(criteria) \in Nat /\ Len(F) \in Nat
    BY <1>1, <2>1, FS_CardinalityType
  <2>. QED
    BY <1>3, <2>1, <2>2
<1>5. all = FirstN(whole, limit)
  BY DEF SynthesisEvidence, Whole, GovernedKind, ConfiguredKind, CriterionKind
<1>6. all = whole
  <2>. HIDE DEF whole, limit, all
  <2>1. all = [i \in 1..Len(whole) |-> whole[i]]
    BY <1>3, <1>4, <1>5 DEF FirstN
  <2>. QED
    BY <1>3, <2>1
<1>. HIDE DEF A, F, n, limit, whole, all, sorted, cut, supplied
<1>7. /\ sorted \in Seq(Reference) /\ ToSet(sorted) = ToSet(whole)
      /\ \A k, l \in DOMAIN sorted :
           k < l => EvidencePriority(sorted[k]) <= EvidencePriority(sorted[l])
      /\ \A k \in DOMAIN sorted : EvidencePriority(sorted[k]) = 0 => k <= n
  <2>1. \A f \in ToSet(F) : EvidencePriority(Ref(FindingKind[f], f)) # 0
    <3>1. \A f \in ToSet(F) : f \in DOMAIN FindingKind
      BY <1>1, ListedIs
    <3>. QED
      BY <3>1, PriorityIs
  <2>2. \A i \in DOMAIN whole : EvidencePriority(whole[i]) = 0 => i <= n
    BY <1>3, <2>1, PriorityIs
  <2>3. sorted = ByPriority(whole)
    BY <1>6 DEF sorted
  <2>. QED
    BY <1>3, <2>2, <2>3, ByPriorityIs
<1>8. ItemLimit \in Nat
  BY ConsultationConstants
<1>9. /\ cut \in Seq(Reference) /\ ToSet(cut) \subseteq ToSet(sorted)
      /\ Len(cut) = (IF ItemLimit < Len(sorted) THEN ItemLimit ELSE Len(sorted))
      /\ \A i \in 1..Len(cut) : cut[i] = sorted[i]
  BY <1>7, <1>8, FirstNIs DEF cut
<1>10. /\ supplied \in Seq(Reference) /\ ToSet(supplied) \subseteq ToSet(cut)
       /\ \A x \in ToSet(cut) : EvidencePriority(x) = 0 => x \in ToSet(supplied)
       /\ \A x \in ToSet(cut) \ ToSet(supplied) :
            \A y \in ToSet(supplied) : EvidencePriority(y) <= EvidencePriority(x)
  <2>1. PICK m \in Nat : supplied = Trimmed(cut, m)
    BY <1>9, FittingIs DEF supplied
  <2>. QED
    BY <1>9, <2>1, TrimmedIs
<1>11. sent = ToSet(supplied)
  BY DEF ToSet
<1>. HIDE DEF sent
<1>12. /\ \A k \in 1..Len(sorted) : k <= ItemLimit => sorted[k] \in ToSet(cut)
       /\ \A x \in ToSet(cut) : \E k \in 1..Len(sorted) : x = sorted[k] /\ k <= ItemLimit
       /\ DOMAIN sorted = 1..Len(sorted) /\ Len(sorted) \in Nat
       /\ \A x \in ToSet(whole) : \E k \in 1..Len(sorted) : x = sorted[k]
  <2>1. /\ DOMAIN sorted = 1..Len(sorted) /\ Len(sorted) \in Nat
        /\ \A x \in ToSet(whole) : \E k \in 1..Len(sorted) : x = sorted[k]
    BY <1>7, ListedIs
  <2>2. /\ Len(cut) \in Nat /\ \A k \in 1..Len(cut) : cut[k] \in ToSet(cut)
        /\ \A x \in ToSet(cut) : \E k \in 1..Len(cut) : cut[k] = x
    BY <1>9, ListedIs
  <2>3. \A k \in 1..Len(cut) : k \in 1..Len(sorted) /\ k <= ItemLimit
    BY <1>8, <1>9, <2>1, <2>2
  <2>4. \A k \in 1..Len(sorted) : k <= ItemLimit => k \in 1..Len(cut)
    BY <1>8, <1>9, <2>1, <2>2
  <2>. QED
    BY <1>9, <2>1, <2>2, <2>3, <2>4
<1>13. ASSUME n <= ItemLimit, NEW a \in A PROVE \E ref \in sent : ref.of = a
  <2>1. PICK i \in DOMAIN whole : whole[i] = Ref(GovernedKind, a)
    BY <1>3
  <2>. DEFINE x == Ref(GovernedKind, a)
  <2>2. x \in ToSet(whole) /\ EvidencePriority(x) = 0 /\ x.of = a
    BY <2>1, PriorityIs DEF ToSet, Ref
  <2>. HIDE DEF x
  <2>3. PICK k \in 1..Len(sorted) : x = sorted[k]
    BY <1>12, <2>2
  <2>4. k <= n
    BY <1>7, <1>12, <2>2, <2>3
  <2>5. k <= ItemLimit
    BY <1>3, <1>8, <1>13, <2>4
  <2>6. x \in ToSet(supplied)
    BY <1>10, <1>12, <2>2, <2>3, <2>5
  <2>. QED
    BY <1>11, <2>2, <2>6
<1>14. ASSUME NEW a \in ToSet(F), a \notin {ref.of : ref \in sent}, NEW ref \in sent
       PROVE  EvidencePriority(ref) <= EvidencePriority(Ref(FindingKind[a], a))
  <2>. DEFINE x == Ref(FindingKind[a], a)
  <2>1. x \in ToSet(whole) /\ x \notin ToSet(supplied)
    <3>1. x \in ToSet(whole)
      BY <1>3 DEF ToSet
    <3>2. x.of = a
      BY DEF Ref
    <3>. QED
      BY <1>11, <1>14, <3>1, <3>2
  <2>. HIDE DEF x
  <2>2. CASE x \in ToSet(cut)
    BY <1>10, <1>11, <1>14, <2>1, <2>2 DEF x
  <2>3. CASE x \notin ToSet(cut)
    <3>1. PICK k \in 1..Len(sorted) : x = sorted[k]
      BY <1>12, <2>1
    <3>2. PICK l \in 1..Len(sorted) : ref = sorted[l] /\ l <= ItemLimit
      BY <1>10, <1>11, <1>12, <1>14
    <3>3. l < k
      BY <1>8, <1>12, <2>3, <3>1, <3>2
    <3>. QED
      BY <1>7, <1>12, <3>1, <3>2, <3>3 DEF x
  <2>. QED
    BY <2>2, <2>3
<1>15. ASSUME NEW ref \in sent
       PROVE  ref.of \in A \cup ToSet(F) \cup criteria
  <2>1. ref \in ToSet(whole)
    BY <1>7, <1>9, <1>10, <1>11
  <2>2. PICK i \in DOMAIN whole : ref = whole[i]
    BY <2>1 DEF ToSet
  <2>. QED
    BY <1>3, <2>2 DEF Ref
<1>16. n <= ItemLimit => A \subseteq {ref.of : ref \in sent}
  BY <1>13
<1>. QED
  BY <1>10, <1>14, <1>15, <1>16 DEF sent, supplied, cut, sorted, all, limit, n, A, F

\* What a call with capabilities has been given.
SuppliedInv ==
  /\ Cardinality(consult.assessments) <= ItemLimit =>
       consult.assessments \subseteq {ref.of : ref \in Sent}
  /\ \A a \in ToSet(consult.findings) \ {ref.of : ref \in Sent} :
       \A ref \in Sent :
         EvidencePriority(ref) <= EvidencePriority(Ref(FindingKind[a], a))
  /\ consult.web => \A a \in {ref.of : ref \in Sent} \cap DOMAIN FindingKind :
                      Term[a].scope # "institutional_format"

LEMMA SendWithCapabilitiesStep ==
  ASSUME ConsultationInv, NEW criteria \in SUBSET DOMAIN CriterionClaims,
         NEW budget, NEW webCapable \in BOOLEAN,
         SendWithCapabilities(criteria, budget, webCapable)
  PROVE  /\ ConsultationInv'
         /\ \/ /\ consult'.pc = "asked" /\ consult'.mode = "capable" /\ SuppliedInv'
            \/ /\ consult'.pc = "failed" /\ consult'.mode = "none"
               /\ outcome'.level = Governed /\ Governed' = Governed
<1>. DEFINE A == consult.assessments
            F == consult.findings
            limit == Cardinality(RiskClaim) + Cardinality(criteria) + Len(F)
            supplied == FittingTo(FirstN(ByPriority(SynthesisEvidence(A, <<>>, criteria, F, limit)),
                                         ItemLimit), budget)
            sent == {supplied[i] : i \in DOMAIN supplied}
            fits == Fits(supplied, FrameworkSize, budget) \/ Fits(supplied, 0, budget)
<1>1. /\ supplied \in Seq(Reference)
      /\ Cardinality(A) <= ItemLimit => A \subseteq {ref.of : ref \in sent}
      /\ \A a \in ToSet(F) \ {ref.of : ref \in sent} : \A ref \in sent :
           EvidencePriority(ref) <= EvidencePriority(Ref(FindingKind[a], a))
      /\ \A ref \in sent : ref.of \in A \cup ToSet(F) \cup criteria
  BY SuppliedIs
<1>2. /\ consult.pc = "gathered" /\ consult.mode = "none" /\ consult \in Consultation
      /\ OneScope(consult.findings)
  BY DEF SendWithCapabilities, ConsultationInv
<1>3. CASE ~fits
  <2>1. Conclude("failed", Outcome(Governed, FALSE, FALSE))
    BY <1>3 DEF SendWithCapabilities
  <2>2. /\ ConsultationInv' /\ consult'.pc = "failed" /\ consult'.mode = "none"
        /\ outcome' = Outcome(Governed, FALSE, FALSE)
        /\ consult'.assessments = consult.assessments
    BY <1>2, <2>1, ConcludeIs
  <2>. QED
    BY <2>2 DEF Outcome, Governed
<1>4. CASE fits
  <2>. DEFINE web == webCapable /\ ~InstitutionScoped(criteria)
  <2>1. consult' = [consult EXCEPT !.pc = "asked", !.mode = "capable",
                                   !.sent = supplied, !.web = web]
    BY <1>4 DEF SendWithCapabilities
  <2>2. web => \A a \in A \cup ToSet(F) : Term[a].scope # "institutional_format"
    BY DEF InstitutionScoped
  <2>3. web \in BOOLEAN
    OBVIOUS
  <2>4. criteria \cap DOMAIN FindingKind = {}
    BY ConsultationConstants
  <2>. HIDE DEF supplied, web
  <2>5. /\ consult'.pc = "asked" /\ consult'.mode = "capable" /\ consult'.sent = supplied
        /\ consult'.web = web /\ consult'.assessments = A /\ consult'.findings = F
        /\ consult' \in Consultation
    BY <1>1, <1>2, <2>1, <2>3 DEF Consultation
  <2>6. Sent' = sent
    BY <2>5 DEF Sent
  <2>7. ConsultationInv'
    BY <1>2, <2>5 DEF ConsultationInv
  <2>. HIDE DEF sent
  <2>8. SuppliedInv'
    BY <1>1, <2>2, <2>4, <2>5, <2>6 DEF SuppliedInv
  <2>. QED
    BY <2>5, <2>7, <2>8
<1>. QED
  BY <1>3, <1>4

LEMMA AnswerStep ==
  ASSUME ConsultationInv,
         \/ SkipAI \/ CallFails
         \/ \E answers, proposal : AnswerBounded(answers, proposal)
         \/ \E level : AnswerWithCapabilities(level)
  PROVE  /\ ConsultationInv'
         /\ consult'.assessments = consult.assessments
         /\ consult'.findings = consult.findings
         /\ consult'.mode = consult.mode /\ consult'.sent = consult.sent
         /\ consult'.web = consult.web
<1>1. CASE SkipAI
  <2>1. /\ Conclude("skipped", Outcome(Headline(ThePolicy, Effective), FALSE, FALSE))
        /\ consult.mode = "none"
    BY <1>1 DEF SkipAI, ConsultationInv
  <2>. QED
    BY <2>1, ConcludeIs
<1>2. CASE CallFails
  <2>1. Conclude("failed", Outcome(Governed, FALSE, TRUE))
    BY <1>2 DEF CallFails
  <2>. QED
    BY <2>1, ConcludeIs
<1>3. ASSUME NEW answers, NEW proposal, AnswerBounded(answers, proposal)
      PROVE  consult.mode # "none" /\ \E said : Conclude("answered", said)
  BY <1>3 DEF AnswerBounded
<1>4. ASSUME NEW level, AnswerWithCapabilities(level)
      PROVE  consult.mode # "none" /\ \E said : Conclude("answered", said)
  BY <1>4 DEF AnswerWithCapabilities
<1>5. CASE consult.mode # "none" /\ \E said : Conclude("answered", said)
  <2>1. PICK said : Conclude("answered", said)
    BY <1>5
  <2>. QED
    BY <1>5, <2>1, ConcludeIs
<1>. QED
  BY <1>1, <1>2, <1>3, <1>4, <1>5

LEMMA ConsultationStep ==
  ASSUME ConsultationInv, [AISynthesisNext]_aiSynthesisVars
  PROVE  ConsultationInv'
<1>1. CASE UNCHANGED aiSynthesisVars
  BY <1>1 DEF aiSynthesisVars, ConsultationInv
<1>2. ASSUME NEW rows \in SUBSET SourceRow, GatherFindings(rows)
      PROVE  ConsultationInv'
  BY <1>2, GatherFindingsStep
<1>3. ASSUME NEW criteria \in SUBSET DOMAIN CriterionClaims, SendBounded(criteria)
      PROVE  ConsultationInv'
  BY <1>3, SendBoundedStep
<1>4. ASSUME NEW criteria \in SUBSET DOMAIN CriterionClaims,
             NEW budget \in Budgets, NEW webCapable \in BOOLEAN,
             SendWithCapabilities(criteria, budget, webCapable)
      PROVE  ConsultationInv'
  BY <1>4, SendWithCapabilitiesStep
<1>5. CASE \/ SkipAI \/ CallFails
           \/ \E answers, proposal : AnswerBounded(answers, proposal)
           \/ \E level : AnswerWithCapabilities(level)
  BY <1>5, AnswerStep
<1>. QED
  BY <1>1, <1>2, <1>3, <1>4, <1>5 DEF AISynthesisNext

-----------------------------------------------------------------------------
(* The bounded way: the policy binds.                                      *)

\* What is asked in the bounded way is only what the policy does not map, and
\* only if there is any such thing, or nothing to conclude without it.
AskedInv ==
  consult.pc = "asked" /\ consult.mode = "bounded" =>
    /\ \A a \in Interpretable : a \in Natives /\ ~IsMapped(a)
    /\ \/ Headline(ThePolicy, Effective) = Absent
       \/ \E a \in Natives : ~IsMapped(a)

LEMMA SameEvidence ==
  ASSUME consult'.assessments = consult.assessments, consult'.findings = consult.findings
  PROVE  /\ Natives' = Natives /\ Stated' = Stated /\ OpenTiers' = OpenTiers
         /\ Effective' = Effective
<1>1. Natives' = Natives
  BY DEF Natives
<1>. QED
  BY <1>1 DEF Stated, OpenTiers, Effective

\* With rows in the tiers left open, the headline still reflects what is stated.
LEMMA HeadlineBinds ==
  ASSUME ConsultationInv, NEW added,
         \A r \in added : r.level \in Level /\ r.tier \in OpenTiers
  PROVE  LET headline == HeadlineWith(ThePolicy, Effective, added) IN
           /\ \A a \in Stated :
                /\ \A b \in Stated : ShippedScope(a) <= ShippedScope(b)
                /\ \A tier \in OpenTiers : ShippedScope(a) <= tier
                => headline # Absent /\ Concern[headline] >= Concern[ShippedLevel(a)]
           /\ added = {} => headline \in {ShippedLevel(a) : a \in Stated} \cup {Absent}
           /\ headline = Absent => Stated = {}
<1>. DEFINE mapped == Mapped(ShippedText, Effective)
            rows == {Normalized(ShippedText, a) : a \in mapped} \cup added
            headline == HeadlineWith(ShippedText, Effective, added)
<1>1. \A a : /\ Normalized(ShippedText, a).level = ShippedLevel(a)
             /\ Normalized(ShippedText, a).tier = ShippedScope(a)
  BY DEF Normalized, ShippedLevel, ShippedScope
<1>2. /\ mapped \subseteq Stated
      /\ \A a \in Stated : \E b \in mapped :
           ShippedLevel(b) = ShippedLevel(a) /\ ShippedScope(b) = ShippedScope(a)
  BY EffectiveIs
<1>3. \A r \in added : r.level \in Level /\ r.tier \in 1..(Len(ShippedText.scopes) + 1)
  BY TierIs DEF OpenTiers, ThePolicy, ShippedText
<1>4. /\ rows = {} => headline = Absent
      /\ rows # {} =>
           /\ headline \in Level /\ headline # Absent
           /\ \E r \in rows : headline = r.level
           /\ \A r \in rows :
                (\A q \in rows : r.tier <= q.tier) => Concern[headline] >= Concern[r.level]
  BY <1>3, HeadlineWithIs
<1>5. headline = HeadlineWith(ThePolicy, Effective, added)
  BY DEF ThePolicy, ShippedText
<1>. HIDE DEF headline
<1>6. ASSUME NEW a \in Stated,
             \A b \in Stated : ShippedScope(a) <= ShippedScope(b),
             \A tier \in OpenTiers : ShippedScope(a) <= tier
      PROVE  headline # Absent /\ Concern[headline] >= Concern[ShippedLevel(a)]
  <2>1. PICK b \in mapped :
          ShippedLevel(b) = ShippedLevel(a) /\ ShippedScope(b) = ShippedScope(a)
    BY <1>2
  <2>. DEFINE r == Normalized(ShippedText, b)
  <2>2. r \in rows /\ r.level = ShippedLevel(a) /\ r.tier = ShippedScope(a)
    BY <1>1, <2>1
  <2>3. ASSUME NEW q \in rows PROVE ShippedScope(a) <= q.tier
    <3>1. CASE q \in added
      BY <1>6, <3>1
    <3>2. CASE \E c \in mapped : q = Normalized(ShippedText, c)
      <4>1. PICK c \in mapped : q = Normalized(ShippedText, c)
        BY <3>2
      <4>. QED
        BY <1>1, <1>2, <1>6, <4>1
    <3>. QED
      BY <3>1, <3>2
  <2>. HIDE DEF rows, r
  <2>. QED
    BY <1>4, <2>2, <2>3
<1>7. ASSUME added = {} PROVE headline \in {ShippedLevel(a) : a \in Stated} \cup {Absent}
  <2>1. CASE rows = {}
    BY <1>4, <2>1
  <2>2. CASE rows # {}
    <3>1. PICK r \in rows : headline = r.level
      BY <1>4, <2>2
    <3>2. PICK a \in mapped : r = Normalized(ShippedText, a)
      BY <1>7
    <3>. QED
      BY <1>1, <1>2, <3>1, <3>2
  <2>. QED
    BY <2>1, <2>2
<1>8. headline = Absent => Stated = {}
  <2>1. headline = Absent => rows = {}
    BY <1>4
  <2>2. rows = {} => mapped = {}
    OBVIOUS
  <2>. QED
    BY <1>2, <2>1, <2>2
<1>. QED
  BY <1>5, <1>6, <1>7, <1>8

\* Where a headline is concluded without rows of an AI.
LEMMA SkippedBinds ==
  ASSUME ConsultationInv, ConsultationInv', consult'.pc = "skipped",
         consult'.assessments = consult.assessments,
         consult'.findings = consult.findings,
         outcome' = Outcome(Headline(ThePolicy, Effective), FALSE, FALSE)
  PROVE  ConfiguredRiskIsBinding'
<1>. DEFINE headline == Headline(ThePolicy, Effective)
<1>1. /\ \A a \in Stated :
           /\ \A b \in Stated : ShippedScope(a) <= ShippedScope(b)
           /\ \A tier \in OpenTiers : ShippedScope(a) <= tier
           => headline # Absent /\ Concern[headline] >= Concern[ShippedLevel(a)]
      /\ headline \in {ShippedLevel(a) : a \in Stated} \cup {Absent}
  BY HeadlineBinds DEF Headline
<1>2. /\ outcome'.level = headline /\ ~outcome'.assisted /\ ~outcome'.consulted
  BY DEF Outcome
<1>3. Stated' = Stated /\ OpenTiers' = OpenTiers
  BY SameEvidence
<1>. HIDE DEF headline
<1>. QED
  BY <1>1, <1>2, <1>3 DEF ConfiguredRiskIsBinding

LEMMA AnswerBoundedBinds ==
  ASSUME ConsultationInv, AskedInv,
         NEW n \in Nat, NEW answers \in [1 .. n -> Interpretation], NEW proposal,
         AnswerBounded(answers, proposal)
  PROVE  ConfiguredRiskIsBinding'
<1>. DEFINE added == AddedRows(answers)
            headline == HeadlineWith(ThePolicy, Effective, added)
<1>1. /\ consult.pc = "asked" /\ consult.mode = "bounded"
      /\ \A k \in DOMAIN answers : answers[k].of \in Interpretable
      /\ IF headline # Absent
           THEN Conclude("answered", Outcome(headline, answers # <<>>, TRUE))
           ELSE Conclude("answered", Outcome(proposal, TRUE, TRUE))
  BY DEF AnswerBounded
<1>2. ASSUME NEW r \in added PROVE r.level \in Level /\ r.tier \in OpenTiers
  <2>1. PICK k \in DOMAIN answers :
          /\ r.level = answers[k].level
          /\ r.tier = ScopeTier(ThePolicy, IF Term[answers[k].of].scope = Absent
                                             THEN "contextual"
                                             ELSE Term[answers[k].of].scope)
    BY DEF AddedRows
  <2>2. answers[k].of \in Natives /\ ~IsMapped(answers[k].of)
    BY <1>1 DEF AskedInv
  <2>3. answers[k].level \in Level
    BY ConsultationConstants DEF Interpretation
  <2>. QED
    BY <2>1, <2>2, <2>3 DEF OpenTiers
<1>. HIDE DEF added, headline
<1>3. /\ \A a \in Stated :
           /\ \A b \in Stated : ShippedScope(a) <= ShippedScope(b)
           /\ \A tier \in OpenTiers : ShippedScope(a) <= tier
           => headline # Absent /\ Concern[headline] >= Concern[ShippedLevel(a)]
      /\ added = {} => headline \in {ShippedLevel(a) : a \in Stated} \cup {Absent}
      /\ headline = Absent => Stated = {}
  BY <1>2, HeadlineBinds DEF headline
<1>4. PICK said \in {Outcome(headline, answers # <<>>, TRUE), Outcome(proposal, TRUE, TRUE)} :
        /\ Conclude("answered", said)
        /\ \/ headline # Absent /\ said = Outcome(headline, answers # <<>>, TRUE)
           \/ headline = Absent /\ said = Outcome(proposal, TRUE, TRUE)
  BY <1>1
<1>5. /\ outcome' = said
      /\ consult'.assessments = consult.assessments
      /\ consult'.findings = consult.findings
  BY <1>1, <1>4, ConcludeIs
<1>6. Stated' = Stated /\ OpenTiers' = OpenTiers
  BY <1>5, SameEvidence
<1>7. ~outcome'.assisted => answers = <<>> /\ outcome'.level = headline
  <2>. DEFINE interpreted == answers # <<>>
  <2>1. \/ said = Outcome(headline, interpreted, TRUE)
        \/ said = Outcome(proposal, TRUE, TRUE)
    BY <1>4
  <2>2. interpreted \in BOOLEAN /\ (~interpreted => answers = <<>>)
    OBVIOUS
  <2>. HIDE DEF interpreted
  <2>3. CASE said = Outcome(headline, interpreted, TRUE)
    BY <1>5, <2>2, <2>3 DEF Outcome
  <2>4. CASE said = Outcome(proposal, TRUE, TRUE)
    BY <1>5, <2>4 DEF Outcome
  <2>. QED
    BY <2>1, <2>3, <2>4
<1>8. answers = <<>> => added = {}
  BY DEF added, AddedRows
<1>9. headline # Absent => outcome'.level = headline
  BY <1>4, <1>5 DEF Outcome
<1>10. Stated # {} /\ OpenTiers = {} => FALSE
  <2>1. OpenTiers = {} => ~ \E a \in Natives : ~IsMapped(a)
    BY DEF OpenTiers
  <2>2. Headline(ThePolicy, Effective) = Absent => Stated = {}
    BY HeadlineBinds DEF Headline
  <2>. QED
    BY <1>1, <2>1, <2>2 DEF AskedInv
<1>11. \A a \in Stated :
         /\ \A b \in Stated : ShippedScope(a) <= ShippedScope(b)
         /\ \A tier \in OpenTiers : ShippedScope(a) <= tier
         => outcome'.level # Absent /\ Concern[outcome'.level] >= Concern[ShippedLevel(a)]
  BY <1>3, <1>9
<1>12. ~outcome'.assisted =>
         outcome'.level \in {ShippedLevel(a) : a \in Stated} \cup {Absent}
  BY <1>3, <1>7, <1>8
<1>. QED
  BY <1>6, <1>10, <1>11, <1>12 DEF ConfiguredRiskIsBinding

LEMMA BindingStep ==
  ASSUME ConsultationInv, ConfiguredRiskIsBinding, AskedInv,
         [AISynthesisNext]_aiSynthesisVars
  PROVE  ConfiguredRiskIsBinding' /\ AskedInv'
<1>. USE ConsultationStep
<1>1. CASE UNCHANGED aiSynthesisVars
  <2>1. consult' = consult /\ outcome' = outcome
    BY <1>1 DEF aiSynthesisVars
  <2>2. Stated' = Stated /\ OpenTiers' = OpenTiers /\ Effective' = Effective /\ Natives' = Natives
    BY <2>1, SameEvidence
  <2>3. Interpretable' = Interpretable
    BY <2>1 DEF Interpretable
  <2>. QED
    BY <2>1, <2>2, <2>3 DEF ConfiguredRiskIsBinding, AskedInv
<1>2. ASSUME consult'.pc \notin {"skipped", "answered", "asked"} \/ consult'.mode = "capable"
      PROVE  ConfiguredRiskIsBinding' /\ AskedInv'
  BY <1>2 DEF ConfiguredRiskIsBinding, AskedInv
<1>3. ASSUME NEW rows \in SUBSET SourceRow, GatherFindings(rows)
      PROVE  consult'.pc = "gathered"
  BY <1>3, GatherFindingsStep
<1>4. ASSUME NEW criteria \in SUBSET DOMAIN CriterionClaims, SendBounded(criteria)
      PROVE  ConfiguredRiskIsBinding' /\ AskedInv'
  <2>1. /\ consult'.assessments = consult.assessments
        /\ consult'.findings = consult.findings
        /\ \/ /\ consult'.pc = "skipped" /\ consult'.mode = "none"
              /\ outcome' = Outcome(Headline(ThePolicy, Effective), FALSE, FALSE)
           \/ /\ consult'.pc = "asked" /\ consult'.mode = "bounded"
              /\ \A i \in DOMAIN consult'.sent : consult'.sent[i].kind = NativeRisk =>
                   consult'.sent[i].of \in Natives /\ ~IsMapped(consult'.sent[i].of)
              /\ \/ Headline(ThePolicy, Effective) = Absent
                 \/ \E a \in Natives : ~IsMapped(a)
    BY <1>4, SendBoundedStep
  <2>2. CASE consult'.pc = "skipped"
    <3>1. outcome' = Outcome(Headline(ThePolicy, Effective), FALSE, FALSE)
      BY <2>1, <2>2
    <3>2. ConfiguredRiskIsBinding'
      BY <2>1, <2>2, <3>1, SkippedBinds
    <3>3. AskedInv'
      BY <2>2 DEF AskedInv
    <3>. QED
      BY <3>2, <3>3
  <2>3. CASE consult'.pc = "asked"
    <3>1. Effective' = Effective /\ Natives' = Natives
      BY <2>1, SameEvidence
    <3>2. \A a \in Interpretable' : a \in Natives /\ ~IsMapped(a)
      BY <2>1, <2>3 DEF Interpretable
    <3>. QED
      BY <2>1, <2>3, <3>1, <3>2 DEF ConfiguredRiskIsBinding, AskedInv
  <2>. QED
    BY <2>1, <2>2, <2>3
<1>5. ASSUME NEW criteria \in SUBSET DOMAIN CriterionClaims,
             NEW budget \in Budgets, NEW webCapable \in BOOLEAN,
             SendWithCapabilities(criteria, budget, webCapable)
      PROVE  consult'.mode = "capable" \/ consult'.pc = "failed"
  BY <1>5, SendWithCapabilitiesStep
<1>6. CASE SkipAI
  <2>1. Conclude("skipped", Outcome(Headline(ThePolicy, Effective), FALSE, FALSE))
    BY <1>6 DEF SkipAI
  <2>2. /\ consult'.pc = "skipped"
        /\ outcome' = Outcome(Headline(ThePolicy, Effective), FALSE, FALSE)
        /\ consult'.assessments = consult.assessments
        /\ consult'.findings = consult.findings
    <3>1. consult.mode = "none"
      BY <1>6 DEF SkipAI, ConsultationInv
    <3>. QED
      BY <2>1, <3>1, ConcludeIs
  <2>. QED
    BY <2>2, SkippedBinds DEF AskedInv
<1>7. ASSUME NEW n \in 0 .. MaxAnswers, NEW answers \in [1 .. n -> Interpretation],
             NEW proposal, AnswerBounded(answers, proposal)
      PROVE  ConfiguredRiskIsBinding' /\ AskedInv'
  <2>1. n \in Nat
    OBVIOUS
  <2>2. ConfiguredRiskIsBinding'
    BY <1>7, <2>1, AnswerBoundedBinds
  <2>3. consult'.pc = "answered"
    BY <1>7 DEF AnswerBounded, Conclude, ConsultationInv, Consultation
  <2>. QED
    BY <2>2, <2>3 DEF AskedInv
<1>8. ASSUME NEW level, AnswerWithCapabilities(level)
      PROVE  consult'.mode = "capable"
  BY <1>8, AnswerStep DEF AnswerWithCapabilities
<1>9. ASSUME CallFails PROVE consult'.pc = "failed"
  BY <1>9 DEF CallFails, Conclude, ConsultationInv, Consultation
<1>10. ASSUME NEW answers \in UNION {[1 .. n -> Interpretation] : n \in 0 .. MaxAnswers},
              NEW proposal, AnswerBounded(answers, proposal)
       PROVE  ConfiguredRiskIsBinding' /\ AskedInv'
  <2>1. PICK n \in 0 .. MaxAnswers : answers \in [1 .. n -> Interpretation]
    OBVIOUS
  <2>. QED
    BY <1>7, <1>10, <2>1
<1>. QED
  BY <1>1, <1>2, <1>3, <1>4, <1>5, <1>6, <1>8, <1>9, <1>10 DEF AISynthesisNext

\* However the findings repeat, contradict or escape the policy, and whatever
\* the AI answers, what the claims and the configured findings state binds the
\* overall level; and with nothing open no AI is asked.
THEOREM ConfiguredRisksBind == AISynthesisSpec => []ConfiguredRiskIsBinding
<1>. DEFINE Inv == ConsultationInv /\ ConfiguredRiskIsBinding /\ AskedInv
<1>1. AISynthesisInit => Inv
  <2>1. AISynthesisInit => consult.pc = "start"
    BY DEF AISynthesisInit, ConsultationStart
  <2>. QED
    BY <2>1, ConsultationInitInv DEF ConfiguredRiskIsBinding, AskedInv
<1>2. Inv /\ [AISynthesisNext]_aiSynthesisVars => Inv'
  BY ConsultationStep, BindingStep
<1>. QED
  BY <1>1, <1>2, PTL DEF AISynthesisSpec

-----------------------------------------------------------------------------
(* With capabilities: the governed risk is supplied.                       *)

LEMMA SupplyStep ==
  ASSUME ConsultationInv, GovernedRiskIsSupplied, [AISynthesisNext]_aiSynthesisVars
  PROVE  GovernedRiskIsSupplied'
<1>1. GovernedRiskIsSupplied
        <=> /\ consult.mode = "capable" => SuppliedInv
            /\ consult.pc = "failed" => outcome.level = Governed
  BY DEF GovernedRiskIsSupplied, SuppliedInv
<1>2. GovernedRiskIsSupplied'
        <=> /\ consult'.mode = "capable" => SuppliedInv'
            /\ consult'.pc = "failed" => outcome'.level = Governed'
  BY DEF GovernedRiskIsSupplied, SuppliedInv
<1>3. ASSUME consult'.assessments = consult.assessments,
             consult'.findings = consult.findings,
             consult'.mode = consult.mode, consult'.sent = consult.sent,
             consult'.web = consult.web
      PROVE  /\ Governed' = Governed
             /\ consult'.mode = "capable" => SuppliedInv'
  <2>1. Sent' = Sent
    BY <1>3 DEF Sent
  <2>2. SuppliedInv => SuppliedInv'
    BY <1>3, <2>1 DEF SuppliedInv
  <2>3. Governed' = Governed
    BY <1>3 DEF Governed
  <2>. QED
    BY <1>1, <1>3, <2>2, <2>3
<1>4. CASE UNCHANGED aiSynthesisVars
  <2>1. consult' = consult /\ outcome' = outcome
    BY <1>4 DEF aiSynthesisVars
  <2>. QED
    BY <1>1, <1>2, <1>3, <2>1
<1>5. ASSUME NEW rows \in SUBSET SourceRow, GatherFindings(rows)
      PROVE  GovernedRiskIsSupplied'
  BY <1>2, <1>5, GatherFindingsStep
<1>6. ASSUME NEW criteria \in SUBSET DOMAIN CriterionClaims, SendBounded(criteria)
      PROVE  GovernedRiskIsSupplied'
  <2>1. \/ consult'.pc = "skipped" /\ consult'.mode = "none"
        \/ consult'.pc = "asked" /\ consult'.mode = "bounded"
    BY <1>6, SendBoundedStep
  <2>. QED
    BY <1>2, <2>1
<1>7. ASSUME NEW criteria \in SUBSET DOMAIN CriterionClaims,
             NEW budget \in Budgets, NEW webCapable \in BOOLEAN,
             SendWithCapabilities(criteria, budget, webCapable)
      PROVE  GovernedRiskIsSupplied'
  <2>1. \/ consult'.pc = "asked" /\ consult'.mode = "capable" /\ SuppliedInv'
        \/ /\ consult'.pc = "failed" /\ consult'.mode = "none"
           /\ outcome'.level = Governed /\ Governed' = Governed
    BY <1>7, SendWithCapabilitiesStep
  <2>. QED
    BY <1>2, <2>1
<1>8. CASE SkipAI \/ \E answers, proposal : AnswerBounded(answers, proposal)
           \/ \E level : AnswerWithCapabilities(level)
  <2>1. consult'.pc # "failed"
    <3>1. \E said : Conclude("skipped", said) \/ Conclude("answered", said)
      BY <1>8 DEF SkipAI, AnswerBounded, AnswerWithCapabilities
    <3>. QED
      BY <3>1 DEF Conclude, ConsultationInv, Consultation
  <2>. QED
    BY <1>2, <1>3, <1>8, <2>1, AnswerStep
<1>9. CASE CallFails
  <2>1. outcome'.level = Governed
    BY <1>9 DEF CallFails, Conclude, Outcome
  <2>. QED
    BY <1>2, <1>3, <1>9, <2>1, AnswerStep
<1>. QED
  BY <1>4, <1>5, <1>6, <1>7, <1>8, <1>9 DEF AISynthesisNext

\* Whatever the budget and the limits, the governed assessments are supplied as
\* long as they alone do not exceed the limit; nothing is left out for what is
\* less important; nothing of an institution goes out with web tools; and an
\* error leaves the governed level.
THEOREM GovernedRisksSupplied == AISynthesisSpec => []GovernedRiskIsSupplied
<1>1. AISynthesisInit => GovernedRiskIsSupplied
  BY DEF AISynthesisInit, ConsultationStart, GovernedRiskIsSupplied
<1>2. /\ ConsultationInv /\ GovernedRiskIsSupplied
      /\ [AISynthesisNext]_aiSynthesisVars
      => (ConsultationInv /\ GovernedRiskIsSupplied)'
  BY ConsultationStep, SupplyStep
<1>. QED
  BY <1>1, <1>2, ConsultationInitInv, PTL DEF AISynthesisSpec

=============================================================================
