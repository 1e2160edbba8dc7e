---------------------------- MODULE RegistryAudit ----------------------------
(***************************************************************************)
(* The audit of a whole registry: what requests about each of its formats  *)
(* would be answered, where the answers disagree, and what draft mappings  *)
(* could add.                                                              *)
(*                                                                         *)
(* Four passes write one report.  The base pass assesses every format; the *)
(* governance pass counts the claims by scope and recomputes the drafts;   *)
(* the diagnostics pass assesses the formats with a PUID and counts the    *)
(* conflicts once more; the last pass tells disagreement on one evidence   *)
(* field from the combination of several.  Each pass lists the formats and *)
(* queries the claims anew, and the registry builder goes on between any   *)
(* two of these reads.  Deriving and scoring are those of a request.       *)
(***************************************************************************)
EXTENDS RiskAssessment

CONSTANTS
  Registry,        \* sequences of documents the builder may publish
  AuditClaim,      \* the claims that may be current
  AuditFramework,  \* the frameworks an audit may name
  Accepted,        \* claims the accepted mappings make
  Drafted,         \* claims the draft mappings make
  MaxEdit          \* bound: registry changes during an audit

ASSUME AuditConstants == \A f \in AuditFramework : SoundFramework(Rules[f])

VARIABLES
  formats,   \* the current canonical formats, in store order
  onRecord,  \* the claims that are current
  edits,     \* registry changes so far
  audit,     \* the audit that is running, or was last
  report,    \* what its passes have reported: pass -> findings
  kept,      \* history: formats and claims there since the audit began
  seen       \* history: claims current at some time since then

auditVars == <<formats, onRecord, edits, audit, report, kept, seen>>

NoAudit == [pass |-> "none", framework |-> Nil, institution |-> Nil,
            unread |-> <<>>, formats |-> <<>>, claims |-> {}, edits |-> 0]

NoReport == [base |-> Nil, governance |-> Nil, diagnostics |-> Nil,
             conflicts |-> Nil]

AuditStart(published, claims) ==
  /\ formats = published
  /\ onRecord = claims
  /\ edits = 0
  /\ audit = NoAudit
  /\ report = NoReport
  /\ kept = [formats |-> {}, claims |-> {}]
  /\ seen = {}

AuditInit ==
  \E published \in Registry, claims \in SUBSET AuditClaim :
    AuditStart(published, claims)

-----------------------------------------------------------------------------
(* What the passes compute.                                                *)

OwnId(doc) == doc.ids[1]
KnownIds(doc) == {doc.ids[i] : i \in DOMAIN doc.ids}
Framed == Rules[audit.framework]

\* The slip: only the claims under the format's own id.
WrongClaimsFor(doc, claims) == {c \in claims : Data[c].home = OwnId(doc)}

ClaimsFor(doc, claims) == {c \in claims : Data[c].home \in KnownIds(doc)}

AuditEvidence(doc, claims) ==
  Evidence(doc, ClaimsFor(doc, claims), audit.institution)

Analysed(items) ==
  LET answers == Answers(Framed, items) IN
    [answers |-> answers, statuses |-> Statuses(Framed, items),
     status |-> AnalysisStatus(Framed, answers),
     band |-> Band(Framed, answers),
     suppressed |-> BandSuppressed(Framed, answers)]

Assessed(doc, claims) == Analysed(AuditEvidence(doc, claims))

\* Format and question of every conservative answer to a conflict.
Conflicts(docs, claims) ==
  {x \in docs \X Framed.questions :
     DerivationStatus(Framed, x[2], AuditEvidence(x[1], claims))
       = "derived_conflict_conservative"}

\* An alias belongs to the first format that has it.
OwnerOf(listed, alias) ==
  LET having == {i \in DOMAIN listed : alias \in KnownIds(listed[i])} IN
    IF having = {} THEN Nil ELSE listed[Min(having)]

\* Mappings make claims under the own id of a listed format.
Made(listed, claims) ==
  {c \in claims : \E i \in DOMAIN listed : Data[c].home = OwnId(listed[i])}

EvidenceIdentity(c) ==
  <<Data[c].home, Data[c].criterion, Data[c].value, Data[c].source,
    Data[c].record, Data[c].institution>>

\* Draft claims that say what no accepted claim says.
DraftOnly(accepted, drafted) ==
  {c \in drafted :
     \A a \in accepted : EvidenceIdentity(a) # EvidenceIdentity(c)}

\* The gaps a draft claim could fill, by criterion alone.
GapFills(listed, assessed, drafted) ==
  {x \in (DOMAIN assessed) \X Framed.questions :
     /\ Abstains(Framed, assessed[x[1]].answers, x[2])
     /\ \E c \in drafted :
          /\ OwnerOf(listed, Data[c].home) = x[1]
          /\ Matched(Framed, x[2], {c}) # {}}

\* The slip: a claim speaks for the criterion it names only.
WrongFieldAnswers(q, field, items) ==
  {AnswerFrom(Framed, q, field, x) :
     x \in {y \in items : Data[y].criterion = field}} \ {Nil}

FieldAnswers(q, field, items) == AnswersUnder(Framed, q, field, items)

ActiveFields(q, items) ==
  {f \in Framed.fields[q] : FieldAnswers(q, f, items) # {}}

Classification(q, items) ==
  IF \E f \in Framed.fields[q] : Cardinality(FieldAnswers(q, f, items)) > 1
    THEN "same_criterion_evidence_conflict"
  ELSE IF Cardinality(ActiveFields(q, items)) > 1
    THEN "composite_field_aggregation"
    ELSE "unclassified_conflict"

-----------------------------------------------------------------------------
(* The builder, during an audit.                                           *)

Listed(published) == {published[i] : i \in DOMAIN published}

Editing ==
  /\ audit.pass \notin {"none", "done"}
  /\ edits < MaxEdit
  /\ edits' = edits + 1

EditClaims(claims) ==
  /\ Editing
  /\ onRecord' = claims
  /\ kept' = [kept EXCEPT !.claims = @ \cap claims]
  /\ seen' = seen \cup claims
  /\ UNCHANGED <<formats, audit, report>>

PublishFormats(published) ==
  /\ Editing
  /\ published # formats
  /\ formats' = published
  /\ kept' = [kept EXCEPT !.formats = @ \cap Listed(published)]
  /\ UNCHANGED <<onRecord, audit, report, seen>>

-----------------------------------------------------------------------------
(* The audit.                                                              *)

PassReads ==
  [base        |-> <<"formats", "claims">>,
   governance  |-> <<"claims", "formats">>,
   diagnostics |-> <<"formats", "claims">>,
   conflicts   |-> <<"claims", "formats">>,
   done        |-> <<>>]

GoTo(pass) ==
  audit' = [audit EXCEPT !.pass = pass, !.unread = PassReads[pass],
                         !.formats = <<>>, !.claims = {}]

BeginAudit(fw, institution) ==
  /\ audit.pass = "none"
  /\ audit' = [NoAudit EXCEPT !.pass = "base", !.unread = PassReads.base,
                 !.framework = fw, !.institution = institution,
                 !.edits = edits]
  /\ kept' = [formats |-> Listed(formats), claims |-> onRecord]
  /\ seen' = onRecord
  /\ UNCHANGED <<formats, onRecord, edits, report>>

ListFormats ==
  /\ audit.unread # <<>>
  /\ Head(audit.unread) = "formats"
  /\ audit' = [audit EXCEPT !.formats = formats, !.unread = Tail(@)]
  /\ UNCHANGED <<formats, onRecord, edits, report, kept, seen>>

QueryClaims ==
  /\ audit.unread # <<>>
  /\ Head(audit.unread) = "claims"
  /\ audit' = [audit EXCEPT !.claims = onRecord, !.unread = Tail(@)]
  /\ UNCHANGED <<formats, onRecord, edits, report, kept, seen>>

Pass(pass) == audit.pass = pass /\ audit.unread = <<>>
Relevant == {c \in audit.claims : InScope(c, audit.institution)}
InThisScope(claims) == {c \in claims : InScope(c, audit.institution)}

\* Here draft claims of any scope count.
BasePass ==
  /\ Pass("base")
  /\ LET assessed == [d \in Listed(audit.formats) |-> Assessed(d, Relevant)]
         accepted == Made(audit.formats, Accepted)
         drafted  == Made(audit.formats, Drafted)
     IN
       report' = [report EXCEPT !.base =
         [claims    |-> Cardinality(Relevant),
          assessed  |-> assessed,
          conflicts |-> Conflicts(Listed(audit.formats), Relevant),
          fills     |-> GapFills(audit.formats, assessed,
                                 DraftOnly(accepted, drafted))]]
  /\ GoTo("governance")
  /\ UNCHANGED <<formats, onRecord, edits, kept, seen>>

GovernancePass ==
  /\ Pass("governance")
  /\ LET accepted == InThisScope(Made(audit.formats, Accepted))
         drafted  == InThisScope(Made(audit.formats, Drafted))
     IN
       report' = [report EXCEPT !.governance =
         [claims    |-> Cardinality(Relevant),
          total     |-> Cardinality(audit.claims),
          local     |-> Cardinality({c \in audit.claims : Scoped(c)}),
          accepted  |-> Cardinality(accepted),
          projected |-> Cardinality(accepted \cup drafted),
          draftOnly |-> Cardinality(DraftOnly(accepted, drafted))]]
  /\ GoTo("diagnostics")
  /\ UNCHANGED <<formats, onRecord, edits, kept, seen>>

DiagnosticsPass ==
  /\ Pass("diagnostics")
  /\ LET conflicts == Conflicts(Listed(audit.formats), Relevant) IN
       report' = [report EXCEPT !.diagnostics =
         [assessed  |-> [d \in {x \in Listed(audit.formats) : x.puid} |->
                           Assessed(d, Relevant)],
          conflicts |-> conflicts,
          matches   |-> Cardinality(conflicts)
                          = Cardinality(report.base.conflicts)]]
  /\ GoTo("conflicts")
  /\ UNCHANGED <<formats, onRecord, edits, kept, seen>>

ConflictsPass ==
  /\ Pass("conflicts")
  /\ report' = [report EXCEPT !.conflicts =
       [x \in Conflicts(Listed(audit.formats), Relevant) |->
          Classification(x[2], AuditEvidence(x[1], Relevant))]]
  /\ GoTo("done")
  /\ UNCHANGED <<formats, onRecord, edits, kept, seen>>

AuditNext ==
  \/ \E c \in AuditClaim :
       EditClaims(onRecord \cup {c}) \/ EditClaims(onRecord \ {c})
  \/ \E published \in Registry : PublishFormats(published)
  \/ \E fw \in AuditFramework, i \in Institution \cup {Nil} : BeginAudit(fw, i)
  \/ ListFormats \/ QueryClaims
  \/ BasePass \/ GovernancePass \/ DiagnosticsPass \/ ConflictsPass

AuditSpec == AuditInit /\ [][AuditNext]_auditVars

-----------------------------------------------------------------------------
(* Properties.                                                             *)

AuditDone == audit.pass = "done"
Kind(kind) == {x \in DOMAIN report.conflicts : report.conflicts[x] = kind}

(* A disagreement that was there all along is reported by every pass, and  *)
(* as a genuine one: if two usable claims in scope, under any ids of a     *)
(* format that stayed in the registry, give different answers for one      *)
(* evidence field of a question, the base audit and the diagnostics list   *)
(* the conflict and the last pass calls it a conflict of evidence.  And it *)
(* does so only where evidence that was on record at some time disagrees   *)
(* (refine_conflict_semantics: "A genuine evidence conflict exists when    *)
(* the same criterion/evidence field yields more than one controlled       *)
(* answer").                                                               *)

SteadyConflictIsGenuine ==
  AuditDone =>
    LET Disagree(doc, q, items) ==
          \E f \in Framed.fields[q] : \E x, y \in items :
            /\ MatchesField(x, f) /\ MatchesField(y, f)
            /\ Cardinality({AnswerFrom(Framed, q, f, x),
                            AnswerFrom(Framed, q, f, y)} \ {Nil}) = 2
        Under(doc, claims) ==
          {c \in InThisScope(claims) : /\ Data[c].home \in KnownIds(doc)
                                       /\ Usable(c)}
        genuine == Kind("same_criterion_evidence_conflict")
    IN
      /\ \A doc \in kept.formats, q \in Framed.questions :
           Disagree(doc, q, Under(doc, kept.claims)) =>
             <<doc, q>> \in report.base.conflicts
                              \cap report.diagnostics.conflicts \cap genuine
      /\ \A x \in genuine :
           Disagree(x[1], x[2],
                    Under(x[1], seen) \cup x[1].globalEvidence
                      \cup x[1].institutionEvidence \cup {Recognition})

(* An audit of a registry that nobody changed meanwhile is one statement:  *)
(* it counts, for every format, the answers a request about it would get,  *)
(* the passes agree on the claims, on the formats with a PUID and on the   *)
(* conflicts, of which each is either genuine or composite, and after a    *)
(* complete backfill the claims it recomputes are the ones it scored       *)
(* (refine_registry_risk_evidence_audit: the count must be "comparable     *)
(* with the audit summary").                                               *)

QuietAuditAgrees ==
  AuditDone /\ audit.edits = edits =>
    /\ report.governance.claims = report.base.claims
    /\ \A d \in Listed(formats) :
         LET asked == {c \in InThisScope(onRecord) :
                         \E i \in DOMAIN d.ids : Data[c].home = d.ids[i]}
         IN report.base.assessed[d].answers
              = Answers(Framed, Evidence(d, asked, audit.institution))
    /\ \A d \in DOMAIN report.diagnostics.assessed :
         report.diagnostics.assessed[d] = report.base.assessed[d]
    /\ report.diagnostics.matches
    /\ Kind("same_criterion_evidence_conflict")
         \cup Kind("composite_field_aggregation") = report.base.conflicts
    /\ onRecord = Made(formats, Accepted) =>
         report.governance.accepted = report.base.claims

=============================================================================
