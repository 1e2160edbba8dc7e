------------------------- MODULE MCReaderRequests -------------------------
(***************************************************************************)
(* An instance for TLC of the manager's reading side.  Identification, the *)
(* answering of questions, the external risk context, the AI synthesis and *)
(* the registry audit share no state, so a behaviour is that of one of     *)
(* them, chosen at the start.                                              *)
(***************************************************************************)
EXTENDS FormatIdentification, RegistryAudit, AISynthesis, TLC

CONSTANTS identification, questions, riskContext, overallRisk,
          wholeRegistry,                                  \* the parts
          fmt18, fmt19, fmt19new, fdd30, fmt40,           \* documents
          restricted1, open1, draft1, licence1,           \* claims
          licence2, unlicensed2, recorded3,
          again3, local3,
          legacyLoc, legacyLocal, recognition, qnl,
          calibrated, draft, composite,                   \* frameworks
          nara1, nara2, dpc1, other1, qnl1,               \* risk claims
          shipped, majority, mildest,                     \* policies
          naraOld, naraNew, locRow, newRow, strayRow,     \* source records
          was, became, repeated, rated, stray, factor, prose1,  \* their findings
          criterion1, criterion2                          \* criterion claims

VARIABLE part

-----------------------------------------------------------------------------
(* Four texts: a name two documents share, a PUID, a text one of whose     *)
(* variants is that PUID, and prose that is like all of them.  A document  *)
(* of fmt/19 is replaced by one the name and the PUID of which differ.     *)

pdf == "pdf"
puid == "fmt/18"
wrapped == "[fmt 18]"
prose == "scanned report pdf"
Texts == {pdf, puid, wrapped, prose}

Unmatched == [t \in Texts |-> 0]
Unnamed == [t \in Texts |-> FALSE]

A_PDF == [label |-> "pdf", tier |-> Unmatched, score |-> Unmatched,
          named |-> Unnamed, family |-> [Unnamed EXCEPT ![prose] = TRUE],
          kin |-> [pdf |-> 1, word |-> 0], authorityIds |-> {},
          preferred |-> 1, pronom |-> 2]

PDF(id, version, rank, puids, tiers, score) ==
  [A_PDF EXCEPT !.tier = tiers @@ Unmatched, !.score[prose] = score]
  @@ [id |-> id, version |-> version, rank |-> rank, puids |-> puids]

Contents ==
  fmt18 :> [PDF("puid-fmt-18", "1.4", 1, {18}, pdf :> 85 @@ puid :> 95, 90)
              EXCEPT !.named[pdf] = TRUE]
  @@ fmt19 :> [PDF("puid-fmt-19", "1.5", 2, {19}, pdf :> 85, 80)
                 EXCEPT !.kin.pdf = 3, !.authorityIds = {"fdd30"}]
  @@ fmt19new :> PDF("puid-fmt-19", "1.5", 2, {19, 20}, <<>>, 0)
  @@ fdd30 :> [PDF("loc-fdd30", Nothing, 3, {18}, pdf :> 70 @@ puid :> 90, 80)
                 EXCEPT !.named[pdf] = TRUE, !.pronom = 0,
                        !.authorityIds = {"fdd30"}]
  @@ fmt40 :> [PDF("puid-fmt-40", "97", 4, {40}, pdf :> 70, 40)
                 EXCEPT !.label = "word", !.kin = [pdf |-> 0, word |-> 2]]

Read(variants, isPuid) ==
  [variants |-> variants, version |-> Nothing, puid |-> isPuid, floor |-> 50]

TextReads == pdf :> Read(<<>>, FALSE) @@ prose :> Read(<<>>, FALSE)
             @@ puid :> Read(<<>>, TRUE) @@ wrapped :> Read(<<puid>>, TRUE)

-----------------------------------------------------------------------------
(* Three questions of two frameworks; claims under two ids of the format,  *)
(* of which one is a draft, one of the institution, and one the same       *)
(* observation as a legacy item.                                           *)

Claims == {restricted1, open1, draft1, licence1}

Says(home, criterion, value) ==
  [home |-> home, criterion |-> criterion, value |-> value, option |-> Nil,
   institution |-> Nil, independence |-> Nil, review |-> "approved",
   source |-> Nil, record |-> Nil]

EvidenceData ==
  restricted1 :> [Says("fmt-pdf", "disclosure", "restricted")
                    EXCEPT !.source = "loc", !.record = "r1"]
  @@ open1 :> Says("puid-fmt-18", "disclosure", "open")
  @@ draft1 :> [Says("puid-fmt-18", "disclosure", "restricted")
                    EXCEPT !.review = "draft"]
  @@ licence1 :> [Says("fmt-pdf", "ip_licensing", "restricted")
                    EXCEPT !.institution = qnl]
  @@ legacyLoc :> [Says(Nil, "disclosure", "limited")
                     EXCEPT !.source = "loc", !.record = "r1"]
  @@ legacyLocal :> [Says(Nil, "ip_constraints", "odd")
                       EXCEPT !.institution = qnl]
  @@ recognition :> Says(Nil, "recognition", "formal")

Documents ==
  {[ids |-> <<"fmt-pdf", "puid-fmt-18">>, globalEvidence |-> {legacyLoc},
    institutionEvidence |-> {legacyLocal}, verifiedPuid |-> TRUE,
    sourceEvidence |-> TRUE],
   [ids |-> <<"puid-fmt-18">>, globalEvidence |-> {},
    institutionEvidence |-> {}, verifiedPuid |-> FALSE,
    sourceEvidence |-> FALSE]}

Criteria == {"disclosure", "ip_constraints", "recognition"}
Values == {"open", "limited", "restricted", "odd", "formal"}
Unmapped3 == [v \in Values |-> Nil]

CompatibleFields ==
  [f \in Criteria |-> IF f = "ip_constraints" THEN {"ip_licensing"} ELSE {}]

GlobalValues ==
  [disclosure     |-> [Unmapped3 EXCEPT !["limited"] = "moderate"],
   ip_constraints |-> [Unmapped3 EXCEPT !["restricted"] = "high",
                                        !["open"] = "low"],
   recognition    |-> [Unmapped3 EXCEPT !["formal"] = "low"]]

Ranks == [low |-> 2, moderate |-> 3, high |-> 1, unknown |-> 4]

Calibrated ==
  LET qs == {"q_disclosure", "q_ip", "q_recognition"} IN
  [questions |-> qs,
   fields |-> [q_disclosure |-> {"disclosure"}, q_ip |-> {"ip_constraints"},
               q_recognition |-> {"recognition"}],
   options |-> [q_disclosure |-> {"low", "moderate", "high", "unknown"},
                q_ip |-> {"low", "high", "unknown"},
                q_recognition |-> {"low", "unknown"}],
   points |-> [q \in qs |-> [low |-> 0, moderate |-> 2, high |-> 3, unknown |-> 1]],
   weight |-> [q \in qs |-> IF q = "q_ip" THEN 2 ELSE 1],
   abstains |-> {"unknown"},
   unknown |-> "unknown",
   critical |-> {"q_disclosure"},
   valueMap |-> [q_disclosure |-> [Unmapped3 EXCEPT !["open"] = "low",
                                                    !["restricted"] = "high"],
                 q_ip |-> Unmapped3, q_recognition |-> Unmapped3],
   domain |-> [q_disclosure |-> "documentation",
               q_ip |-> "local_institutional_feasibility",
               q_recognition |-> Nil],
   applicability |-> [q \in qs |-> {}],
   banding |-> TRUE,
   minCompleteness |-> 60,
   bands |-> {[band |-> "Low", min |-> 0, max |-> 2],
              [band |-> "Moderate", min |-> 3, max |-> 5],
              [band |-> "High", min |-> 6, max |-> 12]}]

-----------------------------------------------------------------------------
(* The audit: the documents above, the second with a PUID, and one of an   *)
(* unregistered format.  A question combines two fields; mappings repeat   *)
(* what claims say, and add a draft of their own and one of the            *)
(* institution.                                                            *)

AuditClaims == {restricted1, licence2, unlicensed2, local3}

AuditData ==
  licence2 :> Says("puid-fmt-18", "ip_licensing", "restricted")
  @@ unlicensed2 :> Says("fmt-pdf", "ip_constraints", "open")
  @@ recorded3 :> Says("fmt-other", "disclosure", "open")
  @@ again3 :> Says("fmt-pdf", "ip_constraints", "open")
  @@ local3 :> [Says("fmt-pdf", "ip_constraints", "restricted")
                  EXCEPT !.independence = "institution_scoped",
                         !.institution = qnl]

ItemData == EvidenceData @@ AuditData

Pdf == [ids |-> <<"fmt-pdf", "puid-fmt-18">>, globalEvidence |-> {legacyLoc},
        institutionEvidence |-> {}, verifiedPuid |-> TRUE,
        sourceEvidence |-> TRUE, puid |-> TRUE]
Fmt18 == [Pdf EXCEPT !.ids = <<"puid-fmt-18">>, !.globalEvidence = {}]
Other == [Fmt18 EXCEPT !.ids = <<"fmt-other">>, !.verifiedPuid = FALSE,
                       !.puid = FALSE]
Registries == {<<Pdf, Other>>, <<Fmt18, Pdf, Other>>}
MadeByAccepted == {restricted1, unlicensed2, local3}
MadeByDrafts == {again3, recorded3, licence2}

Composite ==
  [Calibrated EXCEPT
     !.questions = {"q_disclosure", "q_ip"},
     !.fields = [@ EXCEPT !["q_ip"] = {"ip_constraints", "disclosure"}],
     !.critical = {}]

FrameworkRules ==
  calibrated :> Calibrated
  @@ composite :> Composite
  @@ draft :> [Calibrated EXCEPT !.banding = FALSE, !.critical = {"q_ip"},
                                 !.domain["q_ip"] = "essential_characteristics"]

-----------------------------------------------------------------------------
(* NARA, the DPC and one other source; the shipped policy and two others.  *)

Rates(home, source, label, level, scope) ==
  [home |-> home, source |-> source, native_label |-> label,
   normalized_band |-> Absent, semantic_level |-> level, scope |-> scope]

Terms ==
  nara1 :> Rates("fmt-pdf", "nara", "moderate risk", "moderate", "exact_format")
  @@ nara2 :> [Rates("puid-fmt-18", "nara", Absent, "high", "format_version")
                 EXCEPT !.normalized_band = "high"]
  @@ dpc1 :> Rates("fmt-pdf", "dpc", "endangered", Absent, Absent)
  @@ other1 :> Rates("puid-fmt-18", "other", Absent, "critical", "content_type")
  @@ qnl1 :> Rates("fmt-pdf", "qnl", "high", "high", "institutional_format")
  @@ was :> Rates(Absent, "nara", "moderate risk", Absent, Absent)
  @@ became :> Rates(Absent, "nara", "high", Absent, Absent)
  @@ repeated :> Rates(Absent, "nara", "high", Absent, Absent)
  @@ rated :> Rates(Absent, "new", "obsolete", Absent, "institutional_format")
  @@ stray :> Rates(Absent, "new", "obsolete", Absent, "institutional_format")
  @@ factor :> Rates(Absent, "loc", Absent, Absent, Absent)
  @@ prose1 :> Rates(Absent, "loc", Absent, Absent, Absent)

SourceRule(source, fields, values, scope) ==
  [source |-> source, role |-> "risk_assessment", fields |-> fields,
   valueMap |-> values, acceptExisting |-> TRUE, defaultScope |-> scope]

ForNara == SourceRule("nara", <<"native_label", "normalized_band", "semantic_level">>,
                      "high" :> "high" @@ "moderate risk" :> "moderate",
                      "exact_format")
ForDPC == SourceRule("dpc", <<"native_label", "semantic_level">>,
                     "endangered" :> "high",
                     "format_group")
ForOthers == SourceRule(Absent, <<"semantic_level">>, <<>>, Absent)

ShippedContent ==
  [rules |-> <<ForNara, ForDPC, ForOthers>>,
   headlineRoles |-> {"risk_assessment"},
   missing |-> "exclude",
   scopes |-> <<{"exact_format", "format_version", "institutional_format"},
                {"format_family", "family"}, {"format_group", "group"},
                {"content_type"}, {"contextual"}>>,
   selection |-> "most_specific_available",
   broader |-> "context_only",
   aggregation |-> "highest_semantic_concern",
   tieBreak |-> Absent]

Policies ==
  shipped :> ShippedContent
  @@ majority :> [ShippedContent EXCEPT !.rules = <<ForNara, ForDPC>>,
                    !.missing = "unassessed_if_any_unmapped",
                    !.selection = "all_mapped_assessments",
                    !.aggregation = "majority_semantic_level"]
  @@ mildest :> [ShippedContent EXCEPT !.broader = "include_in_headline",
                   !.aggregation = "lowest_semantic_concern"]

Specificity ==
  [s \in {"exact_format", "format_version", "institutional_format"} |-> 0]
  @@ "format_family" :> 1 @@ "format_group" :> 2 @@ "content_type" :> 3
  @@ "contextual" :> 4

Concerns == [minimal |-> 0, low |-> 1, moderate |-> 2, high |-> 3, critical |-> 4]
TwoIds == <<"fmt-pdf", "puid-fmt-18">>
MayCarry == {{nara1, nara2}, {other1}, {nara1, qnl1}}

-----------------------------------------------------------------------------
(* Source records: the NARA record in two runs, of which the later says    *)
(* otherwise, and says it twice; the record of a shared LOC identifier;    *)
(* one of a new source that no rule maps; and one of another format.       *)

Recorded(source, record, run, order, ids, findings) ==
  [source |-> source, record |-> record, run |-> run, order |-> order,
   authority |-> source = "loc", ids |-> ids, findings |-> findings]

RowContents ==
  naraOld :> Recorded("nara", "n1", 1, 2, {}, <<was>>)
  @@ naraNew :> Recorded("nara", "n1", 2, 2, {}, <<became, repeated>>)
  @@ locRow :> Recorded("loc", "fdd30", 1, 1, {"fdd30"}, <<factor, prose1>>)
  @@ newRow :> Recorded("new", "x1", 1, 3, {"fmt/18"}, <<rated>>)
  @@ strayRow :> Recorded("new", "x2", 1, 4, {"fmt/99"}, <<stray>>)

Kinds ==
  [f \in {was, became, repeated, rated, stray} |-> NativeRisk]
  @@ factor :> "source_native_sustainability_factor"
  @@ prose1 :> "source_native_description"

Records ==
  nara1 :> "n1" @@ nara2 :> "n2" @@ dpc1 :> Absent @@ other1 :> "o1"
  @@ was :> "n1" @@ became :> "n1" @@ repeated :> "n1"
  @@ rated :> "x1" @@ stray :> "x2"
  @@ factor :> "fdd30" @@ prose1 :> "fdd30"

CriteriaFor == criterion1 :> [institutional |-> FALSE]
               @@ criterion2 :> [institutional |-> TRUE]

Attached == {<<"nara", "n1">>}
StrongIds == {"fdd30", "fmt/18"}
PromptBudgets == {Absent, 2, 4, 6}

-----------------------------------------------------------------------------
Init ==
  /\ part \in {identification, questions, riskContext, overallRisk,
               wholeRegistry}
  /\ IF part = identification THEN IdentificationInit
     ELSE IdentificationStart({})
  /\ IF part = questions THEN AssessmentInit ELSE AssessmentStart(Nil, {})
  /\ IF part = riskContext THEN SynthesisInit ELSE SynthesisStart({})
  /\ IF part = overallRisk THEN AISynthesisInit ELSE ConsultationStart({})
  /\ IF part = wholeRegistry THEN AuditInit ELSE AuditStart(<<>>, {})

Next ==
  /\ UNCHANGED part
  /\ \/ /\ part = identification
        /\ IdentificationNext
        /\ UNCHANGED <<assessmentVars, synthesisVars, aiSynthesisVars, auditVars>>
     \/ /\ part = questions
        /\ AssessmentNext
        /\ UNCHANGED <<identificationVars, synthesisVars, aiSynthesisVars, auditVars>>
     \/ /\ part = riskContext
        /\ SynthesisNext
        /\ UNCHANGED <<identificationVars, assessmentVars, aiSynthesisVars, auditVars>>
     \/ /\ part = overallRisk
        /\ AISynthesisNext
        /\ UNCHANGED <<identificationVars, assessmentVars, synthesisVars, auditVars>>
     \/ /\ part = wholeRegistry
        /\ AuditNext
        /\ UNCHANGED <<identificationVars, assessmentVars, synthesisVars,
                       aiSynthesisVars>>

Spec ==
  Init /\ [][Next]_<<part, identificationVars, assessmentVars, synthesisVars,
                     aiSynthesisVars, auditVars>>

=============================================================================
