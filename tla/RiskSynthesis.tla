--------------------------- MODULE RiskSynthesis ---------------------------
(***************************************************************************)
(* The overall source risk of a format: the native assessments of NARA,    *)
(* the DPC and institutions, mapped to shared levels and reduced to one    *)
(* headline.                                                               *)
(*                                                                         *)
(* The builder computes a headline when it writes a document, by a rule    *)
(* of its own.  The manager computes one per request, from the claims it   *)
(* reads id by id while refreshes replace them, by a policy: source rules  *)
(* that map native terms, scope tiers, and an operator per step.  Both are *)
(* here, because the response compares them.                               *)
(*                                                                         *)
(* Normalization of terms is left to the instance.                         *)
(***************************************************************************)
EXTENDS Integers, Sequences, FiniteSets, FiniteSetsExt

CONSTANTS
  RiskClaim,      \* risk assessment claims of the registry
  Overlay,        \* assessments only documents carry: institution policies
  Term,           \* what each says: home, source, terms per field, scope
  Level,          \* semantic levels
  Concern,        \* level -> its rank
  Policy,         \* synthesis policies
  Shipped,        \* the one the manager ships with
  PolicyText,     \* the content of each
  BuilderScopes,  \* SCOPE_SPECIFICITY_ORDER: scope -> rank
  KnownAs,        \* the ids the document is known by, in order
  Carried,        \* the sets of assessments the document may carry
  Absent,         \* no term, no scope, no level
  MaxRefresh      \* bound: claim changes during a request

ASSUME SynthesisConstants ==
  /\ Absent \notin Level /\ IsFiniteSet(Level) /\ \A l \in Level : Concern[l] \in Int
  /\ KnownAs \in Seq(STRING)

VARIABLES
  riskClaims,   \* the claims that are current
  refreshes,    \* changes so far
  lookup,       \* the request
  context,      \* the external risk context it returns, or Absent
  throughout,   \* history: claims current since the request began
  sometime      \* history: claims current at some time since then

synthesisVars ==
  <<riskClaims, refreshes, lookup, context, throughout, sometime>>

SynthesisStart(claims) ==
  /\ riskClaims = claims
  /\ refreshes = 0
  /\ lookup = [pc |-> "none", policy |-> Absent, next |-> 1, read |-> {}]
  /\ context = Absent
  /\ throughout = {}
  /\ sometime = {}

SynthesisInit == \E claims \in SUBSET RiskClaim : SynthesisStart(claims)

Worst(levels) == CHOOSE l \in levels : \A k \in levels : Concern[l] >= Concern[k]
Mildest(levels) == CHOOSE l \in levels : \A k \in levels : Concern[l] <= Concern[k]
FirstOf(indices) == CHOOSE i \in indices : \A j \in indices : i <= j
LastOf(indices) == CHOOSE i \in indices : \A j \in indices : i >= j

-----------------------------------------------------------------------------
(* The builder's rule.                                                     *)

\* The slip: a version counts as less specific than a format.
WrongBuilderScope(a) ==
  IF Term[a].scope = "format_version" THEN 1
  ELSE IF Term[a].scope \in DOMAIN BuilderScopes THEN BuilderScopes[Term[a].scope]
  ELSE 5

BuilderScope(a) ==
  IF Term[a].scope \in DOMAIN BuilderScopes THEN BuilderScopes[Term[a].scope] ELSE 5

\* The worst level of the most specific scope, of what has a level at all.
BuilderHeadline(assessments) ==
  LET scored  == {a \in assessments : Term[a].semantic_level \in Level}
      nearest == {a \in scored : \A b \in scored : BuilderScope(a) <= BuilderScope(b)}
  IN
    IF scored = {} THEN Absent
    ELSE Worst({Term[a].semantic_level : a \in nearest})

-----------------------------------------------------------------------------
(* The manager's policy.                                                   *)

\* The first rule of the policy for the source.
RuleFor(policy, a) ==
  LET fitting == {i \in DOMAIN policy.rules :
                    policy.rules[i].source \in {Absent, Term[a].source}}
  IN
    IF fitting = {} THEN Absent ELSE policy.rules[FirstOf(fitting)]

FieldLevel(rule, a, field) ==
  IF Term[a][field] = Absent THEN Absent
  ELSE IF Term[a][field] \in DOMAIN rule.valueMap THEN rule.valueMap[Term[a][field]]
  ELSE IF field = "semantic_level" /\ rule.acceptExisting
            /\ Term[a].semantic_level \in Level
    THEN Term[a].semantic_level
  ELSE Absent

\* The first field that gives a level, or else the level it came with.
MappedLevel(rule, a) ==
  LET giving == {i \in DOMAIN rule.fields :
                   FieldLevel(rule, a, rule.fields[i]) # Absent}
  IN
    IF giving # {} THEN FieldLevel(rule, a, rule.fields[FirstOf(giving)])
    ELSE IF rule.acceptExisting /\ Term[a].semantic_level \in Level
      THEN Term[a].semantic_level
    ELSE Absent

LevelOf(policy, a) ==
  IF RuleFor(policy, a) = Absent THEN Absent
  ELSE MappedLevel(RuleFor(policy, a), a)

\* The last tier that names the scope; unknown scopes come after all.
ScopeTier(policy, scope) ==
  LET tiers == {i \in DOMAIN policy.scopes : scope \in policy.scopes[i]} IN
    IF tiers = {} THEN Len(policy.scopes) + 1 ELSE LastOf(tiers)

\* What the shipped policy says (qnl_preservation_risk_synthesis.v1.json):
\* every rule is about risk assessments and maps to levels, what is not mapped
\* is left out, and of the most specific tier the worst counts; its tiers
\* order the scopes the builder knows as the builder does.
ASSUME ShippedPolicy ==
  LET policy == PolicyText[Shipped]
      IsList(s) == Len(s) \in Nat /\ DOMAIN s = 1..Len(s)
  IN
    /\ IsList(policy.rules) /\ IsList(policy.scopes)
    /\ \A i \in DOMAIN policy.rules :
         LET rule == policy.rules[i] IN
           /\ rule # Absent /\ rule.role \in policy.headlineRoles
           /\ IsList(rule.fields)
           /\ \A t \in DOMAIN rule.valueMap : rule.valueMap[t] \in Level
    /\ policy.missing = "exclude"
    /\ policy.selection = "most_specific_available"
    /\ policy.broader = "context_only"
    /\ policy.aggregation = "highest_semantic_concern"
    /\ Absent \notin DOMAIN BuilderScopes
    /\ \A s, t \in DOMAIN BuilderScopes :
         BuilderScopes[s] <= BuilderScopes[t]
           <=> ScopeTier(policy, s) <= ScopeTier(policy, t)

\* The tier of its scope, or of the default scope of its source.
ScopeOf(policy, a) ==
  LET rule == RuleFor(policy, a) IN
    ScopeTier(policy, IF Term[a].scope = Absent /\ rule # Absent
                   THEN rule.defaultScope ELSE Term[a].scope)

InHeadlineRole(policy, a) ==
  RuleFor(policy, a) # Absent /\ RuleFor(policy, a).role \in policy.headlineRoles

Mapped(policy, assessments) ==
  {a \in assessments : InHeadlineRole(policy, a) /\ LevelOf(policy, a) # Absent}

Unmapped(policy, assessments) ==
  {a \in assessments : InHeadlineRole(policy, a) /\ LevelOf(policy, a) = Absent}

Normalized(policy, a) ==
  [of |-> a, nth |-> 0, level |-> LevelOf(policy, a), tier |-> ScopeOf(policy, a)]

\* missing_assessment_policy, over the mapped rows and those an AI added.
Considered(policy, assessments, added) ==
  IF policy.missing = "unassessed_if_any_unmapped" /\ Unmapped(policy, assessments) # {}
    THEN {}
    ELSE {Normalized(policy, a) : a \in Mapped(policy, assessments)} \cup added

\* scope_selection and broader_scope_policy
Primary(policy, rows) ==
  IF policy.selection = "all_mapped_assessments"
       \/ policy.broader = "include_in_headline"
    THEN rows
    ELSE {r \in rows : \A q \in rows : r.tier <= q.tier}

Count(rows, level) == Cardinality({r \in rows : r.level = level})

Commonest(rows) ==
  {l \in Level : \A k \in Level : Count(rows, k) <= Count(rows, l)}

\* same_scope_aggregation
Aggregate(policy, rows) ==
  LET levels == {r.level : r \in rows} IN
    CASE policy.aggregation = "highest_semantic_concern" -> Worst(levels)
      [] policy.aggregation = "lowest_semantic_concern"  -> Mildest(levels)
      [] policy.aggregation = "majority_semantic_level"  ->
           IF policy.tieBreak = "lowest_semantic_concern"
             THEN Mildest(Commonest(rows))
             ELSE Worst(Commonest(rows))

HeadlineWith(policy, assessments, added) ==
  LET considered == Considered(policy, assessments, added) IN
    IF considered = {} THEN Absent
    ELSE Aggregate(policy, Primary(policy, considered))

Headline(policy, assessments) == HeadlineWith(policy, assessments, {})

-----------------------------------------------------------------------------
(* Refreshes replace claims while a request reads them.                    *)

Refreshing ==
  /\ lookup.pc = "claims"
  /\ refreshes < MaxRefresh
  /\ refreshes' = refreshes + 1
  /\ UNCHANGED <<lookup, context>>

SaveRiskClaim(c) ==
  /\ c \notin riskClaims
  /\ riskClaims' = riskClaims \cup {c}
  /\ sometime' = sometime \cup {c}
  /\ UNCHANGED throughout
  /\ Refreshing

SupersedeRiskClaim(c) ==
  /\ c \in riskClaims
  /\ riskClaims' = riskClaims \ {c}
  /\ throughout' = throughout \ {c}
  /\ UNCHANGED sometime
  /\ Refreshing

-----------------------------------------------------------------------------
(* The request.                                                            *)

AskRisk(policy) ==
  /\ lookup.pc = "none"
  /\ lookup' = [lookup EXCEPT !.pc = "claims", !.policy = policy]
  /\ throughout' = riskClaims
  /\ sometime' = riskClaims
  /\ UNCHANGED <<riskClaims, refreshes, context>>

ReadRiskClaims ==
  /\ lookup.pc = "claims"
  /\ lookup.next <= Len(KnownAs)
  /\ lookup' = [lookup EXCEPT
                  !.next = @ + 1,
                  !.read = @ \cup {c \in riskClaims :
                                     Term[c].home = KnownAs[lookup.next]}]
  /\ UNCHANGED <<riskClaims, refreshes, context, throughout, sometime>>

\* The document of the request carries what it was written with.
ReturnContext(carried) ==
  /\ lookup.pc = "claims"
  /\ lookup.next > Len(KnownAs)
  /\ \E policyLevel \in {Headline(PolicyText[lookup.policy], lookup.read)},
        registryLevel \in {BuilderHeadline(carried)} :
       context' = [assessments   |-> lookup.read,
                   carried       |-> carried,
                   policyLevel   |-> policyLevel,
                   registryLevel |-> registryLevel,
                   match         |-> policyLevel = registryLevel]
  /\ lookup' = [lookup EXCEPT !.pc = "done"]
  /\ UNCHANGED <<riskClaims, refreshes, throughout, sometime>>

SynthesisNext ==
  \/ \E c \in RiskClaim : SaveRiskClaim(c) \/ SupersedeRiskClaim(c)
  \/ \E p \in Policy : AskRisk(p)
  \/ ReadRiskClaims
  \/ \E carried \in Carried : ReturnContext(carried)

SynthesisSpec == SynthesisInit /\ [][SynthesisNext]_synthesisVars

-----------------------------------------------------------------------------
(* Properties.                                                             *)

ShippedText == PolicyText[Shipped]
ShippedLevel(a) == LevelOf(ShippedText, a)
ShippedScope(a) == ScopeOf(ShippedText, a)
OfDocument(claims) ==
  {c \in claims : \E i \in DOMAIN KnownAs : Term[c].home = KnownAs[i]}
MappedThroughout == Mapped(ShippedText, OfDocument(throughout))
MappedSometime == Mapped(ShippedText, OfDocument(sometime))

\* The claims whose scope and level both implementations read alike.
Canonical ==
  {c \in RiskClaim : /\ Term[c].scope \in DOMAIN BuilderScopes
                     /\ Term[c].semantic_level = ShippedLevel(c)}

(* The shipped policy's headline is the worst of the most specific, read   *)
(* in the middle of a refresh or not: it is the level of an assessment     *)
(* that was on record, no broader than any that was there throughout, and  *)
(* at least that of each assessment that was there throughout and than     *)
(* which nothing was more specific ("broader ... cannot silently override  *)
(* a more specific" one).  Where the document carries just what was read,  *)
(* the builder's rule gives the same headline                              *)
(* (synthesize_assessments, synthesize_risk_assessments).                  *)

HeadlineIsWorstOfNearest ==
  context # Absent /\ lookup.policy = Shipped =>
    /\ context.policyLevel = Absent => MappedThroughout = {}
    /\ context.policyLevel # Absent =>
         \E a \in MappedSometime :
           /\ ShippedLevel(a) = context.policyLevel
           /\ \A c \in MappedThroughout : ShippedScope(a) <= ShippedScope(c)
    /\ \A c \in MappedThroughout :
         (\A b \in MappedSometime : ShippedScope(c) <= ShippedScope(b))
           => Concern[context.policyLevel] >= Concern[ShippedLevel(c)]
    /\ context.carried = context.assessments /\ context.carried \subseteq Canonical
         => context.match

=============================================================================
