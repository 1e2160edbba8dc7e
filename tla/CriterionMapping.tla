-------------------------- MODULE CriterionMapping --------------------------
(***************************************************************************)
(* Criterion claims from reviewed mappings: how a rule turns the evidence  *)
(* of a canonical format into claims, under which key a claim is stored,   *)
(* and the backfill that rebuilds the claims of the mapped sources while   *)
(* pipeline runs publish.                                                  *)
(*                                                                         *)
(* A rule reads a field of the source record a format refers to, or the    *)
(* items of a collection of the canonical document itself.  A mapping is   *)
(* validated as a whole before anything is read.  The key of a claim names *)
(* format, source, record, rule and institution, not the value, so of two  *)
(* items that one rule maps for one record the later one is stored.        *)
(*                                                                         *)
(* A run of the pipeline is one step here; RegistryPipeline has its steps. *)
(***************************************************************************)
EXTENDS Integers, FiniteSets

CONSTANTS
  Absent,          \* no value, no institution
  Mappings,        \* the contents the mapping directory may have
  Views,           \* registries a pipeline run may publish
  Evidence,        \* source records a pipeline run may store: record -> value
  Unmapped,        \* a claim of a source that no mapping names
  MaxPipelineRun,  \* bound: pipeline runs
  MaxBackfill      \* bound: backfills

(* A rule reads one source's records by a field, or a collection.  A view  *)
(* gives each format its references, with the scope of the relationship    *)
(* behind each, and the items of its evidence collection.                  *)
SourceOf(record) == record[1]

ASSUME MappingConstants ==
  /\ \A rules \in Mappings : \A r \in rules :
       r.source # Unmapped.key.source /\ r.id # Unmapped.key.rule
  /\ MaxPipelineRun \in Nat /\ MaxBackfill \in Nat

VARIABLES
  mapping,    \* the rules in the mapping directory
  view,       \* the current canonical formats
  records,    \* stored source records: <<record, run, value>>
  claims,     \* criterion_claims: key -> [value, current]
  lastRun,    \* pipeline runs so far
  backfill,   \* the backfill that is running, or was last
  backfills   \* backfills so far

mappingVars ==
  <<mapping, view, records, claims, lastRun, backfill, backfills>>

IdleBackfill ==
  [pc |-> "idle", replace |-> FALSE, rules |-> {}, view |-> <<>>,
   made |-> {}, retire |-> {}, write |-> {}, alone |-> FALSE]

MappingInit ==
  /\ mapping \in Mappings
  /\ view = <<>>
  /\ records = {}
  /\ claims = [k \in {Unmapped.key} |-> [value |-> Unmapped.value, current |-> TRUE]]
  /\ lastRun = 0
  /\ backfill = IdleBackfill
  /\ backfills = 0

-----------------------------------------------------------------------------
(* From evidence to claims.                                                *)

\* A rule may not read a risk conclusion as a criterion, and one that is
\* accepted names who decided it.
Valid(rules) ==
  \A r \in rules :
    /\ r.field # "risk rating"
    /\ r.status = "accepted" => r.decidedBy # Absent

\* The record of a reference is the newest one stored, by run id.
NewestValue(stored, record) ==
  IF \E s \in stored : s[1] = record
    THEN (CHOOSE s \in stored :
            /\ s[1] = record
            /\ \A t \in stored : t[1] = record => t[2] <= s[2])[3]
    ELSE Absent

\* A reference that stands for a relationship counts only when it is an
\* exact cross reference, or the mapping opts in.
SourceMatches(rule, ref) ==
  /\ ref.scope \in {"own", "exact_puid_cross_reference"} \/ rule.related
  /\ rule.source = SourceOf(ref.record)

Item(institution, value) == [institution |-> institution, value |-> value]
RuleItems(format, ref, rule, stored) ==
  IF rule.collection
    THEN format.items
    ELSE {Item(Absent, NewestValue(stored, ref.record))}

\* The value a rule makes of a field, by its table; other values map to
\* nothing.
ClaimValue(rule, value) ==
  IF value \in DOMAIN rule.values THEN rule.values[value] ELSE Absent

ClaimKey(f, ref, rule, institution) ==
  [format |-> f, source |-> SourceOf(ref.record), record |-> ref.record,
   rule |-> rule.id, institution |-> institution]

ClaimsOf(formats, f, ref, rule, stored) ==
  {[key |-> ClaimKey(f, ref, rule, item.institution),
    value |-> ClaimValue(rule, item.value)] :
     item \in RuleItems(formats[f], ref, rule, stored)}

BuiltClaims(formats, stored, rules, drafts) ==
  {c \in UNION UNION {
       {ClaimsOf(formats, f, q[1], q[2], stored) :
          q \in {p \in formats[f].refs \X rules :
                   /\ SourceMatches(p[2], p[1])
                   /\ drafts \/ p[2].status = "accepted"}} :
       f \in DOMAIN formats} :
     c.value # Absent}

-----------------------------------------------------------------------------
(* The mapping directory is edited, between runs of anything.              *)
EditMapping(rules) ==
  /\ rules # mapping
  /\ mapping' = rules
  /\ UNCHANGED <<view, records, claims, lastRun, backfill, backfills>>

\* A pipeline run: new source records and a new view, then the claims of
\* the rules that still make any.
SupersededByRun(made) ==
  LET keys == {c.key : c \in made}
      managed == {k.rule : k \in keys} IN
    {k \in DOMAIN claims : claims[k].current /\ k.rule \in managed /\ k \notin keys}
\* made has one claim per key.
AfterRun(made, retired) ==
  [k \in {c.key : c \in made} \cup DOMAIN claims |->
     IF \E c \in made : c.key = k
       THEN [value |-> (CHOOSE c \in made : c.key = k).value, current |-> TRUE]
       ELSE [claims[k] EXCEPT !.current = @ /\ k \notin retired]]

OnePerKey(made) ==
  {chosen \in SUBSET made :
     /\ {c.key : c \in chosen} = {c.key : c \in made}
     /\ \A c, d \in chosen : c.key = d.key => c = d}

PipelineRun(published, evidence) ==
  /\ lastRun < MaxPipelineRun
  /\ lastRun' = lastRun + 1
  /\ view' = published
  /\ records' = records \cup
       {<<r, lastRun', evidence[r]>> : r \in DOMAIN evidence}
  /\ \/ UNCHANGED claims  \* criterion mapping is disabled
     \/ /\ Valid(mapping)
        /\ \E made \in OnePerKey(
                BuiltClaims(published, records', mapping, FALSE)) :
             claims' = AfterRun(made, SupersededByRun(made))
  /\ backfill' = [backfill EXCEPT !.alone = FALSE]
  /\ UNCHANGED <<mapping, backfills>>

-----------------------------------------------------------------------------
(* The backfill.                                                           *)

\* Mappings are loaded and validated, then the view is read.
StartBackfill(replace) ==
  /\ backfill.pc \in {"idle", "done"}
  /\ backfills < MaxBackfill
  /\ Valid(mapping)
  /\ backfills' = backfills + 1
  /\ backfill' = [IdleBackfill EXCEPT
       !.pc = "records", !.replace = replace, !.rules = mapping,
       !.view = view, !.alone = TRUE]
  /\ UNCHANGED <<mapping, view, records, claims, lastRun>>

\* The source records are read and the claims built, drafts left out.
BuildClaims ==
  /\ backfill.pc = "records"
  /\ LET made == BuiltClaims(backfill.view, records, backfill.rules, FALSE) IN
       backfill' = [backfill EXCEPT
         !.pc = "supersede", !.view = <<>>, !.made = made, !.write = made]
  /\ UNCHANGED <<mapping, view, records, claims, lastRun, backfills>>

\* The slip: like a pipeline run, only the claims of the rules at work.
WrongSourceClaims(made, rules) ==
  {k \in DOMAIN claims :
     /\ claims[k].current
     /\ k \notin {c.key : c \in made}
     /\ \E c \in made : c.key.rule = k.rule}

\* Every current claim of a mapped source that was not built.
SourceClaims(made, rules) ==
  {k \in DOMAIN claims :
     /\ claims[k].current
     /\ k \notin {c.key : c \in made}
     /\ \E r \in rules : r.source = k.source}

\* The claims to retire are read once, and then written one by one.
ReadSuperseded ==
  /\ backfill.pc = "supersede"
  /\ backfill' = [backfill EXCEPT
       !.pc = "write",
       !.retire = IF backfill.replace
                    THEN SourceClaims(backfill.made, backfill.rules)
                    ELSE {}]
  /\ UNCHANGED <<mapping, view, records, claims, lastRun, backfills>>

RetireClaim(k) ==
  /\ backfill.pc = "write"
  /\ k \in backfill.retire
  /\ claims' = [claims EXCEPT ![k].current = FALSE]
  /\ backfill' = [backfill EXCEPT !.retire = @ \ {k}]
  /\ UNCHANGED <<mapping, view, records, lastRun, backfills>>

\* Two claims of one key: the one later in the list replaces the other.
WriteClaim(c) ==
  /\ backfill.pc = "write"
  /\ backfill.retire = {}
  /\ c \in backfill.write
  /\ claims' = [k \in {c.key} \cup DOMAIN claims |->
                  IF k = c.key THEN [value |-> c.value, current |-> TRUE] ELSE claims[k]]
  /\ backfill' = [backfill EXCEPT !.write = @ \ {c}]
  /\ UNCHANGED <<mapping, view, records, lastRun, backfills>>

FinishBackfill ==
  /\ backfill.pc = "write"
  /\ backfill.retire = {} /\ backfill.write = {}
  /\ backfill' = [backfill EXCEPT !.pc = "done"]
  /\ UNCHANGED <<mapping, view, records, claims, lastRun, backfills>>

BackfillDies ==
  /\ backfill.pc \notin {"idle", "done"}
  /\ backfill' = IdleBackfill
  /\ UNCHANGED <<mapping, view, records, claims, lastRun, backfills>>

MappingNext ==
  \/ \E rules \in Mappings : EditMapping(rules)
  \/ \E published \in Views, evidence \in Evidence :
       PipelineRun(published, evidence)
  \/ \E replace \in BOOLEAN : StartBackfill(replace)
  \/ BuildClaims \/ ReadSuperseded
  \/ \E k \in backfill.retire : RetireClaim(k)
  \/ \E c \in backfill.write : WriteClaim(c)
  \/ FinishBackfill \/ BackfillDies

MappingSpec == MappingInit /\ [][MappingNext]_mappingVars

-----------------------------------------------------------------------------
(* Properties.                                                             *)

(* A backfill that replaces source claims, with no pipeline run meanwhile, *)
(* leaves exactly the claims its mappings make current in the mapped       *)
(* sources, whatever backfills died before it: a claim no rule makes any   *)
(* more goes, also when its rule makes none at all                         *)
(* (docs/LOC_FDD_SUSTAINABILITY.md, "including the case where a mapping    *)
(* rule produces zero claims"), and the claims of other sources are left   *)
(* alone.                                                                  *)

Mapped(k) == \E r \in backfill.rules : r.source = k.source
CurrentClaims == {k \in DOMAIN claims : claims[k].current}

ReplacementIsComplete ==
  backfill.pc = "done" /\ backfill.replace /\ backfill.alone =>
    /\ {k \in CurrentClaims : Mapped(k)} = {c.key : c \in backfill.made}
    /\ \A k \in CurrentClaims : Mapped(k) =>
         [key |-> k, value |-> claims[k].value] \in backfill.made
    /\ claims[Unmapped.key].current

=============================================================================
