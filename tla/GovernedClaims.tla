--------------------------- MODULE GovernedClaims ---------------------------
(***************************************************************************)
(* The governed claim layers of the registry and the four kinds of jobs    *)
(* that touch them.  Reviewed claims (risk assessments of DPC and NARA,    *)
(* relationships of Wikidata) live in collections of their own; the        *)
(* canonical documents carry a copy of the current ones, the view readers  *)
(* query.                                                                  *)
(*                                                                         *)
(*   pipeline   run_pipeline: rebuilds the registry from source records    *)
(*              and attaches the current claims to it                      *)
(*   rebuild    rebuild_registry_from_store --apply: rebuilds it from      *)
(*              stored records                                             *)
(*   backfill   run_dpc_risk_backfill, run_nara_risk_backfill: replaces    *)
(*              the claims of one risk source                              *)
(*   refresh    run_wikidata_refresh --apply: preflight, replacement of    *)
(*              the Wikidata claims, verification                          *)
(*                                                                         *)
(* Every store call is a step.  A job may die before any of them, and      *)
(* jobs may overlap: they are separate commands on one shared store.       *)
(*                                                                         *)
(* A definition named Wrong... is the one that follows it with a slip in   *)
(* it, paired in PROJECT.json with the property it breaks.                 *)
(*                                                                         *)
(* Abstractions: a claim is its key, and what it asserts is determined by  *)
(* the key; which formats reconciliation yields and what mappings and      *)
(* projections propose is chosen freely; assessments that come from the    *)
(* source records themselves, run documents and dry runs are left out.     *)
(* Jobs that a gate blocks write nothing and are left out, too.            *)
(***************************************************************************)
EXTENDS Integers, FiniteSets

CONSTANTS
  Format,      \* canonical ids
  RiskSource,  \* sources of risk claims: DPC, NARA
  Wikidata,    \* the source of relationship claims
  Rule,        \* what distinguishes the claims of a source on a format:
               \* source record, mapping rule, mapping or projection version
  MaxJob,      \* bound: number of jobs
  MaxActive    \* bound: number of jobs active at once

ASSUME ClaimConstants ==
  /\ Wikidata \notin RiskSource
  /\ {"pipeline", "rebuild"} \cap (RiskSource \cup {Wikidata}) = {}
  /\ MaxJob \in Nat
  /\ MaxActive \in Nat \ {0}
  /\ IsFiniteSet(Format)
  /\ IsFiniteSet(Rule)

VARIABLES
  canonical_formats,  \* canonical documents, by canonical id
  claims,             \* state of every claim in its collection
  pc,                 \* where the job is
  kind,               \* what the job is
  view,               \* the canonical documents it read
  generated,          \* the claims it puts in place
  preflight,          \* refresh: the Wikidata claims current at preflight
  touched,            \* the canonicals it writes
  materialized,       \* the claims it attaches to them
  todo,               \* what the loop at pc still has to write
  status,             \* refresh: what it reported
  contended           \* was another job active while it was?

vars == <<canonical_formats, claims, pc, kind, view, generated, preflight,
          touched, materialized, todo, status, contended>>

Job == 1 .. MaxJob
ClaimSource == RiskSource \cup {Wikidata}
Kind == ClaimSource \cup {"pipeline", "rebuild"}

Claim == [source : ClaimSource, canonical : Format, rule : Rule]

Document == [state : {"absent", "current", "removed"},
             attached : SUBSET Claim]

Active == {"reconcile", "reread", "existing", "supersede", "save",
           "materialize", "upsert", "remove", "verify", "finish"}

CurrentIds(docs) == {f \in Format : docs[f].state = "current"}
CurrentClaims == {c \in Claim : claims[c] = "current"}
ClaimsOf(s) == {c \in CurrentClaims : c.source = s}
On(set, f) == {c \in set : c.canonical = f}
Targets(set) == {c.canonical : c \in set}

-----------------------------------------------------------------------------
NoView == [f \in Format |-> [state |-> "absent", attached |-> {}]]

(* A registry as a pipeline run leaves it: some formats, every current     *)
(* claim about them attached.                                              *)
Init ==
  /\ claims \in [Claim -> {"absent", "current"}]
  /\ \E known \in SUBSET Format :
       /\ Targets(CurrentClaims) \subseteq known
       /\ canonical_formats =
            [f \in Format |->
               [state |-> IF f \in known THEN "current" ELSE "absent",
                attached |-> On(CurrentClaims, f)]]
  /\ pc = [j \in Job |-> "idle"]
  /\ kind = [j \in Job |-> "pipeline"]
  /\ view = [j \in Job |-> NoView]
  /\ generated = [j \in Job |-> {}]
  /\ preflight = [j \in Job |-> {}]
  /\ touched = [j \in Job |-> {}]
  /\ materialized = [j \in Job |-> {}]
  /\ todo = [j \in Job |-> {}]
  /\ status = [j \in Job |-> "none"]
  /\ contended = [j \in Job |-> FALSE]

store == <<canonical_formats, claims>>
plan == <<kind, view, generated, preflight>>

Goto(j, label) == pc' = [pc EXCEPT ![j] = label]

(* A job starts by reading the current registry view.  A claim job has its *)
(* proposals then; each is about a canonical of that view.                 *)
Start(j, k, proposed) ==
  /\ pc[j] = "idle"
  /\ \A i \in 1 .. j - 1 : pc[i] # "idle"
  /\ LET others == {i \in Job : pc[i] \in Active}
     IN /\ Cardinality(others) < MaxActive
        /\ contended' = [i \in Job |-> IF i = j THEN others # {}
                                       ELSE contended[i] \/ i \in others]
  /\ proposed \subseteq [source : {k}, canonical : CurrentIds(canonical_formats),
                         rule : Rule]
  /\ kind' = [kind EXCEPT ![j] = k]
  /\ view' = [view EXCEPT ![j] = canonical_formats]
  /\ generated' = [generated EXCEPT ![j] = proposed]
  /\ UNCHANGED <<store, touched, materialized, todo, status>>

-----------------------------------------------------------------------------
(* Pipeline and rebuild.                                                   *)

StartRegistryJob(j) ==
  /\ \E k \in {"pipeline", "rebuild"} : Start(j, k, {})
  /\ Goto(j, "reconcile")
  /\ UNCHANGED preflight

(* Attaches everything ever claimed. *)
WrongAttachable(j) ==
  IF kind[j] = "pipeline" THEN {c \in Claim : claims[c] # "absent"} ELSE {}

(* materialize_current_risk_claims, which only run_pipeline calls *)
Attachable(j) == IF kind[j] = "pipeline" THEN CurrentClaims ELSE {}

Reconcile(j) ==
  /\ pc[j] = "reconcile"
  /\ \E registry \in SUBSET Format :
       /\ touched' = [touched EXCEPT ![j] = registry]
       /\ todo' = [todo EXCEPT ![j] = registry]
  /\ materialized' = [materialized EXCEPT ![j] = Attachable(j)]
  /\ Goto(j, "upsert")
  /\ UNCHANGED <<store, plan, status, contended>>

BeginRemovals(j) ==
  /\ pc[j] = "upsert"
  /\ kind[j] \in {"pipeline", "rebuild"}
  /\ todo[j] = {}
  /\ todo' = [todo EXCEPT ![j] = CurrentIds(view[j]) \ touched[j]]
  /\ Goto(j, "remove")
  /\ UNCHANGED <<store, plan, touched, materialized, status, contended>>

MarkRemoved(j) ==
  /\ pc[j] = "remove"
  /\ \E f \in todo[j] :
       /\ canonical_formats' = [canonical_formats EXCEPT
            ![f] = [view[j][f] EXCEPT !.state = "removed"]]
       /\ todo' = [todo EXCEPT ![j] = @ \ {f}]
  /\ UNCHANGED <<claims, pc, plan, touched, materialized, status, contended>>

-----------------------------------------------------------------------------
(* Risk backfill and Wikidata refresh.                                     *)

StartBackfill(j) ==
  /\ \E s \in RiskSource :
       \E proposed \in SUBSET [source : {s}, canonical : CurrentIds(canonical_formats),
                               rule : Rule] :
         Start(j, s, proposed)
  /\ Goto(j, "existing")
  /\ UNCHANGED preflight

(* The preflight: every copied identifier resolves, so every edge of the   *)
(* projection is about a current canonical.                                *)
StartRefresh(j) ==
  /\ \E proposed \in SUBSET [source : {Wikidata},
                             canonical : CurrentIds(canonical_formats), rule : Rule] :
       Start(j, Wikidata, proposed)
  /\ preflight' = [preflight EXCEPT ![j] = ClaimsOf(Wikidata)]
  /\ Goto(j, "reread")

(* The backfill inside the refresh reads the registry again and projects   *)
(* the same records onto it; the counts have to be those of the preflight. *)
SameCounts(j) ==
  /\ Cardinality(CurrentIds(canonical_formats)) = Cardinality(CurrentIds(view[j]))
  /\ Targets(generated[j]) \subseteq CurrentIds(canonical_formats)

ReadAgain(j) ==
  /\ pc[j] = "reread"
  /\ IF SameCounts(j)
     THEN /\ view' = [view EXCEPT ![j] = canonical_formats]
          /\ Goto(j, "existing")
          /\ UNCHANGED status
     ELSE /\ status' = [status EXCEPT ![j] = "write_failed"]
          /\ Goto(j, "finish")
          /\ UNCHANGED view
  /\ UNCHANGED <<store, kind, generated, preflight, touched, materialized,
                 todo, contended>>

(* A refresh remembers whether as many claims are superseded as its        *)
(* preflight said would be.                                                *)
RemovalsAsPlanned(j) ==
  status' = [status EXCEPT ![j] =
    IF kind[j] = Wikidata /\ Cardinality(ClaimsOf(Wikidata) \ generated[j])
                              # Cardinality(preflight[j] \ generated[j])
    THEN "diverged" ELSE @]

(* Supersedes only where there is a new claim on the same canonical. *)
WrongReadExisting(j) ==
  /\ pc[j] = "existing"
  /\ todo' = [todo EXCEPT ![j] = {c \in ClaimsOf(kind[j]) :
                 \E g \in generated[j] : g.canonical = c.canonical} \ generated[j]]
  /\ touched' = [touched EXCEPT
       ![j] = Targets(generated[j] \cup ClaimsOf(kind[j])) \cap CurrentIds(view[j])]
  /\ RemovalsAsPlanned(j)
  /\ Goto(j, "supersede")
  /\ UNCHANGED <<store, plan, materialized, contended>>

(* _current_source_claims, _superseded_claims and the touched canonicals   *)
ReadExisting(j) ==
  /\ pc[j] = "existing"
  /\ todo' = [todo EXCEPT ![j] = ClaimsOf(kind[j]) \ generated[j]]
  /\ touched' = [touched EXCEPT
       ![j] = Targets(generated[j] \cup ClaimsOf(kind[j])) \cap CurrentIds(view[j])]
  /\ RemovalsAsPlanned(j)
  /\ Goto(j, "supersede")
  /\ UNCHANGED <<store, plan, materialized, contended>>

SupersedeClaim(j) ==
  /\ pc[j] = "supersede"
  /\ \E c \in todo[j] :
       /\ claims' = [claims EXCEPT ![c] = "superseded"]
       /\ todo' = [todo EXCEPT ![j] = @ \ {c}]
  /\ UNCHANGED <<canonical_formats, pc, plan, touched, materialized, status,
                 contended>>

(* Attaches the claims before it saves them. *)
WrongBeginSaveClaims(j) ==
  /\ pc[j] = "supersede"
  /\ todo[j] = {}
  /\ todo' = [todo EXCEPT ![j] = touched[j]]
  /\ materialized' = [materialized EXCEPT ![j] = generated[j]]
  /\ Goto(j, "upsert")
  /\ UNCHANGED <<store, plan, touched, status, contended>>

BeginSaveClaims(j) ==
  /\ pc[j] = "supersede"
  /\ todo[j] = {}
  /\ todo' = [todo EXCEPT ![j] = generated[j]]
  /\ Goto(j, "save")
  /\ UNCHANGED <<store, plan, touched, materialized, status, contended>>

SaveClaim(j) ==
  /\ pc[j] = "save"
  /\ \E c \in todo[j] :
       /\ claims' = [claims EXCEPT ![c] = "current"]
       /\ todo' = [todo EXCEPT ![j] = @ \ {c}]
  /\ UNCHANGED <<canonical_formats, pc, plan, touched, materialized, status,
                 contended>>

(* A risk backfill attaches what it generated; the Wikidata backfill       *)
(* attaches the relationship claims it now finds in the store.             *)
BeginMaterialize(j) ==
  /\ pc[j] = "save"
  /\ todo[j] = {}
  /\ todo' = [todo EXCEPT ![j] = touched[j]]
  /\ materialized' = [materialized EXCEPT
       ![j] = IF kind[j] = Wikidata THEN ClaimsOf(Wikidata) ELSE generated[j]]
  /\ Goto(j, "upsert")
  /\ UNCHANGED <<store, plan, touched, status, contended>>

-----------------------------------------------------------------------------
(* What of the document it read a job carries over: a registry job builds  *)
(* documents anew, a claim job replaces the claims of its own source.      *)
Base(j, f) ==
  IF kind[j] \in {"pipeline", "rebuild"} THEN {}
  ELSE {c \in view[j][f].attached : c.source # kind[j]}

UpsertCanonical(j) ==
  /\ pc[j] = "upsert"
  /\ \E f \in todo[j] :
       /\ canonical_formats' = [canonical_formats EXCEPT
            ![f] = [state |-> "current",
                    attached |-> Base(j, f) \cup On(materialized[j], f)]]
       /\ todo' = [todo EXCEPT ![j] = @ \ {f}]
  /\ UNCHANGED <<claims, pc, plan, touched, materialized, status, contended>>

AttachedEdges == {c \in UNION {canonical_formats[f].attached :
                                 f \in CurrentIds(canonical_formats)} :
                    c.source = Wikidata}

(* Counts the claims, but not what is attached. *)
WrongVerified(j) ==
  /\ Cardinality(ClaimsOf(Wikidata)) = Cardinality(generated[j])
  /\ Cardinality(Targets(ClaimsOf(Wikidata))) = Cardinality(Targets(generated[j]))

(* verify_wikidata_relationship_persistence compares counts. *)
Verified(j) ==
  /\ Cardinality(CurrentIds(canonical_formats)) = Cardinality(CurrentIds(view[j]))
  /\ Cardinality(ClaimsOf(Wikidata)) = Cardinality(generated[j])
  /\ Cardinality(Targets(ClaimsOf(Wikidata))) = Cardinality(Targets(generated[j]))
  /\ Cardinality(AttachedEdges) = Cardinality(generated[j])
  /\ Cardinality(Targets(AttachedEdges)) = Cardinality(Targets(generated[j]))

EndUpserts(j) ==
  /\ pc[j] = "upsert"
  /\ kind[j] \in ClaimSource
  /\ todo[j] = {}
  /\ Goto(j, IF kind[j] = Wikidata THEN "verify" ELSE "finish")
  /\ UNCHANGED <<store, plan, touched, materialized, todo, status, contended>>

Verify(j) ==
  /\ pc[j] = "verify"
  /\ status' = [status EXCEPT
       ![j] = IF status[j] # "diverged" /\ Verified(j) THEN "completed" ELSE "verification_failed"]
  /\ Goto(j, "finish")
  /\ UNCHANGED <<store, plan, touched, materialized, todo, contended>>

EndRemovals(j) ==
  /\ pc[j] = "remove"
  /\ todo[j] = {}
  /\ Goto(j, "finish")
  /\ UNCHANGED <<store, plan, touched, materialized, todo, status, contended>>

(* The job is over, or its process is killed; its memory is gone. *)
Forget(j) ==
  /\ Goto(j, "over")
  /\ kind' = [kind EXCEPT ![j] = "pipeline"]
  /\ view' = [view EXCEPT ![j] = NoView]
  /\ generated' = [generated EXCEPT ![j] = {}]
  /\ preflight' = [preflight EXCEPT ![j] = {}]
  /\ touched' = [touched EXCEPT ![j] = {}]
  /\ materialized' = [materialized EXCEPT ![j] = {}]
  /\ todo' = [todo EXCEPT ![j] = {}]
  /\ status' = [status EXCEPT ![j] = "none"]
  /\ contended' = [contended EXCEPT ![j] = FALSE]
  /\ UNCHANGED store

Finish(j) == pc[j] = "finish" /\ Forget(j)

Crash(j) == pc[j] \in Active \ {"finish"} /\ Forget(j)

-----------------------------------------------------------------------------
RegistryJobStep(j) ==
  Reconcile(j) \/ BeginRemovals(j) \/ MarkRemoved(j) \/ EndRemovals(j)

ClaimJobStep(j) ==
  \/ ReadAgain(j)
  \/ ReadExisting(j)
  \/ SupersedeClaim(j)
  \/ BeginSaveClaims(j)
  \/ SaveClaim(j)
  \/ BeginMaterialize(j)
  \/ EndUpserts(j)
  \/ Verify(j)

Next ==
  \E j \in Job :
    \/ StartRegistryJob(j)
    \/ StartBackfill(j)
    \/ StartRefresh(j)
    \/ RegistryJobStep(j)
    \/ ClaimJobStep(j)
    \/ UpsertCanonical(j)
    \/ Finish(j)
    \/ Crash(j)

Spec == Init /\ [][Next]_vars

-----------------------------------------------------------------------------
(* Properties.                                                             *)

TypeOK ==
  /\ canonical_formats \in [Format -> Document]
  /\ claims \in [Claim -> {"absent", "current", "superseded"}]
  /\ pc \in [Job -> {"idle", "over"} \cup Active]
  /\ kind \in [Job -> Kind]
  /\ view \in [Job -> [Format -> Document]]
  /\ generated \in [Job -> SUBSET Claim]
  /\ preflight \in [Job -> SUBSET Claim]
  /\ touched \in [Job -> SUBSET Format]
  /\ materialized \in [Job -> SUBSET Claim]
  /\ todo \in [Job -> (SUBSET Claim) \cup (SUBSET Format)]
  /\ status \in [Job -> {"none", "diverged", "completed", "write_failed",
                      "verification_failed"}]
  /\ contended \in [Job -> BOOLEAN]

(* What a canonical document carries was claimed: claims are written       *)
(* before they are attached, and no job, dying or overlapping with others  *)
(* as it may, leaves an assessment or relationship nobody can trace.       *)
AttachedWasClaimed ==
  \A f \in Format : \A c \in canonical_formats[f].attached :
    c.canonical = f /\ claims[c] # "absent"

(* A pipeline run that had the store to itself leaves every current        *)
(* canonical with exactly its current claims, whatever jobs died or raced  *)
(* before it: the view is derived anew from the claims.                    *)
PipelineRestoresView ==
  \A j \in Job :
    pc[j] = "finish" /\ kind[j] = "pipeline" /\ ~contended[j] =>
      \A f \in CurrentIds(canonical_formats) :
        canonical_formats[f].attached = On(CurrentClaims, f)

(* A backfill or refresh that had the store to itself leaves exactly the   *)
(* claims it generated current for its source, also after earlier ones     *)
(* that died half way or raced.                                            *)
SourceClaimsReplaced ==
  \A j \in Job :
    pc[j] \in {"upsert", "verify", "finish"} /\ kind[j] \in ClaimSource /\ ~contended[j]
      => status[j] = "write_failed" \/ ClaimsOf(kind[j]) = generated[j]

(* A refresh that had the store to itself and reports "completed" left     *)
(* every current canonical with its current Wikidata relationships and no  *)
(* others: leftovers of jobs that died make it report a failure.           *)
CompletedRefreshIsCoherent ==
  \A j \in Job :
    pc[j] = "finish" /\ status[j] = "completed" /\ ~contended[j] =>
      \A f \in CurrentIds(canonical_formats) :
        On(AttachedEdges, f) = On(ClaimsOf(Wikidata), f)

=============================================================================
