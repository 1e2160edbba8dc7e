----------------------------- MODULE LocBridge -----------------------------
(***************************************************************************)
(* From the crosswalk of the Library of Congress to bridges between its    *)
(* format descriptions (FDDs) and PRONOM's PUIDs.                          *)
(*                                                                         *)
(* The crosswalk itself is evidence and joins nothing.  Four commands, run *)
(* by an operator with pipeline runs in between, each leave a file for the *)
(* next: the rows, their classification, what the registry's authorities   *)
(* confirm of them, and the bridges the policy approves.  A source of the  *)
(* pipeline reads the last file and claims each FDD's PUID; the pipeline   *)
(* joins the two as it joins any copied identifier (RegistryIdentity).     *)
(*                                                                         *)
(* Column names, the wording of notes and titles are left to the instance. *)
(***************************************************************************)
EXTENDS Integers, Sequences, FiniteSets

CONSTANTS
  FddId, PuidId,   \* identifiers of the two authorities
  CrosswalkRow,    \* rows of the crosswalk
  RowText,         \* row -> columns, signals of its note, and its title
  Edition,         \* the monthly editions, in order: sets of rows
  Registered,      \* authority records a run may hold: [loc, pronom]
  LocCopies,       \* FDD -> the PUIDs its own LOC record copies
  TitleOf,         \* FDD or PUID -> the name of its authority record
  VersionsIn,      \* name -> its version tokens
  BroadNames,      \* names of families and the like
  NoFile,          \* a command has not left its file yet
  MaxRuns          \* bound: pipeline runs

VARIABLES
  month,       \* the number of the edition that is published
  entries,     \* file of the download: rows, or NoFile
  review,      \* file of the review: row -> status, or NoFile
  verifying,   \* the verification: what is left of its input, what it found
  verified,    \* its file: row -> status, with the registry it saw, or NoFile
  approved,    \* file of the approved bridges, or NoFile
  authorities, \* authority records of the current registry
  bridged,     \* bridges of the current registry
  runsMade     \* pipeline runs so far

bridgeVars == <<month, entries, review, verifying, verified, approved,
                authorities, bridged, runsMade>>

NotVerifying == [on |-> FALSE, left |-> {}, found |-> <<>>, steady |-> TRUE]

BridgeStart(registered) ==
  /\ month = 1
  /\ entries = NoFile /\ review = NoFile /\ verified = NoFile /\ approved = NoFile
  /\ verifying = NotVerifying
  /\ authorities = registered
  /\ bridged = {}
  /\ runsMade = 0

BridgeInit == \E registered \in Registered : BridgeStart(registered)

-----------------------------------------------------------------------------
(* Download and review.                                                    *)

\* Identifiers count only in the columns that own them; a row without any
\* text is no entry.
FddsOf(r) == RowText[r].fddColumn
PuidsOf(r) == RowText[r].puidColumn

ASSUME BridgeConstants ==
  /\ Edition \in Seq(SUBSET CrosswalkRow) \ {<<>>}
  /\ \A r \in CrosswalkRow :
       /\ IsFiniteSet(FddsOf(r)) /\ FddsOf(r) \subseteq FddId
       /\ IsFiniteSet(PuidsOf(r)) /\ PuidsOf(r) \subseteq PuidId

DownloadCrosswalk ==
  /\ ~verifying.on
  /\ entries' = {r \in Edition[month] : ~RowText[r].blank}
  /\ UNCHANGED <<month, review, verifying, verified, approved, authorities,
                 bridged, runsMade>>

MappingStatus(r) ==
  IF Cardinality(PuidsOf(r)) > 1 THEN "direct_multiple_review"
  ELSE IF Cardinality(PuidsOf(r)) = 1 THEN
    IF "review" \in RowText[r].signals THEN "direct_single_review"
                                       ELSE "direct_single_candidate"
  ELSE IF "no match" \in RowText[r].signals THEN "no_mapping"
  ELSE IF RowText[r].note THEN "contextual_only"
  ELSE "unmapped"

ReviewEntries ==
  /\ ~verifying.on
  /\ entries # NoFile
  /\ review' = [r \in entries |-> MappingStatus(r)]
  /\ UNCHANGED <<month, entries, verifying, verified, approved, authorities,
                 bridged, runsMade>>

-----------------------------------------------------------------------------
(* The registry.                                                           *)

IsBroad(name) == name \in BroadNames

NamesAgree(a, b) == VersionsIn[a] = VersionsIn[b]

\* The PUIDs an FDD's group copies and PRONOM verifies.
Targets(f) ==
  {p \in authorities.pronom :
     <<f, p>> \in bridged \/ (f \in authorities.loc /\ p \in LocCopies[f])}

\* The canonical format of an FDD: that of the one PUID it leads to, unless
\* their names keep them apart.
CanonicalOf(f) ==
  IF \E p \in Targets(f) : /\ Targets(f) = {p}
                           /\ ~IsBroad(TitleOf[f])
                           /\ NamesAgree(TitleOf[f], TitleOf[p])
    THEN CHOOSE p \in Targets(f) : TRUE
    ELSE f

\* find_by_identifier finds an FDD that only a bridge brings, too.
LocFound(f) == f \in authorities.loc \/ \E p \in PuidId : <<f, p>> \in bridged

\* A PUID that others merely copy is in no index.
PronomFound(p) == p \in authorities.pronom

-----------------------------------------------------------------------------
(* Verification against the registry, one row after the other, while runs  *)
(* may replace it.                                                         *)

StartVerification ==
  /\ review # NoFile
  /\ ~verifying.on
  /\ verifying' = [on |-> TRUE,
                   left |-> {r \in DOMAIN review : review[r] = "direct_single_candidate"},
                   found |-> <<>>, steady |-> TRUE]
  /\ UNCHANGED <<month, entries, review, verified, approved, authorities,
                 bridged, runsMade>>

TheFdd(r) == CHOOSE f \in FddsOf(r) : TRUE
ThePuid(r) == CHOOSE p \in PuidsOf(r) : TRUE

StatusInRegistry(r) ==
  LET f == TheFdd(r)
      p == ThePuid(r)
  IN
    IF Cardinality(FddsOf(r)) # 1 THEN "candidate_shape_invalid"
    ELSE IF ~LocFound(f) THEN "loc_target_missing"
    ELSE IF ~PronomFound(p) THEN "pronom_target_missing"
    ELSE IF f \notin authorities.loc THEN "authority_claim_missing"
    ELSE IF IsBroad(RowText[r].title) THEN "broad_scope_review"
    ELSE IF ~NamesAgree(RowText[r].title, TitleOf[p])
      THEN "version_conflict_or_scope_review"
    ELSE IF CanonicalOf(f) = p THEN "already_reconciled_authoritatively"
    ELSE "bridge_candidate_authority_confirmed"

VerifyRow(r) ==
  /\ r \in verifying.left
  /\ verifying' =
       [verifying EXCEPT
          !.left = @ \ {r},
          !.found = [q \in DOMAIN @ \cup {r} |->
                       IF q = r THEN StatusInRegistry(r) ELSE @[q]]]
  /\ UNCHANGED <<month, entries, review, verified, approved, authorities,
                 bridged, runsMade>>

\* The slip: a PUID that is joined already leaves room for a bridge.
WrongOneToOne == {"bridge_candidate_authority_confirmed"}

OneToOne ==
  {"bridge_candidate_authority_confirmed", "already_reconciled_authoritatively"}

Contested(found, r) ==
  /\ found[r] \in OneToOne
  /\ \E q \in DOMAIN found \ {r} : found[q] \in OneToOne /\ ThePuid(q) = ThePuid(r)

\* Rows that share a PUID go to review, all of them.
FinishVerification ==
  /\ verifying.on /\ verifying.left = {}
  /\ verified' = [status |-> [r \in DOMAIN verifying.found |->
                                IF Contested(verifying.found, r)
                                  THEN "many_to_one_scope_review"
                                  ELSE verifying.found[r]],
                  steady |-> verifying.steady,
                  registry |-> authorities,
                  joined |-> {<<f, CanonicalOf(f)>> : f \in FddId}]
  /\ verifying' = NotVerifying
  /\ UNCHANGED <<month, entries, review, approved, authorities, bridged, runsMade>>

-----------------------------------------------------------------------------
(* Approval, and the source that reads it.                                 *)

Approvable(status) ==
  {r \in DOMAIN status : /\ status[r] = "bridge_candidate_authority_confirmed"
                         /\ ~IsBroad(RowText[r].title)}

\* The check for shared PUIDs again, among what is approvable.
ApproveBridges ==
  /\ ~verifying.on
  /\ verified # NoFile /\ review # NoFile
  /\ LET eligible == Approvable(verified.status) IN
       approved' =
         [rules |-> {<<TheFdd(r), ThePuid(r)>> : r \in
                       {q \in eligible : \A s \in eligible \ {q} : ThePuid(s) # ThePuid(q)}},
          basis |-> verified]
  /\ UNCHANGED <<month, entries, review, verifying, verified, authorities,
                 bridged, runsMade>>

\* A run of the pipeline, with the bridges as a source or without; its
\* authorities have other records than before, perhaps.
RunWithBridges(registered, withBridges) ==
  /\ runsMade < MaxRuns
  /\ withBridges => approved # NoFile
  /\ authorities' = registered
  /\ bridged' = IF withBridges THEN approved.rules ELSE bridged
  /\ verifying' = [verifying EXCEPT !.steady = ~verifying.on]
  /\ runsMade' = runsMade + 1
  /\ UNCHANGED <<month, entries, review, verified, approved>>

PublishEdition ==
  /\ month < Len(Edition)
  /\ month' = month + 1
  /\ UNCHANGED <<entries, review, verifying, verified, approved, authorities,
                 bridged, runsMade>>

BridgeNext ==
  \/ DownloadCrosswalk \/ ReviewEntries
  \/ StartVerification \/ FinishVerification \/ ApproveBridges
  \/ \E r \in CrosswalkRow : VerifyRow(r)
  \/ \E registered \in Registered, withBridges \in BOOLEAN :
       RunWithBridges(registered, withBridges)
  \/ PublishEdition

BridgeSpec == BridgeInit /\ [][BridgeNext]_bridgeVars

-----------------------------------------------------------------------------
(* Properties.                                                             *)

\* A row whose FDD and PUID the authorities of a registry confirm, for a
\* format that is neither a family nor of another version.
ConfirmedRow(r, registry) ==
  /\ Cardinality(FddsOf(r)) = 1 /\ FddsOf(r) \subseteq registry.loc
  /\ Cardinality(PuidsOf(r)) = 1 /\ PuidsOf(r) \subseteq registry.pronom
  /\ ~IsBroad(RowText[r].title)
  /\ NamesAgree(RowText[r].title, TitleOf[ThePuid(r)])

\* A bridge is approved for the one row of the crosswalk that claims its
\* PUID, never for one of several, be the others joined to it already; both
\* authorities had their record, and they were not yet one format
\* (build_bridge_mapping: "the PUID occurs in exactly one non-broad
\* approvable LOC row").  It is about verifications that no run disturbed:
\* each row is looked up by itself.
ApprovedBridgesAreOneToOne ==
  approved # NoFile /\ approved.basis.steady =>
    \A bridge \in approved.rules :
      /\ \E r \in DOMAIN approved.basis.status :
           {q \in DOMAIN approved.basis.status :
              /\ ConfirmedRow(q, approved.basis.registry)
              /\ ThePuid(q) = bridge[2]} = {r}
      /\ bridge \notin approved.basis.joined

=============================================================================
