--------------------------- MODULE CurationProofs ---------------------------
(***************************************************************************)
(* What an operator's commands on curated files leave in the registry, and *)
(* what the store answers from what a run leaves in it.                    *)
(*                                                                         *)
(* What the bridge commands approve is one to one, for any crosswalk, any  *)
(* editions and any pipeline runs between and during them.  The property   *)
(* speaks of the approved file only, and is not inductive: it rests on     *)
(* what the verification file says of the registry it saw, and that on     *)
(* what has been looked up so far, as long as no run intervened.           *)
(*                                                                         *)
(* A replacing backfill of criterion claims leaves what its mappings make, *)
(* for any mappings, registries and evidence.                              *)
(*                                                                         *)
(* The store answers what was written through its interface, whatever its  *)
(* backend, its values and their file names.  The property relates what is *)
(* kept to what was written, name by name.                                 *)
(***************************************************************************)
EXTENDS LocBridge, CriterionMapping, RegistryStore, TLAPS, FiniteSetTheorems

\* Rows the review may pass on: one PUID in the column of PUIDs.
Candidate == {r \in CrosswalkRow : Cardinality(PuidsOf(r)) = 1}

FilesInv ==
  /\ month \in 1 .. Len(Edition)
  /\ entries # NoFile => entries \subseteq CrosswalkRow
  /\ review # NoFile =>
       \A r \in DOMAIN review :
         review[r] = "direct_single_candidate" => r \in Candidate

Status ==
  {"candidate_shape_invalid", "loc_target_missing", "pronom_target_missing",
   "authority_claim_missing", "broad_scope_review",
   "version_conflict_or_scope_review", "already_reconciled_authoritatively",
   "bridge_candidate_authority_confirmed"}

Statuses == UNION {[S -> Status] : S \in SUBSET Candidate}

\* What is found so far is what the registry says, unless it was replaced.
VerifyingInv ==
  /\ verifying \in [on : BOOLEAN, left : SUBSET Candidate, found : Statuses,
                    steady : BOOLEAN]
  /\ verifying.on /\ verifying.steady =>
       \A r \in DOMAIN verifying.found : verifying.found[r] = StatusInRegistry(r)

\* A row that may be approved is confirmed, alone in that, and no join yet.
VerifiedInv ==
  verified # NoFile /\ verified.steady =>
    \A r \in DOMAIN verified.status :
      verified.status[r] = "bridge_candidate_authority_confirmed" =>
        /\ ConfirmedRow(r, verified.registry)
        /\ <<TheFdd(r), ThePuid(r)>> \notin verified.joined
        /\ \A q \in DOMAIN verified.status \ {r} :
             ConfirmedRow(q, verified.registry) => ThePuid(q) # ThePuid(r)

BridgeInv ==
  FilesInv /\ VerifyingInv /\ VerifiedInv /\ ApprovedBridgesAreOneToOne

-----------------------------------------------------------------------------
(* Rows and their status.                                                  *)

LEMMA OnePuid ==
  ASSUME NEW r \in Candidate
  PROVE  PuidsOf(r) = {ThePuid(r)}
<1>1. IsFiniteSet(PuidsOf(r)) /\ Cardinality(PuidsOf(r)) = 1
  BY BridgeConstants DEF Candidate
<1>2. PICK p : PuidsOf(r) = {p}
  BY <1>1, FS_Singleton
<1>. QED
  BY <1>2 DEF ThePuid

LEMMA OneFdd ==
  ASSUME NEW r \in Candidate, Cardinality(FddsOf(r)) = 1
  PROVE  FddsOf(r) = {TheFdd(r)} /\ TheFdd(r) \in FddId
<1>1. IsFiniteSet(FddsOf(r)) /\ FddsOf(r) \subseteq FddId
  BY BridgeConstants DEF Candidate
<1>2. PICK f : FddsOf(r) = {f}
  BY <1>1, FS_Singleton
<1>. QED
  BY <1>1, <1>2 DEF TheFdd

\* MappingStatus calls no row with several PUIDs, or none, a single candidate.
LEMMA OnlyCandidates ==
  ASSUME NEW r \in CrosswalkRow, MappingStatus(r) = "direct_single_candidate"
  PROVE  r \in Candidate
<1>1. IsFiniteSet(PuidsOf(r))
  BY BridgeConstants
<1>2. Cardinality(PuidsOf(r)) \in Nat
  BY <1>1, FS_CardinalityType
<1>3. Cardinality(PuidsOf(r)) = 1
  BY <1>2, SMT DEF MappingStatus
<1>. QED
  BY <1>3 DEF Candidate

LEMMA StatusType ==
  ASSUME NEW r \in Candidate
  PROVE  StatusInRegistry(r) \in Status
BY DEF StatusInRegistry, Status

\* The authorities confirm a row exactly if it may be bridged or is joined.
LEMMA StatusOfConfirmed ==
  ASSUME NEW r \in Candidate
  PROVE  ConfirmedRow(r, authorities) <=> StatusInRegistry(r) \in OneToOne
<1>1. PuidsOf(r) = {ThePuid(r)} /\ Cardinality(PuidsOf(r)) = 1
  BY OnePuid DEF Candidate
<1>2. CASE Cardinality(FddsOf(r)) # 1
  BY <1>2 DEF ConfirmedRow, StatusInRegistry, OneToOne
<1>3. CASE Cardinality(FddsOf(r)) = 1
  <2>1. FddsOf(r) = {TheFdd(r)}
    BY <1>3, OneFdd
  <2>2. TheFdd(r) \in authorities.loc => LocFound(TheFdd(r))
    BY DEF LocFound
  <2>. QED
    BY <1>1, <1>3, <2>1, <2>2
       DEF ConfirmedRow, StatusInRegistry, OneToOne, PronomFound
<1>. QED
  BY <1>2, <1>3

\* A row that awaits its bridge is not of one format with its PUID.
LEMMA NotYetJoined ==
  ASSUME NEW r \in Candidate,
         StatusInRegistry(r) = "bridge_candidate_authority_confirmed"
  PROVE  <<TheFdd(r), ThePuid(r)>> \notin {<<f, CanonicalOf(f)>> : f \in FddId}
<1>1. CanonicalOf(TheFdd(r)) # ThePuid(r)
  BY DEF StatusInRegistry
<1>. QED
  BY <1>1

-----------------------------------------------------------------------------
(* The steps.                                                              *)

LEMMA InitInv == BridgeInit => BridgeInv
<1>. SUFFICES ASSUME BridgeInit PROVE BridgeInv
  OBVIOUS
<1>1. PICK registered \in Registered : BridgeStart(registered)
  BY DEF BridgeInit
<1>2. FilesInv
  <2>1. Len(Edition) \in Nat \ {0}
    BY BridgeConstants
  <2>. QED
    BY <1>1, <2>1 DEF BridgeStart, FilesInv
<1>3. <<>> \in Statuses
  <2>1. <<>> \in [{} -> Status]
    OBVIOUS
  <2>. QED
    BY <2>1 DEF Statuses
<1>4. VerifyingInv
  BY <1>1, <1>3 DEF BridgeStart, NotVerifying, VerifyingInv
<1>. QED
  BY <1>1, <1>2, <1>4
     DEF BridgeStart, BridgeInv, VerifiedInv, ApprovedBridgesAreOneToOne

LEMMA FilesStep == FilesInv /\ [BridgeNext]_bridgeVars => FilesInv'
<1>. SUFFICES ASSUME FilesInv, [BridgeNext]_bridgeVars PROVE FilesInv'
  OBVIOUS
<1>1. CASE DownloadCrosswalk
  <2>1. Edition[month] \subseteq CrosswalkRow
    BY BridgeConstants DEF FilesInv
  <2>. QED
    BY <1>1, <2>1 DEF DownloadCrosswalk, FilesInv
<1>2. CASE ReviewEntries
  <2>1. \A r \in entries : MappingStatus(r) = "direct_single_candidate" => r \in Candidate
    BY <1>2, OnlyCandidates DEF ReviewEntries, FilesInv
  <2>. QED
    BY <1>2, <2>1 DEF ReviewEntries, FilesInv
<1>3. CASE PublishEdition
  BY <1>3, BridgeConstants DEF PublishEdition, FilesInv
<1>4. CASE UNCHANGED <<month, entries, review>>
  BY <1>4 DEF FilesInv
<1>. QED
  BY <1>1, <1>2, <1>3, <1>4
     DEF BridgeNext, bridgeVars, StartVerification, FinishVerification,
         ApproveBridges, VerifyRow, RunWithBridges

LEMMA VerifyingStep ==
  FilesInv /\ VerifyingInv /\ [BridgeNext]_bridgeVars => VerifyingInv'
<1>. SUFFICES ASSUME FilesInv, VerifyingInv, [BridgeNext]_bridgeVars
              PROVE  VerifyingInv'
  OBVIOUS
<1>0. <<>> \in Statuses /\ DOMAIN <<>> = {}
  <2>1. <<>> \in [{} -> Status]
    OBVIOUS
  <2>. QED
    BY <2>1 DEF Statuses
<1>1. CASE StartVerification
  <2>1. {r \in DOMAIN review : review[r] = "direct_single_candidate"} \subseteq Candidate
    BY <1>1 DEF StartVerification, FilesInv
  <2>. QED
    BY <1>0, <1>1, <2>1 DEF StartVerification, VerifyingInv
<1>2. ASSUME NEW r \in CrosswalkRow, VerifyRow(r) PROVE VerifyingInv'
  <2>. DEFINE now == [q \in DOMAIN verifying.found \cup {r} |->
                        IF q = r THEN StatusInRegistry(r) ELSE verifying.found[q]]
  <2>1. r \in Candidate /\ DOMAIN verifying.found \subseteq Candidate
    BY <1>2 DEF VerifyRow, VerifyingInv, Statuses
  <2>2. \A q \in DOMAIN verifying.found : verifying.found[q] \in Status
    BY DEF VerifyingInv, Statuses
  <2>3. now \in [DOMAIN verifying.found \cup {r} -> Status]
    BY <2>1, <2>2, StatusType
  <2>4. now \in Statuses
    BY <2>1, <2>3 DEF Statuses
  <2>5. verifying' = [verifying EXCEPT !.left = @ \ {r}, !.found = now]
    BY <1>2 DEF VerifyRow
  <2>6. \A q \in DOMAIN now : StatusInRegistry(q)' = StatusInRegistry(q)
    BY <1>2 DEF VerifyRow, StatusInRegistry, LocFound, PronomFound, CanonicalOf, Targets
  <2>7. verifying.on /\ verifying.steady =>
          \A q \in DOMAIN now : now[q] = StatusInRegistry(q)
    BY DEF VerifyingInv
  <2>8. verifying' \in [on : BOOLEAN, left : SUBSET Candidate, found : Statuses,
                        steady : BOOLEAN]
    BY <2>4, <2>5 DEF VerifyingInv
  <2>9. verifying'.on = verifying.on /\ verifying'.steady = verifying.steady
          /\ verifying'.found = now
    BY <2>5 DEF VerifyingInv
  <2>. HIDE DEF now
  <2>. QED
    BY <2>6, <2>7, <2>8, <2>9 DEF VerifyingInv
<1>3. CASE FinishVerification
  BY <1>0, <1>3 DEF FinishVerification, NotVerifying, VerifyingInv
<1>4. ASSUME NEW registered \in Registered, NEW withBridges \in BOOLEAN,
             RunWithBridges(registered, withBridges)
      PROVE  VerifyingInv'
  <2>1. verifying' = [verifying EXCEPT !.steady = ~verifying.on]
    BY <1>4 DEF RunWithBridges
  <2>2. verifying'.steady = ~verifying'.on
    BY <2>1 DEF VerifyingInv
  <2>. QED
    BY <2>1, <2>2 DEF VerifyingInv
<1>5. CASE UNCHANGED <<verifying, authorities, bridged>>
  <2>1. \A q : StatusInRegistry(q)' = StatusInRegistry(q)
    BY <1>5 DEF StatusInRegistry, LocFound, PronomFound, CanonicalOf, Targets
  <2>. QED
    BY <1>5, <2>1 DEF VerifyingInv
<1>. QED
  BY <1>1, <1>2, <1>3, <1>4, <1>5
     DEF BridgeNext, bridgeVars, DownloadCrosswalk, ReviewEntries,
         ApproveBridges, PublishEdition

\* Contested rows are all that stand in each other's way.
LEMMA VerifiedStep ==
  VerifyingInv /\ VerifiedInv /\ [BridgeNext]_bridgeVars => VerifiedInv'
<1>. SUFFICES ASSUME VerifyingInv, VerifiedInv, [BridgeNext]_bridgeVars
              PROVE  VerifiedInv'
  OBVIOUS
<1>1. CASE FinishVerification
  <2>. DEFINE found == verifying.found
  <2>1. DOMAIN found \subseteq Candidate
    BY DEF VerifyingInv, Statuses
  <2>2. /\ verified'.status = [r \in DOMAIN found |-> IF Contested(found, r)
                                 THEN "many_to_one_scope_review" ELSE found[r]]
        /\ verified'.registry = authorities
        /\ verified'.joined = {<<f, CanonicalOf(f)>> : f \in FddId}
        /\ verified'.steady = verifying.steady
    BY <1>1 DEF FinishVerification
  <2>3. DOMAIN verified'.status = DOMAIN found
    BY <2>2
  <2>4. SUFFICES ASSUME verifying.steady, NEW r \in DOMAIN found,
                        verified'.status[r] = "bridge_candidate_authority_confirmed"
                 PROVE  /\ ConfirmedRow(r, authorities)
                        /\ <<TheFdd(r), ThePuid(r)>> \notin {<<f, CanonicalOf(f)>> : f \in FddId}
                        /\ \A q \in DOMAIN found \ {r} :
                             ConfirmedRow(q, authorities) => ThePuid(q) # ThePuid(r)
    <3>. HIDE DEF found
    <3>. QED
      BY <2>2, <2>3 DEF VerifiedInv, ConfirmedRow, TheFdd, ThePuid, FddsOf, PuidsOf,
                        IsBroad, NamesAgree
  <2>5. ~Contested(found, r) /\ found[r] = "bridge_candidate_authority_confirmed"
    BY <2>2, <2>4
  <2>6. \A q \in DOMAIN found : found[q] = StatusInRegistry(q)
    BY <1>1, <2>4 DEF FinishVerification, VerifyingInv
  <2>7. found[r] \in OneToOne
    BY <2>5 DEF OneToOne
  <2>8. \A q \in DOMAIN found : ConfirmedRow(q, authorities) <=> found[q] \in OneToOne
    BY <2>1, <2>6, StatusOfConfirmed
  <2>9. <<TheFdd(r), ThePuid(r)>> \notin {<<f, CanonicalOf(f)>> : f \in FddId}
    BY <2>1, <2>5, <2>6, NotYetJoined
  <2>. QED
    BY <2>5, <2>7, <2>8, <2>9 DEF Contested
<1>2. CASE UNCHANGED verified
  BY <1>2 DEF VerifiedInv, ConfirmedRow, TheFdd, ThePuid, FddsOf, PuidsOf, IsBroad, NamesAgree
<1>. QED
  BY <1>1, <1>2
     DEF BridgeNext, bridgeVars, DownloadCrosswalk, ReviewEntries, StartVerification,
         ApproveBridges, VerifyRow, RunWithBridges, PublishEdition

LEMMA ApprovedStep ==
  VerifiedInv /\ ApprovedBridgesAreOneToOne /\ [BridgeNext]_bridgeVars
    => ApprovedBridgesAreOneToOne'
<1>. SUFFICES ASSUME VerifiedInv, ApprovedBridgesAreOneToOne, [BridgeNext]_bridgeVars
              PROVE  ApprovedBridgesAreOneToOne'
  OBVIOUS
<1>1. CASE ApproveBridges
  <2>1. approved'.basis = verified /\ verified # NoFile
    BY <1>1 DEF ApproveBridges
  <2>2. \A bridge \in approved'.rules :
          \E r \in Approvable(verified.status) : bridge = <<TheFdd(r), ThePuid(r)>>
    BY <1>1 DEF ApproveBridges
  <2>. SUFFICES ASSUME verified.steady, NEW bridge \in approved'.rules
                PROVE  /\ \E r \in DOMAIN verified.status :
                            {q \in DOMAIN verified.status :
                               /\ ConfirmedRow(q, verified.registry)
                               /\ ThePuid(q) = bridge[2]} = {r}
                       /\ bridge \notin verified.joined
    BY <2>1, ZenonT(60) DEF ApprovedBridgesAreOneToOne, ConfirmedRow, TheFdd, ThePuid, FddsOf,
                PuidsOf, IsBroad, NamesAgree
  <2>3. PICK r \in Approvable(verified.status) : bridge = <<TheFdd(r), ThePuid(r)>>
    BY <2>2
  <2>4. r \in DOMAIN verified.status
        /\ verified.status[r] = "bridge_candidate_authority_confirmed"
    BY DEF Approvable
  <2>5. /\ ConfirmedRow(r, verified.registry)
        /\ <<TheFdd(r), ThePuid(r)>> \notin verified.joined
        /\ \A q \in DOMAIN verified.status \ {r} :
             ConfirmedRow(q, verified.registry) => ThePuid(q) # ThePuid(r)
    BY <2>1, <2>4 DEF VerifiedInv
  <2>6. bridge[2] = ThePuid(r)
    BY <2>3
  <2>7. {q \in DOMAIN verified.status : /\ ConfirmedRow(q, verified.registry)
                                        /\ ThePuid(q) = bridge[2]} = {r}
    BY <2>4, <2>5, <2>6
  <2>. QED
    BY <2>3, <2>4, <2>5, <2>7
<1>2. CASE UNCHANGED approved
  BY <1>2 DEF ApprovedBridgesAreOneToOne, ConfirmedRow, TheFdd, ThePuid, FddsOf,
              PuidsOf, IsBroad, NamesAgree
<1>. QED
  BY <1>1, <1>2
     DEF BridgeNext, bridgeVars, DownloadCrosswalk, ReviewEntries, StartVerification,
         FinishVerification, VerifyRow, RunWithBridges, PublishEdition

\* No PUID that several confirmed rows of the crosswalk claim, and none that
\* its FDD is joined to already, is bridged by policy, whatever the crosswalk
\* says and whatever runs came before a verification or after it; only a run
\* in the middle of one may spoil it (verify_review_entries,
\* build_bridge_mapping).
THEOREM BridgesAreOneToOne == BridgeSpec => []ApprovedBridgesAreOneToOne
<1>1. BridgeInv /\ [BridgeNext]_bridgeVars => BridgeInv'
  BY FilesStep, VerifyingStep, VerifiedStep, ApprovedStep DEF BridgeInv
<1>2. BridgeInv => ApprovedBridgesAreOneToOne
  BY DEF BridgeInv
<1>. QED
  BY InitInv, <1>1, <1>2, PTL DEF BridgeSpec

-----------------------------------------------------------------------------
(* The backfill of criterion claims.  A claim it made is on its list or in *)
(* place; a current claim of a mapped source that it did not make is on    *)
(* the list of those to retire.  A run in between may change the claims,   *)
(* and the backfill is not alone any more.                                 *)

ClaimsWellFormed ==
  \A k \in DOMAIN claims :
    claims[k] = [value |-> claims[k].value, current |-> claims[k].current]

OthersKept ==
  /\ mapping \in Mappings
  /\ backfill.rules \in Mappings \cup {{}}
  /\ Unmapped.key \in DOMAIN claims /\ claims[Unmapped.key].current = TRUE

InPlace(c) ==
  /\ c.key \in DOMAIN claims /\ claims[c.key].current = TRUE
  /\ [key |-> c.key, value |-> claims[c.key].value] \in backfill.made

MadeIsMapped ==
  \A c \in backfill.made : c = [key |-> c.key, value |-> c.value] /\ Mapped(c.key)

BackfillShape ==
  backfill = [pc |-> backfill.pc, replace |-> backfill.replace,
              rules |-> backfill.rules, view |-> backfill.view,
              made |-> backfill.made, retire |-> backfill.retire,
              write |-> backfill.write, alone |-> backfill.alone]

BackfillInv ==
  /\ BackfillShape
  /\ backfill.pc \in {"idle", "records", "supersede", "write", "done"}
  /\ backfill.write \subseteq backfill.made
  /\ MadeIsMapped
  /\ \A k \in backfill.retire : Mapped(k) /\ k \notin {c.key : c \in backfill.made}
  /\ backfill.pc \in {"records", "supersede"} => backfill.retire = {}
  /\ backfill.pc = "supersede" => backfill.write = backfill.made
  /\ backfill.pc = "done" => backfill.write = {} /\ backfill.retire = {}
  /\ backfill.alone /\ backfill.pc \in {"write", "done"} =>
       /\ \A c \in backfill.made : c \in backfill.write \/ InPlace(c)
       /\ backfill.replace =>
            \A k \in CurrentClaims :
              Mapped(k) => k \in backfill.retire \/ k \in {c.key : c \in backfill.made}

MappingInv == ClaimsWellFormed /\ OthersKept /\ BackfillInv

Built(formats, stored, rules) == BuiltClaims(formats, stored, rules, FALSE)

\* What is built is of the rules at work, so of mapped sources.
LEMMA BuiltAreMapped ==
  ASSUME NEW formats, NEW stored, NEW rules,
         NEW c \in Built(formats, stored, rules)
  PROVE  /\ c = [key |-> c.key, value |-> c.value]
         /\ \E r \in rules : r.source = c.key.source /\ r.id = c.key.rule
<1>1. PICK f \in DOMAIN formats : \E p \in formats[f].refs \X rules :
         /\ SourceMatches(p[2], p[1])
         /\ c \in ClaimsOf(formats, f, p[1], p[2], stored)
  BY DEF Built, BuiltClaims
<1>2. PICK p \in formats[f].refs \X rules :
         /\ SourceMatches(p[2], p[1])
         /\ c \in ClaimsOf(formats, f, p[1], p[2], stored)
  BY <1>1
<1>3. PICK item : c = [key |-> ClaimKey(f, p[1], p[2], item.institution),
                       value |-> ClaimValue(p[2], item.value)]
  BY <1>2 DEF ClaimsOf
<1>4. p[2] \in rules /\ p[2].source = SourceOf(p[1].record)
  BY <1>2 DEF SourceMatches
<1>5. c.key.source = SourceOf(p[1].record) /\ c.key.rule = p[2].id
  BY <1>3 DEF ClaimKey
<1>6. c = [key |-> c.key, value |-> c.value]
  BY <1>3
<1>. QED
  BY <1>4, <1>5, <1>6

LEMMA MappingInitInv == MappingInit => MappingInv
<1>. SUFFICES ASSUME MappingInit PROVE MappingInv
  OBVIOUS
<1>1. ClaimsWellFormed /\ Unmapped.key \in DOMAIN claims
      /\ claims[Unmapped.key].current = TRUE
  BY DEF MappingInit, ClaimsWellFormed
<1>2. backfill = IdleBackfill /\ mapping \in Mappings
  BY DEF MappingInit
<1>3. BackfillInv /\ backfill.rules = {}
  BY <1>2 DEF BackfillInv, BackfillShape, MadeIsMapped, IdleBackfill
<1>. QED
  BY <1>1, <1>2, <1>3 DEF MappingInv, OthersKept

\* A mapped claim is not the one of the source no mapping names.
LEMMA MappedIsOther ==
  ASSUME OthersKept, NEW k, Mapped(k)
  PROVE  k # Unmapped.key
BY MappingConstants DEF OthersKept, Mapped

LEMMA RunKeepsMapping ==
  ASSUME MappingInv, NEW published, NEW evidence, PipelineRun(published, evidence)
  PROVE  MappingInv'
<1>1. backfill' = [backfill EXCEPT !.alone = FALSE] /\ mapping' = mapping
  BY DEF PipelineRun
<1>2. ClaimsWellFormed' /\ Unmapped.key \in DOMAIN claims'
      /\ claims'[Unmapped.key].current = TRUE
  <2>1. CASE claims' = claims
    BY <2>1 DEF MappingInv, ClaimsWellFormed, OthersKept
  <2>2. ASSUME NEW made \in OnePerKey(BuiltClaims(published, records', mapping, FALSE)),
               claims' = AfterRun(made, SupersededByRun(made))
        PROVE  ClaimsWellFormed' /\ Unmapped.key \in DOMAIN claims'
               /\ claims'[Unmapped.key].current = TRUE
    <3>1. made \subseteq Built(published, records', mapping)
      BY DEF OnePerKey, Built
    <3>2. \A c \in made : /\ c.key.source # Unmapped.key.source
                          /\ c.key.rule # Unmapped.key.rule
      BY <3>1, BuiltAreMapped, MappingConstants DEF MappingInv, OthersKept
    <3>3. Unmapped.key \notin SupersededByRun(made)
      BY <3>2 DEF SupersededByRun
    <3>4. Unmapped.key \in DOMAIN claims /\ claims[Unmapped.key].current = TRUE
      BY DEF MappingInv, OthersKept
    <3>5. /\ Unmapped.key \in DOMAIN claims'
          /\ claims'[Unmapped.key] =
               [claims[Unmapped.key] EXCEPT
                  !.current = @ /\ Unmapped.key \notin SupersededByRun(made)]
      BY <2>2, <3>2, <3>4 DEF AfterRun
    <3>6. claims'[Unmapped.key].current = TRUE
      <4>1. claims[Unmapped.key] = [value |-> claims[Unmapped.key].value,
                                    current |-> claims[Unmapped.key].current]
        BY <3>4 DEF MappingInv, ClaimsWellFormed
      <4>. QED
        BY <3>3, <3>4, <3>5, <4>1
    <3>7. ASSUME NEW k \in DOMAIN claims'
          PROVE  claims'[k] = [value |-> claims'[k].value, current |-> claims'[k].current]
      <4>1. CASE \E c \in made : c.key = k
        <5>1. claims'[k] = [value |-> (CHOOSE c \in made : c.key = k).value,
                            current |-> TRUE]
          BY <2>2, <4>1 DEF AfterRun
        <5>. QED
          BY <5>1
      <4>2. CASE ~ \E c \in made : c.key = k
        <5>1. /\ k \in DOMAIN claims
              /\ claims'[k] = [claims[k] EXCEPT !.current = @ /\ k \notin SupersededByRun(made)]
          BY <2>2, <3>7, <4>2 DEF AfterRun
        <5>2. claims[k] = [value |-> claims[k].value, current |-> claims[k].current]
          BY <5>1 DEF MappingInv, ClaimsWellFormed
        <5>. QED
          BY <5>1, <5>2
      <4>. QED
        BY <4>1, <4>2
    <3>. QED
      BY <3>5, <3>6, <3>7 DEF ClaimsWellFormed
  <2>. QED
    BY <2>1, <2>2 DEF PipelineRun
<1>3. /\ backfill'.alone = FALSE /\ backfill'.pc = backfill.pc
      /\ backfill'.rules = backfill.rules /\ backfill'.made = backfill.made
      /\ backfill'.retire = backfill.retire /\ backfill'.write = backfill.write
      /\ BackfillShape'
  BY <1>1 DEF MappingInv, BackfillInv, BackfillShape
<1>4. BackfillInv'
  BY <1>3 DEF MappingInv, BackfillInv, MadeIsMapped, Mapped
<1>. QED
  BY <1>1, <1>2, <1>3, <1>4 DEF MappingInv, OthersKept

LEMMA BeginKeepsMapping ==
  ASSUME MappingInv,
         \/ \E rules \in Mappings : EditMapping(rules)
         \/ \E replace \in BOOLEAN : StartBackfill(replace)
         \/ BuildClaims \/ ReadSuperseded \/ BackfillDies
  PROVE  MappingInv'
<1>1. ASSUME NEW rules \in Mappings, EditMapping(rules) PROVE MappingInv'
  BY <1>1 DEF EditMapping, MappingInv, ClaimsWellFormed, OthersKept, BackfillInv,
     BackfillShape, MadeIsMapped, Mapped, InPlace, CurrentClaims
<1>2. ASSUME NEW replace \in BOOLEAN, StartBackfill(replace) PROVE MappingInv'
  BY <1>2 DEF StartBackfill, MappingInv, ClaimsWellFormed, OthersKept, BackfillInv,
     BackfillShape, MadeIsMapped, Mapped, IdleBackfill
<1>3. CASE BackfillDies
  BY <1>3 DEF BackfillDies, MappingInv, ClaimsWellFormed, OthersKept, BackfillInv,
     BackfillShape, MadeIsMapped, Mapped, IdleBackfill
<1>4. CASE BuildClaims
  <2>. DEFINE made == Built(backfill.view, records, backfill.rules)
  <2>1. /\ backfill' = [backfill EXCEPT
             !.pc = "supersede", !.view = <<>>, !.made = made, !.write = made]
        /\ backfill.pc = "records"
        /\ UNCHANGED <<mapping, claims>>
    BY <1>4 DEF BuildClaims, Built
  <2>2. \A c \in made : /\ c = [key |-> c.key, value |-> c.value]
                        /\ \E r \in backfill.rules : r.source = c.key.source
    BY BuiltAreMapped
  <2>. HIDE DEF made
  <2>3. /\ backfill'.pc = "supersede" /\ backfill'.made = made /\ backfill'.write = made
        /\ backfill'.rules = backfill.rules /\ backfill'.retire = backfill.retire
        /\ BackfillShape'
    BY <2>1 DEF MappingInv, BackfillInv, BackfillShape
  <2>4. backfill.retire = {}
    BY <2>1 DEF MappingInv, BackfillInv
  <2>. QED
    BY <2>1, <2>2, <2>3, <2>4 DEF MappingInv, ClaimsWellFormed, OthersKept, BackfillInv,
       MadeIsMapped, Mapped
<1>5. CASE ReadSuperseded
  <2>. DEFINE retire == IF backfill.replace THEN SourceClaims(backfill.made, backfill.rules)
                        ELSE {}
  <2>1. /\ backfill' = [backfill EXCEPT !.pc = "write", !.retire = retire]
        /\ backfill.pc = "supersede"
        /\ UNCHANGED <<mapping, claims>>
    BY <1>5 DEF ReadSuperseded
  <2>2. /\ \A k \in retire : Mapped(k) /\ k \notin {c.key : c \in backfill.made}
        /\ backfill.replace =>
             \A k \in CurrentClaims :
               Mapped(k) => k \in retire \/ k \in {c.key : c \in backfill.made}
    BY DEF SourceClaims, Mapped, CurrentClaims
  <2>. HIDE DEF retire
  <2>3. /\ backfill'.pc = "write" /\ backfill'.retire = retire
        /\ backfill'.made = backfill.made /\ backfill'.write = backfill.write
        /\ backfill'.rules = backfill.rules /\ backfill'.replace = backfill.replace
        /\ BackfillShape'
    BY <2>1 DEF MappingInv, BackfillInv, BackfillShape
  <2>4. backfill.write = backfill.made
    BY <2>1 DEF MappingInv, BackfillInv
  <2>. QED
    BY <2>1, <2>2, <2>3, <2>4 DEF MappingInv, ClaimsWellFormed, OthersKept, BackfillInv,
       MadeIsMapped, Mapped, CurrentClaims
<1>. QED
  BY <1>1, <1>2, <1>3, <1>4, <1>5

LEMMA RetireKeepsMapping ==
  ASSUME MappingInv, NEW k \in backfill.retire, RetireClaim(k)
  PROVE  MappingInv'
<1>1. /\ claims' = [claims EXCEPT ![k].current = FALSE]
      /\ backfill' = [backfill EXCEPT !.retire = @ \ {k}]
      /\ backfill.pc = "write" /\ mapping' = mapping
  BY DEF RetireClaim
<1>2. Mapped(k) /\ k \notin {c.key : c \in backfill.made}
  BY DEF MappingInv, BackfillInv
<1>3. /\ backfill'.pc = "write" /\ backfill'.retire = backfill.retire \ {k}
      /\ backfill'.made = backfill.made /\ backfill'.write = backfill.write
      /\ backfill'.rules = backfill.rules /\ backfill'.replace = backfill.replace
      /\ backfill'.alone = backfill.alone /\ BackfillShape'
  BY <1>1 DEF MappingInv, BackfillInv, BackfillShape
<1>4. /\ DOMAIN claims' = DOMAIN claims
      /\ \A i \in DOMAIN claims : i # k => claims'[i] = claims[i]
  BY <1>1
<1>5. ASSUME k \in DOMAIN claims
      PROVE  claims'[k] = [value |-> claims[k].value, current |-> FALSE]
  <2>1. claims'[k] = [claims[k] EXCEPT !.current = FALSE]
    BY <1>1, <1>5
  <2>2. claims[k] = [value |-> claims[k].value, current |-> claims[k].current]
    BY <1>5 DEF MappingInv, ClaimsWellFormed
  <2>. QED
    BY <2>1, <2>2
<1>6. ClaimsWellFormed'
  BY <1>4, <1>5 DEF MappingInv, ClaimsWellFormed
<1>7. OthersKept'
  <2>1. k # Unmapped.key
    BY <1>2, MappedIsOther DEF MappingInv
  <2>. QED
    BY <1>1, <1>3, <1>4, <2>1 DEF MappingInv, OthersKept
<1>8. \A c \in backfill.made : InPlace(c) => InPlace(c)'
  BY <1>2, <1>3, <1>4 DEF InPlace
<1>9. CurrentClaims' \subseteq CurrentClaims \ {k}
  BY <1>4, <1>5 DEF CurrentClaims
<1>10. BackfillInv'
  <2>1. \A i : Mapped(i)' <=> Mapped(i)
    BY <1>3 DEF Mapped
  <2>2. MadeIsMapped'
    BY <1>3, <2>1 DEF MappingInv, BackfillInv, MadeIsMapped
  <2>3. backfill.alone =>
          /\ \A d \in backfill.made : d \in backfill'.write \/ InPlace(d)'
          /\ backfill.replace =>
               \A i \in CurrentClaims' :
                 Mapped(i) => i \in backfill'.retire \/ i \in {d.key : d \in backfill.made}
    BY <1>1, <1>3, <1>8, <1>9 DEF MappingInv, BackfillInv
  <2>. QED
    BY <1>3, <2>1, <2>2, <2>3 DEF MappingInv, BackfillInv
<1>. QED
  BY <1>6, <1>7, <1>10 DEF MappingInv

LEMMA WriteKeepsMapping ==
  ASSUME MappingInv, NEW c \in backfill.write, WriteClaim(c)
  PROVE  MappingInv'
<1>1. /\ claims' = [i \in {c.key} \cup DOMAIN claims |->
                     IF i = c.key THEN [value |-> c.value, current |-> TRUE] ELSE claims[i]]
      /\ backfill' = [backfill EXCEPT !.write = @ \ {c}]
      /\ backfill.pc = "write" /\ mapping' = mapping
  BY DEF WriteClaim
<1>2. /\ c \in backfill.made /\ c = [key |-> c.key, value |-> c.value] /\ Mapped(c.key)
  BY DEF MappingInv, BackfillInv, MadeIsMapped
<1>3. /\ backfill'.pc = "write" /\ backfill'.write = backfill.write \ {c}
      /\ backfill'.made = backfill.made /\ backfill'.retire = backfill.retire
      /\ backfill'.rules = backfill.rules /\ backfill'.replace = backfill.replace
      /\ backfill'.alone = backfill.alone /\ BackfillShape'
  BY <1>1 DEF MappingInv, BackfillInv, BackfillShape
<1>4. /\ DOMAIN claims' = {c.key} \cup DOMAIN claims
      /\ claims'[c.key] = [value |-> c.value, current |-> TRUE]
      /\ \A i \in DOMAIN claims : i # c.key => claims'[i] = claims[i]
  BY <1>1
<1>5. ClaimsWellFormed'
  BY <1>4 DEF MappingInv, ClaimsWellFormed
<1>6. OthersKept'
  <2>1. c.key # Unmapped.key
    BY <1>2, MappedIsOther DEF MappingInv
  <2>. QED
    BY <1>1, <1>3, <1>4, <2>1 DEF MappingInv, OthersKept
<1>7. \A d \in backfill.made : InPlace(d) \/ d.key = c.key => InPlace(d)'
  <2>. SUFFICES ASSUME NEW d \in backfill.made, InPlace(d) \/ d.key = c.key
                PROVE  InPlace(d)'
    OBVIOUS
  <2>1. CASE d.key = c.key
    BY <1>2, <1>3, <1>4, <2>1 DEF InPlace
  <2>2. CASE d.key # c.key
    BY <1>3, <1>4, <2>2 DEF InPlace
  <2>. QED
    BY <2>1, <2>2
<1>8. CurrentClaims' \subseteq CurrentClaims \cup {c.key}
  BY <1>4 DEF CurrentClaims
<1>9. BackfillInv'
  <2>1. \A i : Mapped(i)' <=> Mapped(i)
    BY <1>3 DEF Mapped
  <2>2. MadeIsMapped'
    BY <1>3, <2>1 DEF MappingInv, BackfillInv, MadeIsMapped
  <2>3. backfill.alone =>
          /\ \A d \in backfill.made : d \in backfill'.write \/ InPlace(d)'
          /\ backfill.replace =>
               \A i \in CurrentClaims' :
                 Mapped(i) => i \in backfill'.retire \/ i \in {d.key : d \in backfill.made}
    BY <1>1, <1>2, <1>3, <1>7, <1>8 DEF MappingInv, BackfillInv
  <2>. QED
    BY <1>3, <2>1, <2>2, <2>3 DEF MappingInv, BackfillInv
<1>. QED
  BY <1>5, <1>6, <1>9 DEF MappingInv

LEMMA FinishKeepsMapping ==
  ASSUME MappingInv, FinishBackfill
  PROVE  MappingInv'
<1>1. /\ backfill' = [backfill EXCEPT !.pc = "done"]
      /\ backfill.retire = {} /\ backfill.write = {} /\ backfill.pc = "write"
      /\ UNCHANGED <<mapping, claims>>
  BY DEF FinishBackfill
<1>2. /\ backfill'.pc = "done" /\ backfill'.write = backfill.write
      /\ backfill'.made = backfill.made /\ backfill'.retire = backfill.retire
      /\ backfill'.rules = backfill.rules /\ backfill'.replace = backfill.replace
      /\ backfill'.alone = backfill.alone /\ BackfillShape'
  BY <1>1 DEF MappingInv, BackfillInv, BackfillShape
<1>. QED
  BY <1>1, <1>2 DEF MappingInv, ClaimsWellFormed, OthersKept, BackfillInv, MadeIsMapped,
     Mapped, InPlace, CurrentClaims

LEMMA MappingImplies == MappingInv => ReplacementIsComplete
<1>. SUFFICES ASSUME MappingInv, backfill.pc = "done", backfill.replace, backfill.alone
              PROVE  /\ {k \in CurrentClaims : Mapped(k)} = {c.key : c \in backfill.made}
                     /\ \A k \in CurrentClaims : Mapped(k) =>
                          [key |-> k, value |-> claims[k].value] \in backfill.made
                     /\ claims[Unmapped.key].current
  BY DEF ReplacementIsComplete
<1>1. \A c \in backfill.made : InPlace(c) /\ Mapped(c.key)
  BY DEF MappingInv, BackfillInv, MadeIsMapped
<1>2. \A k \in CurrentClaims : Mapped(k) => k \in {c.key : c \in backfill.made}
  BY DEF MappingInv, BackfillInv
<1>3. \A c \in backfill.made : c.key \in CurrentClaims
  BY <1>1 DEF InPlace, CurrentClaims
<1>4. \A k \in CurrentClaims : Mapped(k) =>
        [key |-> k, value |-> claims[k].value] \in backfill.made
  BY <1>1, <1>2 DEF InPlace
<1>. QED
  BY <1>1, <1>2, <1>3, <1>4 DEF MappingInv, OthersKept

\* A backfill that replaces source claims, with no run meanwhile, leaves in
\* the mapped sources exactly the claims its mappings make, whatever earlier
\* backfills left half done, and the claims of other sources alone.
THEOREM ReplacementComplete == MappingSpec => []ReplacementIsComplete
<1>1. MappingInv /\ [MappingNext]_mappingVars => MappingInv'
  <2>. SUFFICES ASSUME MappingInv, [MappingNext]_mappingVars PROVE MappingInv'
    OBVIOUS
  <2>1. CASE UNCHANGED mappingVars
    BY <2>1 DEF mappingVars, MappingInv, ClaimsWellFormed, OthersKept, BackfillInv,
       BackfillShape, MadeIsMapped, Mapped, InPlace, CurrentClaims
  <2>. QED
    BY <2>1, RunKeepsMapping, BeginKeepsMapping, RetireKeepsMapping, WriteKeepsMapping,
       FinishKeepsMapping DEF MappingNext
<1>. QED
  BY <1>1, MappingInitInv, MappingImplies, PTL DEF MappingSpec

-----------------------------------------------------------------------------
(* The registry store.                                                     *)

\* Sources of the identifier claims that a run may persist.
Source ==
  {"old"} \cup UNION {{c[2] : c \in registry[f].claims} :
                        registry \in Registries, f \in StoreFormat}

FormatDocument ==
  [format : StoreFormat, ids : (SUBSET Value) \cup {NoField}, current : BOOLEAN]

FormatWrite == {[key |-> FormatKey(d.format), doc |-> d] : d \in FormatDocument}
RowWrite ==
  {[key |-> [in |-> "format_identifiers", format |-> f, value |-> v, source |-> s],
    doc |-> [format |-> f, value |-> v]] :
     f \in StoreFormat, v \in Value, s \in Source}
OverlayWrite ==
  {[key |-> OverlayKey(f, run), doc |-> OverlayDoc(f)] :
     f \in StoreFormat, run \in Nat}
Write == FormatWrite \cup RowWrite \cup OverlayWrite

Batch == Seq(Write) \ {<<>>}

ViewNames == {n \in DOMAIN kept : n.in = "canonical_formats"}

\* Every key that was written has a name that is kept, and under every name
\* is the last document of one of its keys, or a truncated file.
KeptInv ==
  /\ IsFiniteSet(ViewNames)
  /\ \A k \in DOMAIN promise :
       /\ [key |-> k, doc |-> promise[k]] \in Write
       /\ Name(k) \in DOMAIN kept
  /\ \A n \in DOMAIN kept :
       \/ kept[n] = Cut
       \/ \E k \in DOMAIN promise : Name(k) = n /\ promise[k] = kept[n]

StoreInv ==
  /\ backend \in {"memory", "file", "mongo"}
  /\ persists \in Nat
  /\ KeptInv
  /\ writes \in Seq(Batch)
  /\ truncated \in BOOLEAN
  /\ truncated => writes # <<>> /\ backend = "file"

-----------------------------------------------------------------------------
(* Names and documents.                                                    *)

LEMMA WriteCases ==
  ASSUME NEW k, NEW d, [key |-> k, doc |-> d] \in Write
  PROVE  \/ /\ k.in = "canonical_formats"
            /\ d \in FormatDocument /\ k = FormatKey(d.format)
         \/ /\ k.in = "format_identifiers"
            /\ \E f \in StoreFormat, v \in Value, s \in Source :
                 /\ k = [in |-> "format_identifiers", format |-> f, value |-> v,
                         source |-> s]
                 /\ d = [format |-> f, value |-> v]
         \/ /\ k.in = "institution_policy_overlays"
            /\ \E f \in StoreFormat, run \in Nat :
                 k = OverlayKey(f, run) /\ d = OverlayDoc(f)
<1>. DEFINE w == [key |-> k, doc |-> d]
<1>0. w.key = k /\ w.doc = d /\ w \in Write
  OBVIOUS
<1>. HIDE DEF w
<1>1. CASE w \in FormatWrite
  <2>1. PICK e \in FormatDocument : w = [key |-> FormatKey(e.format), doc |-> e]
    BY <1>1 DEF FormatWrite
  <2>2. k = FormatKey(e.format) /\ d = e
    BY <1>0, <2>1
  <2>. QED
    BY <2>2 DEF FormatKey
<1>2. CASE w \in RowWrite
  <2>1. PICK f \in StoreFormat, v \in Value, s \in Source :
          w = [key |-> [in |-> "format_identifiers", format |-> f, value |-> v,
                        source |-> s],
               doc |-> [format |-> f, value |-> v]]
    BY <1>2 DEF RowWrite
  <2>2. /\ k = [in |-> "format_identifiers", format |-> f, value |-> v, source |-> s]
        /\ d = [format |-> f, value |-> v]
    BY <1>0, <2>1
  <2>3. k.in = "format_identifiers"
    BY <2>2
  <2>. QED
    BY <2>2, <2>3
<1>3. CASE w \in OverlayWrite
  <2>1. PICK f \in StoreFormat, run \in Nat :
          w = [key |-> OverlayKey(f, run), doc |-> OverlayDoc(f)]
    BY <1>3 DEF OverlayWrite
  <2>2. k = OverlayKey(f, run) /\ d = OverlayDoc(f)
    BY <1>0, <2>1
  <2>3. k.in = "institution_policy_overlays"
    BY <2>2 DEF OverlayKey
  <2>. QED
    BY <2>2, <2>3
<1>. QED
  BY <1>0, <1>1, <1>2, <1>3 DEF Write

\* A key keeps its collection; only identifier rows are renamed.
LEMMA NameIs ==
  ASSUME NEW k, NEW d, [key |-> k, doc |-> d] \in Write,
         backend \in {"memory", "file", "mongo"}
  PROVE  /\ Name(k).in = k.in
         /\ k.in # "format_identifiers" => Name(k) = k
<1>1. CASE k.in # "format_identifiers"
  BY <1>1 DEF Name, MemoryName, FileName, MongoFilter
<1>2. CASE k.in = "format_identifiers"
  <2>1. PICK f \in StoreFormat, v \in Value, s \in Source :
          k = [in |-> "format_identifiers", format |-> f, value |-> v, source |-> s]
    BY <1>2, WriteCases
  <2>. QED
    BY <1>2, <2>1 DEF Name, MemoryName, FileName, MongoFilter
<1>. QED
  BY <1>1, <1>2

\* Keys of identifier rows with one name speak of one format, and of one
\* value unless the file store confuses two.
LEMMA RowNames ==
  ASSUME NEW f \in StoreFormat, NEW v \in Value, NEW s \in Source,
         NEW g \in StoreFormat, NEW u \in Value, NEW t \in Source,
         backend \in {"memory", "file", "mongo"},
         Name([in |-> "format_identifiers", format |-> f, value |-> v, source |-> s])
           = Name([in |-> "format_identifiers", format |-> g, value |-> u,
                   source |-> t])
  PROVE  f = g /\ (v = u \/ (backend = "file" /\ SharedName(v)))
<1>. DEFINE k == [in |-> "format_identifiers", format |-> f, value |-> v, source |-> s]
            l == [in |-> "format_identifiers", format |-> g, value |-> u, source |-> t]
<1>0. k.in = "format_identifiers" /\ l.in = "format_identifiers"
  OBVIOUS
<1>1. CASE backend = "memory"
  <2>1. MemoryName(k) = MemoryName(l)
    BY <1>1 DEF Name
  <2>2. /\ MemoryName(k) = [in |-> "format_identifiers", format |-> f, value |-> v]
        /\ MemoryName(l) = [in |-> "format_identifiers", format |-> g, value |-> u]
    BY DEF MemoryName
  <2>3. MemoryName(k).format = f /\ MemoryName(k).value = v
    BY <2>2
  <2>4. MemoryName(l).format = g /\ MemoryName(l).value = u
    BY <2>2
  <2>. QED
    BY <2>1, <2>3, <2>4
<1>2. CASE backend = "file"
  <2>1. FileName(k) = FileName(l)
    BY <1>2 DEF Name
  <2>2. /\ FileName(k) = [in |-> "format_identifiers", format |-> f,
                          value |-> Safe(v), source |-> s]
        /\ FileName(l) = [in |-> "format_identifiers", format |-> g,
                          value |-> Safe(u), source |-> t]
    BY DEF FileName
  <2>3. FileName(k).format = f /\ FileName(k).value = Safe(v)
    BY <2>2
  <2>4. FileName(l).format = g /\ FileName(l).value = Safe(u)
    BY <2>2
  <2>5. f = g /\ Safe(u) = Safe(v)
    BY <2>1, <2>3, <2>4
  <2>. QED
    BY <1>2, <2>5 DEF SharedName
<1>3. CASE backend = "mongo"
  <2>1. k = l
    BY <1>3 DEF Name, MongoFilter
  <2>2. k.format = f /\ k.value = v
    OBVIOUS
  <2>3. l.format = g /\ l.value = u
    OBVIOUS
  <2>. QED
    BY <2>1, <2>2, <2>3
<1>. QED
  BY <1>1, <1>2, <1>3

\* A readable collection holds documents that were written to it.
LEMMA ReadIsPromised ==
  ASSUME StoreInv, NEW c, ~Unreadable(c), NEW d \in Documents(c)
  PROVE  \E k \in DOMAIN promise : k.in = c /\ promise[k] = d
<1>1. PICK n \in DOMAIN kept : n.in = c /\ kept[n] = d
  BY DEF Documents
<1>2. kept[n] # Cut
  BY <1>1 DEF Unreadable
<1>3. PICK k \in DOMAIN promise : Name(k) = n /\ promise[k] = kept[n]
  BY <1>2 DEF StoreInv, KeptInv
<1>4. Name(k).in = k.in
  BY NameIs DEF StoreInv, KeptInv
<1>. QED
  BY <1>1, <1>3, <1>4

\* Of formats and overlays it holds all of them.
LEMMA PromisedIsRead ==
  ASSUME StoreInv, NEW c, ~Unreadable(c), c # "format_identifiers"
  PROVE  Documents(c) = PromisedIn(c)
<1>1. ASSUME NEW d \in Documents(c)
      PROVE  d \in PromisedIn(c)
  BY <1>1, ReadIsPromised DEF PromisedIn
<1>2. ASSUME NEW k \in DOMAIN promise, k.in = c
      PROVE  promise[k] \in Documents(c)
  <2>1. Name(k) = k /\ k \in DOMAIN kept
    BY <1>2, NameIs DEF StoreInv, KeptInv
  <2>2. kept[k] \in Documents(c)
    BY <1>2, <2>1 DEF Documents
  <2>3. kept[k] # Cut
    BY <2>2 DEF Unreadable
  <2>4. PICK l \in DOMAIN promise : Name(l) = k /\ promise[l] = kept[k]
    BY <2>1, <2>3 DEF StoreInv, KeptInv
  <2>5. l = k
    BY <1>2, <2>4, NameIs DEF StoreInv, KeptInv
  <2>. QED
    BY <2>2, <2>4, <2>5
<1>. QED
  BY <1>1, <1>2 DEF PromisedIn

\* Of rows it holds, for a value that shares no file name, which formats have it.
LEMMA RowsAreRead ==
  ASSUME StoreInv, ~Unreadable("format_identifiers"), NEW v \in Value,
         ~(backend = "file" /\ SharedName(v)), NEW f
  PROVE  /\ (\E r \in Documents("format_identifiers") :
               r.value = v /\ r.format = f) <=>
              (\E r \in PromisedIn("format_identifiers") :
                 r.value = v /\ r.format = f)
         /\ (\E r \in Documents("format_identifiers") :
               r.value = v /\ r.format = f) <=>
              [format |-> f, value |-> v] \in Documents("format_identifiers")
<1>0. ASSUME NEW k \in DOMAIN promise, k.in = "format_identifiers"
      PROVE  \E g \in StoreFormat, u \in Value, t \in Source :
               /\ k = [in |-> "format_identifiers", format |-> g, value |-> u,
                       source |-> t]
               /\ promise[k] = [format |-> g, value |-> u]
  <2>1. [key |-> k, doc |-> promise[k]] \in Write
    BY DEF StoreInv, KeptInv
  <2>. QED
    BY <1>0, <2>1, WriteCases
<1>1. ASSUME NEW r \in Documents("format_identifiers")
      PROVE  /\ r \in PromisedIn("format_identifiers")
             /\ r = [format |-> r.format, value |-> r.value]
  <2>1. PICK k \in DOMAIN promise : k.in = "format_identifiers" /\ promise[k] = r
    BY ReadIsPromised
  <2>2. PICK g \in StoreFormat, u \in Value : r = [format |-> g, value |-> u]
    BY <1>0, <2>1
  <2>. QED
    BY <2>1, <2>2 DEF PromisedIn
<1>2. ASSUME NEW r \in PromisedIn("format_identifiers"), r.value = v, r.format = f
      PROVE  r \in Documents("format_identifiers")
  <2>1. PICK k \in DOMAIN promise : k.in = "format_identifiers" /\ promise[k] = r
    BY DEF PromisedIn
  <2>2. PICK g \in StoreFormat, u \in Value, t \in Source :
          /\ k = [in |-> "format_identifiers", format |-> g, value |-> u, source |-> t]
          /\ r = [format |-> g, value |-> u]
    BY <1>0, <2>1
  <2>3. g = f /\ u = v
    BY <1>2, <2>2
  <2>4. Name(k) \in DOMAIN kept /\ Name(k).in = "format_identifiers"
    BY <2>1, NameIs DEF StoreInv, KeptInv
  <2>5. kept[Name(k)] \in Documents("format_identifiers")
    BY <2>4 DEF Documents
  <2>6. kept[Name(k)] # Cut
    BY <2>5 DEF Unreadable
  <2>7. PICK l \in DOMAIN promise : Name(l) = Name(k) /\ promise[l] = kept[Name(k)]
    BY <2>4, <2>6 DEF StoreInv, KeptInv
  <2>8. l.in = "format_identifiers"
    BY <2>4, <2>7, NameIs DEF StoreInv, KeptInv
  <2>9. PICK h \in StoreFormat, w \in Value, s \in Source :
          /\ l = [in |-> "format_identifiers", format |-> h, value |-> w, source |-> s]
          /\ promise[l] = [format |-> h, value |-> w]
    BY <1>0, <2>8
  <2>10. backend \in {"memory", "file", "mongo"}
    BY DEF StoreInv, KeptInv
  <2>11. g = h /\ u = w
    BY <2>2, <2>3, <2>7, <2>9, <2>10, RowNames
  <2>. QED
    BY <2>2, <2>5, <2>7, <2>9, <2>11
<1>3. ASSUME [format |-> f, value |-> v] \in Documents("format_identifiers")
      PROVE  \E r \in Documents("format_identifiers") : r.value = v /\ r.format = f
  BY <1>3
<1>4. ASSUME NEW r \in Documents("format_identifiers"), r.value = v, r.format = f
      PROVE  [format |-> f, value |-> v] \in Documents("format_identifiers")
  BY <1>1, <1>4
<1>. QED
  BY <1>1, <1>2, <1>3, <1>4

-----------------------------------------------------------------------------
(* What is answered.                                                       *)

LEMMA StoreImplies == StoreInv => StoresAnswerAlike
<1>. SUFFICES ASSUME StoreInv, ~Unreadable("canonical_formats")
              PROVE  /\ MongoView = CurrentIn(PromisedIn("canonical_formats"))
                     /\ ~Unreadable("format_identifiers") =>
                          \A v \in Value :
                            \/ Found(v) = PromisedFor(v)
                            \/ backend = "file" /\ SharedName(v)
                     /\ ~Unreadable("institution_policy_overlays") =>
                          PolicyFormats =
                            {d.format : d \in CurrentIn(PromisedIn("canonical_formats"))}
                            \cap {o.format : o \in PromisedIn("institution_policy_overlays")}
  BY DEF StoresAnswerAlike
<1>. DEFINE docs == PromisedIn("canonical_formats")
            read == Documents("format_identifiers")
            rows == PromisedIn("format_identifiers")
<1>1. Documents("canonical_formats") = docs
  BY PromisedIsRead
<1>2. MongoView = CurrentIn(docs) /\ FileView = CurrentIn(docs)
  BY <1>1 DEF MongoView, FileView, CurrentIn
<1>3. CurrentIn(CurrentIn(docs)) = CurrentIn(docs)
  BY DEF CurrentIn
<1>. HIDE DEF docs, read, rows
<1>4. ASSUME ~Unreadable("format_identifiers"), NEW v \in Value,
             ~(backend = "file" /\ SharedName(v))
      PROVE  Found(v) = PromisedFor(v)
  <2>1. Listing(CurrentIn(docs), v) = Listing(docs, v)
    BY <1>3 DEF Listing
  <2>2. \A f : (\E r \in read : r.value = v /\ r.format = f) <=>
                 (\E r \in rows : r.value = v /\ r.format = f)
    BY <1>4, RowsAreRead DEF read, rows
  <2>3. \A f : (\E r \in read : r.value = v /\ r.format = f) <=>
                 [format |-> f, value |-> v] \in read
    BY <1>4, RowsAreRead DEF read
  <2>4. OldVersions(docs, read, v) = OldVersions(docs, rows, v)
    BY <2>2 DEF OldVersions
  <2>5. OldVersions(CurrentIn(docs), read, v) = OldVersions(docs, read, v)
    BY <1>3 DEF OldVersions
  <2>6. {d.format : d \in {e \in CurrentIn(docs) :
            /\ e.ids = NoField
            /\ [format |-> e.format, value |-> v] \in read}} =
          OldVersions(docs, read, v)
    BY <2>3 DEF OldVersions
  <2>7. PromisedFor(v) = IF Listing(docs, v) # {} THEN Listing(docs, v)
                         ELSE OldVersions(docs, rows, v)
    BY DEF PromisedFor, docs, rows
  <2>8. FindInMemory(v) = IF Listing(docs, v) # {} THEN Listing(docs, v)
                          ELSE OldVersions(docs, read, v)
    BY <1>1 DEF FindInMemory, read
  <2>9. FindInFile(v) = IF Listing(docs, v) # {} THEN Listing(docs, v)
                        ELSE OldVersions(docs, read, v)
    BY <1>2, <2>1, <2>5 DEF FindInFile, read
  <2>10. FindInMongo(v) = IF Listing(docs, v) # {} THEN Listing(docs, v)
                          ELSE OldVersions(docs, read, v)
    BY <1>2, <2>1, <2>6 DEF FindInMongo, read
  <2>11. backend \in {"memory", "file", "mongo"}
    BY DEF StoreInv, KeptInv
  <2>. QED
    BY <2>4, <2>7, <2>8, <2>9, <2>10, <2>11 DEF Found
<1>5. ASSUME ~Unreadable("institution_policy_overlays")
      PROVE  Documents("institution_policy_overlays") =
               PromisedIn("institution_policy_overlays")
  BY <1>5, PromisedIsRead
<1>. QED
  BY <1>1, <1>2, <1>4, <1>5 DEF PolicyFormats, docs

-----------------------------------------------------------------------------
(* What a run writes.                                                      *)

LEMMA SetToSeqIs ==
  ASSUME NEW S, IsFiniteSet(S)
  PROVE  SetToSeq(S) \in Seq(S) /\ ToSet(SetToSeq(S)) = S
<1>. DEFINE n == Cardinality(S)
            s == SetToSeq(S)
<1>1. n \in Nat /\ ExistsBijection(1..n, S)
  BY FS_CardinalityType
<1>2. \E f \in [1..n -> S] : IsInjective(f)
  BY <1>1 DEF ExistsBijection, Bijection, Injection
<1>3. s \in [1..n -> S] /\ IsInjective(s)
  BY <1>2 DEF SetToSeq
<1>. HIDE DEF n, s
<1>4. IsFiniteSet(1..n) /\ Cardinality(1..n) = n
  BY <1>1, FS_Interval
<1>5. s \in Injection(1..n, S)
  BY <1>3 DEF Injection
<1>6. s \in Surjection(1..n, S)
  BY <1>4, <1>5, FS_Injection DEF n
<1>7. s \in Seq(S) /\ DOMAIN s = 1..n
  BY <1>1, <1>3
<1>8. ToSet(s) = S
  BY <1>3, <1>6, <1>7 DEF Surjection, ToSet
<1>. QED
  BY <1>7, <1>8 DEF s, n

\* The claims of a registry may be filed as rows of its formats.
LEMMA FormatWritesType ==
  ASSUME NEW registry \in Registries, NEW f \in DOMAIN registry, NEW run \in Nat
  PROVE  FormatWrites(registry, f, run) \in Batch
<1>. DEFINE stored == registry[f]
            ids == {c[1] : c \in stored.claims}
            first == <<[key |-> FormatKey(f), doc |-> FormatDoc(f, ids, TRUE)]>>
            rows == {Row(f, c) : c \in stored.claims}
            last == IF stored.overlay
                      THEN <<[key |-> OverlayKey(f, run), doc |-> OverlayDoc(f)]>>
                      ELSE <<>>
<1>1. /\ f \in StoreFormat /\ IsFiniteSet(stored.claims)
      /\ \A c \in stored.claims : c[1] \in Value
  BY StoreConstants
<1>2. first \in Seq(Write) /\ Len(first) = 1
  <2>1. FormatDoc(f, ids, TRUE) \in FormatDocument
    BY <1>1 DEF FormatDoc, FormatDocument
  <2>2. FormatDoc(f, ids, TRUE).format = f
    BY DEF FormatDoc
  <2>. HIDE DEF ids
  <2>3. [key |-> FormatKey(f), doc |-> FormatDoc(f, ids, TRUE)] \in FormatWrite
    BY <2>1, <2>2 DEF FormatWrite
  <2>. QED
    BY <2>3 DEF Write
<1>3. rows \subseteq Write
  <2>1. ASSUME NEW c \in stored.claims
        PROVE  Row(f, c) \in RowWrite
    <3>1. c[2] \in Source
      <4>. DEFINE sources == {e[2] : e \in registry[f].claims}
      <4>1. c[2] \in sources
        OBVIOUS
      <4>2. sources \in {{e[2] : e \in known[g].claims} :
                          known \in Registries, g \in StoreFormat}
        BY <1>1
      <4>. HIDE DEF sources
      <4>3. sources \subseteq Source
        BY <4>2 DEF Source
      <4>. QED
        BY <4>1, <4>3
    <3>2. Row(f, c) =
            [key |-> [in |-> "format_identifiers", format |-> f, value |-> c[1],
                      source |-> c[2]],
             doc |-> [format |-> f, value |-> c[1]]]
      BY DEF Row, RowKey, RowDoc
    <3>. QED
      BY <1>1, <3>1, <3>2 DEF RowWrite
  <2>. QED
    BY <2>1 DEF Write
<1>4. IsFiniteSet(rows)
  <2>. DEFINE g == [c \in stored.claims |-> Row(f, c)]
  <2>1. g \in Surjection(stored.claims, rows)
    BY DEF Surjection
  <2>. HIDE DEF g, rows, stored
  <2>. QED
    BY <1>1, <2>1, FS_Surjection
<1>5. SetToSeq(rows) \in Seq(Write)
  <2>. HIDE DEF rows
  <2>1. SetToSeq(rows) \in Seq(rows)
    BY <1>4, SetToSeqIs
  <2>. QED
    BY <1>3, <2>1
<1>6. last \in Seq(Write)
  <2>1. [key |-> OverlayKey(f, run), doc |-> OverlayDoc(f)] \in OverlayWrite
    BY <1>1 DEF OverlayWrite
  <2>2. <<[key |-> OverlayKey(f, run), doc |-> OverlayDoc(f)]>> \in Seq(Write)
    BY <2>1 DEF Write
  <2>3. <<>> \in Seq(Write)
    OBVIOUS
  <2>. QED
    BY <2>2, <2>3, Zenon
<1>7. FormatWrites(registry, f, run) = first \o SetToSeq(rows) \o last
  BY DEF FormatWrites
<1>. HIDE DEF first, rows, last
<1>8. /\ first \o SetToSeq(rows) \o last \in Seq(Write)
      /\ Len(first \o SetToSeq(rows) \o last) # 0
  BY <1>2, <1>5, <1>6
<1>. QED
  BY <1>7, <1>8 DEF Batch

\* The formats taken out of the view are formats that were written.
LEMMA RemovalsType ==
  ASSUME StoreInv, ~Unreadable("canonical_formats"), NEW registry
  PROVE  Removals(registry, FileView) \in Seq(Write)
<1>. DEFINE gone == {e \in FileView : e.format \notin DOMAIN registry}
            W(d) == [key |-> FormatKey(d.format), doc |-> [d EXCEPT !.current = FALSE]]
            S == {W(d) : d \in gone}
            T == {n \in ViewNames : kept[n] \in gone}
<1>1. ASSUME NEW d \in gone
      PROVE  W(d) \in Write
  <2>1. d \in Documents("canonical_formats")
    BY DEF FileView, CurrentIn
  <2>2. PICK k \in DOMAIN promise : k.in = "canonical_formats" /\ promise[k] = d
    BY <2>1, ReadIsPromised
  <2>3. [key |-> k, doc |-> d] \in Write
    BY <2>2 DEF StoreInv, KeptInv
  <2>4. d \in FormatDocument
    BY <2>2, <2>3, WriteCases
  <2>5. /\ [d EXCEPT !.current = FALSE] \in FormatDocument
        /\ [d EXCEPT !.current = FALSE].format = d.format
    BY <2>4 DEF FormatDocument
  <2>6. W(d) \in FormatWrite
    BY <2>5 DEF FormatWrite
  <2>. QED
    BY <2>6 DEF Write
<1>2. IsFiniteSet(T)
  <2>1. T \subseteq ViewNames /\ IsFiniteSet(ViewNames)
    BY DEF StoreInv, KeptInv
  <2>. HIDE DEF T
  <2>. QED
    BY <2>1, FS_Subset
<1>3. IsFiniteSet(S)
  <2>. DEFINE g == [n \in T |-> W(kept[n])]
  <2>1. ASSUME NEW d \in gone
        PROVE  \E n \in T : kept[n] = d
    BY DEF FileView, CurrentIn, Documents, ViewNames
  <2>2. \A n \in T : W(kept[n]) \in S
    OBVIOUS
  <2>. HIDE DEF gone, W, T
  <2>3. g \in [T -> S]
    BY <2>2
  <2>4. \A w \in S : \E n \in T : g[n] = w
    BY <2>1
  <2>. HIDE DEF g, S
  <2>5. g \in Surjection(T, S)
    BY <2>3, <2>4 DEF Surjection
  <2>. QED
    BY <1>2, <2>5, FS_Surjection
<1>4. Removals(registry, FileView) = SetToSeq(S)
  BY DEF Removals
<1>5. S \subseteq Write
  BY <1>1
<1>. HIDE DEF S
<1>6. SetToSeq(S) \in Seq(S)
  BY <1>3, SetToSeqIs
<1>. QED
  BY <1>4, <1>5, <1>6

LEMMA PersistedType ==
  ASSUME StoreInv, ~Unreadable("canonical_formats"), NEW registry \in Registries,
         NEW run \in Nat
  PROVE  Persisted(registry, run, FileView) \in Seq(Batch)
<1>. DEFINE formats == SetToSeq(DOMAIN registry)
            removals == Removals(registry, FileView)
            a == [i \in DOMAIN formats |-> FormatWrites(registry, formats[i], run)]
            b == IF removals = <<>> THEN <<>> ELSE <<removals>>
<1>1. formats \in Seq(DOMAIN registry)
  BY StoreConstants, SetToSeqIs
<1>2. removals \in Seq(Write)
  BY RemovalsType
<1>3. Persisted(registry, run, FileView) = a \o b
  BY DEF Persisted
<1>. HIDE DEF formats, removals
<1>4. \A i \in DOMAIN formats : FormatWrites(registry, formats[i], run) \in Batch
  <2>1. \A i \in DOMAIN formats : formats[i] \in DOMAIN registry
    BY <1>1
  <2>. QED
    BY <2>1, FormatWritesType
<1>5. a \in Seq(Batch)
  <2>1. DOMAIN formats = 1..Len(formats) /\ Len(formats) \in Nat
    BY <1>1
  <2>. QED
    BY <1>4, <2>1
<1>6. b \in Seq(Batch)
  <2>1. CASE removals = <<>>
    BY <2>1
  <2>2. CASE removals # <<>>
    <3>1. removals \in Batch
      BY <1>2, <2>2 DEF Batch
    <3>2. b = <<removals>>
      BY <2>2
    <3>. QED
      BY <3>1, <3>2
  <2>. QED
    BY <2>1, <2>2
<1>. HIDE DEF a, b
<1>. QED
  BY <1>3, <1>5, <1>6

-----------------------------------------------------------------------------
(* The steps of a store.                                                   *)

LEMMA StoreInitInv == StoreInit => StoreInv
<1>. SUFFICES ASSUME StoreInit
              PROVE  StoreInv
  OBVIOUS
<1>1. /\ backend \in {"memory", "file", "mongo"} /\ persists \in Nat
      /\ writes \in Seq(Batch) /\ truncated = FALSE
  BY DEF StoreInit
<1>2. CASE Empty
  <2>1. DOMAIN kept = {} /\ DOMAIN promise = {}
    BY <1>2 DEF Empty
  <2>2. IsFiniteSet(ViewNames)
    BY <2>1, FS_EmptySet DEF ViewNames
  <2>. QED
    BY <1>1, <2>1, <2>2 DEF StoreInv, KeptInv
<1>3. CASE \E f \in StoreFormat, values \in SUBSET Value :
             /\ promise = OldDocuments(f, values)
             /\ kept = [n \in {Name(k) : k \in DOMAIN promise} |->
                          promise[CHOOSE k \in DOMAIN promise : Name(k) = n]]
  <2>1. PICK f \in StoreFormat, values \in SUBSET Value :
          /\ promise = OldDocuments(f, values)
          /\ kept = [n \in {Name(k) : k \in DOMAIN promise} |->
                       promise[CHOOSE k \in DOMAIN promise : Name(k) = n]]
    BY <1>3
  <2>. DEFINE row(v) == [in |-> "format_identifiers", format |-> f, value |-> v,
                         source |-> "old"]
  <2>2. \A v : RowKey(f, <<v, "old">>) = row(v)
    BY DEF RowKey
  <2>3. {RowKey(f, <<v, "old">>) : v \in values} = {row(v) : v \in values}
    BY <2>2
  <2>4. promise = [k \in {FormatKey(f)} \cup {row(v) : v \in values} |->
                     IF k = FormatKey(f) THEN FormatDoc(f, NoField, TRUE)
                     ELSE [format |-> f, value |-> k.value]]
    BY <2>1, <2>3 DEF OldDocuments
  <2>5. DOMAIN promise = {FormatKey(f)} \cup {row(v) : v \in values}
    BY <2>4
  <2>6. /\ promise[FormatKey(f)] = FormatDoc(f, NoField, TRUE)
        /\ [key |-> FormatKey(f), doc |-> promise[FormatKey(f)]] \in Write
    <3>1. promise[FormatKey(f)] = FormatDoc(f, NoField, TRUE)
      BY <2>4
    <3>2. FormatDoc(f, NoField, TRUE) \in FormatDocument
      BY DEF FormatDoc, FormatDocument
    <3>3. FormatDoc(f, NoField, TRUE).format = f
      BY DEF FormatDoc
    <3>4. [key |-> FormatKey(f), doc |-> FormatDoc(f, NoField, TRUE)] \in FormatWrite
      BY <3>2, <3>3 DEF FormatWrite
    <3>. QED
      BY <3>1, <3>4 DEF Write
  <2>7. ASSUME NEW v \in values
        PROVE  [key |-> row(v), doc |-> promise[row(v)]] \in Write
    <3>1. row(v).in = "format_identifiers" /\ row(v).value = v
      OBVIOUS
    <3>2. FormatKey(f).in = "canonical_formats"
      BY DEF FormatKey
    <3>3. row(v) \in DOMAIN promise /\ row(v) # FormatKey(f)
      BY <2>5, <3>1, <3>2
    <3>. HIDE DEF row
    <3>4. promise[row(v)] = [format |-> f, value |-> v]
      BY <2>4, <2>5, <3>1, <3>3
    <3>5. v \in Value /\ "old" \in Source
      BY DEF Source
    <3>6. [key |-> row(v), doc |-> [format |-> f, value |-> v]] \in RowWrite
      BY <3>5 DEF RowWrite, row
    <3>. QED
      BY <3>4, <3>6 DEF Write
  <2>8. \A k \in DOMAIN promise : [key |-> k, doc |-> promise[k]] \in Write
    <3>. HIDE DEF row
    <3>. QED
      BY <2>5, <2>6, <2>7
  <2>9. DOMAIN kept = {Name(k) : k \in DOMAIN promise}
    BY <2>1
  <2>10. ASSUME NEW n \in DOMAIN kept
         PROVE  \E k \in DOMAIN promise : Name(k) = n /\ promise[k] = kept[n]
    <3>. DEFINE l == CHOOSE k \in DOMAIN promise : Name(k) = n
    <3>1. l \in DOMAIN promise /\ Name(l) = n
      BY <2>9
    <3>2. kept[n] = promise[l]
      BY <2>1, <2>9
    <3>. QED
      BY <3>1, <3>2
  <2>11. IsFiniteSet(ViewNames)
    <3>1. ASSUME NEW n \in ViewNames
          PROVE  n = FormatKey(f)
      <4>1. PICK k \in DOMAIN promise : n = Name(k)
        BY <2>9 DEF ViewNames
      <4>2. Name(k).in = k.in /\ (k.in # "format_identifiers" => Name(k) = k)
        BY <1>1, <2>8, NameIs
      <4>3. k.in = "canonical_formats"
        BY <4>1, <4>2 DEF ViewNames
      <4>4. \A v : row(v).in = "format_identifiers"
        OBVIOUS
      <4>5. k = FormatKey(f)
        BY <2>5, <4>3, <4>4
      <4>. QED
        BY <4>1, <4>2, <4>3, <4>5
    <3>2. ViewNames \subseteq {FormatKey(f)}
      BY <3>1
    <3>3. IsFiniteSet({FormatKey(f)})
      BY FS_Singleton
    <3>. QED
      BY <3>2, <3>3, FS_Subset
  <2>. QED
    BY <1>1, <2>8, <2>9, <2>10, <2>11 DEF StoreInv, KeptInv
<1>. QED
  BY <1>2, <1>3 DEF StoreInit

\* The names of the view stay finitely many when a name is added.
LEMMA ViewStaysFinite ==
  ASSUME IsFiniteSet(ViewNames), NEW name, NEW doc, kept' = Upsert(kept, name, doc)
  PROVE  IsFiniteSet(ViewNames')
<1>1. ViewNames' \subseteq ViewNames \cup {name}
  BY DEF ViewNames, Upsert
<1>2. IsFiniteSet(ViewNames \cup {name})
  BY FS_AddElement
<1>. QED
  BY <1>1, <1>2, FS_Subset

\* A document that is filed is the last of its name and of its key.
LEMMA PutKeeps ==
  ASSUME StoreInv, NEW k, NEW d, [key |-> k, doc |-> d] \in Write, Put(k, d),
         backend' = backend
  PROVE  KeptInv'
<1>1. \A l : Name(l)' = Name(l)
  BY DEF Name
<1>2. /\ DOMAIN kept' = DOMAIN kept \cup {Name(k)}
      /\ kept'[Name(k)] = d
      /\ \A n \in DOMAIN kept : n # Name(k) => kept'[n] = kept[n]
  BY DEF Put, Upsert
<1>3. /\ DOMAIN promise' = DOMAIN promise \cup {k}
      /\ promise'[k] = d
      /\ \A l \in DOMAIN promise : l # k => promise'[l] = promise[l]
  BY DEF Put, Upsert
<1>4. IsFiniteSet(ViewNames')
  BY ViewStaysFinite DEF Put, StoreInv, KeptInv
<1>5. ASSUME NEW l \in DOMAIN promise'
      PROVE  [key |-> l, doc |-> promise'[l]] \in Write /\ Name(l) \in DOMAIN kept'
  BY <1>2, <1>3 DEF StoreInv, KeptInv
<1>6. ASSUME NEW n \in DOMAIN kept'
      PROVE  \/ kept'[n] = Cut
             \/ \E l \in DOMAIN promise' : Name(l) = n /\ promise'[l] = kept'[n]
  <2>1. CASE n = Name(k)
    BY <1>2, <1>3, <2>1
  <2>2. CASE n # Name(k)
    <3>1. n \in DOMAIN kept /\ kept'[n] = kept[n]
      BY <1>2, <2>2
    <3>2. kept[n] = Cut \/ \E l \in DOMAIN promise : Name(l) = n /\ promise[l] = kept[n]
      BY <3>1 DEF StoreInv, KeptInv
    <3>. QED
      BY <1>3, <2>2, <3>1, <3>2
  <2>. QED
    BY <2>1, <2>2
<1>. QED
  BY <1>1, <1>4, <1>5, <1>6 DEF KeptInv

LEMMA NextWriteType ==
  ASSUME writes \in Seq(Batch), writes # <<>>
  PROVE  /\ [key |-> NextWrite.key, doc |-> NextWrite.doc] \in Write
         /\ WritesAfter \in Seq(Batch)
<1>1. Head(writes) \in Batch /\ Tail(writes) \in Seq(Batch)
  OBVIOUS
<1>2. Head(writes) \in Seq(Write) /\ Head(writes) # <<>>
  BY <1>1 DEF Batch
<1>3. Head(Head(writes)) \in Write /\ Tail(Head(writes)) \in Seq(Write)
  BY <1>2
<1>4. \A w \in Write : [key |-> w.key, doc |-> w.doc] = w
  BY DEF Write, FormatWrite, RowWrite, OverlayWrite
<1>. DEFINE batch == Tail(Head(writes))
            first == IF batch = <<>> THEN <<>> ELSE <<batch>>
<1>5. batch \in Seq(Write)
  BY <1>3
<1>. HIDE DEF batch
<1>6. CASE batch = <<>>
  BY <1>1, <1>3, <1>4, <1>6 DEF NextWrite, WritesAfter, batch
<1>7. CASE batch # <<>>
  <2>1. batch \in Batch
    BY <1>5, <1>7 DEF Batch
  <2>2. <<batch>> \o Tail(writes) \in Seq(Batch)
    BY <1>1, <2>1
  <2>3. WritesAfter = <<batch>> \o Tail(writes)
    BY <1>7 DEF WritesAfter, batch
  <2>. QED
    BY <1>3, <1>4, <2>2, <2>3 DEF NextWrite
<1>. QED
  BY <1>6, <1>7

LEMMA StoreStep == StoreInv /\ [StoreNext]_storeVars => StoreInv'
<1>. SUFFICES ASSUME StoreInv, [StoreNext]_storeVars
              PROVE  StoreInv'
  OBVIOUS
<1>0. /\ backend \in {"memory", "file", "mongo"} /\ persists \in Nat /\ KeptInv
      /\ writes \in Seq(Batch) /\ truncated \in BOOLEAN
      /\ truncated => writes # <<>> /\ backend = "file"
  BY DEF StoreInv
<1>k. UNCHANGED <<backend, kept, promise>> => KeptInv'
  BY <1>0 DEF KeptInv, ViewNames, Name
<1>e. kept' = <<>> /\ promise' = <<>> => KeptInv'
  <2>1. SUFFICES ASSUME kept' = <<>>, promise' = <<>>
                 PROVE  KeptInv'
    OBVIOUS
  <2>2. DOMAIN kept' = {} /\ DOMAIN promise' = {}
    BY <2>1
  <2>3. ViewNames' = {}
    BY <2>2 DEF ViewNames
  <2>4. IsFiniteSet(ViewNames')
    BY <2>3, FS_EmptySet
  <2>. QED
    BY <2>2, <2>4 DEF KeptInv
<1>n. <<>> \in Seq(Batch)
  OBVIOUS
<1>1. ASSUME NEW registry \in Registries, StartRun(registry)
      PROVE  StoreInv'
  <2>1. persists' \in Nat
    BY <1>0, <1>1 DEF StartRun
  <2>2. writes' \in Seq(Batch)
    BY <1>1, <2>1, PersistedType DEF StartRun
  <2>3. ~truncated'
    BY <1>0, <1>1 DEF StartRun
  <2>. QED
    BY <1>0, <1>k, <1>1, <2>1, <2>2, <2>3 DEF StartRun, StoreInv
<1>2. CASE WriteDocument \/ FillFile
  <2>1. writes # <<>>
    BY <1>0, <1>2 DEF WriteDocument, FillFile
  <2>2. /\ [key |-> NextWrite.key, doc |-> NextWrite.doc] \in Write
        /\ WritesAfter \in Seq(Batch)
    BY <1>0, <2>1, NextWriteType
  <2>3. /\ Put(NextWrite.key, NextWrite.doc) /\ backend' = backend
        /\ writes' = WritesAfter /\ persists' = persists
    BY <1>2 DEF WriteDocument, FillFile
  <2>4. truncated' = FALSE
    BY <1>0, <1>2 DEF WriteDocument, FillFile
  <2>5. KeptInv'
    BY <2>2, <2>3, PutKeeps
  <2>. QED
    BY <1>0, <2>2, <2>3, <2>4, <2>5 DEF StoreInv
<1>3. CASE TruncateFile
  <2>1. /\ kept' = Upsert(kept, Name(NextWrite.key), Cut)
        /\ UNCHANGED <<backend, promise, writes, persists>> /\ truncated'
    BY <1>3 DEF TruncateFile
  <2>2. IsFiniteSet(ViewNames')
    BY <1>0, <2>1, ViewStaysFinite DEF KeptInv
  <2>3. \A l : Name(l)' = Name(l)
    BY <2>1 DEF Name
  <2>4. /\ DOMAIN kept \subseteq DOMAIN kept'
        /\ \A n \in DOMAIN kept' :
             kept'[n] = Cut \/ (n \in DOMAIN kept /\ kept'[n] = kept[n])
    BY <2>1 DEF Upsert
  <2>5. KeptInv'
    BY <1>0, <2>1, <2>2, <2>3, <2>4 DEF KeptInv
  <2>6. writes # <<>> /\ backend = "file" /\ truncated' = TRUE
    BY <1>3 DEF TruncateFile
  <2>. QED
    BY <1>0, <2>1, <2>5, <2>6 DEF StoreInv
<1>4. CASE StoreProcessDies
  <2>1. KeptInv'
    BY <1>k, <1>e, <1>4 DEF StoreProcessDies
  <2>2. writes' = <<>> /\ truncated' = FALSE /\ UNCHANGED <<backend, persists>>
    BY <1>4 DEF StoreProcessDies
  <2>. QED
    BY <1>0, <1>n, <2>1, <2>2 DEF StoreInv
<1>5. CASE OpenNewStore
  <2>1. /\ kept' = <<>> /\ promise' = <<>> /\ persists' = 0
        /\ UNCHANGED <<backend, writes, truncated>>
    BY <1>5 DEF OpenNewStore
  <2>. QED
    BY <1>0, <1>e, <2>1 DEF StoreInv
<1>6. CASE UNCHANGED storeVars
  BY <1>0, <1>k, <1>6 DEF storeVars, StoreInv
<1>. QED
  BY <1>1, <1>2, <1>3, <1>4, <1>5, <1>6 DEF StoreNext

(* Whatever a backend makes of the keys, in the middle of a run, after one *)
(* that died and on a store an old version filled, a lookup, the view and  *)
(* the institution's list answer what the documents written through the    *)
(* interface say, or raise because a file is truncated; for any values,    *)
(* file names, registries and number of runs.                              *)
THEOREM StoresAgree == StoreSpec => []StoresAnswerAlike
<1>1. StoreInit => StoreInv
  BY StoreInitInv
<1>2. StoreInv /\ [StoreNext]_storeVars => StoreInv'
  BY StoreStep
<1>3. StoreInv => StoresAnswerAlike
  BY StoreImplies
<1>. QED
  BY <1>1, <1>2, <1>3, PTL DEF StoreSpec

=============================================================================
