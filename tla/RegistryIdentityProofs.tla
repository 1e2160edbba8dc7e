----------------------- MODULE RegistryIdentityProofs -----------------------
(***************************************************************************)
(* Theorems about RegistryIdentity, for any records, names and version     *)
(* tokens and any sequence of deliveries.                                  *)
(***************************************************************************)
EXTENDS RegistryIdentity, FiniteSetTheorems, TLAPS

-----------------------------------------------------------------------------
(* Keys.                                                                   *)

LEMMA VerifiedKind ==
  ASSUME NEW r \in Record, r.own.kind \in Kind
  PROVE  Verifies(r)
BY IdentityConstants DEF Verifies, NoId

LEMMA WeakKeyKind ==
  ASSUME NEW r \in Record
  PROVE  /\ WeakMatchKey(r).kind \notin Kind
         /\ Verifies(r) <=> StrongestKey(r).kind \in Kind
         /\ Verifies(r) => StrongestKey(r) = r.own
         /\ ~Verifies(r) => StrongestKey(r).value = <<r.name, r.extensions>>
<1>1. WeakMatchKey(r).kind \notin Kind
  BY IdentityConstants DEF WeakMatchKey
<1>2. CASE Verifies(r)
  BY <1>1, <1>2, IdentityConstants DEF StrongestKey
<1>3. CASE ~Verifies(r) /\ r.extensions = {}
  BY <1>1, <1>3, IdentityConstants DEF StrongestKey
<1>4. CASE ~Verifies(r) /\ r.extensions # {}
  BY <1>1, <1>4, IdentityConstants DEF StrongestKey, WeakMatchKey
<1>. QED
  BY <1>2, <1>3, <1>4

(* The records of a group that verify nothing bear one name, and a         *)
(* verified group is a single record.                                      *)
LEMMA GroupVersion ==
  ASSUME NEW R \in Delivery, NEW key,
         NEW r \in Members(R, key), NEW s \in Members(R, key)
  PROVE  Version[r.name] = Version[s.name]
<1>1. /\ R \subseteq Record
      /\ r \in R /\ s \in R
      /\ r \in Record /\ s \in Record
      /\ StrongestKey(r) = StrongestKey(s)
  BY IdentityConstants DEF Members
<1>2. CASE Verifies(r)
  <2>1. Verifies(s) /\ r.own = s.own
    BY <1>1, <1>2, WeakKeyKind
  <2>. QED
    BY <1>1, <1>2, <2>1, IdentityConstants
<1>3. CASE ~Verifies(r)
  <2>1. ~Verifies(s)
    BY <1>1, <1>3, WeakKeyKind
  <2>2. <<r.name, r.extensions>> = <<s.name, s.extensions>>
    BY <1>1, <1>3, <2>1, WeakKeyKind
  <2>. QED
    BY <2>2
<1>. QED
  BY <1>2, <1>3

-----------------------------------------------------------------------------
(* Bridges.                                                                *)

(* A key leads to itself, or over a bridge to what a record verifies.      *)
LEMMA AliasCases ==
  ASSUME NEW R \in Delivery, NEW key
  PROVE  \/ AliasOf(R, key) = key
         \/ /\ AliasOf(R, key) \in {r.own : r \in R}
            /\ \/ WeakBridge(R, key, AliasOf(R, key))
               \/ ClaimedBridge(R, key, AliasOf(R, key))
<1>. DEFINE bridged == {t \in {r.own : r \in R} :
                          WeakBridge(R, key, t) \/ ClaimedBridge(R, key, t)}
<1>1. CASE bridged = {}
  BY <1>1 DEF AliasOf
<1>2. CASE bridged # {}
  <2>1. AliasOf(R, key) = CHOOSE t \in bridged : TRUE
    BY <1>2 DEF AliasOf
  <2>2. AliasOf(R, key) \in bridged
    BY <1>2, <2>1
  <2>. QED
    BY <2>2
<1>. QED
  BY <1>1, <1>2

LEMMA BridgeVersion ==
  ASSUME NEW R \in Delivery, NEW key, NEW target, NamesAllowBridge(R, key, target),
         NEW r \in Members(R, key), NEW x \in Members(R, target)
  PROVE  Version[r.name] = Version[x.name]
BY DEF NamesAllowBridge, NamesConflict, AsymmetricVersionSignal

(* A record agrees with the whole group its own group is collapsed into.   *)
LEMMA JoinedVersion ==
  ASSUME NEW R \in Delivery, NEW r \in R
  PROVE  LET target == AliasOf(R, StrongestKey(r))
         IN /\ Members(R, target) # {}
            /\ \A x \in Members(R, target) : Version[r.name] = Version[x.name]
<1>. DEFINE key == StrongestKey(r)
            target == AliasOf(R, key)
<1>0. R \subseteq Record /\ r \in Record /\ r \in Members(R, key)
  BY IdentityConstants DEF Members
<1>1. CASE target = key
  BY <1>0, <1>1, GroupVersion
<1>2. CASE WeakBridge(R, key, target)
  <2>. DEFINE alike == {x \in R : x.extensions # {} /\ WeakMatchKey(x) = key}
  <2>1. {StrongestKey(x) : x \in {y \in alike : Verifies(y)}} = {target}
    BY <1>2 DEF WeakBridge
  <2>2. PICK x \in R : /\ WeakMatchKey(x) = key
                       /\ StrongestKey(x) = target
    BY <2>1
  <2>3. x \in Record /\ x \in Members(R, target)
    BY <1>0, <2>2 DEF Members
  <2>4. ~Verifies(r)
    BY <1>0, <2>2, <2>3, WeakKeyKind
  <2>5. <<r.name, r.extensions>> = <<x.name, x.extensions>>
    BY <1>0, <2>2, <2>4, WeakKeyKind DEF WeakMatchKey
  <2>6. r.name = x.name
    BY <2>5
  <2>7. \A y \in Members(R, target) : Version[r.name] = Version[y.name]
    BY <2>3, <2>6, GroupVersion
  <2>. QED
    BY <2>3, <2>7
<1>3. CASE ClaimedBridge(R, key, target)
  <2>1. PICK kind \in Kind : /\ ClaimedTargets(R, key, kind) = {target}
                             /\ NamesAllowBridge(R, key, target)
    BY <1>3 DEF ClaimedBridge
  <2>2. PICK x \in R : x.own.kind = kind /\ x.own = target
    BY <2>1 DEF ClaimedTargets
  <2>3. x \in Record /\ Verifies(x)
    BY <1>0, <2>1, <2>2, VerifiedKind
  <2>4. x \in Members(R, target)
    BY <2>2, <2>3, WeakKeyKind DEF Members
  <2>5. \A y \in Members(R, target) : Version[r.name] = Version[y.name]
    BY <1>0, <2>1, BridgeVersion
  <2>. QED
    BY <2>4, <2>5
<1>. QED
  BY <1>1, <1>2, <1>3, AliasCases

LEMMA CollapsedVersion ==
  ASSUME NEW R \in Delivery, NEW key,
         NEW r \in Collapsed(R, key), NEW s \in Collapsed(R, key)
  PROVE  Version[r.name] = Version[s.name]
<1>1. /\ r \in R /\ s \in R
      /\ AliasOf(R, StrongestKey(r)) = key
      /\ AliasOf(R, StrongestKey(s)) = key
  BY DEF Collapsed
<1>2. PICK x : x \in Members(R, key)
  BY <1>1, JoinedVersion
<1>. QED
  BY <1>1, <1>2, JoinedVersion

-----------------------------------------------------------------------------
(* Documents and views.                                                    *)

LEMMA KeyForm ==
  ASSUME NEW R \in Delivery, NEW key \in Keys(R)
  PROVE  /\ key \in {StrongestKey(r) : r \in Record}
         /\ Collapsed(R, key) # {}
<1>1. PICK r \in R : key = AliasOf(R, StrongestKey(r))
  BY DEF Keys
<1>2. R \subseteq Record /\ r \in Collapsed(R, key)
  BY <1>1, IdentityConstants DEF Collapsed
<1>3. CASE key = StrongestKey(r)
  BY <1>2, <1>3
<1>4. CASE key # StrongestKey(r)
  <2>1. /\ key \in {x.own : x \in R}
        /\ \/ WeakBridge(R, StrongestKey(r), key)
           \/ ClaimedBridge(R, StrongestKey(r), key)
    BY <1>1, <1>4, AliasCases
  <2>2. CASE WeakBridge(R, StrongestKey(r), key)
    <3>. DEFINE alike == {x \in R : x.extensions # {}
                                   /\ WeakMatchKey(x) = StrongestKey(r)}
    <3>1. {StrongestKey(x) : x \in {y \in alike : Verifies(y)}} = {key}
      BY <2>2 DEF WeakBridge
    <3>. QED
      BY <1>2, <3>1
  <2>3. CASE ClaimedBridge(R, StrongestKey(r), key)
    <3>1. PICK kind \in Kind : ClaimedTargets(R, StrongestKey(r), kind) = {key}
      BY <2>3 DEF ClaimedBridge
    <3>2. PICK x \in R : x.own.kind = kind /\ x.own = key
      BY <3>1 DEF ClaimedTargets
    <3>3. StrongestKey(x) = key
      BY <1>2, <3>1, <3>2, VerifiedKind, WeakKeyKind
    <3>. QED
      BY <1>2, <3>3
  <2>. QED
    BY <2>1, <2>2, <2>3
<1>. QED
  BY <1>3, <1>4

(* Every document of a view is that of a key with its id, and every id a   *)
(* key has is in the view.                                                 *)
LEMMA ViewDocuments ==
  ASSUME NEW R \in Delivery, NEW view \in reconcile[R]
  PROVE  /\ DOMAIN view = {CanonicalId(k) : k \in Keys(R)}
         /\ \A i \in DOMAIN view : \E k \in Keys(R) :
              CanonicalId(k) = i /\ view[i] = CanonicalDocument(R, k)
<1>1. reconcile[R] = {View(R, kept) : kept \in {ks \in SUBSET Keys(R) : OneEach(Keys(R), ks)}}
  BY DEF reconcile
<1>2. PICK kept \in SUBSET Keys(R) : OneEach(Keys(R), kept) /\ view = View(R, kept)
  BY <1>1
<1>3. DOMAIN view = {CanonicalId(k) : k \in kept}
  BY <1>2 DEF View
<1>4. ASSUME NEW i \in DOMAIN view
      PROVE  \E k \in Keys(R) : CanonicalId(k) = i /\ view[i] = CanonicalDocument(R, k)
  <2>. DEFINE k == CHOOSE k \in kept : CanonicalId(k) = i
  <2>1. k \in kept /\ CanonicalId(k) = i
    BY <1>3, <1>4
  <2>2. view[i] = CanonicalDocument(R, k)
    BY <1>2, <1>3, <1>4 DEF View
  <2>. QED
    BY <1>2, <2>1, <2>2
<1>. QED
  BY <1>2, <1>3, <1>4 DEF OneEach

(* Nothing overwrites the document of a verified identifier.               *)
LEMMA StrongDocument ==
  ASSUME NEW R \in Delivery, NEW view \in reconcile[R],
         NEW key \in Keys(R), key.kind \in Kind
  PROVE  key \in DOMAIN view /\ view[key] = CanonicalDocument(R, key)
<1>1. CanonicalId(key) = key
  BY DEF CanonicalId
<1>2. key \in DOMAIN view
  <2>1. DOMAIN view = {CanonicalId(k) : k \in Keys(R)}
    BY ViewDocuments
  <2>2. CanonicalId(key) \in {CanonicalId(k) : k \in Keys(R)}
    OBVIOUS
  <2>. QED
    BY <1>1, <2>1, <2>2
<1>3. PICK k \in Keys(R) : CanonicalId(k) = key /\ view[key] = CanonicalDocument(R, k)
  BY <1>2, ViewDocuments
<1>4. k.kind \in Kind
  BY <1>3, IdentityConstants DEF CanonicalId
<1>5. k = key
  BY <1>3, <1>4 DEF CanonicalId
<1>. QED
  BY <1>2, <1>3, <1>5

LEMMA DocumentItems ==
  ASSUME NEW R, NEW key
  PROVE  /\ CanonicalDocument(R, key).items = Collapsed(R, key)
         /\ CanonicalDocument(R, key).key = key
BY DEF CanonicalDocument

LEMMA PreferredIsItem ==
  ASSUME NEW items, items # {}, NEW key
  PROVE  PreferredRecord(items, key) \in items
<1>1. CASE \E r \in items : r.own = key
  BY <1>1 DEF PreferredRecord
<1>2. CASE ~\E r \in items : r.own = key
  BY <1>2 DEF PreferredRecord
<1>. QED
  BY <1>1, <1>2

LEMMA DocumentType ==
  ASSUME NEW R \in Delivery, NEW key \in Keys(R)
  PROVE  CanonicalDocument(R, key) \in Document
<1>. DEFINE items == Collapsed(R, key)
            name == PreferredRecord(items, key).name
            related == {r \in R : Cites(R, r, items, name)} \ items
<1>1. R \subseteq Record /\ items \subseteq Record /\ related \subseteq Record
  BY IdentityConstants DEF Collapsed
<1>2. name \in Name
  BY <1>1, KeyForm, PreferredIsItem, IdentityConstants
<1>3. CanonicalDocument(R, key) =
        [key |-> key, preferred_name |-> name, items |-> items, related |-> related]
  BY DEF CanonicalDocument
<1>. QED
  BY <1>1, <1>2, <1>3, KeyForm DEF Document

-----------------------------------------------------------------------------
(* What a run leaves.                                                      *)

LEMMA RefreshView ==
  ASSUME Refresh
  PROVE  /\ records' \in Delivery
         /\ registry' \in reconcile[records']
         /\ errors' = validate_registry[records']
BY DEF Refresh

LEMMA ReportType ==
  ASSUME NEW p, NEW c
  PROVE  /\ Detect(p, c).run_kind \in {"baseline", "change"}
         /\ Detect(p, c).run_kind # "change" =>
              Detect(p, c).changes = {} /\ Detect(p, c).bulk = {}
         /\ \A e \in Detect(p, c).changes : e \in Events(p, c)
<1>1. CASE DOMAIN p = {}
  BY <1>1 DEF Detect
<1>2. CASE DOMAIN p # {}
  BY <1>2 DEF Detect
<1>. QED
  BY <1>1, <1>2

LEMMA EventTypes ==
  ASSUME NEW p, NEW c, NEW e \in Events(p, c)
  PROVE  e.type \in EventType
<1>1. CASE e \in TransitionEvents(p, c)
  BY <1>1 DEF TransitionEvents, Event, EventType
<1>2. CASE e \in SplitEvents(p, c)
  BY <1>2 DEF SplitEvents, Event, EventType
<1>3. CASE e \in FieldEvents(p, c)
  BY <1>3 DEF FieldEvents, Event, EventType
<1>4. CASE e \in {Event("record_added", {}, {j}) : j \in Added(p, c)}
  BY <1>4 DEF Event, EventType
<1>5. CASE e \in {Event("record_removed", {i}, {}) : i \in Removed(p, c)}
  BY <1>5 DEF Event, EventType
<1>. QED
  BY <1>1, <1>2, <1>3, <1>4, <1>5 DEF Events

LEMMA ErrorsAreIds ==
  ASSUME NEW R \in Delivery, NEW view \in reconcile[R]
  PROVE  validate_registry[R] \subseteq DOMAIN view
<1>1. DOMAIN view = {CanonicalId(k) : k \in Keys(R)}
  BY ViewDocuments
<1>2. validate_registry[R] \subseteq {CanonicalId(k) : k \in Keys(R)}
  BY DEF validate_registry
<1>. QED
  BY <1>1, <1>2

(* Type correctness: every document of the view is made of delivered       *)
(* records and stored under the id of its key, and a baseline run reports  *)
(* no change.                                                              *)
THEOREM TypeCorrect == Spec => []TypeOK
<1>1. Init => TypeOK
  BY IdentityConstants DEF Init, TypeOK
<1>2. TypeOK /\ [Next]_vars => TypeOK'
  <2>. SUFFICES ASSUME TypeOK, [Next]_vars PROVE TypeOK'
    OBVIOUS
  <2>1. CASE Refresh
    <3>1. \A i \in DOMAIN registry' :
            /\ registry'[i] \in Document
            /\ registry'[i].items # {}
            /\ CanonicalId(registry'[i].key) = i
      <4>. SUFFICES ASSUME NEW i \in DOMAIN registry'
                    PROVE  /\ registry'[i] \in Document
                           /\ registry'[i].items # {}
                           /\ CanonicalId(registry'[i].key) = i
        OBVIOUS
      <4>1. PICK k \in Keys(records') :
              CanonicalId(k) = i /\ registry'[i] = CanonicalDocument(records', k)
        BY <2>1, RefreshView, ViewDocuments
      <4>. QED
        BY <2>1, <4>1, RefreshView, DocumentType, DocumentItems, KeyForm
    <3>2. errors' \subseteq DOMAIN registry'
      BY <2>1, RefreshView, ErrorsAreIds
    <3>3. report' = Detect(registry, registry')
      BY <2>1 DEF Refresh
    <3>4. \A e \in report'.changes : e.type \in EventType
      BY <3>3, ReportType, EventTypes
    <3>5. run' \in 0 .. MaxRun
      BY <2>1, IdentityConstants DEF Refresh, TypeOK
    <3>6. /\ report'.run_kind \in {"none", "baseline", "change"}
          /\ report'.run_kind # "change" => report'.changes = {} /\ report'.bulk = {}
      BY <3>3, ReportType
    <3>. QED
      BY <2>1, <3>1, <3>2, <3>4, <3>5, <3>6, RefreshView DEF TypeOK
  <2>2. CASE UNCHANGED vars
    BY <2>2 DEF vars, TypeOK, Document
  <2>. QED
    BY <2>1, <2>2 DEF Next
<1>. QED
  BY <1>1, <1>2, PTL DEF Spec

(* The records of one canonical agree about the version, whatever bridges  *)
(* brought them together.                                                  *)
THEOREM VersionsStayApart == Spec => []VersionsAgree
<1>1. Init => VersionsAgree
  BY DEF Init, VersionsAgree
<1>2. VersionsAgree /\ [Next]_vars => VersionsAgree'
  <2>. SUFFICES ASSUME VersionsAgree, [Next]_vars PROVE VersionsAgree'
    OBVIOUS
  <2>1. CASE Refresh
    <3>. SUFFICES ASSUME NEW i \in DOMAIN registry',
                         NEW r \in registry'[i].items, NEW s \in registry'[i].items
                  PROVE  Version[r.name] = Version[s.name]
      BY DEF VersionsAgree
    <3>1. PICK k \in Keys(records') : registry'[i] = CanonicalDocument(records', k)
      BY <2>1, RefreshView, ViewDocuments
    <3>2. registry'[i].items = Collapsed(records', k)
      BY <3>1, DocumentItems
    <3>. QED
      BY <2>1, <3>2, RefreshView, CollapsedVersion
  <2>2. CASE UNCHANGED vars
    BY <2>2 DEF vars, VersionsAgree
  <2>. QED
    BY <2>1, <2>2 DEF Next
<1>. QED
  BY <1>1, <1>2, PTL DEF Spec

-----------------------------------------------------------------------------
(* Families.                                                               *)

LEMMA OwnGroup ==
  ASSUME NEW R \in Delivery, NEW r \in R, Verifies(r)
  PROVE  /\ r \in Record
         /\ StrongestKey(r) = r.own
         /\ r.own.kind \in Kind
         /\ Members(R, r.own) = {r}
<1>1. R \subseteq Record /\ r \in Record
  BY IdentityConstants
<1>2. StrongestKey(r) = r.own /\ r.own.kind \in Kind
  BY <1>1, WeakKeyKind
<1>3. ASSUME NEW s \in Members(R, r.own) PROVE s = r
  <2>1. s \in R /\ s \in Record /\ StrongestKey(s) = r.own
    BY <1>1, <1>3 DEF Members
  <2>2. Verifies(s) /\ s.own = r.own
    BY <1>2, <2>1, WeakKeyKind
  <2>. QED
    BY <2>1, <2>2, IdentityConstants
<1>. QED
  BY <1>1, <1>2, <1>3 DEF Members

(* A record that cites several PUIDs is not bridged: they are its leading  *)
(* kind, and they are not one target.                                      *)
LEMMA FamilyKeepsKey ==
  ASSUME NEW R \in Delivery, NEW r \in R, Verifies(r),
         NEW p \in CitedPuids(R, r), NEW q \in CitedPuids(R, r), p # q
  PROVE  AliasOf(R, r.own) = r.own
<1>1. R \subseteq Record /\ Members(R, r.own) = {r} /\ r.own.kind \in Kind
      /\ r \in Record
  BY OwnGroup, IdentityConstants
<1>2. ASSUME NEW t, WeakBridge(R, r.own, t) PROVE FALSE
  <2>1. PICK x \in R : WeakMatchKey(x) = r.own
    BY <1>2 DEF WeakBridge
  <2>. QED
    BY <1>1, <2>1, WeakKeyKind
<1>3. ASSUME NEW t, ClaimedBridge(R, r.own, t) PROVE FALSE
  <2>1. PICK kind \in Kind : /\ LeadingKind(R, r.own, kind)
                             /\ ClaimedTargets(R, r.own, kind) = {t}
    BY <1>3 DEF ClaimedBridge
  <2>2. p \in ClaimedTargets(R, r.own, Puid) /\ q \in ClaimedTargets(R, r.own, Puid)
    BY <1>1, IdentityConstants DEF CitedPuids, ClaimedTargets
  <2>3. kind = Puid
    <3>. SUFFICES ASSUME kind # Puid PROVE FALSE
      OBVIOUS
    <3>1. Puid \in Kind /\ Rank[Puid] < Rank[kind]
      BY IdentityConstants
    <3>. QED
      BY <2>1, <2>2, <3>1 DEF LeadingKind
  <2>. QED
    BY <2>1, <2>2, <2>3
<1>. QED
  BY <1>2, <1>3, AliasCases

LEMMA FamilyStep ==
  ASSUME NEW R \in Delivery, NEW view \in reconcile[R], NEW r \in R, Verifies(r),
         NEW p \in CitedPuids(R, r), NEW q \in CitedPuids(R, r), p # q
  PROVE  /\ \E i \in DOMAIN view : r.own = i /\ r \in view[i].items
         /\ \E i \in DOMAIN view :
              p \in Identifiers(view[i]) /\ r \in view[i].items \cup view[i].related
<1>1. /\ StrongestKey(r) = r.own
      /\ r.own.kind \in Kind
      /\ AliasOf(R, r.own) = r.own
  BY OwnGroup, FamilyKeepsKey
<1>2. r.own \in Keys(R) /\ r \in Collapsed(R, r.own)
  BY <1>1 DEF Keys, Collapsed
<1>3. r.own \in DOMAIN view /\ r \in view[r.own].items
  BY <1>1, <1>2, StrongDocument, DocumentItems
<1>4. PICK x \in R : x.own = p /\ x.own.kind = Puid
  BY DEF CitedPuids
<1>5. R \subseteq Record /\ x \in Record /\ Verifies(x)
  BY <1>4, VerifiedKind, IdentityConstants
<1>. DEFINE key == AliasOf(R, StrongestKey(x))
<1>6. key \in Keys(R) /\ x \in Collapsed(R, key)
  BY DEF Keys, Collapsed
<1>7. key.kind \in Kind
  <2>1. CASE key = StrongestKey(x)
    BY <1>5, <2>1, OwnGroup
  <2>2. CASE key # StrongestKey(x)
    <3>1. PICK y \in R : y.own = key
      BY <2>2, AliasCases
    <3>2. key \in {StrongestKey(z) : z \in Record}
      BY <1>6, KeyForm
    <3>3. PICK z \in Record : StrongestKey(z) = key
      BY <3>2
    <3>4. ~Verifies(z) => key # NoId
      BY <3>3, IdentityConstants DEF StrongestKey, WeakMatchKey, NoId
    <3>5. CASE Verifies(z)
      BY <3>3, <3>5, WeakKeyKind
    <3>6. CASE ~Verifies(z)
      BY <1>5, <3>1, <3>4, <3>6, OwnGroup DEF Verifies
    <3>. QED
      BY <3>5, <3>6
  <2>. QED
    BY <2>1, <2>2
<1>8. key \in DOMAIN view /\ view[key] = CanonicalDocument(R, key)
  BY <1>6, <1>7, StrongDocument
<1>9. view[key].items = Collapsed(R, key)
  BY <1>8, DocumentItems
<1>10. p \in Identifiers(view[key])
  BY <1>4, <1>5, <1>6, <1>9 DEF Identifiers
<1>11. r \in view[key].items \cup view[key].related
  <2>. DEFINE name == PreferredRecord(Collapsed(R, key), key).name
  <2>1. Cites(R, r, Collapsed(R, key), name)
    BY <1>4, <1>6 DEF Cites
  <2>2. view[key].related = {s \in R : Cites(R, s, Collapsed(R, key), name)}
                              \ Collapsed(R, key)
    BY <1>8 DEF CanonicalDocument
  <2>. QED
    BY <1>9, <2>1, <2>2
<1>. QED
  BY <1>3, <1>8, <1>10, <1>11

(* An authority record that cites several PUIDs keeps its own canonical    *)
(* and is related to all it cites.                                         *)
THEOREM FamiliesStandAlone == Spec => []FamilyStandsAlone
<1>1. Init => FamilyStandsAlone
  BY DEF Init, FamilyStandsAlone
<1>2. FamilyStandsAlone /\ [Next]_vars => FamilyStandsAlone'
  <2>. SUFFICES ASSUME FamilyStandsAlone, [Next]_vars PROVE FamilyStandsAlone'
    OBVIOUS
  <2>1. CASE Refresh
    <3>. SUFFICES ASSUME NEW r \in records', Verifies(r),
                         NEW p \in CitedPuids(records', r),
                         NEW q \in CitedPuids(records', r), p # q
                  PROVE  /\ \E i \in DOMAIN registry' :
                              r.own = i /\ r \in registry'[i].items
                         /\ \A u \in CitedPuids(records', r) :
                              \E i \in DOMAIN registry' :
                                /\ u \in Identifiers(registry'[i])
                                /\ r \in registry'[i].items \cup registry'[i].related
      BY DEF FamilyStandsAlone
    <3>1. records' \in Delivery /\ registry' \in reconcile[records']
      BY <2>1, RefreshView
    <3>2. \E i \in DOMAIN registry' : r.own = i /\ r \in registry'[i].items
      BY <3>1, FamilyStep
    <3>3. ASSUME NEW u \in CitedPuids(records', r)
          PROVE  \E i \in DOMAIN registry' :
                   /\ u \in Identifiers(registry'[i])
                   /\ r \in registry'[i].items \cup registry'[i].related
      <4>1. PICK w \in CitedPuids(records', r) : w # u
        OBVIOUS
      <4>. QED
        BY <3>1, <4>1, FamilyStep
    <3>. QED
      BY <3>2, <3>3
  <2>2. CASE UNCHANGED vars
    BY <2>2 DEF vars, FamilyStandsAlone
  <2>. QED
    BY <2>1, <2>2 DEF Next
<1>. QED
  BY <1>1, <1>2, PTL DEF Spec

-----------------------------------------------------------------------------
(* What a run reports.                                                     *)

(* A canonical that did not move is not split: it holds what it held.      *)
LEMMA NothingMoved ==
  ASSUME NEW p
  PROVE  Events(p, p) = {}
<1>1. Vanished(p, p) = {} /\ Appeared(p, p) = {}
  BY DEF Vanished, Appeared
<1>2. TransitionEvents(p, p) = {}
  BY <1>1 DEF TransitionEvents, Merging
<1>3. ASSUME NEW i \in DOMAIN p, NEW j \in SplitOwners(p, p, i) PROVE j = i
  <2>1. PICK ref \in SourceRecordKeys(p[i]) : Holders(p, ref) = {j}
    BY <1>3 DEF SplitOwners
  <2>2. i \in Holders(p, ref)
    BY <2>1 DEF Holders
  <2>. QED
    BY <2>1, <2>2
<1>4. SplitEvents(p, p) = {}
  BY <1>3 DEF SplitEvents, IsSplit
<1>5. Added(p, p) = {} /\ Removed(p, p) = {}
  BY <1>1 DEF Added, Removed
<1>6. FieldEvents(p, p) = {}
  BY DEF FieldEvents
<1>. QED
  BY <1>2, <1>4, <1>5, <1>6 DEF Events

LEMMA NoEventsNoBulk ==
  ASSUME NEW sizes
  PROVE  BulkTypes({}, sizes) = {}
<1>1. \A t : OfType({}, t) = {}
  BY DEF OfType
<1>2. Cardinality({}) = 0
  BY FS_EmptySet
<1>3. ~(0 >= BulkMin)
  BY IdentityConstants
<1>. QED
  BY <1>1, <1>2, <1>3 DEF BulkTypes

(* A run that leaves the registry as it was reports nothing.               *)
THEOREM UnchangedIsQuiet == Spec => QuietWhenUnchanged
<1>1. ASSUME [Next]_vars
      PROVE  [registry' = registry => report'.changes = {} /\ report'.bulk = {}]_vars
  <2>. SUFFICES ASSUME Refresh, registry' = registry
                PROVE  report'.changes = {} /\ report'.bulk = {}
    BY <1>1 DEF Next
  <2>1. report' = Detect(registry, registry)
    BY DEF Refresh
  <2>2. CASE DOMAIN registry = {}
    BY <2>1, <2>2 DEF Detect
  <2>3. CASE DOMAIN registry # {}
    BY <2>1, <2>3, NothingMoved, NoEventsNoBulk DEF Detect
  <2>. QED
    BY <2>2, <2>3
<1>. QED
  BY <1>1, PTL DEF Spec, QuietWhenUnchanged

(* A split leads to several candidates, a transition to one.               *)
LEMMA SplitHasCandidates ==
  ASSUME NEW p, NEW c, NEW i, IsSplit(p, c, i), NEW j
  PROVE  ~TransitionsTo(p, c, i, j)
<1>1. PICK k \in SplitOwners(p, c, i), l \in SplitOwners(p, c, i) : k # l
  BY DEF IsSplit
<1>2. k \in Candidates(p, c, i) /\ l \in Candidates(p, c, i)
  BY <1>1 DEF SplitOwners, Candidates
<1>. QED
  BY <1>1, <1>2 DEF TransitionsTo

(* The one event about a canonical that vanished.                          *)
LEMMA VanishedOnce ==
  ASSUME NEW p, NEW c, NEW i \in Vanished(p, c)
  PROVE  \E e \in Events(p, c) :
           /\ e.type \in Identity /\ i \in e.previous
           /\ \A f \in Events(p, c) :
                f.type \in Identity /\ i \in f.previous => f = e
<1>. DEFINE transition(j) ==
              Event(IF j \in DOMAIN p \/ \E h, k \in Merging(p, c, j) : h # k
                    THEN "canonical_merged" ELSE "canonical_rekeyed",
                    Merging(p, c, j), {j})
            removed == Event("record_removed", {i}, {})
            split == Event("canonical_split", {i}, SplitOwners(p, c, i))
<1>1. ASSUME NEW f \in Events(p, c), f.type \in Identity, i \in f.previous
      PROVE  \/ \E j \in DOMAIN c : TransitionsTo(p, c, i, j) /\ f = transition(j)
             \/ IsSplit(p, c, i) /\ f = split
             \/ i \in Removed(p, c) /\ f = removed
  <2>1. CASE f \in TransitionEvents(p, c)
    <3>1. PICK j \in DOMAIN c : f = transition(j)
      BY <2>1 DEF TransitionEvents
    <3>2. f.previous = Merging(p, c, j)
      BY <3>1 DEF Event
    <3>. QED
      BY <1>1, <3>1, <3>2 DEF Merging
  <2>2. CASE f \in SplitEvents(p, c)
    <3>1. PICK k \in DOMAIN p : IsSplit(p, c, k)
                              /\ f = Event("canonical_split", {k}, SplitOwners(p, c, k))
      BY <2>2 DEF SplitEvents
    <3>2. k = i
      BY <1>1, <3>1 DEF Event
    <3>. QED
      BY <3>1, <3>2
  <2>3. CASE f \in {Event("record_added", {}, {j}) : j \in Added(p, c)}
    BY <1>1, <2>3 DEF Event
  <2>4. CASE f \in {Event("record_removed", {k}, {}) : k \in Removed(p, c)}
    <3>1. PICK k \in Removed(p, c) : f = Event("record_removed", {k}, {})
      BY <2>4
    <3>2. k = i
      BY <1>1, <3>1 DEF Event
    <3>. QED
      BY <3>1, <3>2
  <2>5. CASE f \in FieldEvents(p, c)
    BY <1>1, <2>5 DEF FieldEvents, Event, Identity
  <2>. QED
    BY <2>1, <2>2, <2>3, <2>4, <2>5 DEF Events
<1>2. CASE \E j \in DOMAIN c : TransitionsTo(p, c, i, j)
  <2>1. PICK j \in DOMAIN c : TransitionsTo(p, c, i, j)
    BY <1>2
  <2>2. i \in Merging(p, c, j)
    BY <2>1 DEF Merging
  <2>3. transition(j) \in TransitionEvents(p, c)
    BY <2>2 DEF TransitionEvents
  <2>4. transition(j) \in Events(p, c)
    BY <2>3 DEF Events
  <2>5. transition(j).type \in Identity /\ i \in transition(j).previous
    BY <2>2 DEF Event, Identity
  <2>6. ASSUME NEW f \in Events(p, c), f.type \in Identity, i \in f.previous
        PROVE  f = transition(j)
    <3>1. i \notin Removed(p, c) /\ ~IsSplit(p, c, i)
      BY <2>1, SplitHasCandidates DEF Removed
    <3>2. PICK k \in DOMAIN c : TransitionsTo(p, c, i, k) /\ f = transition(k)
      BY <1>1, <2>6, <3>1
    <3>3. k = j
      BY <2>1, <3>2 DEF TransitionsTo
    <3>. QED
      BY <3>2, <3>3
  <2>. QED
    BY <2>4, <2>5, <2>6
<1>3. CASE IsSplit(p, c, i)
  <2>1. i \in DOMAIN p
    BY <1>3 DEF IsSplit
  <2>2. split \in SplitEvents(p, c)
    BY <1>3, <2>1 DEF SplitEvents
  <2>3. split \in Events(p, c)
    BY <2>2 DEF Events
  <2>4. split.type \in Identity /\ i \in split.previous
    BY DEF Event, Identity
  <2>5. i \notin Removed(p, c) /\ \A j : ~TransitionsTo(p, c, i, j)
    BY <1>3, SplitHasCandidates DEF Removed
  <2>. QED
    BY <1>1, <2>3, <2>4, <2>5
<1>4. CASE ~IsSplit(p, c, i) /\ ~\E j \in DOMAIN c : TransitionsTo(p, c, i, j)
  <2>1. i \in Removed(p, c)
    BY <1>4 DEF Removed
  <2>2. removed \in Events(p, c)
    BY <2>1 DEF Events
  <2>3. removed.type \in Identity /\ i \in removed.previous
    BY DEF Event, Identity
  <2>. QED
    BY <1>1, <1>4, <2>2, <2>3
<1>. QED
  BY <1>2, <1>3, <1>4

(* Some event says where a canonical that appeared comes from.             *)
LEMMA AppearedTold ==
  ASSUME NEW p, NEW c, NEW j \in Appeared(p, c)
  PROVE  \E e \in Events(p, c) : e.type \in Identity /\ j \in e.current
<1>0. j \in DOMAIN c
  BY DEF Appeared
<1>1. CASE Merging(p, c, j) # {}
  <2>. DEFINE e == Event(IF j \in DOMAIN p \/ \E h, k \in Merging(p, c, j) : h # k
                         THEN "canonical_merged" ELSE "canonical_rekeyed",
                         Merging(p, c, j), {j})
  <2>1. e \in TransitionEvents(p, c)
    BY <1>0, <1>1 DEF TransitionEvents
  <2>2. e.type \in Identity /\ j \in e.current
    BY DEF Event, Identity
  <2>. QED
    BY <2>1, <2>2 DEF Events
<1>2. ASSUME NEW i \in DOMAIN p, IsSplit(p, c, i), j \in SplitOwners(p, c, i)
      PROVE  \E e \in Events(p, c) : e.type \in Identity /\ j \in e.current
  <2>. DEFINE e == Event("canonical_split", {i}, SplitOwners(p, c, i))
  <2>1. e \in SplitEvents(p, c)
    BY <1>2 DEF SplitEvents
  <2>2. e.type \in Identity /\ j \in e.current
    BY <1>2 DEF Event, Identity
  <2>. QED
    BY <2>1, <2>2 DEF Events
<1>3. CASE j \in Added(p, c)
  <2>1. Event("record_added", {}, {j}) \in Events(p, c)
    BY <1>3 DEF Events
  <2>. QED
    BY <2>1 DEF Event, Identity
<1>. QED
  BY <1>1, <1>2, <1>3 DEF Added

(* An event is among the changes or its type among the numbers.            *)
LEMMA ToldOrHidden ==
  ASSUME NEW p, NEW c, DOMAIN p # {}, NEW e \in Events(p, c)
  PROVE  \/ e \in Detect(p, c).changes
         \/ \E b \in Detect(p, c).bulk : b.type = e.type
<1>. DEFINE collapsed == BulkTypes(Events(p, c), {Cardinality(DOMAIN p),
                                                  Cardinality(DOMAIN c)})
            number(t) == Cardinality(OfType(Events(p, c), t))
<1>1. /\ Detect(p, c).changes = {f \in Events(p, c) : f.type \notin collapsed}
      /\ Detect(p, c).bulk = {[type |-> t, count |-> number(t)] : t \in collapsed}
  BY DEF Detect
<1>2. CASE e.type \in collapsed
  <2>1. [type |-> e.type, count |-> number(e.type)] \in Detect(p, c).bulk
    BY <1>1, <1>2
  <2>. QED
    BY <2>1
<1>3. CASE e.type \notin collapsed
  BY <1>1, <1>3
<1>. QED
  BY <1>2, <1>3

(* Every canonical that vanished is accounted for by exactly one event,    *)
(* every one that appeared by some, unless their type is only counted.     *)
THEOREM ChangesAreTold == Spec => IdentityAccountedFor
<1>1. ASSUME Refresh, DOMAIN registry # {}
      PROVE  LET told == {e \in report'.changes : e.type \in Identity}
                   hidden == \E b \in report'.bulk : b.type \in Identity
               IN /\ \A i \in Vanished(registry, registry') :
                       LET about == {e \in told : i \in e.previous}
                       IN /\ \A e, f \in about : e = f
                          /\ hidden \/ about # {}
                  /\ \A j \in Appeared(registry, registry') :
                       hidden \/ \E e \in told : j \in e.current
  <2>. DEFINE told == {e \in report'.changes : e.type \in Identity}
              hidden == \E b \in report'.bulk : b.type \in Identity
  <2>1. report' = Detect(registry, registry')
    BY <1>1 DEF Refresh
  <2>2. told \subseteq Events(registry, registry')
    BY <2>1, ReportType
  <2>3. ASSUME NEW e \in Events(registry, registry'), e.type \in Identity
        PROVE  hidden \/ e \in told
    BY <1>1, <2>1, <2>3, ToldOrHidden
  <2>4. ASSUME NEW i \in Vanished(registry, registry')
        PROVE  LET about == {e \in told : i \in e.previous}
               IN (\A e, f \in about : e = f) /\ (hidden \/ about # {})
    <3>1. PICK e \in Events(registry, registry') :
            /\ e.type \in Identity /\ i \in e.previous
            /\ \A f \in Events(registry, registry') :
                 f.type \in Identity /\ i \in f.previous => f = e
      BY VanishedOnce
    <3>. QED
      BY <2>2, <2>3, <3>1
  <2>5. ASSUME NEW j \in Appeared(registry, registry')
        PROVE  hidden \/ \E e \in told : j \in e.current
    BY <2>3, AppearedTold
  <2>. QED
    BY <2>4, <2>5
<1>2. ASSUME [Next]_vars
      PROVE  [DOMAIN registry # {} =>
        LET told == {e \in report'.changes : e.type \in Identity}
            hidden == \E b \in report'.bulk : b.type \in Identity
        IN /\ \A i \in Vanished(registry, registry') :
                LET about == {e \in told : i \in e.previous}
                IN /\ \A e, f \in about : e = f
                   /\ hidden \/ about # {}
           /\ \A j \in Appeared(registry, registry') :
                hidden \/ \E e \in told : j \in e.current]_vars
  <2>1. CASE Refresh /\ DOMAIN registry # {}
    BY <1>1, <2>1
  <2>2. CASE ~Refresh \/ DOMAIN registry = {}
    BY <1>2, <2>2 DEF Next
  <2>. QED
    BY <2>1, <2>2
<1>. QED
  BY <1>2, PTL DEF Spec, IdentityAccountedFor

(* A canonical reported as removed has a source record that several        *)
(* canonicals share, or none that still comes.                             *)
THEOREM RemovalsAreReal == Spec => RemovalIsReal
<1>1. ASSUME NEW p, NEW c, NEW i \in Removed(p, c),
             \A ref \in SourceRecordKeys(p[i]) : \A j, k \in Holders(c, ref) : j = k
      PROVE  \A ref \in SourceRecordKeys(p[i]) : Holders(c, ref) = {}
  <2>. SUFFICES ASSUME NEW ref \in SourceRecordKeys(p[i]), Holders(c, ref) # {}
                PROVE  FALSE
    OBVIOUS
  <2>1. PICK j : Holders(c, ref) = {j}
    BY <1>1
  <2>2. j \in DOMAIN c /\ j \in SplitOwners(p, c, i)
    BY <2>1 DEF Holders, SplitOwners
  <2>3. ASSUME NEW k \in Candidates(p, c, i) PROVE k = j
    <3>1. PICK other \in SourceRecordKeys(p[i]) : k \in Holders(c, other)
      BY <2>3 DEF Candidates
    <3>2. Holders(c, other) = {k} /\ k \in DOMAIN c
      BY <1>1, <3>1 DEF Holders
    <3>3. k \in SplitOwners(p, c, i)
      BY <3>2 DEF SplitOwners
    <3>4. i \in DOMAIN p /\ ~IsSplit(p, c, i)
      BY <1>1 DEF Removed, Vanished
    <3>. QED
      BY <2>2, <3>3, <3>4 DEF IsSplit
  <2>4. j \in Candidates(p, c, i)
    BY <2>1 DEF Candidates
  <2>5. TransitionsTo(p, c, i, j)
    BY <1>1, <2>3, <2>4 DEF TransitionsTo, Removed
  <2>. QED
    BY <1>1, <2>2, <2>5 DEF Removed
<1>2. ASSUME NEW p, NEW c, NEW e \in Events(p, c), e.type = "record_removed",
             NEW i \in e.previous
      PROVE  i \in Removed(p, c)
  <2>1. e \notin TransitionEvents(p, c)
    BY <1>2 DEF TransitionEvents, Event
  <2>2. e \notin SplitEvents(p, c) /\ e \notin FieldEvents(p, c)
    BY <1>2 DEF SplitEvents, FieldEvents, Event
  <2>3. e \notin {Event("record_added", {}, {j}) : j \in Added(p, c)}
    BY <1>2 DEF Event
  <2>4. PICK k \in Removed(p, c) : e = Event("record_removed", {k}, {})
    BY <2>1, <2>2, <2>3 DEF Events
  <2>. QED
    BY <1>2, <2>4 DEF Event
<1>3. ASSUME Refresh, NEW e \in report'.changes, e.type = "record_removed",
             NEW i \in e.previous
      PROVE  \/ \E ref \in SourceRecordKeys(registry[i]) :
                  \E j, k \in Holders(registry', ref) : j # k
             \/ \A ref \in SourceRecordKeys(registry[i]) :
                  Holders(registry', ref) = {}
  <2>1. e \in Events(registry, registry')
    BY <1>3, ReportType DEF Refresh
  <2>2. i \in Removed(registry, registry')
    BY <1>2, <1>3, <2>1
  <2>. QED
    BY <1>1, <2>2
<1>4. ASSUME [Next]_vars
      PROVE  [\A e \in report'.changes : e.type = "record_removed" =>
                \A i \in e.previous :
                  \/ \E ref \in SourceRecordKeys(registry[i]) :
                       \E j, k \in Holders(registry', ref) : j # k
                  \/ \A ref \in SourceRecordKeys(registry[i]) :
                       Holders(registry', ref) = {}]_vars
  BY <1>3, <1>4 DEF Next
<1>. QED
  BY <1>4, PTL DEF Spec, RemovalIsReal

=============================================================================
