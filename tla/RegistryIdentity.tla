-------------------------- MODULE RegistryIdentity --------------------------
(***************************************************************************)
(* Which source records make up which canonical format, and what a run     *)
(* reports about the change.                                               *)
(*                                                                         *)
(* A run (Refresh) hands the records its sources delivered to reconcile,   *)
(* which groups them by their strongest identifier, bridges groups by      *)
(* identifiers one authority copied from another and by name and           *)
(* extension, and attaches records to formats they merely cite.  The       *)
(* result is validated, compared with the current registry view            *)
(* (detect_registry_changes) and becomes the view.                         *)
(*                                                                         *)
(* A definition named Wrong... is the one that follows it with a slip in   *)
(* it, paired in PROJECT.json with the property it breaks.                 *)
(*                                                                         *)
(* Abstractions: a name stands for all spellings with its lower-case form  *)
(* and slug; MIME types, category, hazard and divergence events are left   *)
(* out; where the order of delivery decides, any order is possible.        *)
(***************************************************************************)
EXTENDS Integers, FiniteSets

CONSTANTS
  Kind,      \* strong identifier kinds
  Puid,      \* the one PRONOM verifies
  Rank,      \* their order in the identifier rules, the strongest lowest
  Name,      \* format names
  Version,   \* the version tokens of a name
  Broad,     \* names of families and other broad formats
  Record,    \* source records
  Delivery,  \* the sets of records the sources may deliver in a run
  BulkMin,   \* _BULK_CHANGE_MIN_COUNT
  MaxRun     \* bound: number of runs

NoId == [kind |-> "none", value |-> "none"]

\* The identifier a record's source verifies for it.
Verifies(r) == r.own # NoId

(* A record has a reference (source and record id) that stays when its     *)
(* content changes.  A source verifies at most one identifier per record,  *)
(* its own; no two records are delivered under one reference or with one   *)
(* verified identifier.                                                    *)
ASSUME IdentityConstants ==
  /\ Puid \in Kind
  /\ Rank \in [Kind -> Nat]
  /\ \A k \in Kind \ {Puid} : Rank[Puid] < Rank[k]
  /\ {"none", "name", "name_ext", "fmt"} \cap Kind = {}
  /\ BulkMin \in Nat \ {0}
  /\ MaxRun \in Nat
  /\ \A r \in Record :
       /\ r.name \in Name
       /\ Verifies(r) => r.own.kind \in Kind
       /\ \A id \in r.copied : id.kind \in Kind /\ id # r.own
  /\ \A R \in Delivery :
       /\ R \subseteq Record
       /\ \A r, s \in R :
            r.ref = s.ref \/ (Verifies(r) /\ r.own = s.own) => r = s

VARIABLES
  records,   \* the identity records of the last run
  registry,  \* the current registry view: canonical documents by id
  report,    \* the changes the last run reported
  errors,    \* and the ids it found to be duplicate
  run        \* how many runs completed

vars == <<records, registry, report, errors, run>>

-----------------------------------------------------------------------------
(* Guards on names.                                                        *)

NamesConflict(a, b) ==
  Version[a] # {} /\ Version[b] # {} /\ Version[a] # Version[b]

AsymmetricVersionSignal(a, b) == (Version[a] = {}) # (Version[b] = {})

-----------------------------------------------------------------------------
(* Groups of the records R by strongest key.                               *)

WeakMatchKey(r) == [kind |-> "name_ext", value |-> <<r.name, r.extensions>>]

StrongestKey(r) ==
  IF Verifies(r) THEN r.own
  ELSE IF r.extensions # {} THEN WeakMatchKey(r)
  ELSE [kind |-> "name", value |-> <<r.name, {}>>]

Members(R, key) == {r \in R : StrongestKey(r) = key}

(* A group without identifiers joins the one verified group with its name  *)
(* and extensions.                                                         *)
WeakBridge(R, key, target) ==
  LET alike == {r \in R : r.extensions # {} /\ WeakMatchKey(r) = key}
  IN /\ {StrongestKey(r) : r \in {x \in alike : Verifies(x)}} = {target}
     /\ \E r, s \in alike : r.ref.source # s.ref.source
     /\ \A r \in Members(R, key) : r.copied = {}

\* The groups that verify what a group's records copied.
ClaimedTargets(R, key, kind) ==
  {r.own : r \in {x \in R :
     /\ x.own.kind = kind
     /\ x.own # key
     /\ \E m \in Members(R, key) : x.own \in m.copied}}

(* Only the strongest kind that leads anywhere counts.                     *)
LeadingKind(R, key, kind) ==
  /\ ClaimedTargets(R, key, kind) # {}
  /\ \A k \in Kind : Rank[k] < Rank[kind] => ClaimedTargets(R, key, k) = {}

(* Lets a name without a version pass for any version. *)
WrongNamesAllowBridge(R, key, target) ==
  \A r \in Members(R, key) : \A t \in Members(R, target) :
    ~NamesConflict(r.name, t.name)

NamesAllowBridge(R, key, target) ==
  \A r \in Members(R, key) : \A t \in Members(R, target) :
    /\ ~NamesConflict(r.name, t.name)
    /\ ~AsymmetricVersionSignal(r.name, t.name)

(* A group joins the one group that verifies what it copied.               *)
ClaimedBridge(R, key, target) ==
  \E kind \in Kind :
    /\ LeadingKind(R, key, kind)
    /\ ClaimedTargets(R, key, kind) = {target}
    /\ kind = Puid => \A r \in Members(R, key) : r.name \notin Broad
    /\ NamesAllowBridge(R, key, target)

(* One hop: a group is collapsed into the key its own key leads to, not    *)
(* into what that one leads to.                                            *)
AliasOf(R, key) ==
  LET bridged == {t \in {r.own : r \in R} :
                    WeakBridge(R, key, t) \/ ClaimedBridge(R, key, t)}
  IN IF bridged = {} THEN key ELSE CHOOSE t \in bridged : TRUE

Collapsed(R, key) == {r \in R : AliasOf(R, StrongestKey(r)) = key}

-----------------------------------------------------------------------------
(* Canonical documents.                                                    *)

CanonicalId(key) ==
  IF key.kind \in Kind THEN key ELSE [kind |-> "fmt", value |-> key.value[1]]

PreferredRecord(items, key) ==
  IF \E r \in items : r.own = key THEN CHOOSE r \in items : r.own = key
                                  ELSE CHOOSE r \in items : TRUE

\* The verified PUIDs a record copied.
CitedPuids(R, r) ==
  {x.own : x \in {y \in R : y.own.kind = Puid /\ y.own \in r.copied}}

(* Holds the guards of single citations against families, too. *)
WrongCites(R, r, items, name) ==
  /\ \E x \in items : x.own \in CitedPuids(R, r)
  /\ ~NamesConflict(r.name, name)
  /\ r.name \notin Broad

Cites(R, r, items, name) ==
  LET puids == CitedPuids(R, r)
      multi == \E p, q \in puids : p # q
  IN \E x \in items :
       /\ x.own \in puids
       /\ multi \/ (~NamesConflict(r.name, name) /\ r.name \notin Broad)

CanonicalDocument(R, key) ==
  LET items == Collapsed(R, key)
      name == PreferredRecord(items, key).name
  IN [key |-> key, preferred_name |-> name, items |-> items,
      related |-> {r \in R : Cites(R, r, items, name)} \ items]

Keys(R) == {AliasOf(R, StrongestKey(r)) : r \in R}

\* The verified identifiers in the compact index of a document.
Identifiers(doc) == {r.own : r \in {x \in doc.items : Verifies(x)}}

Extensions(doc) == UNION {r.extensions : r \in doc.items}

SourceRecordKeys(doc) == {r.ref : r \in doc.items \cup doc.related}

(* Documents with one id overwrite each other: the last one stays.         *)
OneEach(keys, kept) ==
  /\ {CanonicalId(k) : k \in kept} = {CanonicalId(k) : k \in keys}
  /\ \A k, l \in kept : CanonicalId(k) = CanonicalId(l) => k = l

View(R, kept) ==
  [i \in {CanonicalId(k) : k \in kept} |->
     CanonicalDocument(R, CHOOSE k \in kept : CanonicalId(k) = i)]

\* The registry views a delivery may lead to.
reconcile[R \in Delivery] ==
  LET keys == Keys(R)
  IN {View(R, kept) : kept \in {ks \in SUBSET keys : OneEach(keys, ks)}}

(* validate_registry reports duplicate ids; the run goes on.               *)
validate_registry[R \in Delivery] ==
  LET keys == Keys(R)
  IN {CanonicalId(k) : k \in {x \in keys :
        \E y \in keys : x # y /\ CanonicalId(x) = CanonicalId(y)}}

-----------------------------------------------------------------------------
(* detect_registry_changes, between the previous view p and the current c. *)

Vanished(p, c) == DOMAIN p \ DOMAIN c
Appeared(p, c) == DOMAIN c \ DOMAIN p
Stayed(p, c) == DOMAIN p \cap DOMAIN c

Holders(view, ref) == {i \in DOMAIN view : ref \in SourceRecordKeys(view[i])}

Candidates(p, c, i) ==
  UNION {Holders(c, ref) : ref \in SourceRecordKeys(p[i])}

(* Takes only a canonical that is new for the successor. *)
WrongTransitionsTo(p, c, i, j) ==
  i \in Vanished(p, c) /\ j \in Appeared(p, c) /\ Candidates(p, c, i) = {j}

(* A vanished canonical whose source records all lead to one current one.  *)
TransitionsTo(p, c, i, j) ==
  i \in Vanished(p, c) /\ Candidates(p, c, i) = {j}

Merging(p, c, j) == {i \in Vanished(p, c) : TransitionsTo(p, c, i, j)}

(* Counts shared source records. *)
WrongSplitOwners(p, c, i) ==
  {j \in DOMAIN c : \E ref \in SourceRecordKeys(p[i]) : j \in Holders(c, ref)}

(* Only a source record with one current holder counts for a split.        *)
SplitOwners(p, c, i) ==
  {j \in DOMAIN c : \E ref \in SourceRecordKeys(p[i]) : Holders(c, ref) = {j}}

IsSplit(p, c, i) ==
  i \in DOMAIN p /\ \E j, k \in SplitOwners(p, c, i) : j # k

Event(type, previous, current) ==
  [type |-> type, previous |-> previous, current |-> current]

TransitionEvents(p, c) ==
  {Event(IF j \in DOMAIN p \/ \E h, i \in Merging(p, c, j) : h # i
           THEN "canonical_merged" ELSE "canonical_rekeyed",
         Merging(p, c, j), {j}) :
     j \in {k \in DOMAIN c : Merging(p, c, k) # {}}}

SplitEvents(p, c) ==
  {Event("canonical_split", {i}, SplitOwners(p, c, i)) :
     i \in {k \in DOMAIN p : IsSplit(p, c, k)}}

Added(p, c) ==
  {j \in Appeared(p, c) :
     /\ Merging(p, c, j) = {}
     /\ ~\E i \in DOMAIN p : IsSplit(p, c, i) /\ j \in SplitOwners(p, c, i)}

(* Forgets that a split canonical may be gone. *)
WrongRemoved(p, c) ==
  {i \in Vanished(p, c) : ~\E j \in DOMAIN c : TransitionsTo(p, c, i, j)}

Removed(p, c) ==
  {i \in Vanished(p, c) :
     /\ ~\E j \in DOMAIN c : TransitionsTo(p, c, i, j)
     /\ ~IsSplit(p, c, i)}

FieldEvents(p, c) ==
  {Event("preferred_name_changed", {i}, {i}) :
     i \in {k \in Stayed(p, c) : p[k].preferred_name # c[k].preferred_name}}
  \cup
  {Event("identifiers_changed", {i}, {i}) :
     i \in {k \in Stayed(p, c) : \/ Identifiers(p[k]) # Identifiers(c[k])
                                 \/ Extensions(p[k]) # Extensions(c[k])}}

Events(p, c) ==
  TransitionEvents(p, c) \cup SplitEvents(p, c)
  \cup {Event("record_added", {}, {j}) : j \in Added(p, c)}
  \cup {Event("record_removed", {i}, {}) : i \in Removed(p, c)}
  \cup FieldEvents(p, c)

EventType == {"canonical_merged", "canonical_rekeyed", "canonical_split",
              "record_added", "record_removed",
              "preferred_name_changed", "identifiers_changed"}

OfType(events, type) == {e \in events : e.type = type}

(* A type of which there are too many is replaced by its number.           *)
BulkTypes(events, sizes) ==
  {t \in EventType :
     LET n == Cardinality(OfType(events, t))
     IN n >= BulkMin /\ \A size \in sizes : n >= size \div 4}

Detect(p, c) ==
  IF DOMAIN p = {}
    THEN [run_kind |-> "baseline", changes |-> {}, bulk |-> {}]
    ELSE LET events == Events(p, c)
             collapsed == BulkTypes(events, {Cardinality(DOMAIN p),
                                             Cardinality(DOMAIN c)})
         IN [run_kind |-> "change",
             changes |-> {e \in events : e.type \notin collapsed},
             bulk |-> {[type |-> t, count |-> Cardinality(OfType(events, t))] :
                         t \in collapsed}]

-----------------------------------------------------------------------------
Init ==
  /\ records = {}
  /\ registry = [i \in {} |-> {}]
  /\ report = [run_kind |-> "none", changes |-> {}, bulk |-> {}]
  /\ errors = {}
  /\ run = 0

Refresh ==
  /\ run < MaxRun
  /\ run' = run + 1
  /\ \E R \in Delivery :
       /\ records' = R
       /\ registry' \in reconcile[R]
       /\ errors' = validate_registry[R]
  /\ report' = Detect(registry, registry')

Next == Refresh

Spec == Init /\ [][Next]_vars

-----------------------------------------------------------------------------
(* Properties.                                                             *)

Document == [key : {StrongestKey(r) : r \in Record}, preferred_name : Name,
             items : SUBSET Record, related : SUBSET Record]

TypeOK ==
  /\ records \in Delivery \cup {{}}
  /\ \A i \in DOMAIN registry :
       /\ registry[i] \in Document
       /\ registry[i].items # {}
       /\ CanonicalId(registry[i].key) = i
  /\ report.run_kind \in {"none", "baseline", "change"}
  /\ report.run_kind # "change" => report.changes = {} /\ report.bulk = {}
  /\ \A e \in report.changes : e.type \in EventType
  /\ errors \subseteq DOMAIN registry
  /\ run \in 0 .. MaxRun

(* The records of one canonical never disagree about the version: a 1.0    *)
(* record is not merged with a 1.1 record, nor with one that names no      *)
(* version, over any number of bridges between groups.                     *)
VersionsAgree ==
  \A i \in DOMAIN registry : \A r, s \in registry[i].items :
    Version[r.name] = Version[s.name]

(* An authority record that cites several PUIDs keeps a canonical under    *)
(* its own identifier and is related to each format it cites.              *)
FamilyStandsAlone ==
  \A r \in records :
    Verifies(r) /\ (\E p, q \in CitedPuids(records, r) : p # q) =>
      /\ \E i \in DOMAIN registry : r.own = i /\ r \in registry[i].items
      /\ \A p \in CitedPuids(records, r) : \E i \in DOMAIN registry :
           /\ p \in Identifiers(registry[i])
           /\ r \in registry[i].items \cup registry[i].related

(* A run that leaves the registry as it was reports no change, whatever    *)
(* source records several canonicals share.                                *)
QuietWhenUnchanged ==
  [][registry' = registry => report'.changes = {} /\ report'.bulk = {}]_vars

Identity == {"canonical_merged", "canonical_rekeyed", "canonical_split",
             "record_added", "record_removed"}

(* What becomes of a canonical that vanished is told by one event, and     *)
(* where one that appeared comes from by at least one, unless events of    *)
(* that type are replaced by their number.                                 *)
IdentityAccountedFor ==
  [][DOMAIN registry # {} =>
       LET told == {e \in report'.changes : e.type \in Identity}
           hidden == \E b \in report'.bulk : b.type \in Identity
       IN /\ \A i \in Vanished(registry, registry') :
               LET about == {e \in told : i \in e.previous}
               IN /\ \A e, f \in about : e = f
                  /\ hidden \/ about # {}
          /\ \A j \in Appeared(registry, registry') :
               hidden \/ \E e \in told : j \in e.current]_vars

(* A removal is not reported for a canonical whose source records still    *)
(* come, unless several canonicals share one of them.                      *)
RemovalIsReal ==
  [][\A e \in report'.changes : e.type = "record_removed" =>
       \A i \in e.previous :
         \/ \E ref \in SourceRecordKeys(registry[i]) :
              \E j, k \in Holders(registry', ref) : j # k
         \/ \A ref \in SourceRecordKeys(registry[i]) :
              Holders(registry', ref) = {}]_vars

-----------------------------------------------------------------------------
(* A statement of the documentation that the code does not keep.           *)

(* A bridge leads to a verified authority group: a canonical under an      *)
(* authority's identifier has the record that verifies it.                 *)
AuthorityKeyIsVerified ==
  \A i \in DOMAIN registry :
    i.kind \in Kind => i \in Identifiers(registry[i])

=============================================================================
