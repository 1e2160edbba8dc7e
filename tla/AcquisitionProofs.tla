------------------------- MODULE AcquisitionProofs -------------------------
(***************************************************************************)
(* The adapters that acquire a source, and the snapshot directory under    *)
(* both.                                                                   *)
(*                                                                         *)
(* The directory: every step of a store, and every way it may be cut       *)
(* short, leaves no index entry without its whole file.  The entry is      *)
(* written after the file, so it is the payload on its way to the index    *)
(* that has to be whole.                                                   *)
(*                                                                         *)
(* NARA, for any releases published in any order, any modes and any number *)
(* of failures: whole snapshots, companions, and no way back to an older   *)
(* release.  The last one is not inductive.  It needs that the release     *)
(* index, unless it is missing or torn, names the newest release that was  *)
(* ever resolved, and that a run in mode "latest" has kept to it since it  *)
(* resolved its sources: nobody else resolves a release in between.        *)
(*                                                                         *)
(* Wikidata, for any population, page and batch size, any edits upstream   *)
(* and any number of failures, deaths and resumptions: what is stored is   *)
(* whole, what was answered is not asked again, and discovery misses       *)
(* nothing that stays where it is.                                         *)
(***************************************************************************)
EXTENDS WikidataAcquisition, NaraAcquisition, TLAPS, FiniteSetTheorems,
        WellFoundedInduction

-----------------------------------------------------------------------------
(* The snapshot directory, and two facts about finite sets of numbers, for *)
(* releases and pages.                                                     *)

CacheInv ==
  /\ IndexedSnapshotsAreWhole
  /\ pending # NoStore =>
       /\ pending = [key |-> pending.key, payload |-> pending.payload,
                     stage |-> pending.stage]
       /\ pending.stage = "index" => pending.payload \in whole

LEMMA CacheInitInv == CacheInit => CacheInv
BY DEF CacheInit, CacheInv, IndexedSnapshotsAreWhole

LEMMA StoreKeepsCache ==
  ASSUME NEW key, NEW payload, CacheInv, Store(key, payload)
  PROVE  CacheInv'
BY DEF Store, CacheInv, IndexedSnapshotsAreWhole

LEMMA WriteIndexAdds ==
  ASSUME WriteIndex
  PROVE  /\ DOMAIN index' = DOMAIN index \cup {pending.key}
         /\ index'[pending.key] = pending.payload
         /\ \A key \in DOMAIN index \ {pending.key} : index'[key] = index[key]
BY DEF WriteIndex

LEMMA WritesArePending ==
  ASSUME WriteFile \/ WriteIndex
  PROVE  pending # NoStore
BY DEF WriteFile, WriteIndex, NoStore

LEMMA WritesKeepCache ==
  ASSUME CacheInv, WriteFile \/ WriteIndex
  PROVE  CacheInv'
<1>1. CASE WriteFile
  BY <1>1, WritesArePending DEF WriteFile, CacheInv, IndexedSnapshotsAreWhole
<1>2. CASE WriteIndex
  <2>1. pending.payload \in whole /\ whole' = whole /\ pending' = NoStore
    BY <1>2, WritesArePending DEF WriteIndex, CacheInv
  <2>. QED
    BY <1>2, <2>1, WriteIndexAdds DEF CacheInv, IndexedSnapshotsAreWhole
<1>. QED
  BY <1>1, <1>2

LEMMA DeathKeepsCache ==
  ASSUME CacheInv, CacheLeftBehind
  PROVE  CacheInv'
BY DEF CacheLeftBehind, CacheInv, IndexedSnapshotsAreWhole

LEMMA IdleKeepsCache ==
  ASSUME CacheInv, UNCHANGED cacheVars
  PROVE  CacheInv'
BY DEF cacheVars, CacheInv, IndexedSnapshotsAreWhole

-----------------------------------------------------------------------------
(* Finite sets of numbers: of the sets of elements beyond each element,    *)
(* one is smallest.                                                        *)

LEMMA HasGreatest ==
  ASSUME NEW S \in SUBSET Nat, IsFiniteSet(S), S # {}
  PROVE  \E m \in S : \A n \in S : n <= m
<1>. DEFINE Above(m) == {n \in S : n > m}
            T == {Above(m) : m \in S}
<1>1. T \subseteq FiniteSubsetsOf(S) /\ T # {}
  <2>1. T \subseteq SUBSET S
    OBVIOUS
  <2>2. PICK m : m \in S
    OBVIOUS
  <2>3. Above(m) \in T
    BY <2>2
  <2>. QED
    BY <2>1, <2>3, FS_FiniteSubsetsOfFinite
<1>2. IsWellFoundedOn(StrictSubsetOrdering(S), FiniteSubsetsOf(S))
  BY FS_StrictSubsetOrderingWellFounded
<1>3. PICK x \in T : \A y \in T : <<y, x>> \notin StrictSubsetOrdering(S)
  <2>. HIDE DEF T
  <2>. QED
    BY <1>1, <1>2, WFMin, Zenon
<1>4. PICK m \in S : x = Above(m)
  OBVIOUS
<1>5. SUFFICES ASSUME NEW n \in S, ~(n <= m) PROVE FALSE
  BY <1>4
<1>6. n > m /\ n \in Nat /\ m \in Nat
  BY <1>5
<1>7. Above(n) \subseteq Above(m) /\ n \in Above(m) /\ n \notin Above(n)
  <2>1. \A e \in S : e > n => e > m
    <3>. SUFFICES ASSUME NEW e \in S, e > n PROVE e > m
      OBVIOUS
    <3>1. e \in Nat
      OBVIOUS
    <3>. QED
      BY <1>6, <3>1
  <2>2. ~(n > n)
    BY <1>6
  <2>. QED
    BY <1>6, <2>1, <2>2, Zenon
<1>8. <<Above(n), Above(m)>> \in StrictSubsetOrdering(S)
  BY <1>7 DEF StrictSubsetOrdering
<1>. QED
  BY <1>3, <1>4, <1>8

LEMMA HasLeast ==
  ASSUME NEW S \in SUBSET Nat, IsFiniteSet(S), S # {}
  PROVE  \E m \in S : \A n \in S : m <= n
<1>. DEFINE Below(m) == {n \in S : n < m}
            T == {Below(m) : m \in S}
<1>1. T \subseteq FiniteSubsetsOf(S) /\ T # {}
  <2>1. T \subseteq SUBSET S
    OBVIOUS
  <2>2. PICK m : m \in S
    OBVIOUS
  <2>3. Below(m) \in T
    BY <2>2
  <2>. QED
    BY <2>1, <2>3, FS_FiniteSubsetsOfFinite
<1>2. IsWellFoundedOn(StrictSubsetOrdering(S), FiniteSubsetsOf(S))
  BY FS_StrictSubsetOrderingWellFounded
<1>3. PICK x \in T : \A y \in T : <<y, x>> \notin StrictSubsetOrdering(S)
  <2>. HIDE DEF T
  <2>. QED
    BY <1>1, <1>2, WFMin, Zenon
<1>4. PICK m \in S : x = Below(m)
  OBVIOUS
<1>5. SUFFICES ASSUME NEW n \in S, ~(m <= n) PROVE FALSE
  BY <1>4
<1>6. n < m /\ n \in Nat /\ m \in Nat
  BY <1>5
<1>7. Below(n) \subseteq Below(m) /\ n \in Below(m) /\ n \notin Below(n)
  <2>1. \A e \in S : e < n => e < m
    <3>. SUFFICES ASSUME NEW e \in S, e < n PROVE e < m
      OBVIOUS
    <3>1. e \in Nat
      OBVIOUS
    <3>. QED
      BY <1>6, <3>1
  <2>2. ~(n < n)
    BY <1>6
  <2>. QED
    BY <1>6, <2>1, <2>2, Zenon
<1>8. <<Below(n), Below(m)>> \in StrictSubsetOrdering(S)
  BY <1>7 DEF StrictSubsetOrdering
<1>. QED
  BY <1>3, <1>4, <1>8

-----------------------------------------------------------------------------
(* NARA: the run, its sources and the release index.                        *)

NaraPhase == {"idle", "plans", "offline", "matrices", "acquire", "acquired"}
Location == {"remote_uri", "local_file"}
SourceLists == {Companion(d, l) : d \in Date, l \in Location}
GotFile == [date : Date, kind : {Kinds[1], Kinds[2]}]

RunInv ==
  /\ published \subseteq Date \X {1, 2}
  /\ releaseIndex \in Date \cup {None, NaraTorn}
  /\ nara \in [pc : NaraPhase, mode : {None, "latest", "pinned", "local_files"},
               offline : BOOLEAN, plans : SUBSET Date,
               sources : SourceLists \cup {<<>>}, snapshots : Seq(GotFile)]

\* The sources of a run, once they are resolved, and what it got of them.
SourcesInv ==
  /\ nara.pc \in {"acquire", "acquired"} =>
       /\ nara.sources \in SourceLists
       /\ Len(nara.snapshots) <= 2
       /\ \A i \in 1 .. Len(nara.snapshots) :
            nara.snapshots[i] = [date |-> nara.sources[i].date,
                                 kind |-> nara.sources[i].kind]
  /\ nara.pc = "acquired" => Len(nara.snapshots) = 2
  /\ nara.pc \notin {"acquire", "acquired"} => nara.snapshots = <<>>

ReleaseInv ==
  /\ known \in Nat
  /\ releaseIndex = None => known = 0
  /\ releaseIndex \in Date => known = releaseIndex
  /\ nara.pc \in {"acquire", "acquired"} /\ nara.mode = "latest" =>
       nara.sources[1].date >= known

NaraInv == RunInv /\ SourcesInv /\ ReleaseInv /\ CacheInv

-----------------------------------------------------------------------------
(* Sources and releases.                                                   *)

LEMMA DatesAre ==
  /\ PinnedDate \in Date /\ LocalDate \in Date
  /\ \A d \in Date : d \in Nat /\ d >= 0
  /\ \A d \in Date : d # None /\ d # NaraTorn
BY NaraConstants

LEMMA CompanionIs ==
  ASSUME NEW d \in Date, NEW l \in Location
  PROVE  /\ Companion(d, l) \in SourceLists
         /\ \A i \in 1 .. 2 :
              Companion(d, l)[i] = [kind |-> Kinds[i], date |-> d, location |-> l]
BY DEF Companion, SourceLists

LEMMA FirstCompanion ==
  ASSUME NEW d \in Date, NEW l \in Location
  PROVE  Companion(d, l) \in SourceLists /\ Companion(d, l)[1].date = d
<1>1. 1 \in 1 .. 2
  OBVIOUS
<1>2. Companion(d, l)[1] = [kind |-> Kinds[1], date |-> d, location |-> l]
  BY <1>1, CompanionIs
<1>3. Companion(d, l) \in SourceLists
  BY CompanionIs
<1>. QED
  BY <1>2, <1>3

LEMMA SourcesAre ==
  ASSUME NEW sources \in SourceLists
  PROVE  \E d \in Date : \A i \in 1 .. 2 :
           sources[i].date = d /\ sources[i].kind = Kinds[i]
<1>1. PICK d \in Date, l \in Location : sources = Companion(d, l)
  BY DEF SourceLists
<1>2. \A i \in 1 .. 2 : sources[i] = [kind |-> Kinds[i], date |-> d, location |-> l]
  BY <1>1, CompanionIs
<1>3. \A i \in 1 .. 2 : sources[i].date = d /\ sources[i].kind = Kinds[i]
  BY <1>2
<1>. QED
  BY <1>3

\* A release that both directories have is in Date, and so is the newest.
LEMMA LatestIs ==
  ASSUME NEW dates \in SUBSET Date, dates # {}
  PROVE  Latest(dates) \in dates
<1>1. dates \in SUBSET Nat /\ IsFiniteSet(dates)
  BY NaraConstants, FS_Subset
<1>2. \E d \in dates : \A e \in dates : e <= d
  BY <1>1, HasGreatest
<1>. QED
  BY <1>2 DEF Latest

LEMMA DatesOfKind ==
  ASSUME NEW kind
  PROVE  Dates(kind) \in SUBSET Date
BY DEF Dates

\* The sources a run resolves are no older than the release index says.
LEMMA ResolvedKeeps ==
  ASSUME RunInv, SourcesInv, ReleaseInv, nara.pc \notin {"acquire", "acquired"},
         NEW d \in Date, NEW l \in Location, d >= known \/ nara.mode # "latest",
         nara' = Resolved(Companion(d, l)), UNCHANGED <<published, releaseIndex, known>>
  PROVE  RunInv' /\ SourcesInv' /\ ReleaseInv'
<1>1. Companion(d, l) \in SourceLists /\ Companion(d, l)[1].date = d
  BY FirstCompanion
<1>2. /\ nara'.pc = "acquire" /\ nara'.sources = Companion(d, l)
      /\ nara'.snapshots = <<>> /\ nara'.mode = nara.mode
  BY DEF Resolved, RunInv, SourcesInv
<1>3. RunInv'
  BY <1>1 DEF Resolved, RunInv, NaraPhase
<1>4. SourcesInv'
  BY <1>1, <1>2 DEF SourcesInv
<1>. QED
  BY <1>1, <1>2, <1>3, <1>4 DEF ReleaseInv

-----------------------------------------------------------------------------
(* The steps.                                                              *)

LEMMA NaraIdleIs ==
  /\ IdleNara.pc = "idle" /\ IdleNara.snapshots = <<>>
  /\ IdleNara \in [pc : NaraPhase, mode : {None, "latest", "pinned", "local_files"},
                   offline : BOOLEAN, plans : SUBSET Date,
                   sources : SourceLists \cup {<<>>}, snapshots : Seq(GotFile)]
BY DEF IdleNara, NaraPhase

\* A run that ends, or fails, promises nothing.
LEMMA IdleKeeps ==
  ASSUME RunInv, ReleaseInv, nara' = IdleNara,
         UNCHANGED <<published, known>>,
         releaseIndex' = releaseIndex \/ releaseIndex' = NaraTorn
  PROVE  RunInv' /\ SourcesInv' /\ ReleaseInv'
BY NaraIdleIs, NaraConstants DEF RunInv, SourcesInv, ReleaseInv

LEMMA InitInv == CacheInit /\ NaraInit => NaraInv
BY NaraIdleIs, NaraConstants, CacheInitInv
   DEF NaraInit, NaraInv, RunInv, SourcesInv, ReleaseInv

LEMMA BeginStep ==
  ASSUME RunInv, SourcesInv, ReleaseInv,
         NEW mode \in {"latest", "pinned", "local_files"}, NEW offline \in BOOLEAN,
         BeginNara(mode, offline)
  PROVE  RunInv' /\ SourcesInv' /\ ReleaseInv'
<1>. DEFINE r == [IdleNara EXCEPT !.mode = mode, !.offline = offline]
<1>1. Pinned \in SourceLists /\ LocalFiles \in SourceLists
  BY NaraConstants, CompanionIs DEF Pinned, LocalFiles, Location
<1>2. /\ nara' \in [pc : NaraPhase, mode : {None, "latest", "pinned", "local_files"},
                    offline : BOOLEAN, plans : SUBSET Date,
                    sources : SourceLists \cup {<<>>}, snapshots : Seq(GotFile)]
      /\ nara'.snapshots = <<>> /\ nara'.mode = mode
      /\ nara'.pc = "acquire" => nara'.sources \in SourceLists /\ mode # "latest"
      /\ nara'.pc # "acquired"
  <2>1. CASE mode = "latest" /\ ~offline
    BY <2>1, NaraIdleIs DEF BeginNara, IdleNara, NaraPhase
  <2>2. CASE mode = "latest" /\ offline
    BY <2>2, NaraIdleIs DEF BeginNara, IdleNara, NaraPhase
  <2>3. CASE mode = "pinned"
    BY <1>1, <2>3, NaraIdleIs DEF BeginNara, IdleNara, NaraPhase
  <2>4. CASE mode = "local_files"
    BY <1>1, <2>4, NaraIdleIs DEF BeginNara, IdleNara, NaraPhase
  <2>. QED
    BY <2>1, <2>2, <2>3, <2>4
<1>3. UNCHANGED <<published, releaseIndex, known>>
  BY DEF BeginNara
<1>. QED
  BY <1>2, <1>3 DEF RunInv, SourcesInv, ReleaseInv

LEMMA ResolveOfflineStep ==
  ASSUME RunInv, SourcesInv, ReleaseInv, ResolveOffline
  PROVE  RunInv' /\ SourcesInv' /\ ReleaseInv'
<1>1. UNCHANGED <<published, releaseIndex, known>>
  BY DEF ResolveOffline
<1>2. CASE releaseIndex = NaraTorn \/ OfflineLatest = None
  BY <1>1, <1>2, IdleKeeps DEF ResolveOffline
<1>3. CASE ~(releaseIndex = NaraTorn \/ OfflineLatest = None)
  <2>1. nara' = Resolved(OfflineLatest) /\ nara.pc = "offline"
    BY <1>3 DEF ResolveOffline
  <2>2. CASE releaseIndex # None
    <3>1. releaseIndex \in Date /\ releaseIndex >= known
      BY <1>3, <2>2, DatesAre DEF RunInv, ReleaseInv
    <3>2. OfflineLatest = Companion(releaseIndex, "remote_uri")
      BY <2>2 DEF OfflineLatest
    <3>. QED
      BY <1>1, <2>1, <3>1, <3>2, ResolvedKeeps DEF Location
  <2>3. CASE releaseIndex = None
    <3>1. OfflineLatest = Companion(LocalDate, "local_file")
      BY <1>3, <2>3 DEF OfflineLatest, LocalFiles
    <3>2. LocalDate \in Date /\ LocalDate >= known
      BY <2>3, DatesAre DEF ReleaseInv
    <3>. QED
      BY <1>1, <2>1, <3>1, <3>2, ResolvedKeeps DEF Location
  <2>. QED
    BY <2>2, <2>3
<1>. QED
  BY <1>2, <1>3

LEMMA DiscoveryFailsStep ==
  ASSUME RunInv, SourcesInv, ReleaseInv, DiscoveryFails
  PROVE  RunInv' /\ SourcesInv' /\ ReleaseInv'
<1>1. UNCHANGED <<published, releaseIndex, known>>
  BY DEF DiscoveryFails
<1>2. CASE releaseIndex = NaraTorn
  BY <1>1, <1>2, IdleKeeps DEF DiscoveryFails
<1>3. CASE releaseIndex # NaraTorn
  <2>1. nara' = Resolved(Fallback) /\ nara.pc \in {"plans", "matrices"}
    BY <1>3 DEF DiscoveryFails
  <2>2. CASE releaseIndex # None
    <3>1. releaseIndex \in Date /\ releaseIndex >= known
      BY <1>3, <2>2, DatesAre DEF RunInv, ReleaseInv
    <3>2. Fallback = Companion(releaseIndex, "remote_uri")
      BY <2>2 DEF Fallback
    <3>. QED
      BY <1>1, <2>1, <3>1, <3>2, ResolvedKeeps DEF Location
  <2>3. CASE releaseIndex = None
    <3>1. \/ Fallback = Companion(LocalDate, "local_file")
          \/ Fallback = Companion(PinnedDate, "remote_uri")
      BY <2>3 DEF Fallback, LocalFiles, Pinned
    <3>2. /\ LocalDate \in Date /\ LocalDate >= known
          /\ PinnedDate \in Date /\ PinnedDate >= known
      BY <2>3, DatesAre DEF ReleaseInv
    <3>. QED
      BY <1>1, <2>1, <3>1, <3>2, ResolvedKeeps DEF Location
  <2>. QED
    BY <2>2, <2>3
<1>. QED
  BY <1>2, <1>3

\* The release found is written down before it is acquired.
LEMMA ListMatricesStep ==
  ASSUME RunInv, SourcesInv, ReleaseInv, ListMatrices
  PROVE  RunInv' /\ SourcesInv' /\ ReleaseInv'
<1>. DEFINE both == nara.plans \cap Dates(2)
<1>1. CASE both = {} \/ releaseIndex = NaraTorn
  BY <1>1, IdleKeeps DEF ListMatrices
<1>2. CASE ~(both = {} \/ releaseIndex = NaraTorn)
  <2>1. both \in SUBSET Date
    BY DatesOfKind
  <2>2. Latest(both) \in Date
    BY <1>2, <2>1, LatestIs
  <2>3. /\ nara' = Resolved(Companion(Latest(both), "remote_uri"))
        /\ releaseIndex' = Latest(both) /\ known' = Latest(both)
        /\ published' = published /\ nara.pc = "matrices"
    BY <1>2 DEF ListMatrices, Pair
  <2>. HIDE DEF both
  <2>4. /\ Companion(Latest(both), "remote_uri") \in SourceLists
        /\ Companion(Latest(both), "remote_uri")[1].date = Latest(both)
    BY <2>2, FirstCompanion DEF Location
  <2>5. /\ nara'.pc = "acquire" /\ nara'.snapshots = <<>>
        /\ nara'.sources = Companion(Latest(both), "remote_uri")
    BY <2>3 DEF Resolved, RunInv, SourcesInv
  <2>6. RunInv'
    BY <2>2, <2>3, <2>4 DEF Resolved, RunInv, NaraPhase
  <2>7. SourcesInv'
    BY <2>4, <2>5 DEF SourcesInv
  <2>. QED
    BY <2>2, <2>3, <2>4, <2>5, <2>6, <2>7, DatesAre DEF ReleaseInv
<1>. QED
  BY <1>1, <1>2

\* One file more of the sources, in their order.
LEMMA GotStep ==
  ASSUME RunInv, SourcesInv, ReleaseInv, AtSource, nara' = Got(Source),
         UNCHANGED <<published, releaseIndex, known>>
  PROVE  RunInv' /\ SourcesInv' /\ ReleaseInv'
<1>. DEFINE n == Len(nara.snapshots)
            file == [date |-> Source.date, kind |-> Source.kind]
<1>1. n \in 0 .. 1 /\ nara.sources \in SourceLists /\ nara.pc = "acquire"
  <2>1. nara.snapshots \in Seq(GotFile)
    BY DEF RunInv
  <2>2. Len(nara.snapshots) \in Nat /\ Len(nara.snapshots) < 2
    BY <2>1 DEF AtSource
  <2>3. \A m \in Nat : m < 2 => m \in 0 .. 1
    OBVIOUS
  <2>. QED
    BY <2>2, <2>3 DEF AtSource, SourcesInv
<1>2. Source = nara.sources[n + 1] /\ n + 1 \in 1 .. 2
  <2>1. Source = nara.sources[n + 1]
    BY DEF Source
  <2>2. n + 1 \in 1 .. 2
    <3>. HIDE DEF n
    <3>. QED
      BY <1>1
  <2>. QED
    BY <2>1, <2>2
<1>3. file \in GotFile
  BY <1>1, <1>2, SourcesAre DEF GotFile
<1>4. /\ nara'.snapshots = Append(nara.snapshots, file)
      /\ nara'.sources = nara.sources /\ nara'.pc = nara.pc /\ nara'.mode = nara.mode
  BY DEF Got, RunInv
<1>5. RunInv'
  <2>1. Append(nara.snapshots, file) \in Seq(GotFile)
    BY <1>3 DEF RunInv
  <2>. QED
    BY <2>1 DEF Got, RunInv
<1>6. SourcesInv'
  <2>. HIDE DEF file
  <2>1. /\ Len(nara'.snapshots) = n + 1 /\ nara'.snapshots[n + 1] = file
        /\ \A i \in 1 .. n : nara'.snapshots[i] = nara.snapshots[i]
    BY <1>3, <1>4 DEF RunInv
  <2>2. \A i \in 1 .. n + 1 : i \in 1 .. n \/ i = n + 1
    BY <1>1
  <2>3. file = [date |-> nara.sources[n + 1].date, kind |-> nara.sources[n + 1].kind]
    BY <1>2 DEF file
  <2>4. \A i \in 1 .. n : nara.snapshots[i] = [date |-> nara.sources[i].date,
                                              kind |-> nara.sources[i].kind]
    BY <1>1 DEF SourcesInv
  <2>. HIDE DEF n
  <2>5. \A i \in 1 .. n + 1 : nara'.snapshots[i] = [date |-> nara.sources[i].date,
                                                   kind |-> nara.sources[i].kind]
    BY <2>1, <2>2, <2>3, <2>4
  <2>6. n + 1 <= 2
    BY <1>1
  <2>. QED
    BY <1>1, <1>4, <2>1, <2>5, <2>6 DEF SourcesInv
<1>. QED
  BY <1>4, <1>5, <1>6 DEF ReleaseInv

LEMMA NaraRunStep ==
  ASSUME RunInv, SourcesInv, ReleaseInv, [NaraNext]_<<cacheVars, naraVars>>
  PROVE  RunInv' /\ SourcesInv' /\ ReleaseInv'
<1>1. ASSUME NEW d \in Date, NEW k \in 1 .. 2, Publish(d, k)
      PROVE  RunInv' /\ SourcesInv' /\ ReleaseInv'
  BY <1>1 DEF Publish, RunInv, SourcesInv, ReleaseInv
<1>2. CASE ListPlans
  BY <1>2, DatesOfKind DEF ListPlans, RunInv, SourcesInv, ReleaseInv, NaraPhase
<1>3. CASE ReplaySource
  <2>1. UNCHANGED <<published, releaseIndex, known>>
    BY <1>3 DEF ReplaySource
  <2>2. nara' = IdleNara \/ nara' = Got(Source)
    BY <1>3 DEF ReplaySource
  <2>. QED
    BY <1>3, <2>1, <2>2, IdleKeeps, GotStep DEF ReplaySource
<1>4. CASE FetchSource
  BY <1>4, GotStep DEF FetchSource
<1>5. CASE SourceFails
  BY <1>5, IdleKeeps DEF SourceFails
<1>6. CASE Acquired
  BY <1>6 DEF Acquired, RunInv, SourcesInv, ReleaseInv, NaraPhase
<1>7. CASE NaraDies
  BY <1>7, IdleKeeps DEF NaraDies
<1>8. CASE UNCHANGED naraVars
  BY <1>8 DEF naraVars, RunInv, SourcesInv, ReleaseInv
<1>. QED
  BY <1>1, <1>2, <1>3, <1>4, <1>5, <1>6, <1>7, <1>8, BeginStep,
     ResolveOfflineStep, ListMatricesStep, DiscoveryFailsStep
     DEF NaraNext, NaraStoreStep

LEMMA NaraCacheStep ==
  ASSUME CacheInv, [NaraNext]_<<cacheVars, naraVars>>
  PROVE  CacheInv'
<1>1. CASE FetchSource
  BY <1>1, StoreKeepsCache DEF FetchSource
<1>2. CASE NaraStoreStep
  BY <1>2, WritesKeepCache DEF NaraStoreStep
<1>3. CASE NaraDies
  BY <1>3, DeathKeepsCache DEF NaraDies
<1>4. CASE UNCHANGED cacheVars
  BY <1>4, IdleKeepsCache
<1>. QED
  BY <1>1, <1>2, <1>3, <1>4
     DEF NaraNext, Publish, BeginNara, ResolveOffline, ListPlans, ListMatrices,
         DiscoveryFails, ReplaySource, SourceFails, Acquired

-----------------------------------------------------------------------------
(* The results.                                                            *)

LEMMA NaraInvHolds == NaraSpec => []NaraInv
<1>1. NaraInv /\ [NaraNext]_<<cacheVars, naraVars>> => NaraInv'
  BY NaraRunStep, NaraCacheStep DEF NaraInv
<1>. QED
  BY InitInv, <1>1, PTL DEF NaraSpec

\* The adapter's two files are of one release, an action plan and a risk
\* matrix, whatever is published between the two listings.
THEOREM CompanionsTogether == NaraSpec => []CompanionsOfOneRelease
<1>1. NaraInv => CompanionsOfOneRelease
  <2>. SUFFICES ASSUME NaraInv, nara.pc = "acquired"
                PROVE  /\ {nara.snapshots[i].kind : i \in 1..2} = {Kinds[1], Kinds[2]}
                       /\ nara.snapshots[1].date = nara.snapshots[2].date
    BY DEF CompanionsOfOneRelease
  <2>1. PICK d \in Date : \A i \in 1 .. 2 :
          nara.sources[i].date = d /\ nara.sources[i].kind = Kinds[i]
    BY SourcesAre DEF NaraInv, SourcesInv
  <2>2. \A i \in 1 .. 2 : nara.snapshots[i] = [date |-> d, kind |-> Kinds[i]]
    BY <2>1 DEF NaraInv, SourcesInv
  <2>. QED
    BY <2>2
<1>. QED
  BY <1>1, NaraInvHolds, PTL

\* Once a release is resolved, no later run in mode "latest" acquires an older
\* one, whatever fails.
THEOREM NeverOlder == NaraSpec => []LatestNeverGoesBack
<1>1. NaraInv => LatestNeverGoesBack
  <2>. SUFFICES ASSUME NaraInv, nara.pc = "acquired", nara.mode = "latest"
                PROVE  nara.snapshots[1].date >= known
    BY DEF LatestNeverGoesBack
  <2>1. 1 \in 1 .. Len(nara.snapshots)
    BY DEF NaraInv, SourcesInv
  <2>2. nara.snapshots[1] = [date |-> nara.sources[1].date, kind |-> nara.sources[1].kind]
    BY <2>1 DEF NaraInv, SourcesInv
  <2>3. nara.snapshots[1].date = nara.sources[1].date
    BY <2>2
  <2>. QED
    BY <2>3 DEF NaraInv, ReleaseInv
<1>. QED
  BY <1>1, NaraInvHolds, PTL

\* Whatever the snapshot index names is a whole file, however often the
\* process dies while it stores one.
THEOREM NaraSnapshotsAreWhole == NaraSpec => []IndexedSnapshotsAreWhole
<1>1. NaraInv => IndexedSnapshotsAreWhole
  BY DEF NaraInv, CacheInv
<1>. QED
  BY <1>1, NaraInvHolds, PTL

-----------------------------------------------------------------------------
(* Wikidata: the snapshot directory.                                       *)

vars == <<cacheVars, wikidataVars>>

LEMMA CacheStep ==
  ASSUME CacheInv, [WikidataNext]_vars
  PROVE  CacheInv'
<1>1. CASE FreezePopulation
  BY <1>1, StoreKeepsCache DEF FreezePopulation
<1>2. CASE RequestBatch
  BY <1>2, StoreKeepsCache DEF RequestBatch
<1>3. CASE StoreFinal
  BY <1>3, StoreKeepsCache DEF StoreFinal
<1>4. CASE AnswerCustom
  BY <1>4, StoreKeepsCache DEF AnswerCustom
<1>5. CASE StoreStep
  BY <1>5, WritesKeepCache DEF StoreStep
<1>6. CASE Die
  BY <1>6, DeathKeepsCache DEF Die
<1>7. CASE UNCHANGED cacheVars
  BY <1>7, IdleKeepsCache
<1>. QED
  BY <1>1, <1>2, <1>3, <1>4, <1>5, <1>6, <1>7
     DEF vars, WikidataNext, RunStep, EditFacts, Relist, Resume, Discover, AskCustom,
         Replay, RequestPage, FindNothing, WriteManifest, ReuseBatch,
         WriteStatistics, Return, CannotReadIndex, RequestFails

\* An answer that was stored is in the index, unless the index was lost, and
\* none that is being stored was stored before.
AnswersInv ==
  /\ \A key \in answered : key.kind = "batch"
  /\ ~indexTorn => answered \subseteq DOMAIN index
  /\ pending # NoStore /\ pending.key.kind = "batch" => pending.key \notin answered

LEMMA AnswersStep ==
  ASSUME CacheInv, AnswersInv, [WikidataNext]_vars
  PROVE  AnswersInv'
<1>1. CASE FreezePopulation
  BY <1>1 DEF FreezePopulation, Store, AnswersInv
<1>2. CASE RequestBatch
  <2>1. ThisKey \notin answered
    BY <1>2 DEF RequestBatch, AtBatch, Cached, AnswersInv, CacheInv, IndexedSnapshotsAreWhole
  <2>2. /\ pending'.key = ThisKey
        /\ UNCHANGED <<index, indexTorn, answered>>
    BY <1>2 DEF RequestBatch, Store
  <2>. QED
    BY <2>1, <2>2 DEF AnswersInv
<1>3. CASE StoreFinal
  BY <1>3 DEF StoreFinal, Store, FinalKey, AnswersInv
<1>4. CASE AnswerCustom
  BY <1>4 DEF AnswerCustom, Store, FinalKey, AnswersInv
<1>5. CASE StoreStep
  <2>1. CASE WriteFile
    <3>1. pending # NoStore /\ pending'.key = pending.key
      BY <2>1, WritesArePending DEF WriteFile, CacheInv
    <3>2. UNCHANGED <<index, indexTorn, answered>>
      BY <1>5, <2>1 DEF StoreStep, WriteFile, WriteIndex
    <3>. QED
      BY <3>1, <3>2 DEF AnswersInv
  <2>2. CASE WriteIndex
    BY <1>5, <2>2, WriteIndexAdds DEF StoreStep, WriteIndex, AnswersInv
  <2>. QED
    BY <1>5, <2>1, <2>2 DEF StoreStep
<1>6. CASE Die
  BY <1>6 DEF Die, CacheLeftBehind, AnswersInv
<1>7. CASE UNCHANGED <<cacheVars, answered>>
  BY <1>7 DEF cacheVars, AnswersInv
<1>. QED
  BY <1>1, <1>2, <1>3, <1>4, <1>5, <1>6, <1>7
     DEF vars, wikidataVars, WikidataNext, RunStep, EditFacts, Relist, Resume, Discover,
         AskCustom, Replay, RequestPage, FindNothing, WriteManifest, ReuseBatch,
         WriteStatistics, Return, CannotReadIndex, RequestFails

LEMMA StoreInvHolds == WikidataSpec => [](CacheInv /\ AnswersInv)
<1>1. CacheInit /\ WikidataInit => CacheInv /\ AnswersInv
  BY CacheInitInv DEF CacheInit, WikidataInit, AnswersInv
<1>2. CacheInv /\ AnswersInv /\ [WikidataNext]_vars => (CacheInv /\ AnswersInv)'
  BY CacheStep, AnswersStep
<1>. QED
  BY <1>1, <1>2, PTL DEF WikidataSpec, vars

\* Whatever the snapshot index names is a whole file, however often the
\* process dies while it stores one (_store_snapshot_bytes).
THEOREM WikidataSnapshotsAreWhole == WikidataSpec => []IndexedSnapshotsAreWhole
<1>1. CacheInv => IndexedSnapshotsAreWhole
  BY DEF CacheInv
<1>. QED
  BY <1>1, StoreInvHolds, PTL

\* An answer that was stored is not asked for again in its session, however
\* often the run dies and is resumed (_fetch_batch_part).
THEOREM NoRequestTwice == WikidataSpec => CompletedRequestsNotRepeated
<1>1. AnswersInv' /\ UNCHANGED answered /\ pending' # NoStore /\ pending'.key.kind = "batch"
        => pending'.key \notin answered
  BY DEF AnswersInv
<1>2. [WikidataNext]_vars /\ pending' # NoStore => UNCHANGED answered
  BY DEF vars, wikidataVars, WikidataNext, RunStep, EditFacts, Relist, Resume, Discover,
         AskCustom, Replay, RequestPage, FindNothing, FreezePopulation, WriteManifest,
         ReuseBatch, RequestBatch, WriteStatistics, StoreFinal, AnswerCustom, Return,
         StoreStep, WriteIndex, CannotReadIndex, RequestFails, Die
<1>3. AnswersInv' /\ [WikidataNext]_vars
        => [pending' # NoStore /\ pending'.key.kind = "batch"
              => pending'.key \notin answered]_pending
  BY <1>1, <1>2
<1>. QED
  BY <1>3, StoreInvHolds, PTL DEF WikidataSpec, vars, CompletedRequestsNotRepeated

-----------------------------------------------------------------------------
(* Pages.  A page is a prefix of what its query lists after the last       *)
(* format seen, and all of that if it is short.                            *)

Listing == [DOMAIN Population -> SUBSET Format]

LEMMA PageIs ==
  ASSUME NEW query \in DOMAIN Population, listed \in Listing, NEW after \in Nat
  PROVE  /\ Page(query, after) \subseteq {f \in listed[query] : f > after}
         /\ {f \in listed[query] : f > after} \in SUBSET Format
         /\ \A f \in listed[query] : f > after => f \in Nat
         /\ \A S \in SUBSET {f \in listed[query] : f > after} :
              IsFiniteSet(S) /\ Cardinality(S) \in Nat /\ S \in SUBSET Nat
<1>. DEFINE rest == {f \in listed[query] : f > after}
<1>1. rest \in SUBSET Format
  BY DEF Listing
<1>2. \A S \in SUBSET rest : IsFiniteSet(S) /\ S \in SUBSET Nat
  BY <1>1, WikidataConstants, FS_Subset
<1>3. \A S \in SUBSET rest : Cardinality(S) \in Nat
  BY <1>2, FS_CardinalityType
<1>4. \A f \in rest : f \in Nat
  BY <1>1, WikidataConstants
<1>. QED
  BY <1>1, <1>2, <1>3, <1>4 DEF Page

LEMMA PageIsPrefix ==
  ASSUME NEW query \in DOMAIN Population, listed \in Listing, NEW after \in Nat,
         NEW m \in Page(query, after),
         NEW f \in listed[query], f > after, f <= m
  PROVE  f \in Page(query, after)
<1>. DEFINE rest == {g \in listed[query] : g > after}
            UpTo(x) == {g \in rest : g <= x}
<1>1. m \in rest /\ Cardinality(UpTo(m)) <= PageSize
  BY DEF Page
<1>2. m \in Nat /\ f \in Nat /\ f \in rest /\ \A g \in rest : g \in Nat
  <2>1. \A g \in rest : g \in Nat
    BY PageIs
  <2>. QED
    BY <1>1, <2>1
<1>3. UpTo(f) \subseteq UpTo(m) /\ UpTo(m) \subseteq rest
  BY <1>2
<1>4. /\ IsFiniteSet(UpTo(m)) /\ Cardinality(UpTo(m)) \in Nat
      /\ Cardinality(UpTo(f)) \in Nat
  BY <1>3, PageIs
<1>5. Cardinality(UpTo(f)) <= Cardinality(UpTo(m))
  BY <1>3, <1>4, FS_Subset
<1>6. Cardinality(UpTo(f)) <= PageSize
  BY <1>1, <1>4, <1>5, WikidataConstants
<1>. QED
  BY <1>2, <1>6 DEF Page

LEMMA ShortPageIsAll ==
  ASSUME NEW query \in DOMAIN Population, listed \in Listing, NEW after \in Nat,
         Cardinality(Page(query, after)) < PageSize,
         NEW f \in listed[query], f > after
  PROVE  f \in Page(query, after)
<1>. DEFINE rest == {g \in listed[query] : g > after}
            missed == rest \ Page(query, after)
            UpTo(x) == {g \in rest : g <= x}
<1>1. SUFFICES ASSUME missed # {} PROVE FALSE
  OBVIOUS
<1>2. missed \in SUBSET Nat /\ IsFiniteSet(missed)
  BY PageIs
<1>3. PICK m \in missed : \A g \in missed : m <= g
  <2>. HIDE DEF missed
  <2>. QED
    BY <1>1, <1>2, HasLeast
<1>4. m \in rest /\ m \in Nat /\ m \notin Page(query, after)
  BY <1>2, <1>3
<1>5. UpTo(m) \subseteq Page(query, after) \cup {m}
  <2>1. \A g \in rest : g \in Nat
    BY PageIs
  <2>. SUFFICES ASSUME NEW g \in UpTo(m), g \notin Page(query, after) PROVE g = m
    OBVIOUS
  <2>2. g \in missed /\ g <= m
    OBVIOUS
  <2>. QED
    BY <1>3, <1>4, <2>1, <2>2
<1>6. IsFiniteSet(Page(query, after)) /\ Cardinality(Page(query, after)) \in Nat
  BY PageIs
<1>7. /\ IsFiniteSet(Page(query, after) \cup {m})
      /\ Cardinality(Page(query, after) \cup {m}) = Cardinality(Page(query, after)) + 1
  BY <1>4, <1>6, FS_AddElement
<1>8. Cardinality(UpTo(m)) <= Cardinality(Page(query, after)) + 1
  BY <1>5, <1>7, FS_Subset
<1>9. Cardinality(UpTo(m)) \in Nat
  BY PageIs
<1>10. Cardinality(UpTo(m)) <= PageSize
  BY <1>6, <1>8, <1>9, WikidataConstants
<1>. QED
  BY <1>4, <1>10 DEF Page

LEMMA FullPageIsNotEmpty ==
  ASSUME NEW query \in DOMAIN Population, listed \in Listing, NEW after \in Nat,
         ~(Cardinality(Page(query, after)) < PageSize)
  PROVE  \E m \in Page(query, after) :
           /\ m \in Nat
           /\ \A g \in Page(query, after) : g <= m
<1>1. IsFiniteSet(Page(query, after)) /\ Page(query, after) \in SUBSET Nat
  BY PageIs
<1>2. Page(query, after) # {}
  <2>1. Cardinality({}) = 0 /\ PageSize \in Nat \ {0}
    BY FS_EmptySet, WikidataConstants
  <2>. QED
    BY <2>1
<1>. QED
  BY <1>1, <1>2, HasGreatest

-----------------------------------------------------------------------------
(* Discovery.                                                              *)

Phase == {"idle", "custom", "pages", "manifest", "batches", "merged", "stored"}

\* What has been gathered is left open.
RunRecord(r) ==
  [pc : Phase, query : Query \cup {Custom, None}, session : {r.session},
   population : Nat, after : Nat, found : SUBSET Format, part : Nat, batch : Nat,
   facts : {r.facts}]

Session == [population : SUBSET Format, since : Nat, steady : Listing, query : Query]

TypeInv ==
  /\ clock \in Nat
  /\ listed \in Listing
  /\ steady \in Listing \cup {<<>>}
  /\ run \in RunRecord(run)
  /\ ledger \in Seq(Session)

\* What a query listed all the time is found, as far as its pages were read,
\* and is still listed.
PagesInv ==
  run.pc = "pages" =>
    /\ run.query \in Query
    /\ run.population \in 1 .. Len(Population) + 1
    /\ steady \in Listing
    /\ \A p \in DOMAIN Population : steady[p] \subseteq listed[p]
    /\ \A p \in DOMAIN Population : p < run.population => steady[p] \subseteq run.found
    /\ \A p \in DOMAIN Population : p = run.population =>
         \A f \in steady[p] : f <= run.after => f \in run.found

DiscoveryInv == TypeInv /\ PagesInv /\ DiscoveryIsComplete

LEMMA IdleIs == IdleRun \in RunRecord(IdleRun)
  /\ IdleRun.pc = "idle" /\ IdleRun.facts = <<>> /\ IdleRun.population = 1
  /\ IdleRun.after = 0 /\ IdleRun.found = {} /\ IdleRun.part = 1 /\ IdleRun.batch = 1
BY DEF IdleRun, RunRecord, Phase

LEMMA DiscoveryInit == WikidataInit => DiscoveryInv
BY IdleIs, WikidataConstants
   DEF WikidataInit, DiscoveryInv, TypeInv, PagesInv, DiscoveryIsComplete, Listing

LEMMA DiscoverStep ==
  ASSUME DiscoveryInv, NEW q \in Query, NEW r \in BOOLEAN, Discover(q, r)
  PROVE  DiscoveryInv'
<1>1. /\ run' = [IdleRun EXCEPT !.pc = "pages", !.query = q]
      /\ steady' = listed /\ UNCHANGED <<listed, clock, ledger>>
  BY DEF Discover
<1>2. /\ run' \in RunRecord(run')
      /\ run'.facts = <<>> /\ run'.pc = "pages" /\ run'.query = q
      /\ run'.population = 1 /\ run'.after = 0 /\ run'.found = {}
  BY <1>1, IdleIs DEF IdleRun, RunRecord, Phase
<1>3. TypeInv'
  BY <1>1, <1>2 DEF DiscoveryInv, TypeInv
<1>4. PagesInv'
  <2>1. \A p \in DOMAIN Population : p \in Nat /\ ~(p < 1)
    BY WikidataConstants
  <2>2. \A p \in DOMAIN Population : \A f \in steady'[p] : ~(f <= 0)
    BY <1>1, WikidataConstants DEF DiscoveryInv, TypeInv, Listing
  <2>3. 1 \in 1 .. Len(Population) + 1
    BY WikidataConstants
  <2>. QED
    BY <1>1, <1>2, <2>1, <2>2, <2>3 DEF DiscoveryInv, TypeInv, PagesInv
<1>. QED
  BY <1>1, <1>3, <1>4 DEF DiscoveryInv, DiscoveryIsComplete

LEMMA RequestPageStep ==
  ASSUME DiscoveryInv, RequestPage
  PROVE  DiscoveryInv'
<1>. DEFINE query == run.population
            page == Page(query, run.after)
            seen == [run EXCEPT !.found = @ \cup page]
<1>1. /\ query \in DOMAIN Population /\ query \in Nat /\ run.after \in Nat
      /\ listed \in Listing /\ run.pc = "pages" /\ run.query \in Query
      /\ UNCHANGED <<listed, clock, ledger, steady>>
  BY DEF RequestPage, DiscoveryInv, TypeInv, PagesInv, RunRecord
<1>2. page \in SUBSET Format
  BY <1>1, PageIs
<1>3. \A f \in steady[query] : f \in listed[query] /\ f \in Nat
  BY <1>1, WikidataConstants DEF DiscoveryInv, TypeInv, PagesInv, Listing
<1>4. run \in RunRecord(run)
  BY DEF DiscoveryInv, TypeInv
<1>5. CASE Cardinality(page) < PageSize
  <2>1. run' = NextQuery(seen)
    BY <1>5 DEF RequestPage
  <2>. HIDE DEF page
  <2>2. /\ run' \in RunRecord(run') /\ run'.facts = run.facts
        /\ run'.population = query + 1 /\ run'.found = run.found \cup page
        /\ run'.query = run.query /\ run'.after = 0
    <3>1. /\ seen \in RunRecord(seen) /\ seen.facts = run.facts
          /\ seen.population = query /\ seen.found = run.found \cup page
          /\ seen.query = run.query
      BY <1>2, <1>4 DEF RunRecord
    <3>2. run' = [seen EXCEPT !.population = query + 1, !.after = 0]
      BY <2>1, <3>1 DEF NextQuery
    <3>3. query + 1 \in Nat
      BY <1>1
    <3>. HIDE DEF seen, query
    <3>. QED
      BY <3>1, <3>2, <3>3 DEF RunRecord
  <2>3. steady[query] \subseteq run'.found
    <3>. SUFFICES ASSUME NEW f \in steady[query], f \notin run.found PROVE f \in page
      BY <2>2
    <3>1. f > run.after
      BY <1>1, <1>3 DEF DiscoveryInv, PagesInv
    <3>. QED
      BY <1>1, <1>3, <1>5, <3>1, ShortPageIsAll DEF page
  <2>4. \A p \in DOMAIN Population : p < query + 1 => p < query \/ p = query
    BY <1>1, WikidataConstants
  <2>5. \A p \in DOMAIN Population : \A f \in steady[p] : ~(f <= 0)
    <3>1. steady \in Listing
      BY <1>1 DEF DiscoveryInv, PagesInv
    <3>. QED
      BY <3>1, WikidataConstants DEF Listing
  <2>6. query + 1 \in 1 .. Len(Population) + 1
    BY <1>1, WikidataConstants
  <2>7. PagesInv'
    BY <1>1, <2>2, <2>3, <2>4, <2>5, <2>6 DEF DiscoveryInv, PagesInv
  <2>8. TypeInv'
    BY <1>1, <2>2 DEF DiscoveryInv, TypeInv
  <2>. QED
    BY <1>1, <2>7, <2>8 DEF DiscoveryInv, DiscoveryIsComplete
<1>6. CASE ~(Cardinality(page) < PageSize)
  <2>. DEFINE last == CHOOSE f \in page : \A g \in page : g <= f
  <2>1. run' = [seen EXCEPT !.after = last]
    BY <1>6 DEF RequestPage
  <2>2. last \in page /\ last \in Nat /\ \A g \in page : g <= last
    <3>1. \E m \in page : m \in Nat /\ \A g \in page : g <= m
      BY <1>1, <1>6, FullPageIsNotEmpty
    <3>2. \A g \in page : g \in Nat
      BY <1>2, WikidataConstants
    <3>. HIDE DEF page
    <3>. QED
      BY <3>1, <3>2
  <2>. HIDE DEF page, last
  <2>3. /\ run' \in RunRecord(run') /\ run'.facts = run.facts
        /\ run'.population = query /\ run'.found = run.found \cup page
        /\ run'.query = run.query /\ run'.after = last
    BY <1>1, <1>2, <1>4, <2>1, <2>2 DEF RunRecord
  <2>4. ASSUME NEW f \in steady[query], f <= last, f \notin run.found PROVE f \in page
    <3>1. f > run.after
      BY <1>1, <1>3, <2>4 DEF DiscoveryInv, PagesInv
    <3>. QED
      BY <1>1, <1>3, <2>2, <2>4, <3>1, PageIsPrefix DEF page
  <2>5. PagesInv'
    BY <1>1, <2>3, <2>4 DEF DiscoveryInv, PagesInv
  <2>6. TypeInv'
    BY <1>1, <2>3 DEF DiscoveryInv, TypeInv
  <2>. QED
    BY <1>1, <2>5, <2>6 DEF DiscoveryInv, DiscoveryIsComplete
<1>. QED
  BY <1>5, <1>6

\* The ledger gets what was steady, all of it found.
LEMMA FreezeStep ==
  ASSUME DiscoveryInv, FreezePopulation
  PROVE  /\ DiscoveryInv'
         /\ run'.pc = "manifest" /\ run'.query = run.query /\ run'.query \in Query
         /\ run'.session = Len(ledger) + 1 /\ run'.found = run.found
         /\ run'.part = run.part /\ run'.batch = run.batch /\ run'.facts = run.facts
         /\ DOMAIN ledger' = DOMAIN ledger \cup {Len(ledger) + 1}
         /\ \A s \in DOMAIN ledger : ledger'[s] = ledger[s]
         /\ ledger'[Len(ledger) + 1] = [population |-> run.found, since |-> clock,
                                        steady |-> steady, query |-> run.query]
<1>. DEFINE entry == [population |-> run.found, since |-> clock,
                      steady |-> steady, query |-> run.query]
<1>1. /\ run.pc = "pages" /\ run.query \in Query /\ steady \in Listing
      /\ clock \in Nat /\ run.found \in SUBSET Format
      /\ ledger' = Append(ledger, entry) /\ steady' = <<>>
      /\ run' = [run EXCEPT !.pc = "manifest", !.session = Len(ledger) + 1]
      /\ UNCHANGED <<listed, clock>>
  BY DEF FreezePopulation, DiscoveryInv, TypeInv, PagesInv, RunRecord
<1>2. ledger \in Seq(Session) /\ Len(ledger) \in Nat /\ entry \in Session
  BY <1>1 DEF DiscoveryInv, TypeInv, Session
<1>3. \A p \in DOMAIN Population : steady[p] \subseteq run.found
  <2>1. \A p \in DOMAIN Population : p < run.population
    BY <1>1, WikidataConstants DEF FreezePopulation, DiscoveryInv, PagesInv
  <2>. QED
    BY <1>1, <2>1 DEF DiscoveryInv, PagesInv
<1>4. /\ ledger' \in Seq(Session)
      /\ DOMAIN ledger' = DOMAIN ledger \cup {Len(ledger) + 1}
      /\ \A s \in DOMAIN ledger : ledger'[s] = ledger[s]
      /\ ledger'[Len(ledger) + 1] = entry
  <2>. HIDE DEF entry
  <2>. QED
    BY <1>1, <1>2
<1>5. /\ run' \in RunRecord(run') /\ run'.facts = run.facts
      /\ run'.pc = "manifest" /\ run'.query = run.query
      /\ run'.session = Len(ledger) + 1 /\ run'.found = run.found
      /\ run'.part = run.part /\ run'.batch = run.batch
  <2>1. run \in RunRecord(run)
    BY DEF DiscoveryInv, TypeInv
  <2>2. Len(ledger) + 1 \in Nat
    BY <1>2
  <2>. QED
    BY <1>1, <2>1, <2>2 DEF RunRecord, Phase
<1>6. TypeInv' /\ PagesInv'
  BY <1>1, <1>4, <1>5 DEF DiscoveryInv, TypeInv, PagesInv
<1>7. DiscoveryIsComplete'
  <2>1. entry.population = run.found /\ entry.steady = steady
    OBVIOUS
  <2>. HIDE DEF entry
  <2>. QED
    BY <1>3, <1>4, <2>1 DEF DiscoveryInv, DiscoveryIsComplete
<1>. QED
  BY <1>1, <1>4, <1>5, <1>6, <1>7 DEF DiscoveryInv

LEMMA RelistStep ==
  ASSUME DiscoveryInv, NEW p \in DOMAIN Population, NEW f \in Format, Relist(p, f)
  PROVE  DiscoveryInv'
<1>1. /\ clock' = clock + 1 /\ UNCHANGED <<run, ledger>>
      /\ listed' = [listed EXCEPT ![p] = IF f \in listed[p] THEN listed[p] \ {f}
                                                         ELSE listed[p] \cup {f}]
      /\ steady' = [q \in DOMAIN steady |-> steady[q] \cap listed'[q]]
  BY DEF Relist
<1>2. listed' \in Listing
  BY <1>1 DEF DiscoveryInv, TypeInv, Listing
<1>3. steady \in Listing => steady' \in Listing
  BY <1>1 DEF Listing
<1>4. steady = <<>> => steady' = <<>>
  <2>1. DOMAIN <<>> = {}
    OBVIOUS
  <2>2. [q \in {} |-> steady[q] \cap listed'[q]] = <<>>
    OBVIOUS
  <2>. QED
    BY <1>1, <2>1, <2>2
<1>5. TypeInv'
  BY <1>1, <1>2, <1>3, <1>4 DEF DiscoveryInv, TypeInv
<1>6. PagesInv'
  <2>1. steady \in Listing => \A q \in DOMAIN Population :
          steady'[q] \subseteq steady[q] /\ steady'[q] \subseteq listed'[q]
    BY <1>1 DEF Listing
  <2>. QED
    BY <1>1, <1>3, <2>1 DEF DiscoveryInv, PagesInv
<1>. QED
  BY <1>1, <1>5, <1>6 DEF DiscoveryInv, DiscoveryIsComplete

\* A step that does not discover.
LEMMA ElsewhereStep ==
  ASSUME DiscoveryInv, run' \in RunRecord(run'), run'.pc # "pages",
         UNCHANGED <<listed, steady, ledger>>, clock' \in Nat
  PROVE  DiscoveryInv'
BY DEF DiscoveryInv, TypeInv, PagesInv, DiscoveryIsComplete

LEMMA DiscoveryStep ==
  ASSUME DiscoveryInv, [WikidataNext]_vars
  PROVE  DiscoveryInv'
<1>1. run \in RunRecord(run) /\ clock \in Nat
  BY DEF DiscoveryInv, TypeInv
<1>2. CASE EditFacts
  BY <1>1, <1>2 DEF EditFacts, DiscoveryInv, TypeInv, PagesInv, DiscoveryIsComplete
<1>3. ASSUME NEW q \in Query, Resume(q) PROVE DiscoveryInv'
  <2>1. run' = [IdleRun EXCEPT !.pc = "batches", !.query = q, !.session = manifest.session]
    BY <1>3 DEF Resume
  <2>. QED
    BY <1>1, <1>3, <2>1, IdleIs, ElsewhereStep DEF Resume, IdleRun, RunRecord, Phase
<1>4. CASE AskCustom
  BY <1>1, <1>4, IdleIs, ElsewhereStep DEF AskCustom, IdleRun, RunRecord, Phase
<1>5. CASE WriteManifest
  BY <1>1, <1>5, ElsewhereStep DEF WriteManifest, RunRecord, Phase
<1>6. ASSUME NEW answer, run' = Merged(answer), run.pc = "batches",
             UNCHANGED <<listed, steady, ledger, clock>>
      PROVE  DiscoveryInv'
  <2>. DEFINE facts == [x \in DOMAIN run.facts \cup ({run.part} \X answer.formats) |->
                          IF x \in {run.part} \X answer.formats THEN answer.at
                                                               ELSE run.facts[x]]
  <2>1. \E b \in Nat, p \in Nat :
          run' = [run EXCEPT !.facts = facts, !.batch = b, !.part = p]
    <3>1. run.batch + 1 \in Nat /\ run.part + 1 \in Nat /\ run.batch \in Nat /\ run.part \in Nat
      BY <1>1 DEF RunRecord
    <3>2. CASE run.batch = Batches(Frozen)
      <4>1. run' = [run EXCEPT !.facts = facts, !.batch = 1, !.part = run.part + 1]
        BY <1>1, <1>6, <3>2 DEF Merged, RunRecord
      <4>. HIDE DEF facts
      <4>. QED
        BY <3>1, <4>1
    <3>3. CASE run.batch # Batches(Frozen)
      <4>1. run' = [run EXCEPT !.facts = facts, !.batch = run.batch + 1, !.part = run.part]
        BY <1>1, <1>6, <3>3 DEF Merged, RunRecord
      <4>. HIDE DEF facts
      <4>. QED
        BY <3>1, <4>1
    <3>. QED
      BY <3>2, <3>3
  <2>. HIDE DEF facts
  <2>2. run' \in RunRecord(run') /\ run'.pc = "batches"
    BY <1>1, <1>6, <2>1 DEF RunRecord
  <2>. QED
    BY <1>1, <1>6, <2>2, ElsewhereStep
<1>7. CASE ReuseBatch
  BY <1>6, <1>7 DEF ReuseBatch, AtBatch
<1>8. CASE RequestBatch
  BY <1>6, <1>8 DEF RequestBatch, AtBatch
<1>9. CASE WriteStatistics \/ StoreFinal \/ AnswerCustom
  <2>1. run' = [run EXCEPT !.pc = "merged"] \/ run' = [run EXCEPT !.pc = "stored"]
    BY <1>9 DEF WriteStatistics, StoreFinal, AnswerCustom
  <2>2. run' \in RunRecord(run') /\ run'.pc # "pages"
    BY <1>1, <2>1 DEF RunRecord, Phase
  <2>. QED
    BY <1>1, <1>9, <2>2, ElsewhereStep DEF WriteStatistics, StoreFinal, AnswerCustom
<1>10. CASE FindNothing \/ Return \/ CannotReadIndex \/ RequestFails \/ Die
  BY <1>1, <1>10, IdleIs, ElsewhereStep
     DEF FindNothing, Return, CannotReadIndex, RequestFails, Die
<1>11. CASE UNCHANGED <<listed, steady, ledger, clock, run>>
  BY <1>11 DEF DiscoveryInv, TypeInv, PagesInv, DiscoveryIsComplete
<1>. QED
  BY <1>2, <1>3, <1>4, <1>5, <1>7, <1>8, <1>9, <1>10, <1>11,
     DiscoverStep, RequestPageStep, FreezeStep, RelistStep
     DEF vars, wikidataVars, WikidataNext, RunStep, Replay, StoreStep

LEMMA DiscoveryInvHolds == WikidataSpec => []DiscoveryInv
<1>1. DiscoveryInv /\ [WikidataNext]_vars => DiscoveryInv'
  BY DiscoveryStep
<1>. QED
  BY DiscoveryInit, <1>1, PTL DEF WikidataSpec, vars

\* Whatever the page size and whatever is listed and unlisted meanwhile, a
\* format that one query lists throughout the discovery is in the population
\* it freezes (_discover_population, _fetch_population_page).
THEOREM DiscoveryMissesNothing == WikidataSpec => []DiscoveryIsComplete
<1>1. DiscoveryInv => DiscoveryIsComplete
  BY DEF DiscoveryInv
<1>. QED
  BY <1>1, DiscoveryInvHolds, PTL

-----------------------------------------------------------------------------
(* Batches: of all of them together nothing is missing.                    *)

LEMMA Quotients ==
  ASSUME NEW b \in Nat \ {0}, NEW n \in Nat, NEW r \in 1 .. n
  PROVE  /\ (r - 1) \div b + 1 \in 1 .. (n + b - 1) \div b
         /\ (n + b - 1) \div b \in Nat
<1>. DEFINE q == (r - 1) \div b
            k == (n + b - 1) \div b
<1>1. q \in Int /\ k \in Int
  OBVIOUS
<1>2. b * q <= r - 1 /\ r - 1 < b * q + b
  OBVIOUS
<1>3. b * k <= n + b - 1 /\ n + b - 1 < b * k + b
  OBVIOUS
<1>. HIDE DEF q, k
<1>4. q >= 0
  BY <1>1, <1>2
<1>5. q < k
  <2>1. b * q < b * k
    BY <1>1, <1>2, <1>3
  <2>. QED
    BY <1>1, <2>1
<1>6. q + 1 \in 1 .. k /\ k \in Nat
  BY <1>1, <1>4, <1>5
<1>. QED
  BY <1>6 DEF q, k

LEMMA BatchesCover ==
  ASSUME NEW F \in SUBSET Format
  PROVE  /\ Batches(F) \in Nat
         /\ F # {} => Batches(F) >= 1
         /\ \A i \in Int : Batch(F, i) \subseteq F
         /\ UNION {Batch(F, i) : i \in 1 .. Batches(F)} = F
<1>1. IsFiniteSet(F) /\ F \in SUBSET Nat /\ Cardinality(F) \in Nat
  BY WikidataConstants, FS_Subset, FS_CardinalityType
<1>2. BatchSize \in Nat \ {0}
  BY WikidataConstants
<1>. DEFINE rank(f) == Cardinality({g \in F : g <= f})
<1>3. ASSUME NEW f \in F PROVE rank(f) \in 1 .. Cardinality(F)
  <2>1. {g \in F : g <= f} \in SUBSET F /\ f \in {g \in F : g <= f}
    BY <1>1
  <2>2. IsFiniteSet({g \in F : g <= f}) /\ rank(f) <= Cardinality(F)
    BY <1>1, <2>1, FS_Subset
  <2>3. rank(f) \in Nat /\ rank(f) # 0
    BY <2>1, <2>2, FS_CardinalityType, FS_EmptySet
  <2>. HIDE DEF rank
  <2>. QED
    BY <1>1, <2>2, <2>3
<1>. HIDE DEF rank
<1>4. ASSUME NEW f \in F
      PROVE  /\ Batches(F) \in Nat /\ (rank(f) - 1) \div BatchSize + 1 \in 1 .. Batches(F)
  BY <1>1, <1>2, <1>3, Quotients DEF Batches
<1>5. \A i \in Int : Batch(F, i) \subseteq F
  BY DEF Batch
<1>6. ASSUME NEW f \in F PROVE f \in Batch(F, (rank(f) - 1) \div BatchSize + 1)
  <2>1. rank(f) \in Int /\ (rank(f) - 1) \div BatchSize \in Int
    BY <1>2, <1>3
  <2>. DEFINE i == (rank(f) - 1) \div BatchSize + 1
  <2>2. (rank(f) - 1) \div BatchSize = i - 1
    BY <2>1
  <2>. HIDE DEF i
  <2>3. (Cardinality({g \in F : g <= f}) - 1) \div BatchSize = i - 1
    BY <2>2 DEF rank
  <2>4. f \in Batch(F, i)
    BY <2>3 DEF Batch
  <2>. QED
    BY <2>4 DEF i
<1>7. Batches(F) \in Nat
  <2>1. CASE F = {}
    <3>1. Cardinality(F) = 0
      BY <2>1, FS_EmptySet
    <3>. QED
      BY <1>2, <3>1 DEF Batches
  <2>. QED
    BY <1>4, <2>1
<1>8. F # {} => Batches(F) >= 1
  BY <1>4, <1>7
<1>9. F \subseteq UNION {Batch(F, i) : i \in 1 .. Batches(F)}
  BY <1>4, <1>6
<1>. QED
  BY <1>5, <1>7, <1>8, <1>9

-----------------------------------------------------------------------------
(* Sessions: what a run, its manifest and its snapshots owe the session    *)
(* they belong to.                                                         *)

\* From the frozen population on, a run works for a session.
Working ==
  \/ run.pc \in {"manifest", "batches", "merged"}
  \/ run.pc = "stored" /\ run.query # Custom

ControlInv ==
  /\ run.pc \in {"idle", "custom", "pages", "merged"} => pending = NoStore
  /\ run.pc = "custom" => run.query = Custom
  /\ Working => /\ run.query \in Query
                /\ run.session \in DOMAIN ledger
                /\ ledger[run.session].query = run.query
  /\ run.pc = "manifest" => run.found = Frozen
  /\ run.pc \in {"pages", "manifest"} =>
       run.part = 1 /\ run.batch = 1 /\ run.facts = <<>>
  /\ \A s \in DOMAIN ledger : ledger[s].population # {}

Manifests(m) ==
  [session : {m.session}, query : {m.query}, population : {m.population},
   complete : BOOLEAN]

\* The manifest is that of a session; while a run works on its batches, of
\* its own, which is not complete.
ManifestInv ==
  /\ manifest \notin {None, Torn} =>
       /\ manifest \in Manifests(manifest)
       /\ manifest.session \in DOMAIN ledger
       /\ manifest.query = ledger[manifest.session].query
       /\ manifest.population = ledger[manifest.session].population
  /\ Working /\ run.pc # "manifest" =>
       /\ manifest.session = run.session
       /\ ~manifest.complete

OneSessionOf(l, snapshot) ==
  \E s \in DOMAIN l :
    /\ l[s].query = snapshot.query
    /\ snapshot.rows = l[s].population
    /\ DOMAIN snapshot.facts = (DOMAIN Part) \X snapshot.rows
    /\ \A x \in DOMAIN snapshot.facts : snapshot.facts[x] >= l[s].since

\* An answer has the formats that were asked for, and was read after they
\* were frozen; a merged snapshot is of one session.
EntryOf(l, key, payload) ==
  /\ key.kind = "batch" =>
       /\ key.session \in DOMAIN l
       /\ payload.formats = key.formats
       /\ payload.at \in Nat /\ payload.at >= l[key.session].since
  /\ key.kind = "final" /\ payload.kind = "final" => OneSessionOf(l, payload)

EntriesInv ==
  /\ \A key \in DOMAIN index : EntryOf(ledger, key, index[key])
  /\ pending # NoStore => EntryOf(ledger, pending.key, pending.payload)

\* What is merged so far: all of the parts before this one, and of this one
\* the batches before this one.
FirstBatches(formats, n) == UNION {Batch(formats, i) : i \in 1 .. n}

Done(formats, part, batch) ==
  ((1 .. part - 1) \X formats) \cup ({part} \X FirstBatches(formats, batch - 1))

FactsInv ==
  /\ run.pc \in {"batches", "merged"} =>
       /\ run.part \in 1 .. Len(Part) + 1
       /\ run.batch \in 1 .. Batches(Frozen)
       /\ run.part = Len(Part) + 1 => run.batch = 1
       /\ DOMAIN run.facts = Done(Frozen, run.part, run.batch)
       /\ \A x \in DOMAIN run.facts : run.facts[x] >= ledger[run.session].since
  /\ run.pc = "merged" => run.part = Len(Part) + 1

\* A stored snapshot is on its way to the index or there, and no other.
StoredInv ==
  /\ pending # NoStore /\ run.pc # "stored" => pending.key.kind # "final"
  /\ run.pc = "stored" /\ pending # NoStore =>
       /\ pending.key = FinalKey(run.query)
       /\ run.query # Custom => pending.payload.rows = Frozen
  /\ run.pc = "stored" /\ pending = NoStore =>
       /\ FinalKey(run.query) \in DOMAIN index
       /\ run.query # Custom => index[FinalKey(run.query)].rows = Frozen

ReplayInv ==
  manifest \notin {None, Torn} /\ manifest.complete /\ ~indexTorn =>
    /\ FinalKey(manifest.query) \in DOMAIN index
    /\ index[FinalKey(manifest.query)].rows = manifest.population

ClockInv == \A s \in DOMAIN ledger : ledger[s].since <= clock

SessionInv ==
  /\ ClockInv /\ ControlInv /\ ManifestInv /\ EntriesInv /\ FactsInv /\ StoredInv
  /\ OutputIsOneSession /\ ReplayInv

LEMMA FirstBatchesAre ==
  ASSUME NEW F \in SUBSET Format
  PROVE  /\ FirstBatches(F, 0) = {}
         /\ \A n \in Nat \ {0} :
              FirstBatches(F, n) = FirstBatches(F, n - 1) \cup Batch(F, n)
         /\ FirstBatches(F, Batches(F)) = F
<1>1. ASSUME NEW n \in Nat \ {0}
      PROVE  FirstBatches(F, n) = FirstBatches(F, n - 1) \cup Batch(F, n)
  <2>1. 1 .. n = (1 .. n - 1) \cup {n}
    OBVIOUS
  <2>. QED
    BY <2>1 DEF FirstBatches
<1>2. 1 .. 0 = {}
  OBVIOUS
<1>. QED
  BY <1>1, <1>2, BatchesCover DEF FirstBatches

\* A part that is done is done for every row.
LEMMA PartIsDone ==
  ASSUME NEW F \in SUBSET Format, NEW part \in Nat \ {0}
  PROVE  /\ Done(F, 1, 1) = {}
         /\ Done(F, part + 1, 1) = Done(F, part, Batches(F) + 1)
         /\ Done(F, part + 1, 1) = (1 .. part) \X F
<1>1. /\ 1 .. 1 - 1 = {} /\ FirstBatches(F, 1 - 1) = {}
  <2>1. 1 - 1 = 0
    OBVIOUS
  <2>. QED
    BY <2>1, FirstBatchesAre
<1>2. (Batches(F) + 1) - 1 = Batches(F) /\ (part + 1) - 1 = part
  BY BatchesCover
<1>3. FirstBatches(F, (Batches(F) + 1) - 1) = F
  BY <1>2, FirstBatchesAre
<1>4. 1 .. part = (1 .. part - 1) \cup {part}
  OBVIOUS
<1>5. Done(F, part + 1, 1) = (1 .. part) \X F
  BY <1>1, <1>2 DEF Done
<1>6. Done(F, part, Batches(F) + 1) = ((1 .. part - 1) \X F) \cup ({part} \X F)
  <2>. DEFINE b == Batches(F) + 1
  <2>1. FirstBatches(F, b - 1) = F
    BY <1>3
  <2>. HIDE DEF b
  <2>2. Done(F, part, b) = ((1 .. part - 1) \X F) \cup ({part} \X F)
    BY <2>1 DEF Done
  <2>. QED
    BY <2>2 DEF b
<1>. QED
  BY <1>1, <1>4, <1>5, <1>6 DEF Done

LEMMA SessionInit == CacheInit /\ WikidataInit => SessionInv
BY IdleIs DEF CacheInit, WikidataInit, SessionInv, ClockInv, ControlInv, Working,
   ManifestInv, EntriesInv, FactsInv, StoredInv, OutputIsOneSession, ReplayInv

AllInv == CacheInv /\ DiscoveryInv /\ SessionInv

-----------------------------------------------------------------------------
(* What every step leaves as it was: the entries of the ledger, and so what *)
(* is true of them.                                                        *)

LEMMA RunIs ==
  ASSUME AllInv
  PROVE  /\ run \in RunRecord(run) /\ clock \in Nat
         /\ ledger \in Seq(Session) /\ Len(ledger) \in Nat
         /\ DOMAIN ledger = 1 .. Len(ledger)
         /\ \A s \in DOMAIN ledger :
              ledger[s] \in Session /\ ledger[s].population \in (SUBSET Format) \ {{}}
<1>1. run \in RunRecord(run) /\ clock \in Nat /\ ledger \in Seq(Session)
  BY DEF AllInv, DiscoveryInv, TypeInv
<1>2. \A s \in DOMAIN ledger : ledger[s].population # {}
  BY DEF AllInv, SessionInv, ControlInv
<1>3. \A s \in DOMAIN ledger : ledger[s] \in Session
  BY <1>1
<1>4. \A s \in DOMAIN ledger : ledger[s].population \in SUBSET Format
  BY <1>3 DEF Session
<1>5. Len(ledger) \in Nat /\ DOMAIN ledger = 1 .. Len(ledger)
  BY <1>1
<1>. QED
  BY <1>1, <1>2, <1>3, <1>4, <1>5

LEMMA LedgerGrows ==
  ASSUME AllInv, [WikidataNext]_vars
  PROVE  /\ DOMAIN ledger \subseteq DOMAIN ledger'
         /\ \A s \in DOMAIN ledger : ledger'[s] = ledger[s]
<1>1. CASE FreezePopulation
  BY <1>1, FreezeStep DEF AllInv
<1>2. CASE UNCHANGED ledger
  BY <1>2
<1>. QED
  BY <1>1, <1>2
     DEF vars, wikidataVars, WikidataNext, RunStep, EditFacts, Relist, Resume, Discover,
         AskCustom, Replay, RequestPage, FindNothing, WriteManifest, ReuseBatch,
         RequestBatch, WriteStatistics, StoreFinal, AnswerCustom, Return, StoreStep,
         CannotReadIndex, RequestFails, Die

LEMMA EntryStaysOk ==
  ASSUME AllInv, [WikidataNext]_vars, NEW key, NEW payload, EntryOf(ledger, key, payload)
  PROVE  EntryOf(ledger', key, payload)
<1>1. OneSessionOf(ledger, payload) => OneSessionOf(ledger', payload)
  BY LedgerGrows DEF OneSessionOf
<1>. QED
  BY <1>1, LedgerGrows DEF EntryOf

-----------------------------------------------------------------------------
(* The steps of a run.                                                     *)

\* The records of a run that begins, or goes on in another phase.
LEMMA RunChanges ==
  ASSUME AllInv
  PROVE  /\ \A q \in Query :
              [IdleRun EXCEPT !.pc = "pages", !.query = q].pc = "pages"
         /\ \A pc \in Phase :
              LET r == [run EXCEPT !.pc = pc] IN
                /\ r.pc = pc /\ r.query = run.query /\ r.session = run.session
                /\ r.found = run.found /\ r.part = run.part
                /\ r.batch = run.batch /\ r.facts = run.facts
BY RunIs DEF RunRecord, IdleRun

LEMMA ControlStep ==
  ASSUME AllInv, [WikidataNext]_vars
  PROVE  ControlInv'
<1>1. \A s \in DOMAIN ledger : ledger'[s] = ledger[s] /\ s \in DOMAIN ledger'
  BY LedgerGrows
<1>2. ControlInv
  BY DEF AllInv, SessionInv
<1>3. ASSUME run' = IdleRun, pending' = NoStore, UNCHANGED ledger PROVE ControlInv'
  BY <1>2, <1>3, IdleIs DEF ControlInv, Working
<1>4. ASSUME NEW q \in Query, Resume(q) PROVE ControlInv'
  <2>1. /\ run'.pc = "batches" /\ run'.query = q /\ run'.session = manifest.session
        /\ UNCHANGED ledger
    BY <1>4 DEF Resume, IdleRun
  <2>2. manifest.session \in DOMAIN ledger /\ ledger[manifest.session].query = q
    BY <1>4 DEF Resume, Resumable, AllInv, SessionInv, ManifestInv
  <2>. QED
    BY <1>2, <2>1, <2>2 DEF ControlInv, Working
<1>5. ASSUME NEW q \in Query, NEW r \in BOOLEAN, Discover(q, r) PROVE ControlInv'
  <2>1. /\ run' = [IdleRun EXCEPT !.pc = "pages", !.query = q]
        /\ pending = NoStore /\ UNCHANGED <<pending, ledger>>
    BY <1>5 DEF Discover, Idle, cacheVars
  <2>2. /\ run'.pc = "pages" /\ run'.part = 1 /\ run'.batch = 1 /\ run'.facts = <<>>
    BY <2>1 DEF IdleRun
  <2>. QED
    BY <1>2, <2>1, <2>2 DEF ControlInv, Working
<1>6. CASE AskCustom
  <2>1. /\ run' = [IdleRun EXCEPT !.pc = "custom", !.query = Custom]
        /\ pending = NoStore /\ UNCHANGED <<pending, ledger>>
    BY <1>6 DEF AskCustom, Idle, cacheVars
  <2>2. run'.pc = "custom" /\ run'.query = Custom
    BY <2>1 DEF IdleRun
  <2>. QED
    BY <1>2, <2>1, <2>2 DEF ControlInv, Working
<1>7. CASE RequestPage
  <2>1. /\ run'.pc = "pages" /\ run'.part = run.part /\ run'.batch = run.batch
        /\ run'.facts = run.facts /\ UNCHANGED <<ledger, pending>>
    BY <1>7, RunIs DEF RequestPage, NextQuery, RunRecord, cacheVars
  <2>. QED
    BY <1>2, <1>7, <2>1 DEF RequestPage, ControlInv, Working
<1>8. CASE FreezePopulation
  <2>1. run'.found = ledger'[run'.session].population /\ run'.found # {}
    BY <1>8, FreezeStep DEF AllInv, FreezePopulation
  <2>. QED
    BY <1>1, <1>2, <1>8, <2>1, FreezeStep
       DEF AllInv, FreezePopulation, ControlInv, Working, Frozen
<1>9. CASE WriteManifest \/ WriteStatistics \/ StoreFinal
  <2>1. \E pc \in {"batches", "merged", "stored"} : run' = [run EXCEPT !.pc = pc]
    BY <1>9 DEF WriteManifest, WriteStatistics, StoreFinal
  <2>2. /\ run'.pc \in {"batches", "merged", "stored"}
        /\ run'.query = run.query /\ run'.session = run.session
    BY <2>1, RunChanges DEF Phase
  <2>3. run'.pc = "merged" => pending' = NoStore
    BY <1>9, <2>2, RunChanges
       DEF Phase, WriteManifest, WriteStatistics, StoreFinal, cacheVars
  <2>4. Working /\ UNCHANGED ledger
    BY <1>9 DEF WriteManifest, WriteStatistics, StoreFinal, Working
  <2>. QED
    BY <1>2, <2>2, <2>3, <2>4 DEF ControlInv, Working
<1>10. ASSUME NEW answer, run' = Merged(answer), run.pc = "batches", UNCHANGED ledger
       PROVE  ControlInv'
  <2>1. /\ run'.pc = "batches" /\ run'.query = run.query
        /\ run'.session = run.session
    BY <1>10, RunIs DEF Merged, RunRecord
  <2>. QED
    BY <1>2, <1>10, <2>1 DEF ControlInv, Working
<1>11. CASE ReuseBatch \/ RequestBatch
  BY <1>10, <1>11 DEF ReuseBatch, RequestBatch, AtBatch
<1>12. CASE AnswerCustom
  <2>1. run'.pc = "stored" /\ run'.query = Custom /\ UNCHANGED ledger
    BY <1>2, <1>12, RunChanges DEF AnswerCustom, ControlInv, Phase
  <2>. QED
    BY <1>2, <2>1 DEF ControlInv, Working
<1>13. CASE FindNothing \/ Return \/ CannotReadIndex \/ RequestFails \/ Die
  <2>1. run' = IdleRun /\ UNCHANGED ledger
    BY <1>13 DEF FindNothing, Return, CannotReadIndex, RequestFails, Die
  <2>2. pending' = NoStore
    BY <1>2, <1>13
       DEF FindNothing, Return, Stored, CannotReadIndex, RequestFails, AtRequest,
           AtBatch, Die, CacheLeftBehind, ControlInv, cacheVars
  <2>. QED
    BY <1>3, <2>1, <2>2
<1>14. CASE StoreStep
  <2>1. pending # NoStore /\ UNCHANGED <<run, ledger>>
    BY <1>14, WritesArePending DEF StoreStep
  <2>. QED
    BY <1>2, <2>1 DEF ControlInv, Working, Frozen
<1>15. CASE UNCHANGED <<run, ledger, pending>>
  BY <1>2, <1>15 DEF ControlInv, Working, Frozen
<1>. QED
  BY <1>4, <1>5, <1>6, <1>7, <1>8, <1>9, <1>11, <1>12, <1>13, <1>14, <1>15
     DEF vars, wikidataVars, cacheVars, WikidataNext, RunStep, EditFacts, Relist, Replay

LEMMA ClockStep ==
  ASSUME AllInv, [WikidataNext]_vars
  PROVE  ClockInv'
<1>1. ClockInv /\ clock \in Nat /\ \A s \in DOMAIN ledger : ledger[s].since \in Nat
  BY RunIs DEF AllInv, SessionInv, Session
<1>2. CASE FreezePopulation
  <2>1. clock' = clock
    BY <1>2 DEF FreezePopulation
  <2>. QED
    BY <1>1, <1>2, <2>1, FreezeStep DEF AllInv, ClockInv
<1>3. CASE UNCHANGED ledger /\ clock' \in {clock, clock + 1}
  BY <1>1, <1>3 DEF ClockInv
<1>. QED
  BY <1>2, <1>3
     DEF vars, wikidataVars, WikidataNext, RunStep, EditFacts, Relist, Resume, Discover,
         AskCustom, Replay, RequestPage, FindNothing, WriteManifest, ReuseBatch,
         RequestBatch, WriteStatistics, StoreFinal, AnswerCustom, Return, StoreStep,
         CannotReadIndex, RequestFails, Die

LEMMA ManifestStep ==
  ASSUME AllInv, [WikidataNext]_vars
  PROVE  ManifestInv'
<1>1. \A s \in DOMAIN ledger : ledger'[s] = ledger[s] /\ s \in DOMAIN ledger'
  BY LedgerGrows
<1>2. ManifestInv /\ ControlInv
  BY DEF AllInv, SessionInv
<1>3. ASSUME run'.pc \in {"idle", "custom", "pages", "manifest"},
             manifest' = manifest \/ manifest' = Torn
      PROVE  ManifestInv'
  BY <1>1, <1>2, <1>3 DEF ManifestInv, Working, Manifests
<1>4. ASSUME NEW q \in Query, Resume(q) PROVE ManifestInv'
  <2>1. /\ run'.session = manifest.session /\ ~manifest.complete
        /\ manifest' = manifest
    BY <1>4 DEF Resume, Resumable, IdleRun
  <2>. QED
    BY <1>1, <1>2, <2>1 DEF ManifestInv, Manifests
<1>5. CASE WriteManifest
  <2>1. /\ manifest' = [session |-> run.session, query |-> run.query,
                       population |-> run.found, complete |-> FALSE]
        /\ run' = [run EXCEPT !.pc = "batches"]
        /\ run.pc = "manifest"
    BY <1>5 DEF WriteManifest
  <2>2. run'.session = run.session
    BY <2>1, RunIs DEF RunRecord
  <2>3. /\ run.session \in DOMAIN ledger /\ run.query = ledger[run.session].query
        /\ run.found = ledger[run.session].population
    BY <1>2, <2>1 DEF ControlInv, Working, Frozen
  <2>. QED
    BY <1>1, <2>1, <2>2, <2>3 DEF ManifestInv, Manifests
<1>6. CASE Return
  <2>1. run'.pc = "idle"
    BY <1>6, IdleIs DEF Return
  <2>2. CASE manifest' = manifest
    BY <1>3, <2>1, <2>2
  <2>3. CASE manifest' # manifest
    <3>1. manifest' = [manifest EXCEPT !.complete = TRUE] /\ manifest \notin {None, Torn}
      BY <1>6, <2>3 DEF Return
    <3>2. /\ manifest'.session = manifest.session /\ manifest'.query = manifest.query
          /\ manifest'.population = manifest.population
          /\ manifest' \in Manifests(manifest')
      BY <1>2, <3>1 DEF ManifestInv, Manifests
    <3>. QED
      BY <1>1, <1>2, <2>1, <3>1, <3>2 DEF ManifestInv, Working
  <2>. QED
    BY <2>2, <2>3
<1>7. ASSUME Working, run.pc # "manifest", run'.session = run.session, manifest' = manifest
      PROVE  ManifestInv'
  BY <1>1, <1>2, <1>7 DEF ManifestInv, Manifests
<1>8. CASE ReuseBatch \/ RequestBatch
  <2>1. \E answer : run' = Merged(answer)
    BY <1>8 DEF ReuseBatch, RequestBatch
  <2>2. run'.session = run.session
    BY <2>1, RunIs DEF Merged, RunRecord
  <2>. QED
    BY <1>7, <1>8, <2>2 DEF ReuseBatch, RequestBatch, AtBatch, Working
<1>9. CASE WriteStatistics \/ StoreFinal
  <2>1. \E pc \in {"merged", "stored"} : run' = [run EXCEPT !.pc = pc]
    BY <1>9 DEF WriteStatistics, StoreFinal
  <2>2. run'.session = run.session
    BY <2>1, RunIs DEF RunRecord
  <2>. QED
    BY <1>7, <1>9, <2>2 DEF WriteStatistics, StoreFinal, Working
<1>10. CASE AnswerCustom
  <2>1. run'.pc = "stored" /\ run'.query = Custom /\ manifest' = manifest
    BY <1>2, <1>10, RunChanges DEF AnswerCustom, ControlInv, Phase
  <2>. QED
    BY <1>1, <1>2, <2>1 DEF ManifestInv, Working, Manifests
<1>11. CASE FindNothing \/ CannotReadIndex \/ RequestFails \/ Die
  BY <1>3, <1>11, IdleIs DEF FindNothing, CannotReadIndex, RequestFails, Die
<1>12. CASE AskCustom \/ (\E q \in Query, r \in BOOLEAN : Discover(q, r))
  BY <1>3, <1>12 DEF AskCustom, Discover, IdleRun
<1>13. CASE FreezePopulation
  BY <1>3, <1>13, FreezeStep DEF AllInv, FreezePopulation
<1>14. CASE RequestPage
  <2>1. run'.pc = "pages" /\ manifest' = manifest
    BY <1>14, RunIs DEF RequestPage, NextQuery, RunRecord
  <2>. QED
    BY <1>3, <2>1
<1>15. CASE UNCHANGED <<run, manifest>>
  BY <1>1, <1>2, <1>15 DEF ManifestInv, Working, Manifests
<1>. QED
  BY <1>4, <1>5, <1>6, <1>8, <1>9, <1>10, <1>11, <1>12, <1>13, <1>14, <1>15
     DEF vars, wikidataVars, WikidataNext, RunStep, EditFacts, Relist, Replay, StoreStep

-----------------------------------------------------------------------------
(* Snapshots and what is merged of them.                                   *)

LEMMA EntriesStep ==
  ASSUME AllInv, [WikidataNext]_vars
  PROVE  EntriesInv'
<1>1. EntriesInv /\ ControlInv /\ FactsInv /\ ClockInv
  BY DEF AllInv, SessionInv
<1>2. ASSUME UNCHANGED index \/ index' = <<>>,
             UNCHANGED pending \/ pending' = NoStore \/ EntryOf(ledger', pending'.key, pending'.payload)
      PROVE  EntriesInv'
  <2>1. \A key \in DOMAIN index' : EntryOf(ledger', key, index'[key])
    BY <1>1, <1>2, EntryStaysOk DEF EntriesInv
  <2>2. pending' # NoStore => EntryOf(ledger', pending'.key, pending'.payload)
    BY <1>1, <1>2, EntryStaysOk DEF EntriesInv
  <2>. QED
    BY <2>1, <2>2 DEF EntriesInv
<1>3. CASE FreezePopulation
  <2>1. pending'.key.kind = "population" /\ UNCHANGED index
    BY <1>3 DEF FreezePopulation, Store
  <2>. QED
    BY <1>2, <2>1 DEF EntryOf
<1>4. CASE RequestBatch
  <2>. DEFINE answer == BatchAnswer(run.query, run.part, ThisBatch)
  <2>1. /\ pending'.key = ThisKey /\ pending'.payload = answer
        /\ UNCHANGED <<index, ledger>>
    BY <1>4 DEF RequestBatch, Store
  <2>2. /\ ThisKey.kind = "batch" /\ ThisKey.session = run.session
        /\ ThisKey.formats = ThisBatch
        /\ answer.formats = ThisBatch /\ answer.at = clock
    BY DEF ThisKey, BatchKey, BatchAnswer
  <2>3. run.session \in DOMAIN ledger /\ clock >= ledger[run.session].since /\ clock \in Nat
    <3>1. run.session \in DOMAIN ledger
      BY <1>1, <1>4 DEF RequestBatch, AtBatch, ControlInv, Working
    <3>2. ledger[run.session].since \in Nat /\ clock \in Nat
      BY <3>1, RunIs DEF Session
    <3>. QED
      BY <1>1, <3>1, <3>2 DEF ClockInv
  <2>. HIDE DEF answer
  <2>. QED
    BY <1>2, <2>1, <2>2, <2>3 DEF EntryOf
<1>5. CASE StoreFinal
  <2>. DEFINE final == FinalFile(run.query, Frozen, run.facts)
  <2>1. /\ pending'.key = FinalKey(run.query) /\ pending'.payload = final
        /\ UNCHANGED <<index, ledger>> /\ run.pc = "merged"
    BY <1>5 DEF StoreFinal, Store
  <2>2. DOMAIN run.facts = (DOMAIN Part) \X Frozen
    <3>1. run.part = Len(Part) + 1 /\ run.batch = 1
      BY <1>1, <2>1 DEF FactsInv
    <3>2. DOMAIN run.facts = Done(Frozen, Len(Part) + 1, 1)
      BY <1>1, <2>1, <3>1 DEF FactsInv
    <3>3. Frozen \in SUBSET Format
      BY <1>1, <2>1, RunIs DEF ControlInv, Working, Frozen
    <3>. QED
      BY <3>2, <3>3, PartIsDone, WikidataConstants
  <2>3. /\ run.session \in DOMAIN ledger /\ ledger[run.session].query = run.query
        /\ \A x \in DOMAIN run.facts : run.facts[x] >= ledger[run.session].since
    BY <1>1, <2>1 DEF ControlInv, Working, FactsInv
  <2>4. /\ final.kind = "final" /\ final.query = run.query /\ final.rows = Frozen
        /\ final.facts = run.facts
    BY DEF FinalFile
  <2>. HIDE DEF final
  <2>5. OneSessionOf(ledger', final)
    BY <2>1, <2>2, <2>3, <2>4 DEF OneSessionOf, Frozen
  <2>6. EntryOf(ledger', pending'.key, pending'.payload)
    BY <2>1, <2>5 DEF EntryOf, FinalKey
  <2>. QED
    BY <1>2, <2>1, <2>6
<1>6. CASE AnswerCustom
  <2>1. /\ pending'.key.kind = "final" /\ pending'.payload.kind = "custom"
        /\ UNCHANGED index
    BY <1>6 DEF AnswerCustom, Store, FinalKey
  <2>. QED
    BY <1>2, <2>1 DEF EntryOf
<1>7. CASE StoreStep
  <2>1. CASE WriteFile
    <3>1. /\ pending # NoStore /\ pending'.key = pending.key
          /\ pending'.payload = pending.payload /\ UNCHANGED index
      BY <2>1, WritesArePending DEF WriteFile, AllInv, CacheInv
    <3>2. EntryOf(ledger', pending'.key, pending'.payload)
      BY <1>1, <3>1, EntryStaysOk DEF EntriesInv
    <3>. QED
      BY <1>2, <3>1, <3>2
  <2>2. CASE WriteIndex
    <3>1. EntryOf(ledger', pending.key, pending.payload)
      BY <1>1, <2>2, WritesArePending, EntryStaysOk DEF EntriesInv
    <3>2. \A key \in DOMAIN index : EntryOf(ledger', key, index[key])
      BY <1>1, EntryStaysOk DEF EntriesInv
    <3>3. \A key \in DOMAIN index' : EntryOf(ledger', key, index'[key])
      BY <2>2, <3>1, <3>2, WriteIndexAdds
    <3>. QED
      BY <2>2, <3>3 DEF WriteIndex, EntriesInv
  <2>. QED
    BY <1>7, <2>1, <2>2 DEF StoreStep
<1>8. CASE Die
  BY <1>2, <1>8 DEF Die, CacheLeftBehind
<1>9. CASE UNCHANGED <<index, pending>>
  BY <1>2, <1>9
<1>. QED
  BY <1>3, <1>4, <1>5, <1>6, <1>7, <1>8, <1>9
     DEF vars, cacheVars, WikidataNext, RunStep, EditFacts, Relist, Resume, Discover,
         AskCustom, Replay, RequestPage, FindNothing, WriteManifest, ReuseBatch,
         WriteStatistics, Return, CannotReadIndex, RequestFails

\* An answer, cached or fresh, is the next batch of what is merged.
LEMMA MergeStep ==
  ASSUME AllInv, [WikidataNext]_vars, AtBatch, NEW answer, run' = Merged(answer),
         answer.formats = ThisBatch, answer.at \in Nat,
         answer.at >= ledger[run.session].since, UNCHANGED ledger
  PROVE  FactsInv'
<1>. DEFINE new == {run.part} \X ThisBatch
            facts == [x \in DOMAIN run.facts \cup new |->
                        IF x \in new THEN answer.at ELSE run.facts[x]]
            merged == Done(Frozen, run.part, run.batch + 1)
<1>1. /\ run.pc = "batches" /\ FactsInv /\ run.part \in DOMAIN Part
      /\ run.session \in DOMAIN ledger
  BY DEF AtBatch, AllInv, SessionInv, ControlInv, Working
<1>2. /\ run.part \in 1 .. Len(Part) /\ run.batch \in 1 .. Batches(Frozen)
      /\ Frozen \in SUBSET Format /\ Frozen # {}
      /\ Len(Part) \in Nat
  BY <1>1, RunIs, WikidataConstants DEF FactsInv, Frozen
<1>3. /\ Batches(Frozen) \in Nat /\ Batches(Frozen) >= 1
      /\ UNION {Batch(Frozen, i) : i \in 1 .. Batches(Frozen)} = Frozen
  BY <1>2, BatchesCover
<1>4. DOMAIN run.facts \cup new = merged
  <2>1. (run.batch + 1) - 1 = run.batch /\ run.batch \in Nat \ {0}
    BY <1>2, <1>3
  <2>2. FirstBatches(Frozen, (run.batch + 1) - 1) =
          FirstBatches(Frozen, run.batch - 1) \cup ThisBatch
    BY <1>2, <2>1, FirstBatchesAre DEF ThisBatch
  <2>3. DOMAIN run.facts = Done(Frozen, run.part, run.batch)
    BY <1>1 DEF FactsInv
  <2>. DEFINE next == run.batch + 1
              done == FirstBatches(Frozen, run.batch - 1)
  <2>4. FirstBatches(Frozen, next - 1) = done \cup ThisBatch
    BY <2>2
  <2>5. DOMAIN run.facts = ((1 .. run.part - 1) \X Frozen) \cup ({run.part} \X done)
    BY <2>3 DEF Done
  <2>. HIDE DEF next, done
  <2>6. Done(Frozen, run.part, next) =
          ((1 .. run.part - 1) \X Frozen) \cup ({run.part} \X (done \cup ThisBatch))
    BY <2>4 DEF Done
  <2>7. {run.part} \X (done \cup ThisBatch) = ({run.part} \X done) \cup new
    OBVIOUS
  <2>. HIDE DEF new
  <2>8. DOMAIN run.facts \cup new = Done(Frozen, run.part, next)
    BY <2>5, <2>6, <2>7
  <2>. QED
    BY <2>8 DEF next
<1>5. \A x \in DOMAIN facts : facts[x] >= ledger[run.session].since
  <2>1. \A x \in DOMAIN run.facts : run.facts[x] >= ledger[run.session].since
    BY <1>1 DEF FactsInv
  <2>. HIDE DEF new
  <2>. QED
    BY <2>1
<1>6. /\ run' = [run EXCEPT !.facts = facts,
                 !.batch = IF run.batch = Batches(Frozen) THEN 1 ELSE @ + 1,
                 !.part = IF run.batch = Batches(Frozen) THEN @ + 1 ELSE @]
  BY <1>1, RunIs DEF Merged, RunRecord
<1>7. DOMAIN facts = merged
  BY <1>4
<1>. HIDE DEF facts, merged
<1>8. /\ run'.pc = "batches" /\ run'.session = run.session /\ run'.facts = facts
      /\ run'.batch = IF run.batch = Batches(Frozen) THEN 1 ELSE run.batch + 1
      /\ run'.part = IF run.batch = Batches(Frozen) THEN run.part + 1 ELSE run.part
  BY <1>1, <1>6, RunIs DEF RunRecord
<1>9. Frozen' = Frozen /\ Batches(Frozen)' = Batches(Frozen)
  BY <1>8 DEF Frozen, Batches
<1>10. CASE run.batch = Batches(Frozen)
  <2>5. DOMAIN facts = Done(Frozen, run.part + 1, 1)
    BY <1>2, <1>7, <1>10, PartIsDone DEF merged
  <2>6. run'.part = run.part + 1 /\ run'.batch = 1
    BY <1>8, <1>10
  <2>7. run.part + 1 \in 1 .. Len(Part) + 1 /\ 1 \in 1 .. Batches(Frozen)
    BY <1>2, <1>3
  <2>8. DOMAIN run'.facts = Done(Frozen', run'.part, run'.batch)
    BY <1>8, <1>9, <2>5, <2>6
  <2>. QED
    BY <1>5, <1>8, <1>9, <2>6, <2>7, <2>8 DEF FactsInv
<1>11. CASE run.batch # Batches(Frozen)
  <2>1. run'.part = run.part /\ run'.batch = run.batch + 1
    BY <1>8, <1>11
  <2>2. run.batch + 1 \in 1 .. Batches(Frozen) /\ (run.batch + 1) - 1 = run.batch
    BY <1>2, <1>3, <1>11
  <2>3. run.part \in 1 .. Len(Part) + 1 /\ run.part # Len(Part) + 1
    BY <1>2
  <2>4. DOMAIN facts = Done(Frozen, run.part, run.batch + 1)
    BY <1>7 DEF merged
  <2>5. DOMAIN run'.facts = Done(Frozen', run'.part, run'.batch)
    BY <1>8, <1>9, <2>1, <2>4
  <2>. QED
    BY <1>5, <1>8, <1>9, <2>1, <2>2, <2>3, <2>5 DEF FactsInv
<1>. QED
  BY <1>10, <1>11

LEMMA FactsStep ==
  ASSUME AllInv, [WikidataNext]_vars
  PROVE  FactsInv'
<1>1. FactsInv /\ ControlInv /\ EntriesInv
  BY DEF AllInv, SessionInv
<1>2. ASSUME run'.pc \notin {"batches", "merged"} PROVE FactsInv'
  BY <1>2 DEF FactsInv
<1>3. ASSUME run'.pc = "batches", run'.part = 1, run'.batch = 1, run'.facts = <<>>,
             Frozen' \in (SUBSET Format) \ {{}}
      PROVE  FactsInv'
  <2>1. Batches(Frozen') \in Nat /\ Batches(Frozen') >= 1
    BY <1>3, BatchesCover
  <2>2. 1 .. 1 - 1 = {} /\ DOMAIN <<>> = {}
    OBVIOUS
  <2>3. Done(Frozen', 1, 1) = {}
    BY <1>3, PartIsDone
  <2>4. 1 \in 1 .. Len(Part) + 1 /\ 1 # Len(Part) + 1 /\ 1 \in 1 .. Batches(Frozen')
    BY <2>1, WikidataConstants
  <2>. QED
    BY <1>3, <2>2, <2>3, <2>4 DEF FactsInv
<1>4. ASSUME NEW q \in Query, Resume(q) PROVE FactsInv'
  <2>1. /\ run'.pc = "batches" /\ run'.part = 1 /\ run'.batch = 1 /\ run'.facts = <<>>
        /\ run'.session = manifest.session /\ UNCHANGED ledger
    BY <1>4 DEF Resume, IdleRun
  <2>2. manifest.session \in DOMAIN ledger
    BY <1>4 DEF Resume, Resumable, AllInv, SessionInv, ManifestInv
  <2>. QED
    BY <1>3, <2>1, <2>2, RunIs DEF Frozen
<1>5. CASE WriteManifest
  <2>1. /\ run' = [run EXCEPT !.pc = "batches"] /\ run.pc = "manifest"
        /\ UNCHANGED ledger
    BY <1>5 DEF WriteManifest
  <2>2. /\ run'.pc = "batches" /\ run'.part = 1 /\ run'.batch = 1 /\ run'.facts = <<>>
        /\ run'.session = run.session /\ run.session \in DOMAIN ledger
    BY <1>1, <2>1, RunChanges DEF Phase, ControlInv, Working
  <2>. QED
    BY <1>3, <2>1, <2>2, RunIs DEF Frozen
<1>6. CASE ReuseBatch
  <2>1. /\ AtBatch /\ ThisKey \in DOMAIN index /\ run' = Merged(index[ThisKey])
        /\ UNCHANGED ledger
    BY <1>6 DEF ReuseBatch, Cached
  <2>2. /\ ThisKey.kind = "batch" /\ ThisKey.session = run.session
        /\ ThisKey.formats = ThisBatch
    BY DEF ThisKey, BatchKey
  <2>3. EntryOf(ledger, ThisKey, index[ThisKey])
    BY <1>1, <2>1 DEF EntriesInv
  <2>4. /\ index[ThisKey].formats = ThisBatch /\ index[ThisKey].at \in Nat
        /\ index[ThisKey].at >= ledger[run.session].since
    BY <2>2, <2>3 DEF EntryOf
  <2>. QED
    BY <2>1, <2>4, MergeStep
<1>7. CASE RequestBatch
  <2>. DEFINE answer == BatchAnswer(run.query, run.part, ThisBatch)
  <2>1. AtBatch /\ run' = Merged(answer) /\ UNCHANGED ledger
    BY <1>7 DEF RequestBatch
  <2>2. answer.formats = ThisBatch /\ answer.at = clock
    BY DEF BatchAnswer
  <2>3. run.session \in DOMAIN ledger
    BY <1>1, <2>1 DEF AtBatch, ControlInv, Working
  <2>4. clock \in Nat /\ ledger[run.session].since \in Nat
    BY <2>3, RunIs DEF Session
  <2>5. clock >= ledger[run.session].since
    BY <2>3, <2>4 DEF AllInv, SessionInv, ClockInv
  <2>. HIDE DEF answer
  <2>. QED
    BY <2>1, <2>2, <2>4, <2>5, MergeStep
<1>8. CASE WriteStatistics
  <2>1. /\ run' = [run EXCEPT !.pc = "merged"] /\ run.pc = "batches"
        /\ run.part \notin DOMAIN Part /\ UNCHANGED ledger
    BY <1>8 DEF WriteStatistics
  <2>2. /\ run'.part = run.part /\ run'.batch = run.batch /\ run'.facts = run.facts
        /\ run'.session = run.session
    BY <2>1, RunChanges DEF Phase
  <2>3. Frozen' = Frozen
    BY <2>1, <2>2 DEF Frozen
  <2>4. run.part = Len(Part) + 1
    BY <1>1, <2>1, WikidataConstants DEF FactsInv
  <2>. QED
    BY <1>1, <2>1, <2>2, <2>3, <2>4 DEF FactsInv
<1>9. CASE StoreFinal \/ AnswerCustom
  <2>1. run' = [run EXCEPT !.pc = "stored"]
    BY <1>9 DEF StoreFinal, AnswerCustom
  <2>. QED
    BY <1>2, <2>1, RunChanges DEF Phase
<1>10. CASE FindNothing \/ Return \/ CannotReadIndex \/ RequestFails \/ Die
  BY <1>2, <1>10, IdleIs DEF FindNothing, Return, CannotReadIndex, RequestFails, Die
<1>11. CASE AskCustom \/ (\E q \in Query, r \in BOOLEAN : Discover(q, r))
  BY <1>2, <1>11 DEF AskCustom, Discover, IdleRun
<1>12. CASE FreezePopulation
  BY <1>2, <1>12, FreezeStep DEF AllInv
<1>13. CASE RequestPage
  <2>1. run'.pc = "pages"
    BY <1>13, RunIs DEF RequestPage, NextQuery, RunRecord
  <2>. QED
    BY <1>2, <2>1
<1>14. CASE UNCHANGED <<run, ledger>>
  BY <1>1, <1>14 DEF FactsInv, Frozen
<1>. QED
  BY <1>4, <1>5, <1>6, <1>7, <1>8, <1>9, <1>10, <1>11, <1>12, <1>13, <1>14
     DEF vars, wikidataVars, WikidataNext, RunStep, EditFacts, Relist, Replay, StoreStep

-----------------------------------------------------------------------------
(* What is returned, and what can be replayed.                             *)

LEMMA StoredStep ==
  ASSUME AllInv, [WikidataNext]_vars
  PROVE  StoredInv'
<1>1. StoredInv /\ ControlInv
  BY DEF AllInv, SessionInv
<1>2. ASSUME run'.pc # "stored", pending' = NoStore \/ pending'.key.kind # "final"
      PROVE  StoredInv'
  BY <1>2 DEF StoredInv
<1>3. CASE AskCustom \/ (\E q \in Query : Resume(q) \/ (\E r \in BOOLEAN : Discover(q, r)))
  <2>1. run'.pc # "stored" /\ pending' = NoStore
    BY <1>3 DEF AskCustom, Resume, Discover, Idle, IdleRun, cacheVars
  <2>. QED
    BY <1>2, <2>1
<1>4. CASE FindNothing \/ Return \/ CannotReadIndex \/ RequestFails \/ Die
  <2>1. run' = IdleRun /\ pending' = NoStore
    BY <1>1, <1>4
       DEF FindNothing, Return, Stored, CannotReadIndex, RequestFails, AtRequest,
           AtBatch, Die, CacheLeftBehind, ControlInv, cacheVars
  <2>. QED
    BY <1>2, <2>1, IdleIs
<1>5. CASE RequestPage
  <2>1. run'.pc = "pages" /\ run.pc = "pages" /\ UNCHANGED pending
    BY <1>5, RunIs DEF RequestPage, NextQuery, RunRecord, cacheVars
  <2>. QED
    BY <1>1, <1>2, <2>1 DEF ControlInv
<1>6. CASE FreezePopulation
  <2>1. run'.pc = "manifest" /\ pending'.key.kind = "population"
    BY <1>6, RunIs DEF FreezePopulation, Store, RunRecord
  <2>. QED
    BY <1>2, <2>1
<1>7. CASE WriteManifest \/ WriteStatistics
  <2>1. \E pc \in {"batches", "merged"} : run' = [run EXCEPT !.pc = pc]
    BY <1>7 DEF WriteManifest, WriteStatistics
  <2>2. run'.pc # "stored"
    BY <2>1, RunChanges DEF Phase
  <2>3. pending' = NoStore
    BY <1>7 DEF WriteManifest, WriteStatistics, cacheVars
  <2>. QED
    BY <1>2, <2>2, <2>3
<1>8. CASE ReuseBatch \/ RequestBatch
  <2>1. run.pc = "batches" /\ \E answer : run' = Merged(answer)
    BY <1>8 DEF ReuseBatch, RequestBatch, AtBatch
  <2>2. run'.pc # "stored"
    BY <2>1, RunIs DEF Merged, RunRecord
  <2>3. pending' = NoStore \/ pending'.key = ThisKey
    BY <1>8 DEF ReuseBatch, RequestBatch, AtBatch, Store, cacheVars
  <2>4. ThisKey.kind = "batch"
    BY DEF ThisKey, BatchKey
  <2>. QED
    BY <1>2, <2>2, <2>3, <2>4
<1>9. CASE StoreFinal
  <2>1. /\ run' = [run EXCEPT !.pc = "stored"] /\ UNCHANGED ledger
        /\ pending'.key = FinalKey(run.query)
        /\ pending'.payload = FinalFile(run.query, Frozen, run.facts)
        /\ pending'.stage = "file"
    BY <1>9 DEF StoreFinal, Store
  <2>2. run'.pc = "stored" /\ run'.query = run.query /\ run'.session = run.session
    BY <2>1, RunChanges DEF Phase
  <2>3. Frozen' = Frozen /\ pending'.payload.rows = Frozen /\ pending' # NoStore
    BY <2>1, <2>2 DEF Frozen, FinalFile, NoStore
  <2>. QED
    BY <2>1, <2>2, <2>3 DEF StoredInv
<1>10. CASE AnswerCustom
  <2>1. /\ run' = [run EXCEPT !.pc = "stored"] /\ run.query = Custom
        /\ pending'.key = FinalKey(Custom) /\ pending'.stage = "file"
    BY <1>1, <1>10 DEF AnswerCustom, Store, ControlInv
  <2>2. run'.pc = "stored" /\ run'.query = Custom
    BY <2>1, RunChanges DEF Phase
  <2>3. pending' # NoStore
    BY <2>1 DEF NoStore
  <2>. QED
    BY <2>1, <2>2, <2>3 DEF StoredInv
<1>11. CASE StoreStep
  <2>1. UNCHANGED <<run, ledger>> /\ Frozen' = Frozen
    BY <1>11 DEF StoreStep, Frozen
  <2>2. CASE WriteFile
    <3>1. /\ pending # NoStore /\ pending'.key = pending.key
          /\ pending'.payload = pending.payload /\ pending'.stage = "index"
      BY <2>2, WritesArePending DEF WriteFile, AllInv, CacheInv
    <3>2. pending' # NoStore
      BY <3>1 DEF NoStore
    <3>. QED
      BY <1>1, <2>1, <3>1, <3>2 DEF StoredInv
  <2>3. CASE WriteIndex
    <3>1. pending # NoStore /\ pending' = NoStore
      BY <2>3, WritesArePending DEF WriteIndex
    <3>. QED
      BY <1>1, <2>1, <2>3, <3>1, WriteIndexAdds DEF StoredInv
  <2>. QED
    BY <1>11, <2>2, <2>3 DEF StoreStep
<1>12. CASE UNCHANGED <<run, ledger, pending, index>>
  BY <1>1, <1>12 DEF StoredInv, Frozen
<1>. QED
  BY <1>3, <1>4, <1>5, <1>6, <1>7, <1>8, <1>9, <1>10, <1>11, <1>12
     DEF vars, wikidataVars, cacheVars, WikidataNext, RunStep, EditFacts, Relist, Replay

LEMMA OutputStep ==
  ASSUME AllInv, [WikidataNext]_vars
  PROVE  OutputIsOneSession'
<1>1. OutputIsOneSession <=>
        (output # None /\ output.kind = "final" => OneSessionOf(ledger, output))
  BY DEF OutputIsOneSession, OneSessionOf
<1>2. OutputIsOneSession' <=>
        (output' # None /\ output'.kind = "final" => OneSessionOf(ledger', output'))
  BY DEF OutputIsOneSession, OneSessionOf
<1>3. ASSUME NEW query, FinalKey(query) \in DOMAIN index, output' = index[FinalKey(query)]
      PROVE  OutputIsOneSession'
  <2>1. EntryOf(ledger', FinalKey(query), index[FinalKey(query)])
    BY <1>3, EntryStaysOk DEF AllInv, SessionInv, EntriesInv
  <2>2. FinalKey(query).kind = "final"
    BY DEF FinalKey
  <2>. QED
    BY <1>2, <1>3, <2>1, <2>2 DEF EntryOf
<1>4. CASE output' = None
  BY <1>2, <1>4
<1>5. CASE output' = output
  <2>1. OneSessionOf(ledger, output) => OneSessionOf(ledger', output)
    BY LedgerGrows DEF OneSessionOf
  <2>. QED
    BY <1>1, <1>2, <1>5, <2>1 DEF AllInv, SessionInv
<1>6. ASSUME NEW q, Replay(q) PROVE OutputIsOneSession'
  BY <1>3, <1>4, <1>6 DEF Replay, Cached
<1>7. CASE Return
  BY <1>3, <1>7 DEF Return, Stored, AllInv, SessionInv, StoredInv
<1>. QED
  BY <1>4, <1>5, <1>6, <1>7
     DEF vars, wikidataVars, WikidataNext, RunStep, EditFacts, Relist, Resume, Discover,
         AskCustom, RequestPage, FindNothing, FreezePopulation, WriteManifest,
         ReuseBatch, RequestBatch, WriteStatistics, StoreFinal, AnswerCustom, StoreStep,
         CannotReadIndex, RequestFails, Die

\* Only the run of another session, or an operator's own query, could
\* overwrite the snapshot of a complete session, and neither has its key.
LEMMA ReplayStep ==
  ASSUME AllInv, [WikidataNext]_vars
  PROVE  ReplayInv'
<1>1. ReplayInv /\ ManifestInv /\ ControlInv /\ StoredInv
  BY DEF AllInv, SessionInv
<1>2. ASSUME manifest' = manifest \/ manifest' = Torn, indexTorn' \/ UNCHANGED <<index, indexTorn>>
      PROVE  ReplayInv'
  BY <1>1, <1>2 DEF ReplayInv
<1>3. CASE WriteManifest
  <2>1. ~manifest'.complete
    BY <1>3 DEF WriteManifest
  <2>. QED
    BY <2>1 DEF ReplayInv
<1>4. CASE Return
  <2>1. UNCHANGED <<index, indexTorn>> /\ run.pc = "stored" /\ pending = NoStore
    BY <1>4 DEF Return, Stored, cacheVars
  <2>2. CASE manifest' = manifest
    BY <1>2, <2>1, <2>2
  <2>3. CASE manifest' # manifest
    <3>1. /\ run.query # Custom /\ manifest \notin {None, Torn}
          /\ manifest.session = run.session /\ manifest' = [manifest EXCEPT !.complete = TRUE]
      BY <1>4, <2>3 DEF Return
    <3>2. manifest'.query = manifest.query /\ manifest'.population = manifest.population
      BY <1>1, <3>1 DEF ManifestInv, Manifests
    <3>3. manifest.query = run.query /\ manifest.population = Frozen
      BY <1>1, <2>1, <3>1 DEF ManifestInv, ControlInv, Working, Frozen
    <3>. QED
      BY <1>1, <2>1, <3>1, <3>2, <3>3 DEF ReplayInv, StoredInv
  <2>. QED
    BY <2>2, <2>3
<1>5. CASE StoreStep
  <2>1. manifest' = manifest
    BY <1>5 DEF StoreStep
  <2>2. CASE WriteFile
    BY <1>2, <2>1, <2>2 DEF WriteFile
  <2>3. CASE WriteIndex
    <3>1. UNCHANGED indexTorn /\ pending # NoStore
      BY <2>3, WritesArePending DEF WriteIndex
    <3>. SUFFICES ASSUME manifest \notin {None, Torn}, manifest.complete, ~indexTorn
                  PROVE  /\ FinalKey(manifest.query) \in DOMAIN index'
                         /\ index'[FinalKey(manifest.query)].rows = manifest.population
      BY <2>1, <3>1 DEF ReplayInv
    <3>2. pending.key # FinalKey(manifest.query)
      <4>. SUFFICES ASSUME pending.key = FinalKey(manifest.query) PROVE FALSE
        OBVIOUS
      <4>1. pending.key.kind = "final" /\ pending.key.query = manifest.query
        BY DEF FinalKey
      <4>2. run.pc = "stored" /\ run.query = manifest.query
        BY <1>1, <3>1, <4>1 DEF StoredInv, FinalKey
      <4>3. manifest.query \in Query
        BY <1>1, RunIs DEF ManifestInv, Session
      <4>. QED
        BY <1>1, <4>2, <4>3, WikidataConstants DEF Working, ManifestInv
    <3>. QED
      BY <1>1, <2>3, <3>2, WriteIndexAdds DEF ReplayInv
  <2>. QED
    BY <1>5, <2>2, <2>3 DEF StoreStep
<1>6. CASE Die
  BY <1>2, <1>6 DEF Die, CacheLeftBehind
<1>7. CASE UNCHANGED <<manifest, index, indexTorn>>
  BY <1>2, <1>7
<1>. QED
  BY <1>3, <1>4, <1>5, <1>6, <1>7
     DEF vars, wikidataVars, cacheVars, WikidataNext, RunStep, EditFacts, Relist, Resume,
         Discover, AskCustom, Replay, RequestPage, FindNothing, FreezePopulation,
         ReuseBatch, RequestBatch, WriteStatistics, StoreFinal, AnswerCustom, Store,
         CannotReadIndex, RequestFails

LEMMA AllInvHolds == WikidataSpec => []AllInv
<1>1. CacheInit /\ WikidataInit => AllInv
  BY CacheInitInv, DiscoveryInit, SessionInit DEF AllInv
<1>2. AllInv /\ [WikidataNext]_vars => AllInv'
  BY CacheStep, DiscoveryStep, ClockStep, ControlStep, ManifestStep, EntriesStep,
     FactsStep, StoredStep, OutputStep, ReplayStep DEF AllInv, SessionInv
<1>. QED
  BY <1>1, <1>2, PTL DEF WikidataSpec, vars

\* What acquire returns, fresh, resumed or replayed, has exactly the rows of
\* one session's frozen population and every part of each, read with that
\* session's queries since it was frozen (_fetch_staged_default).
THEOREM OutputOfOneSession == WikidataSpec => []OutputIsOneSession
<1>1. AllInv => OutputIsOneSession
  BY DEF AllInv, SessionInv
<1>. QED
  BY <1>1, AllInvHolds, PTL

\* A session that its manifest calls complete can be replayed offline, with
\* the rows of its population (acquire marks it after the snapshot is stored).
THEOREM CompleteCanBeReplayed == WikidataSpec => []CompleteIsReplayable
<1>1. AllInv => CompleteIsReplayable
  BY DEF AllInv, SessionInv, CacheInv, IndexedSnapshotsAreWhole, ReplayInv, Cached,
         CompleteIsReplayable
<1>. QED
  BY <1>1, AllInvHolds, PTL

=============================================================================
