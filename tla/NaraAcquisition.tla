-------------------------- MODULE NaraAcquisition --------------------------
(***************************************************************************)
(* The NARA adapter: which two dated files make a release, and where they  *)
(* come from when the newest release has to be found.                      *)
(*                                                                         *)
(* NARA publishes an action plan and a risk matrix per release, in two     *)
(* directories and one file at a time.  Mode "latest" lists both           *)
(* directories and takes the newest date that both have, "pinned" takes a  *)
(* configured date, "local_files" the operator's own files.  The two files *)
(* of a run are merged row by row (extract), so they had better be of one  *)
(* release.                                                                *)
(*                                                                         *)
(* Mode "explicit_uris" acquires like "pinned" with the operator's list of *)
(* files for the pair; it promises nothing about releases and is left out. *)
(***************************************************************************)
EXTENDS SnapshotCache

CONSTANTS
  Date,          \* release dates, as numbers
  PinnedDate,    \* release_date, also the fallback_release_date
  LocalDate,     \* the release of the operator's local files
  NaraTorn,      \* a release index cut short
  NaraMaxStop    \* bound: failed requests and deaths of the process

ASSUME NaraConstants ==
  /\ {PinnedDate, LocalDate} \subseteq Date
  /\ Date \subseteq Nat \ {0} /\ IsFiniteSet(Date)
  /\ None # NaraTorn /\ None \notin Date /\ NaraTorn \notin Date

VARIABLES
  published,     \* upstream: the files there are
  releaseIndex,  \* .nara_release_index.json: the release it names
  fallbackFiles, \* are fallback_local_files configured?
  nara,          \* the run of the adapter
  naraStops,     \* failed requests and deaths so far
  known          \* history: the newest release an online run resolved

naraVars ==
  <<published, releaseIndex, fallbackFiles, nara, naraStops, known>>

Kinds == <<"preservation_action_plan", "risk_matrix_numbered">>
Companion(date, location) ==
  [i \in 1..2 |-> [kind |-> Kinds[i], date |-> date, location |-> location]]
IdleNara ==
  [pc |-> "idle", mode |-> None, offline |-> FALSE, plans |-> {},
   sources |-> <<>>, snapshots |-> <<>>]

NaraInit ==
  /\ published = {PinnedDate} \X {1, 2}
  /\ releaseIndex = None
  /\ fallbackFiles \in BOOLEAN
  /\ nara = IdleNara
  /\ naraStops = 0
  /\ known = 0

-----------------------------------------------------------------------------
(* Upstream: one file more.                                                *)

Publish(date, kind) ==
  /\ <<date, kind>> \notin published
  /\ published' = published \cup {<<date, kind>>}
  /\ UNCHANGED <<cacheVars, releaseIndex, fallbackFiles, nara, naraStops,
                 known>>

-----------------------------------------------------------------------------
(* Resolving a release to its sources.                                     *)

Pinned == Companion(PinnedDate, "remote_uri")
LocalFiles == Companion(LocalDate, "local_file")
Resolved(sources) == [nara EXCEPT !.pc = "acquire", !.sources = sources]

\* Where the sources are looked for, by mode; None when there are none.
OfflineLatest ==
  IF releaseIndex # None
    THEN Companion(releaseIndex, "remote_uri")
    ELSE IF fallbackFiles THEN LocalFiles ELSE None

\* The slip: the files at hand are preferred to the release known.
WrongFallback ==
  IF fallbackFiles
    THEN LocalFiles
    ELSE Pinned

\* Discovery failed: the release known, the local files, or the pinned one.
Fallback ==
  IF releaseIndex # None
    THEN Companion(releaseIndex, "remote_uri")
    ELSE IF fallbackFiles
           THEN LocalFiles
           ELSE Pinned

BeginNara(mode, offline) ==
  /\ nara.pc \in {"idle", "acquired"}
  /\ LET run == [IdleNara EXCEPT !.mode = mode, !.offline = offline] IN
       nara' =
         CASE mode = "latest" /\ ~offline -> [run EXCEPT !.pc = "plans"]
           [] mode = "latest" /\ offline -> [run EXCEPT !.pc = "offline"]
           [] mode = "pinned" ->
                [run EXCEPT !.pc = "acquire", !.sources = Pinned]
           [] mode = "local_files" ->
                [run EXCEPT !.pc = "acquire", !.sources = LocalFiles]
  /\ UNCHANGED <<cacheVars, published, releaseIndex, fallbackFiles,
                 naraStops, known>>

\* Offline: the release index, which must be readable.
ResolveOffline ==
  /\ nara.pc = "offline"
  /\ nara' = IF releaseIndex = NaraTorn \/ OfflineLatest = None
               THEN IdleNara
               ELSE Resolved(OfflineLatest)
  /\ UNCHANGED <<cacheVars, published, releaseIndex, fallbackFiles,
                 naraStops, known>>

Dates(kind) == {d \in Date : <<d, kind>> \in published}
Latest(dates) == CHOOSE d \in dates : \A e \in dates : e <= d

ListPlans ==
  /\ nara.pc = "plans"
  /\ nara' = [nara EXCEPT !.pc = "matrices", !.plans = Dates(1)]
  /\ UNCHANGED <<cacheVars, published, releaseIndex, fallbackFiles,
                 naraStops, known>>

\* The slip: the newest file of each directory.
WrongPair(plans, matrices) ==
  [i \in 1..2 |->
     [Companion(Latest(plans), "remote_uri")[i] EXCEPT
        !.date = IF i = 1 THEN @ ELSE Latest(matrices)]]

Pair(plans, matrices) ==
  Companion(Latest(plans \cap matrices), "remote_uri")

\* The release index is loaded and written with the release found, before
\* its files are fetched; no common date, or a torn index, is an error.
ListMatrices ==
  /\ nara.pc = "matrices"
  /\ IF nara.plans \cap Dates(2) = {} \/ releaseIndex = NaraTorn
       THEN /\ nara' = IdleNara
            /\ UNCHANGED <<releaseIndex, known>>
       ELSE LET found == Latest(nara.plans \cap Dates(2)) IN
              /\ nara' = Resolved(Pair(nara.plans, Dates(2)))
              /\ releaseIndex' = found
              /\ known' = found
  /\ UNCHANGED <<cacheVars, published, fallbackFiles, naraStops>>

\* Either listing fails with an HTTP or URL error.
DiscoveryFails ==
  /\ nara.pc \in {"plans", "matrices"}
  /\ naraStops < NaraMaxStop
  /\ naraStops' = naraStops + 1
  /\ nara' = IF releaseIndex = NaraTorn THEN IdleNara ELSE Resolved(Fallback)
  /\ UNCHANGED <<cacheVars, published, releaseIndex, fallbackFiles, known>>

-----------------------------------------------------------------------------
(* Acquiring the two files, in order.                                      *)

AtSource ==
  /\ nara.pc = "acquire"
  /\ pending = NoStore
  /\ Len(nara.snapshots) < 2

Source == nara.sources[Len(nara.snapshots) + 1]
Key(source) == [date |-> source.date, kind |-> source.kind,
                location |-> source.location]
Payload(source) == [date |-> source.date, kind |-> source.kind]
Got(source) ==
  [nara EXCEPT !.snapshots = Append(@, [date |-> source.date,
                                        kind |-> source.kind])]

\* A remote file, offline: from the cache or not at all.
ReplaySource ==
  /\ AtSource
  /\ Source.location = "remote_uri" /\ nara.offline
  /\ nara' = IF indexTorn \/ ~Cached(Key(Source))
               THEN IdleNara
               ELSE Got(Source)
  /\ UNCHANGED <<cacheVars, published, releaseIndex, fallbackFiles,
                 naraStops, known>>

\* A local file is read in every mode, offline too; a remote one that is
\* not published is an error.
FetchSource ==
  /\ AtSource
  /\ Source.location = "local_file" \/ ~nara.offline
  /\ \/ Source.location = "local_file"
     \/ \E i \in 1..2 : Kinds[i] = Source.kind /\ <<Source.date, i>> \in published
  /\ Store(Key(Source), Payload(Source))
  /\ nara' = Got(Source)
  /\ UNCHANGED <<published, releaseIndex, fallbackFiles, naraStops, known>>

SourceFails ==
  /\ AtSource
  /\ Source.location = "local_file" \/ ~nara.offline
  /\ \/ indexTorn
     \/ /\ Source.location = "remote_uri"
        /\ \A i \in 1..2 : Kinds[i] = Source.kind => <<Source.date, i>> \notin published
  /\ nara' = IdleNara
  /\ UNCHANGED <<cacheVars, published, releaseIndex, fallbackFiles,
                 naraStops, known>>

Acquired ==
  /\ nara.pc = "acquire"
  /\ pending = NoStore
  /\ Len(nara.snapshots) = 2
  /\ nara' = [nara EXCEPT !.pc = "acquired"]
  /\ UNCHANGED <<cacheVars, published, releaseIndex, fallbackFiles,
                 naraStops, known>>

NaraStoreStep ==
  /\ WriteFile \/ WriteIndex
  /\ UNCHANGED naraVars

\* The process dies; at the write of the release index that may be torn.
NaraDies ==
  /\ nara.pc \notin {"idle", "acquired"}
  /\ naraStops < NaraMaxStop
  /\ naraStops' = naraStops + 1
  /\ CacheLeftBehind
  /\ \/ releaseIndex' = releaseIndex
     \/ nara.pc = "matrices" /\ releaseIndex' = NaraTorn
  /\ nara' = IdleNara
  /\ UNCHANGED <<published, fallbackFiles, known>>

NaraNext ==
  \/ \E d \in Date, k \in 1..2 : Publish(d, k)
  \/ \E m \in {"latest", "pinned", "local_files"}, o \in BOOLEAN :
       BeginNara(m, o)
  \/ ResolveOffline \/ ListPlans \/ ListMatrices \/ DiscoveryFails
  \/ ReplaySource \/ FetchSource \/ SourceFails \/ Acquired \/ NaraStoreStep
  \/ NaraDies

NaraSpec == CacheInit /\ NaraInit /\ [][NaraNext]_<<cacheVars, naraVars>>

-----------------------------------------------------------------------------
(* Properties.                                                             *)

(* The two files of a run are companions: an action plan and a risk matrix *)
(* of one release, even when NARA publishes a file between the two         *)
(* listings, and whether they were fetched, replayed or fallen back on     *)
(* (_latest_sources_online takes a date both directories have).            *)

CompanionsOfOneRelease ==
  nara.pc = "acquired" =>
    /\ {nara.snapshots[i].kind : i \in 1..2} = {Kinds[1], Kinds[2]}
    /\ nara.snapshots[1].date = nara.snapshots[2].date

(* Failing to find the newest release never brings back an older one: once *)
(* a run resolved a release, what a later run in mode "latest" acquires is *)
(* at least as new (_latest_sources_with_fallback tries the release index  *)
(* before the local files and the pinned date).                            *)

LatestNeverGoesBack ==
  nara.pc = "acquired" /\ nara.mode = "latest" =>
    nara.snapshots[1].date >= known

=============================================================================
