------------------------ MODULE WikidataAcquisition ------------------------
(***************************************************************************)
(* The Wikidata adapter: how a population of formats that cannot be read   *)
(* in one query becomes one snapshot, over several runs if need be.        *)
(*                                                                         *)
(* A session discovers the population page by page and freezes it, then    *)
(* requests every part of the data in batches of the frozen population,    *)
(* caching each answer, and stores the merged result as the snapshot of    *)
(* its query.  The session manifest lets the next run go on where this one *)
(* failed or died.  Wikidata is edited while all of this happens.          *)
(*                                                                         *)
(* Formats are numbers, in the order of their URIs (pages are cut by URI;  *)
(* that batches are cut by the number in the QID makes no difference       *)
(* here).  A fact is the time it was read, in upstream edits.  A retried   *)
(* request is a slow one; one whose retries are used up fails the run.     *)
(***************************************************************************)
EXTENDS SnapshotCache

CONSTANTS
  Format,      \* formats, as numbers from 1
  Population,  \* the population queries, in order
  Part,        \* the property queries, in order
  Query,       \* releases of the query set
  Custom,      \* the operator's own single query
  Torn,        \* a manifest file cut short
  PageSize,    \* population_page_size
  BatchSize,   \* batch_size
  FirstListed, \* what each population query lists at first
  MaxClock,    \* bound: upstream edits
  MaxSession,  \* bound: sessions
  MaxStop      \* bound: failed requests and deaths of the process

ASSUME WikidataConstants ==
  /\ Format \subseteq Nat \ {0}
  /\ IsFiniteSet(Format)
  /\ Custom \notin Query
  /\ Len(Population) \in Nat /\ DOMAIN Population = 1 .. Len(Population)
  /\ Len(Part) \in Nat \ {0} /\ DOMAIN Part = 1 .. Len(Part)
  /\ FirstListed \in [DOMAIN Population -> SUBSET Format]
  /\ {PageSize, BatchSize} \subseteq Nat \ {0}

VARIABLES
  listed,    \* what each population query lists now
  clock,     \* upstream edits so far
  manifest,  \* .wikidata_acquisition_session.json
  run,       \* the run of the adapter
  output,    \* the snapshot the last run returned, or None
  stops,     \* failed requests and deaths so far
  ledger,    \* history: what every session froze, and when
  steady,    \* history: formats each query listed throughout the discovery
  answered   \* history: batch keys whose answer was stored

wikidataVars ==
  <<listed, clock, manifest, run, output, stops, ledger, steady, answered>>

IdleRun ==
  [pc |-> "idle", query |-> None, session |-> 0, population |-> 1,
   after |-> 0, found |-> {}, part |-> 1, batch |-> 1, facts |-> <<>>]

WikidataInit ==
  /\ listed = FirstListed
  /\ clock = 0
  /\ manifest = None
  /\ run = IdleRun
  /\ output = None
  /\ stops = 0
  /\ ledger = <<>>
  /\ steady = <<>>
  /\ answered = {}

-----------------------------------------------------------------------------
(* Keys and payloads.                                                      *)

FinalKey(query) == [kind |-> "final", query |-> query]
PopulationFile(formats) == [kind |-> "population", formats |-> formats]

\* A key without the session in it would find the batches of another one.
WrongBatchKey(session, query, part, formats) ==
  [kind |-> "batch", session |-> 0, query |-> query, part |-> part,
   formats |-> formats]

BatchKey(session, query, part, formats) ==
  [kind |-> "batch", session |-> session, query |-> query, part |-> part,
   formats |-> formats]

BatchAnswer(query, part, formats) ==
  [kind |-> "batch", query |-> query, part |-> part, formats |-> formats,
   at |-> clock]

FinalFile(query, formats, facts) ==
  [kind |-> "final", query |-> query, rows |-> formats, facts |-> facts]

\* The first PageSize formats after the last one seen.
Page(query, after) ==
  LET rest == {f \in listed[query] : f > after} IN
    {f \in rest : Cardinality({g \in rest : g <= f}) <= PageSize}

Batches(formats) == (Cardinality(formats) + BatchSize - 1) \div BatchSize
Batch(formats, i) ==
  {f \in formats :
     (Cardinality({g \in formats : g <= f}) - 1) \div BatchSize = i - 1}

-----------------------------------------------------------------------------
(* Upstream: anyone edits facts, or what puts a format into a population.  *)

EditFacts ==
  /\ clock < MaxClock
  /\ clock' = clock + 1
  /\ UNCHANGED <<cacheVars, listed, manifest, run, output, stops, ledger,
                 steady, answered>>

Relist(p, f) ==
  /\ clock < MaxClock
  /\ clock' = clock + 1
  /\ listed' = [listed EXCEPT ![p] = IF f \in @ THEN @ \ {f} ELSE @ \cup {f}]
  /\ steady' = [q \in DOMAIN steady |-> steady[q] \cap listed'[q]]
  /\ UNCHANGED <<cacheVars, manifest, run, output, stops, ledger, answered>>

-----------------------------------------------------------------------------
(* Starting a run.                                                         *)

Idle == run.pc = "idle" /\ pending = NoStore

Frozen == ledger[run.session].population

\* The session of the manifest is unfinished, of this query set, and its
\* population file has the digest the manifest gives.
Resumable(query) ==
  /\ manifest \notin {None, Torn}
  /\ ~manifest.complete
  /\ manifest.query = query
  /\ PopulationFile(manifest.population) \in whole

Resume(query) ==
  /\ Idle
  /\ Resumable(query)
  /\ run' = [IdleRun EXCEPT !.pc = "batches", !.query = query,
                            !.session = manifest.session]
  /\ output' = None
  /\ UNCHANGED <<cacheVars, listed, clock, manifest, stops, ledger, steady,
                 answered>>

\* A fresh session: asked for with restart, or because there is none to
\* resume.
Discover(query, restart) ==
  /\ Idle
  /\ Len(ledger) < MaxSession
  /\ restart \/ ~Resumable(query)
  /\ run' = [IdleRun EXCEPT !.pc = "pages", !.query = query]
  /\ output' = None
  /\ steady' = listed
  /\ UNCHANGED <<cacheVars, listed, clock, manifest, stops, ledger, answered>>

AskCustom ==
  /\ Idle
  /\ run' = [IdleRun EXCEPT !.pc = "custom", !.query = Custom]
  /\ output' = None
  /\ UNCHANGED <<cacheVars, listed, clock, manifest, stops, ledger, steady,
                 answered>>

\* Offline, the stored snapshot of the query is the answer, or there is none.
Replay(query) ==
  /\ Idle
  /\ output' = IF ~indexTorn /\ Cached(FinalKey(query))
                 THEN index[FinalKey(query)] ELSE None
  /\ UNCHANGED <<cacheVars, listed, clock, manifest, run, stops, ledger,
                 steady, answered>>

-----------------------------------------------------------------------------
(* Discovery.                                                              *)

\* The slip: the next query starts after the last format of this one.
WrongNextQuery(r) == [r EXCEPT !.population = @ + 1]

\* A short page is the last one of its query; the next one starts afresh.
NextQuery(r) == [r EXCEPT !.population = @ + 1, !.after = 0]

RequestPage ==
  /\ run.pc = "pages"
  /\ run.population \in DOMAIN Population
  /\ LET page == Page(run.population, run.after)
         seen == [run EXCEPT !.found = @ \cup page]
     IN
       run' = IF Cardinality(page) < PageSize
                THEN NextQuery(seen)
                ELSE [seen EXCEPT !.after = CHOOSE f \in page :
                                              \A g \in page : g <= f]
  /\ UNCHANGED <<cacheVars, listed, clock, manifest, output, stops, ledger,
                 steady, answered>>

\* Nothing found is an error.
FindNothing ==
  /\ run.pc = "pages"
  /\ run.population \notin DOMAIN Population
  /\ run.found = {}
  /\ run' = IdleRun
  /\ UNCHANGED <<cacheVars, listed, clock, manifest, output, stops, ledger,
                 steady, answered>>

FreezePopulation ==
  /\ run.pc = "pages"
  /\ run.population \notin DOMAIN Population
  /\ run.found # {}
  /\ Store([kind |-> "population", session |-> Len(ledger) + 1],
           PopulationFile(run.found))
  /\ ledger' = Append(ledger, [population |-> run.found, since |-> clock,
                               steady |-> steady, query |-> run.query])
  /\ steady' = <<>>
  /\ run' = [run EXCEPT !.pc = "manifest", !.session = Len(ledger) + 1]
  /\ UNCHANGED <<listed, clock, manifest, output, stops, answered>>

\* From here on, the session can be resumed.
WriteManifest ==
  /\ run.pc = "manifest"
  /\ pending = NoStore
  /\ manifest' = [session |-> run.session, query |-> run.query,
                  population |-> run.found, complete |-> FALSE]
  /\ run' = [run EXCEPT !.pc = "batches"]
  /\ UNCHANGED <<cacheVars, listed, clock, output, stops, ledger, steady,
                 answered>>

-----------------------------------------------------------------------------
(* The batches of every part, then the merged snapshot.                    *)

AtBatch ==
  /\ run.pc = "batches"
  /\ pending = NoStore
  /\ ~indexTorn
  /\ run.part \in DOMAIN Part

ThisBatch == Batch(Frozen, run.batch)
ThisKey == BatchKey(run.session, run.query, run.part, ThisBatch)

\* Merge an answer and go to the next batch, or to the next part.
Merged(answer) ==
  LET last == run.batch = Batches(Frozen)
      new == {run.part} \X answer.formats
  IN
    [run EXCEPT
       !.facts = [x \in DOMAIN @ \cup new |->
                    IF x \in new THEN answer.at ELSE @[x]],
       !.batch = IF last THEN 1 ELSE @ + 1,
       !.part  = IF last THEN @ + 1 ELSE @]

ReuseBatch ==
  /\ AtBatch
  /\ Cached(ThisKey)
  /\ run' = Merged(index[ThisKey])
  /\ UNCHANGED <<cacheVars, listed, clock, manifest, output, stops, ledger,
                 steady, answered>>

\* The slip: the cached answer is not looked for.
WrongRequestBatch ==
  /\ AtBatch
  /\ LET answer == BatchAnswer(run.query, run.part, ThisBatch) IN
       /\ Store(ThisKey, answer)
       /\ run' = Merged(answer)
  /\ UNCHANGED <<listed, clock, manifest, output, stops, ledger, steady,
                 answered>>

RequestBatch ==
  /\ AtBatch
  /\ ~Cached(ThisKey)
  /\ LET answer == BatchAnswer(run.query, run.part, ThisBatch) IN
       /\ Store(ThisKey, answer)
       /\ run' = Merged(answer)
  /\ UNCHANGED <<listed, clock, manifest, output, stops, ledger, steady,
                 answered>>

\* The manifest is written again, with what the parts yielded.
WriteStatistics ==
  /\ run.pc = "batches"
  /\ pending = NoStore
  /\ run.part \notin DOMAIN Part
  /\ run' = [run EXCEPT !.pc = "merged"]
  /\ UNCHANGED <<cacheVars, listed, clock, manifest, output, stops, ledger,
                 steady, answered>>

\* The slip: the session is marked complete before its snapshot is stored.
WrongStoreFinal ==
  /\ run.pc = "merged"
  /\ Store(FinalKey(run.query), FinalFile(run.query, Frozen, run.facts))
  /\ manifest' = IF manifest \in {None, Torn}
                   THEN manifest
                   ELSE [manifest EXCEPT !.complete = TRUE]
  /\ run' = [run EXCEPT !.pc = "stored"]
  /\ UNCHANGED <<listed, clock, output, stops, ledger, steady, answered>>

StoreFinal ==
  /\ run.pc = "merged"
  /\ Store(FinalKey(run.query), FinalFile(run.query, Frozen, run.facts))
  /\ run' = [run EXCEPT !.pc = "stored"]
  /\ UNCHANGED <<listed, clock, manifest, output, stops, ledger, steady,
                 answered>>

AnswerCustom ==
  /\ run.pc = "custom"
  /\ Store(FinalKey(Custom), [kind |-> "custom", at |-> clock])
  /\ run' = [run EXCEPT !.pc = "stored"]
  /\ UNCHANGED <<listed, clock, manifest, output, stops, ledger, steady,
                 answered>>

Stored == run.pc = "stored" /\ pending = NoStore

\* The session is complete if the manifest is still that of this session.
Return ==
  /\ Stored
  /\ manifest' = IF /\ run.query # Custom
                    /\ manifest \notin {None, Torn}
                    /\ ~manifest.complete
                    /\ manifest.session = run.session
                   THEN [manifest EXCEPT !.complete = TRUE]
                   ELSE manifest
  /\ output' = index[FinalKey(run.query)]
  /\ run' = IdleRun
  /\ UNCHANGED <<cacheVars, listed, clock, stops, ledger, steady, answered>>

-----------------------------------------------------------------------------
(* The shared store steps, and failure.                                    *)

StoreStep ==
  /\ \/ WriteFile /\ UNCHANGED answered
     \/ /\ WriteIndex
        /\ answered' = IF pending.key.kind = "batch"
                         THEN answered \cup {pending.key}
                         ELSE answered
  /\ UNCHANGED <<listed, clock, manifest, run, output, stops, ledger, steady>>

\* The index cannot be read: every look at it raises.
CannotReadIndex ==
  /\ indexTorn
  /\ pending = NoStore
  /\ \/ run.pc \in {"batches", "merged", "custom"}
     \/ run.pc = "pages" /\ run.population \notin DOMAIN Population
  /\ run' = IdleRun
  /\ UNCHANGED <<cacheVars, listed, clock, manifest, output, stops, ledger,
                 steady, answered>>

AtRequest ==
  \/ run.pc = "pages" /\ run.population \in DOMAIN Population
  \/ AtBatch /\ ~Cached(ThisKey)
  \/ run.pc = "custom"

\* A request fails for good and the run with it.
RequestFails ==
  /\ AtRequest
  /\ stops < MaxStop
  /\ stops' = stops + 1
  /\ run' = IdleRun
  /\ UNCHANGED <<cacheVars, listed, clock, manifest, output, ledger, steady,
                 answered>>

AtManifest ==
  \/ run.pc = "manifest"
  \/ run.pc = "batches" /\ run.part \notin DOMAIN Part
  \/ Stored

\* The process dies, perhaps in the middle of a write.
Die ==
  /\ run.pc # "idle"
  /\ stops < MaxStop
  /\ stops' = stops + 1
  /\ CacheLeftBehind
  /\ \/ manifest' = manifest
     \/ AtManifest /\ pending = NoStore /\ manifest' = Torn
  /\ run' = IdleRun
  /\ UNCHANGED <<listed, clock, output, ledger, steady, answered>>

RunStep ==
  \/ RequestPage \/ FindNothing \/ FreezePopulation \/ WriteManifest
  \/ ReuseBatch \/ RequestBatch \/ WriteStatistics \/ StoreFinal
  \/ AnswerCustom \/ Return \/ StoreStep \/ CannotReadIndex

WikidataNext ==
  \/ EditFacts
  \/ \E p \in DOMAIN Population, f \in Format : Relist(p, f)
  \/ \E q \in Query : Resume(q) \/ (\E r \in BOOLEAN : Discover(q, r))
  \/ AskCustom
  \/ \E q \in Query \cup {Custom} : Replay(q)
  \/ RunStep
  \/ RequestFails
  \/ Die

WikidataSpec ==
  CacheInit /\ WikidataInit /\ [][WikidataNext]_<<cacheVars, wikidataVars>>

-----------------------------------------------------------------------------
(* Properties.                                                             *)

(* Discovery misses nothing that stays where it is: a format that one of   *)
(* the population queries lists from the first page to the last is in the  *)
(* frozen population, whatever is added or removed around it between two   *)
(* pages (_discover_population; pages are cut by URI, not by offset).  A   *)
(* format that moves from one query to another meanwhile can be missed.    *)

DiscoveryIsComplete ==
  \A s \in DOMAIN ledger, p \in DOMAIN Population :
    ledger[s].steady[p] \subseteq ledger[s].population

(* What acquire returns, fresh or replayed, is the work of one session:    *)
(* exactly the rows of its frozen population, every part of every row, and *)
(* nothing read before the population was frozen or with the queries of    *)
(* another release (acquire, _fetch_staged_default, _batch_cache_key).     *)

OutputIsOneSession ==
  output # None /\ output.kind = "final" =>
    \E s \in DOMAIN ledger :
      /\ ledger[s].query = output.query
      /\ output.rows = ledger[s].population
      /\ DOMAIN output.facts = (DOMAIN Part) \X output.rows
      /\ \A x \in DOMAIN output.facts : output.facts[x] >= ledger[s].since

(* A session whose manifest says complete can be replayed offline: its     *)
(* merged snapshot is stored, with the rows of its population (acquire     *)
(* marks the session only after the snapshot is stored).                   *)

CompleteIsReplayable ==
  manifest \notin {None, Torn} /\ manifest.complete /\ ~indexTorn =>
    /\ Cached(FinalKey(manifest.query))
    /\ index[FinalKey(manifest.query)].rows = manifest.population

(* Rerunning an interrupted acquisition repeats no completed request: an   *)
(* answer that was stored is never asked for again in its session, however *)
(* often the run dies (_fetch_batch_part).                                 *)

CompletedRequestsNotRepeated ==
  [][pending' # NoStore /\ pending'.key.kind = "batch"
       => pending'.key \notin answered]_pending

=============================================================================
