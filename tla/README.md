# Verification of the file-format preservation manager

TLA+ models, TLC runs and TLAPS proofs about the two programs of this
repository:

* the **registry builder**
  (`src/qnl_format_registry_builder/registry_builder/`), a set of commands that
  acquire source data, build a canonical registry of file formats from it and
  keep both in a store that several commands share;
* the **preservation risk manager**
  (`src/preservation_risk_manager/src/preservation_risk_manager/`), which reads
  that registry, assesses formats, and serves the assessments through command
  lines and a web application with background jobs.

Paths below are relative to these two directories (`builder:` and `manager:`).
`PROJECT.json` pairs every definition with the lines it models, and every
property with a mutant of the model that breaks it.

Run `tlc -config X.cfg M` for a run of the table below, `tlapm M.tla` for a
`*Proofs` module.

## 1. Inventory

### Registry builder

| Component | State | Operations | Interaction | What is hard | What makes it correct |
|---|---|---|---|---|---|
| Pipeline `builder:pipeline.py` | run documents, source records, canonical formats, criterion claims, change events (in the store); raw and active records of the run (in memory) | `run_pipeline`: source loop, reuse of stored evidence, reconcile, persist, report | calls adapters, reconcile, change detection, criterion mapping, claim materialization; writes the store one document at a time | no transaction: a run may die before any write; several builders may share a store; failed and skipped sources are completed from earlier runs | the evidence of a source is one whole acquisition; the published registry is the one rebuilt; every change of the view is told, by an event of its own or by a bulk event that counts it |
| Store `builder:storage/` | the collections, in memory, in files or in MongoDB | `save_*`, `upsert_*`, `create_run`, lookups | shared by all commands | upsert keys decide what survives a repeated or half-done write; three backends, each with its own keys; a file is truncated before it is written | a lookup answers what the documents written say, in each backend |
| Identity reconciliation `builder:reconcile.py`, `identifier_rules.py` | none (a function of the records) | `reconcile`, `validate_registry` | called by pipeline and rebuild | bridges between groups chain; identifiers are copied from one authority to another | versions stay apart, families stay addressable, an authority's key is verified |
| Change detection `builder:change_detection.py` | none (a function of two views) | `detect_registry_changes` | called by the pipeline | ids vanish by merge, rekey, split, removal; bulk collapse | every id that came or went is told, once; no noise |
| Criterion mapping `builder:criterion_mapping.py` | rules in files; claims in the store | `build_criterion_claims`, `_persist_criterion_claims`, `run_criterion_backfill` | pipeline, rebuild, a command of its own | supersede and save are separate writes; rules change between backfills | claims of a producing rule are replaced as a whole; a replacing backfill leaves what the rules make and nothing else |
| Rebuild `builder:rebuild_store.py` | canonical formats | reconcile stored records and persist | shares the store | does less than the pipeline does | the view is still derived from the claims |
| Governed claims `builder:dpc_*`, `nara_*`, `*_claim_materialization.py` | claim collections; a copy of the current claims on each canonical | backfills; materialization by the pipeline | share canonical documents with every other command | read-modify-write of whole documents by several commands; death between superseding, saving and materializing | what is attached was claimed; the pipeline restores the view |
| Wikidata refresh `builder:wikidata_refresh.py`, `wikidata_relationship_*.py` | relationship claims and their copies | preflight, second read, replacement, verification | as above | check and use are apart; verification reads only part of the view | "completed" means the view is coherent |
| Snapshot cache `builder:adapters/base.py` | snapshot files and their index, per source | look up, store | every adapter | two writes, neither atomic | the index names whole files only |
| Wikidata adapter `builder:adapters/wikidata_sparql.py` | session manifest, cached pages and batches | discover, freeze, request in batches, merge, resume, replay | snapshot cache; Wikidata | hundreds of requests over days while Wikidata is edited; failures, deaths, resumptions | a snapshot is the work of one session |
| NARA adapter `builder:adapters/nara_digital_preservation_framework.py` | release index | find the newest release, fall back, fetch both files | snapshot cache; GitHub | two listings, two files, published one at a time | both files of one release, never an older one than before |
| Other adapters `builder:adapters/` | none | download one file, parse | snapshot cache | none | an outcome per source |
| LOC bridge tools `builder:loc_fdd_*.py`, their adapters | a file per command | download, review, verify, approve; a pipeline run reads the result | four commands by hand, with pipeline runs in between | what is verified against one registry is applied to another | a PUID that several descriptions claim joins none of them |
| Other downloads, exporters, command lines, validation | files | one file each | none | none | none beyond parsing |

### Preservation risk manager

| Component | State | Operations | Interaction | What is hard | What makes it correct |
|---|---|---|---|---|---|
| Web jobs `manager:web_jobs.py`, `web_app.py` | job records in memory, `job.json`, report files, thread pool | submit, update, run, shutdown | request handlers and worker threads share records under one lock | memory and disk are written one after the other; shutdown between recording and handing over a job; kills | offered reports exist, settled jobs stay, jobs settle |
| Batch and human runners `manager:web_batch_service.py`, `web_human_service.py`, `batch_monitoring.py` | cases and progress of a run | assess, synthesize, fill gaps, write reports | worker threads; call the AI | one of many steps fails | a job settles, with what it computed |
| AI gap filling and providers `manager:ai/risk_analysis.py`, `ai/batch_risk_analysis.py` | answers, rate-limit flag | chunk, call, validate, merge | batch runner, machine path | failed, rate-limited, partial and malformed answers; claims read a second time | what was never put to the AI is reported; resolved answers stay |
| Identification `manager:format_resolver.py`, `format_identification.py`, `human_format_matches.py` | none; reads the registry again at every step | resolve exactly, in variants, by AI; fan out over PUIDs | machine and human front ends, AI | the registry changes between the reads; the AI errs or abstains | ambiguity is reported, not guessed |
| Question assessment and scoring `manager:question_assessment.py`, `answer_derivation.py`, `scoring.py`, `evidence_*.py` | none; reads claims id by id | gather evidence, derive, score, gaps, plan | all front ends, audit | claims replaced between two reads | steady evidence counts; nothing unanswered is forgotten |
| Governed synthesis `manager:synthesis_policy.py`, `risk_context.py` | none; reads claims id by id | normalize, select, aggregate | all front ends; compared with the builder's headline | precedence of scopes, terms that do not map, two implementations | the worst of the most specific |
| AI synthesis `manager:ai/synthesis.py`, `ai/capability_synthesis.py`, `source_evidence.py` | none | gather native findings, bound the evidence, ask, validate, synthesize again | machine and human paths | claims and source records of different runs; budgets | configured levels are binding; governed evidence is supplied |
| Registry audit `manager:registry_audit*.py` | none; reads everything four times | base, governance, diagnostics and conflict passes | command line | the registry changes between the passes | conflicts reported are genuine, and none is missed |
| Request routing, portfolio requests `manager:ai/request_router.py`, `request_api.py` | none | one format, several, filters | front ends | repair of a routed request | a repaired request asks what the question asked |
| Rendering, pages, command lines | none | text | none | none | none |

The full list, with what is left out of each part, is `components` in
`PROJECT.json`; the points at which the code is exposed are `hazards`, each
with its line and the properties that watch it.

## 2. Modules

| Module | Models | Lines it stands for |
|---|---|---|
| `SourceEvidence` | what the pipeline promises about evidence: per source a register that switches atomically | abstract |
| `RegistryPipeline` | `run_pipeline` against the store, one store call per step | `builder:pipeline.py` 275-883 and what it calls |
| `GovernedClaims` | pipeline, rebuild, risk backfills and Wikidata refresh on the claim collections and canonical documents | `builder:risk_claim_materialization.py`, `*_backfill.py`, `wikidata_refresh.py`, `rebuild_store.py` |
| `RegistryIdentity` | reconciliation and change detection over successive deliveries | `builder:reconcile.py`, `change_detection.py`, `identifier_rules.py` |
| `SnapshotCache` | a source's snapshot files and index, one write at a time | `builder:adapters/base.py` |
| `WikidataAcquisition` | the resumable acquisition of Wikidata, on `SnapshotCache` | `builder:adapters/wikidata_sparql.py` 474-1189 |
| `NaraAcquisition` | finding and fetching a NARA release, on `SnapshotCache` | `builder:adapters/nara_digital_preservation_framework.py` 279-541 |
| `RegistryStore` | the store interface and its three backends | `builder:storage/` |
| `CriterionMapping` | rules, the claims they make and the replacing backfill | `builder:criterion_mapping.py` |
| `LocBridge` | from the LOC crosswalk to approved bridges | `builder:loc_fdd_*.py`, `adapters/loc_fdd_*` |
| `WebJobs` | job manager, thread pool, both runners, AI calls, shutdown, kills | `manager:web_jobs.py`, `web_batch_service.py`, `web_human_service.py`, `ai/batch_risk_analysis.py` |
| `FormatIdentification` | from a text to the formats that are assessed | `manager:format_resolver.py`, `format_identification.py`, `human_format_matches.py`, `integration_cli*.py` |
| `RiskAssessment` | from claims to answers, score, gaps and plan; gap filling for one format | `manager:evidence_packs.py`, `answer_derivation.py`, `scoring.py`, `evidence_*.py`, `ai/risk_analysis.py` |
| `RiskSynthesis` | the overall source risk, as the builder and as the manager computes it | `manager:synthesis_policy.py`, `risk_context.py`, `builder:risk_synthesis.py` |
| `AISynthesis` | the overall risk when an AI helps, on `RiskSynthesis` | `manager:ai/synthesis.py`, `ai/capability_synthesis.py`, `source_evidence.py` |
| `RegistryAudit` | the four passes of the audit, on `RiskAssessment` | `manager:registry_audit*.py`, `audit_cli.py` |
| `MC...` | instances for TLC | |
| `...Proofs` | theorems and their proofs | |

How they fit. `RegistryPipeline` INSTANCEs `SourceEvidence` with a refinement
mapping; it identifies a canonical record with its format, and
`RegistryIdentity` is the model of what that function does. `GovernedClaims`
takes any result of reconciliation. `WikidataAcquisition` and `NaraAcquisition`
extend `SnapshotCache` and drive its steps; what they return is what
`RegistryPipeline` calls the records of a source. `RegistryAudit` extends
`RiskAssessment` and derives answers with its operators, as the code does;
`AISynthesis` extends `RiskSynthesis`.

The builder meets the manager in the registry. The reader modules therefore
have the builder's writes as actions of their own (publish and withdraw a
document, supersede and save a claim), possible between any two reads of a
request; which of them can happen is taken from `RegistryPipeline` and
`GovernedClaims`: one document or one claim at a time, in any order.

`MCPersistence` and `MCReaderRequests` each instantiate several components that
share no state. A behaviour is that of one of them, chosen by `part` in the
initial state, so the instance is the sum of their state spaces, not the
product.

A definition called `Wrong...` is a plausible slip in the definition that
follows it. No behaviour of a specification uses one.

### 2.1 RegistryPipeline and SourceEvidence

State. `runs`, `source_records`, `canonical_formats`, `criterion_claims` and
`assessment_changes` are the collections, with the upsert keys of
`storage/base.py`. Per run, `pc` is the place in `run_pipeline`, and `todo` what
the persistence loop it is in still has to write; the other variables are the
locals of the function that outlive a store call.

Actions. `Start` (write the "running" document, read the current view); one of
`SourceSkipped`, `SourceCompleted`, `SourceUnavailable`, `OptionalSourceFailed`,
`RequiredSourceFailed` per source; the reuse of stored evidence, which queries
the run documents three times (`ReadRunIndex`, `ReadRunDates`, `ReadRunDocs`)
and then the records (`ReadStoredRecords`), with other runs free to write in
between; then the loops of `_persist_registry_to_store` and
`_persist_criterion_claims`, one action per loop entry and one per document
(`SaveSourceRecord`, `UpsertCanonicalFormat`, `MarkRemoved`, `SupersedeClaim`,
`SaveCriterionClaim`, `SaveAssessmentChange`); `Report` fixes the finish time
and `Finish` writes the final document. `Crash` is possible before every store
call, and `Tick` moves the clock, whose resolution is a second, so two runs may
finish at one timestamp.

Abstractions. A source record is named by the format it describes. A mapped
source has one approved rule, which fires on each of its records. Incremental
updates are on, as in the shipped configuration. Sources are taken in any order.
What a source delivers is free. Snapshots, overlays, hazard and trend rows and
files are written but not read back, and are left out. The in-memory store does
not persist and is not what is modelled.

Change detection here is what needs the history of the store: added and removed
formats, field events of formats that stayed, and the bulk event that replaces
the events of one type when they are many. A canonical document carries the
evidence it was built from, and `ChangeOf`, any function, says which field events
tell two such documents apart; the comparison of single fields, and the source
configuration (one for all runs), are in that function. The two thresholds are
`BulkMinCount` and `BulkDivisor` (25 and 4 in the code); samples, fractions and
texts of a bulk event are left out. Events of ids that merge, split or are
rekeyed need ids that change, which a canonical record identified with its
format never does: they are in `RegistryIdentity`, over two successive views.

### 2.2 GovernedClaims

State. `claims` holds, for every claim key, whether it is absent, current or
superseded; `canonical_formats` the state of each document and the claims
attached to it. Per job: what it read (`view`), what it will write
(`generated`, `touched`, `materialized`, `todo`), its `status` and whether
another job was ever active beside it (`contended`, used in properties only).

Actions. `StartRegistryJob` and `RegistryJobStep` are the pipeline and the
applied rebuild as far as canonical documents are concerned; `StartBackfill`,
`StartRefresh` and `ClaimJobStep` the claim jobs: reread, supersede, save,
materialize, upsert, verify; `Crash` before any store call.

Abstractions. A claim is its key. What reconciliation yields and what a mapping
proposes is free. The pipeline reads both claim collections in one step. Jobs
that a gate blocks, and dry runs, write nothing and are left out, as are run
documents. The verified-baseline gate of the refresh is not assumed to have
passed.

### 2.3 RegistryIdentity

State. `registry` is the current view, `records` the identity records of the
last run, `report` the changes it reported, `errors` the duplicate ids
`validate_registry` found.

Action. `Refresh` is a run: any delivery, `reconcile`, `validate_registry`,
`detect_registry_changes`. These are operators that follow the code: grouping
by strongest key, bridges by copied identifiers and by name and extension,
alias collapse by one hop, relationships, merge/rekey/split detection, removals
and additions, field events, bulk collapse.

Abstractions. A name stands for the spellings that share lower-case form and
slug. A record verifies at most one identifier, and an identifier is verified
by at most one record of a delivery: this is an assumption on the data, stated
as `IdentityConstants`. PUIDs rank first. MIME types, category, hazard and
divergence events are left out, and so are records that are evidence only.
Where the code depends on the order of delivery, any order is possible.

### 2.4 WebJobs

State. `jobs` is `_jobs`, `job_json` its mirror, `files` the report files,
`entering` the jobs recorded but not yet handed to the executor, `queue` and
`worker` the executor, `at` and `run` the place and memory of a runner.

Actions. A worker's step is what it does up to its next call of `update`:
`Take`, `Start`, `HumanStep`, the batch phases (`AssessFormat`,
`SynthesizeFormat`, `BeginChunk`, `AskProvider`, `MergeCases`, `BuildReport`),
`WriteArtifact`, `Complete`, and `Raise`/`Fail`. `SaveRecord` and `Enqueue` are
the two halves of `submit`. Any write of `job.json` may fail (`faults`), with
memory already changed, as in the code. `Shutdown` refuses further work;
`Kill` loses memory and keeps disk.

Abstractions. A case is a PUID and the questions it leaves open, one of `Gaps`;
a call of the provider asks the pairs of its chunk, of which a case may have
some questions only. What an assessment tells of the AI is its count of
unanswered questions, its status and whether it has an error. Which of the asked
questions the provider answers acceptably is free, from none to all; of two
cases of one PUID in a call only the last is open to answers, as in the code.
Messages are left out, so repeated reports of one progress value are one. A
write of `job.json` is whole or does not happen; nothing reads the file back.
The web server finishes accepted requests before it shuts down. A human question
is one step between two reports of progress.

### 2.5 SnapshotCache, WikidataAcquisition, NaraAcquisition

State. `index`, `whole` and `scraps` are the snapshot directory of one source:
what the index names, and which payloads have a complete or a torn file;
`pending` is the snapshot that is being stored. Wikidata adds `manifest` (the
session file) and `run` (the locals of `acquire` and `_fetch_staged_default`);
NARA adds `releaseIndex` and `nara`. `listed`, `clock` and `published` are the
upstream. `ledger`, `steady`, `answered` and `known` are history for the
properties.

Actions. Storing is `Store` (the handler that has the data), `WriteFile`,
`WriteIndex`; `CacheLeftBehind` is what a death in any of them leaves. A
Wikidata run is `Resume`, `Discover` or `AskCustom`, then one action per
request: `RequestPage`, `FreezePopulation`, `WriteManifest`, `ReuseBatch` or
`RequestBatch`, `WriteStatistics`, `StoreFinal`, `Return`; `Replay` is the
offline run. A NARA run lists the two directories one after the other
(`ListPlans`, `ListMatrices`), or falls back (`DiscoveryFails`), and then
acquires both files. Requests fail and processes die between any two actions.

Abstractions. A payload is what was asked and when it was read, so the digest is
the payload. Retries within a request are a slow request. A format is its place
in the order of URIs. Both adapters are never run on one directory at the same
time, as in the pipeline; two builders with one work directory are not modelled.
Mode `explicit_uris` of NARA promises nothing about releases and is left out.

### 2.6 RegistryStore

State. `promise` is what was written through the interface, by key; `kept` what
the backend made of it, by its own names; `writes` what the run has left, in
batches: one per format (the format, its identifier rows, its overlay), then the
removals.

Actions. `StartRun` reads the view and lines up the writes of a persisted
registry; `WriteDocument` (memory, MongoDB) or `TruncateFile` and `FillFile`
(files) perform one; `StoreProcessDies`, `OpenNewStore`. The three lookups are
operators that follow each backend: `FindInMemory`, `FindInFile`,
`FindInMongo`, `PolicyFormats`, `FileView`, `MongoView`.

Abstractions. Formats, identifier rows and overlays only. `Safe` says which
values share a file name. A store may start with documents of a version that
had no identifiers field (`OldDocuments`).

### 2.7 CriterionMapping

State. `mapping` is the rule directory, `view` and `records` what pipeline runs
left, `claims` the criterion claims, `backfill` the running backfill.

Actions. `EditMapping`, `PipelineRun` (in one step: `RegistryPipeline` has its
store calls), and the backfill of `run_criterion_backfill`: `StartBackfill`,
`BuildClaims`, `ReadSuperseded`, `RetireClaim` and `WriteClaim` per claim,
`FinishBackfill`, `BackfillDies`.

Abstractions. A rule is a source, a field or a collection, a value table, a
status and who decided it. Conditions on several fields, alternate fields and
value transformations are not modelled. Dry runs write nothing and are left
out.

### 2.8 LocBridge

State. The files the commands leave for each other (`entries`, `review`,
`verified`, `approved`), the verification that is running, and the authority
records and bridges of the registry.

Actions. `DownloadCrosswalk`, `ReviewEntries`, `StartVerification`, `VerifyRow`
(one lookup at a time), `FinishVerification`, `ApproveBridges`, `PublishEdition`
and `RunWithBridges`, a pipeline run that publishes other authority records and
reads the approved bridges or does not.

Abstractions. What columns, notes and titles say is given by `RowText` and
`TitleOf`; namespaces other than FDD and PUID, and confidence labels, are left
out.

### 2.9 FormatIdentification

State. `registry` is the set of current documents, `query` the request and its
place, `found` the identification, `pool` what the human path gathers, `answer`
the response.

Actions. Every read of the registry is one: `ReadExact`, `ReadVariant`,
`GatherCandidates`, `FillPool`, `SearchFamily`, `IndexPuids`, `AssessNext`,
`AssessSingle`. The provider matches, hesitates or fails (`ProviderMatches`,
`ProviderHesitates`, `ProviderFails`). `PublishFormat` and `WithdrawFormat` are
the builder's.

Abstractions. `About` gives each document the tier at which a text matches it,
its likeness to a text and its order, the identifiers by which documents are
taken for one (PUIDs, and those of LOC and NARA) and how well it matches the
label of a family (`kin`); `Reads` the variants of a text. Matching by kind of
identifier, normalization and similarity are in those tables, since they are
functions of two strings. A wording that explains an ambiguity is not modelled.

### 2.10 RiskAssessment

State. `document` and `current` are the registry's, `request` the request with
the claims read so far, `result` its answer, `reviewed` the answers after the
AI stage.

Actions. `Ask`, `ReadClaims` per id, `Respond` (evidence, derivation, score,
gaps and plan in one step, as they read nothing), `AskAI`, `ResolveForAI`,
`Interpret`; the builder's `Supersede`, `SaveClaim`, `Republish`.

Abstractions. A framework is a record of its questions, tables, weights and
bands. Completeness is a percentage. `Data` says what an evidence item says.
Lists are sets wherever their order is only shown.

### 2.11 RiskSynthesis and AISynthesis

State. `riskClaims` is the registry's; `lookup` and `context` the request and
the external risk context it returns; `consult` and `outcome` the consultation
of an AI and the overall risk that is shown.

Actions. `AskRisk`, `ReadRiskClaims` per id, `ReturnContext`, with
`SaveRiskClaim` and `SupersedeRiskClaim` of a refresh in between. Then, with the
assessments fixed, `GatherFindings`, `SkipAI`, `SendBounded` and
`AnswerBounded`, or `SendWithCapabilities` and `AnswerWithCapabilities`, and
`CallFails`.

Abstractions. Policies are records with the operators of the code. The budget of
a prompt counts items instead of characters. An answer of the provider is any
that passes its validation; one that does not is a `CallFails`. The code's loops
over lists are given by what they leave: a stable sort by who is ahead of whom
(`Arranged`), the loop that sets findings beside the claims by the first of those
that repeat each other (`ConfiguredPlaces`), the one that trims to a budget by
what so many removals take (`Trimmed`).

### 2.12 RegistryAudit

State. `formats` and `onRecord` are the registry's; `audit` is the running audit
and what the current pass has read; `report` what the passes found.

Actions. `BeginAudit`; in each pass `ListFormats`, `QueryClaims` and the pass
itself (`BasePass`, `GovernancePass`, `DiagnosticsPass`, `ConflictsPass`); the
builder's `EditClaims` and `PublishFormats`, also between two reads of a pass.

Abstractions. What a mapping would make of a document is given by `Accepted` and
`Drafted`. Rankings, samples and texts of the report are left out.

## 3. Runs

| Run | Module, configuration | Question |
|---|---|---|
| `pipeline_history` | MCRegistryPipeline, PipelineHistory | up to three runs in a row, each may die anywhere: is what is read, published, claimed and reported that of one coherent run? |
| `pipeline_overlap` | MCRegistryPipeline, PipelineOverlap | two runs over two sources, interleaved at every store call: does the store implement `SourceEvidence`? |
| `pipeline_liveness` | MCRegistryPipeline, PipelineLiveness | does a completed acquisition become the authority? |
| `governed_claims` | MCGovernedClaims, GovernedClaims | up to three jobs of all kinds, dying and overlapping: is the view traceable and does it heal? |
| `registry_identity` | MCRegistryIdentity, RegistryIdentity | every pair of successive deliveries from a pool of conflicting records: are identities sound and changes accounted for? |
| `persistence` | MCPersistence, Persistence | acquisitions, stores, backfills and bridges, interrupted anywhere: is what they leave on disk and in the store what a reader may rely on? |
| `web_jobs` | MCWebJobs, WebJobs | two jobs, one worker, AI failures, a failed write, a kill and a shutdown at any time |
| `reader_requests` | MCReaderRequests, ReaderRequests | one request of every kind while the registry changes under it: does the answer follow from what was on record? |
| `pipeline_stale_claims`, `web_ai_failure`, `identity_alias_chain`, `reader_rejected_candidates` | | each checks one statement that the code does not keep, see 5 |

### Properties

*Pipeline.* `CommittedAcquisitionStored`: a run document is a commit point.
`EvidenceIsOneAcquisition`: the registry is never rebuilt from a half-stored or
mixed acquisition. `PublishedRegistryIsWhole`, `ProducingRulesReplaced`,
`ChangesAccountedFor`: after runs that died half way, the next one that commits
leaves exactly its own registry, claims and events, where the events of a type
are one for each format that underwent it or, if they are bulk, one with their
number. `EvidenceSwitchesAtomically` (a refinement): which run a reader of a
source sees, and when that changes. `AcquisitionBecomesAuthority`: liveness.

*Governed claims.* `AttachedWasClaimed`, `PipelineRestoresView`,
`SourceClaimsReplaced`, `CompletedRefreshIsCoherent`. All but the first speak of
a job that had the store to itself, not of a history without overlap: the jobs
before it may have raced and died. With overlap an update may be lost, because
documents are read, changed and written back whole; the documented schedule
starts jobs one after another.

*Identity.* `VersionsAgree`, `FamilyStandsAlone`: what bridges may never do over
any number of hops. `QuietWhenUnchanged`, `IdentityAccountedFor`,
`RemovalIsReal`: what a change report owes its reader.

*Acquisition.* `IndexedSnapshotsAreWhole`: nothing torn is ever replayed.
`DiscoveryIsComplete`: paging a moving population loses nothing that stays put.
`OutputIsOneSession`: a snapshot put together over several runs has the rows,
parts and queries of one session. `CompleteIsReplayable` and
`CompletedRequestsNotRepeated`: what the session manifest and the batch cache
are for. `CompanionsOfOneRelease`, `LatestNeverGoesBack`: what a NARA run
combines, and what it falls back to.

*Stores and curation.* `StoresAnswerAlike`: each backend answers what was
written through the interface. `ReplacementIsComplete`: a replacing backfill
repairs what dead ones left and what edited rules no longer make.
`ApprovedBridgesAreOneToOne`: no bridge for a PUID that several rows confirm, or
that is joined already.

*Web jobs.* `ReportsAreThere`, `LiveJobsAreHeld`, `SettledStays`, `JobSettles`.
`UnaskedIsReported`: a question that was in no call the provider answered is
counted as unanswered, with an error at its format, and a format none of whose
open questions was in such a call is marked as kept deterministic. It says nothing of what a provider
leaves out of a call it does answer, see 5.

*Requests.* `NothingIsGuessed`: the one format that is assessed was the only best
match or the provider's choice. `SteadyRiskIsCounted`, `UnansweredIsPlanned`,
`AIFillsGapsOnly`: claims that stood unchanged during a request are in its
answer, its gaps in its plan, and the AI changes neither.
`HeadlineIsWorstOfNearest`: what the shipped policy means, for reads in the
middle of a refresh; and the builder's synthesis agrees. `ConfiguredRiskIsBinding`
and `GovernedRiskIsSupplied`: what the AI cannot lower, and what its budget
cannot push out. `SteadyConflictIsGenuine`, `QuietAuditAgrees`: four passes over
a changing registry, and over one that rests.

Type invariants are not run on their own: `TypeCorrect` is proved for the four
modules that state one.

### Bounds, and why they are enough

* Pipeline: a third run is needed to see one that dies while it repairs what
  another dead run left; one tick gives both equal and different timestamps; two
  formats give a record that stays beside one that goes. With `BulkMinCount` and
  `BulkDivisor` at 1 a change is bulk when it hits as many formats as the larger
  of the two registries has, so one change of two is told by itself and two of
  two, or one of one, are collapsed. With overlap, two runs and two required
  sources on one format: a commit of two sources beside another.
* Governed claims: with one format jobs overlap at every store call; with two
  (`NarrowOverlap` in `MCGovernedClaims`) jobs that overlap leave one of the
  formats alone. Two formats are what the canonicals-touched computation needs.
  Three jobs: one dies, one races, one heals. One risk source beside Wikidata,
  since sources of one kind share their code and do not read each other's
  claims.
* Identity: a report depends on two successive views only, so two runs reach
  every report (the first view is any registry of a delivery, the second
  another). Bulk collapse starts at 3 here and at 25 in the code, so that the
  pool reaches it. The pool has a version conflict, a name without version, a
  family citing two PUIDs, copied identifiers and colliding names.
* Wikidata: three formats with pages and batches of two give full, short and
  empty pages, and two batches per part; two overlapping population queries and
  two parts; one upstream edit, of a fact or of a listing, at any moment; two
  sessions, of the same or of different query sets; one failed request or death
  anywhere. Everything here is proved for any of these numbers.
* NARA: three releases, of which one is pinned and one local; two failures.
* Store: two formats and three values, two of which share a file name; two runs,
  so that the second rewrites, removes and repairs; old documents at the start.
* Mapping: three mapping directories (one invalid), a rule on a field and one on
  a collection with two items of one key; two pipeline runs and two backfills,
  so that one finds what another left.
* LOC bridges: two FDDs, two PUIDs, six rows that cover every status, two
  editions, two pipeline runs around or inside a verification.
* Web jobs: jobs meet in the pool only, so one of the two is the short one
  (`OneBatchSpec`). Two formats with calls of one format give two chunks, thus
  an answer before and after a failure or rate limit; they have the same PUID or
  two, and leave none, one or both of two questions open. One failed write and
  one kill: memory and disk differ after either.
* Identification: five documents of which two share an id, a name, or a PUID;
  four texts, one per way to resolve; one registry change per request, because
  every read after it sees one registry. Limits are below the number of
  documents, so they cut.
* Questions and audit: three questions (one critical, one with compatible
  fields, one answered by recognition), claims under both ids of the format, of
  an institution, a draft, and legacy items; two changes per request: a claim
  that goes and one that comes.
* Synthesis: claims of three sources and an overlay, scopes of four tiers, a
  term that does not map; three policies, which between them use every selection
  and aggregation; two changes. AI: two deliveries of one source record, one
  that nothing maps, one of another format, a finding that repeats another and
  one of a record nobody asked for; limits and budgets below and above what
  there is.

Only `persistence` checks deadlock: the upstream, an offline replay and every
command stay possible there. Everywhere else the modelled jobs and requests end,
and once the bounded number of them has ended nothing is left to do, so those
configurations do not check it; that work does not stop half way is what
`JobSettles` and `AcquisitionBecomesAuthority` are for.

### Fairness

`RegistryPipeline!FairSpec` and `WebJobs!Fairness` assume weak fairness of a
program's own steps: a started command goes on, a request handler and a worker
thread are scheduled and the calls they make return or time out (the provider
and the downloads have timeouts). Nothing makes anyone start a run, submit a job
or kill it, and crashes stay possible; the liveness properties name them as
excuses. The other modules state safety only: a command or request there is one
sequential program that waits for nobody.

## 4. Proofs

Each theorem holds for every value of the constants under the named
assumptions: `ConstantsAssumption`, `ClaimConstants`, `WebConstants`,
`IdentityConstants`, `WikidataConstants` (finitely many formats, numbered from 1;
the custom query is none of the generated ones; queries and parts are
sequences), `NaraConstants` (finitely many releases, ordered by date),
`StoreConstants` (a registry has finitely many formats, each with finitely many
identifier claims, of the kind that is looked up), `BridgeConstants` (a row
names finitely many FDDs and PUIDs), `MappingConstants`
(no mapping names the source or the rule of the claim that stands for all other
sources), and those of the requests:

* `AssessmentConstants`, `AuditConstants`: a framework has questions, a finite
  choice of answers and fields for each, and numeric points, which is what
  loading it enforces (`manager:frameworks.py` 38-96, 199-226); the ids of a
  document are a list.
* `NoItemAbstains`: no value of an evidence item maps to the framework's
  "unknown" answer. In the shipped frameworks none does, neither in their
  `evidence_value_map` nor in `DERIVATION_VALUE_MAP`, and no command writes an
  item that names an answer itself. Only `UnansweredArePlanned` uses it: an item
  that says "unknown" would be a derived answer, and no gap.
* `IdentificationConstants`: finitely many documents with integer ranks, a limit
  of at least one match, and an id that a person typed as a text is no name,
  identifier or extension of another document; ids are generated (`puid-...`).
* `SynthesisConstants`: finitely many levels with integer ranks.
* `ConsultationConstants`: finitely many claims, source records and criterion
  claims; limits of at least one (`manager:source_evidence.py` 304-305 and
  `manager:ai/capability_synthesis.py` 496 see to that); the AI may answer with
  levels of the scale; the kinds of finding are those that are built
  (`manager:source_evidence.py` 171-274).
* `SourceRecords`: a finding names the source and the record it comes from, a run
  stores a record once, and one record has its native assessments in one scope:
  NARA and standard JSON give a record one hazard, the DPC one
  `risk_assessment`. `ConfiguredRisksBind` needs the last: a finding that repeats
  another of the same record and level is dropped whatever its scope, so that of
  two scopes the more specific could be the one dropped.
* `ShippedPolicy`: what the file `qnl_preservation_risk_synthesis.v1.json` says,
  field by field. `HeadlinesAreWorstOfNearest` is about that policy, and takes
  from it no more than which options it chose and that its tiers order the
  builder's scopes as the builder does.

TLC evaluates each in a run. Three theorems on the pipeline state
`~Overlap` as an assumption of their own: runs that overlap mix their registries.

| Module | Theorems | Argument |
|---|---|---|
| `RegistryPipelineProofs` | `TypeCorrect`, `CommittedStored`, `OneAcquisitionPerSource`, `StoreImplementsEvidence`, `RegistryIsWhole`, `RulesReplaced`, `ChangesHaveEvents` | `AcquisitionInv`: what is stored under a live run's id are records of that run; during the save loop each of its records is stored or in `todo`, after it all are stored; a document lists a source as completed only of a run that is done. The property alone is not inductive: it says nothing of a run that has yet to commit. `EvidenceInv` carries it to what another run has made of three readings of the run documents: the run it takes for a source's latest has completed the source in the store, and a committed run acquires no more. The refinement maps each step to a step of `SourceEvidence` or a stutter: `DocumentsInv` says that a document is completed exactly when its run is done and that the completed runs of each source have one latest, so a commit switches the source and nothing else does. Without overlap, `PublishInv` says at each point of a run what of the registry and of the claims it has written and what is still in `todo`, and `EventsInv` the same of the change events, for any `ChangeOf` and thresholds. |
| `GovernedClaimsProofs` | `TypeCorrect`, `AttachmentsAreClaimed`, `PipelineRestores`, `ReplacedSource`, `CoherentRefresh` | claims never become absent again, so it is enough that whatever a job holds in memory, in `view` (ViewsWereClaimed), still to save (SavedWereClaimed) or to attach (MaterializedWereClaimed), was claimed when it was read or saved. `AloneInv`: a job that no other job contended with finds the store as it left it, so at each point a canonical it wants is in `todo` or already carries what it attaches, and a claim it wants is in `generated` still to save or is current (`PipelineAlone`, `ClaimsAlone`, `RefreshAlone`); a step of any other active job ends that (`OthersContend`). That the refresh counts equal numbers means equal sets because the claims are finitely many (`EqualCounts`). |
| `RegistryIdentityProofs` | `TypeCorrect`, `VersionsStayApart`, `FamiliesStandAlone`, `UnchangedIsQuiet`, `ChangesAreTold`, `RemovalsAreReal` | no strengthening is needed, a step replaces the whole view. The work is in lemmas about `reconcile` (`JoinedVersion`, `CollapsedVersion`: a bridge preserves the version set; `FamilyKeepsKey`) and `Detect` (`VanishedOnce`, `AppearedTold`, `ToldOrHidden`). |
| `WebJobsProofs` | `TypeCorrect`, `OfferedReportsExist`, `SettledJobsStay`, `LiveJobsHeld`, `UnaskedReported` | `ReportsInv`: a runner about to complete has written every file, files never go away. `PoolInv`: the mirror is never ahead of memory, a job is in one place of the pool, a worker holds one job and no two hold the same. `LiveInv` adds that without a failed write the record agrees with that place. `AskedInv`: the active cases numbered below the next batch have been put to the provider, and a run that no worker holds has asked nothing; from what was asked and which calls failed a merge tells all it has to (`MergeTells`); the numbers of the active cases are below their count, so after the last batch each was asked (`ActiveFinite`). |
| `AcquisitionProofs` | `WikidataSnapshotsAreWhole`, `NoRequestTwice`, `DiscoveryMissesNothing`, `OutputOfOneSession`, `CompleteCanBeReplayed`; `CompanionsTogether`, `NeverOlder`, `NaraSnapshotsAreWhole` | `CacheInv`: not only what the index names is whole, also the payload on its way there. Both adapters use the lemmas with their own keys and payloads. Wikidata: `AnswersInv`: an answer that was stored is in the index unless the index was lost, and none on its way was stored before. `DiscoveryInv`: of what a query listed all the time, everything up to the last key read is found (`PagesInv`); lemmas on the first elements of a finite set of numbers carry it over a page, full or not. `AllInv` adds what a session has done: the manifest is that of a session, and while a run works on batches, of its own and not complete (`ManifestInv`); an indexed batch is of its session and of the formats of its key (`EntriesInv`); the facts merged so far are those of all batches before this one, none older than the session (`FactsInv`, with `BatchesCover`: the batches are the population); a stored snapshot is on its way to the index or in it (`StoredInv`), so a manifest that says complete has one (`ReplayInv`). The output is right only because every one of these held when it was put together. NARA: `SourcesInv`: the files a run got are those of the sources it resolved, in order. `ReleaseInv`: the release a run takes is not older than the newest one that was indexed. |
| `CurationProofs` | `BridgesAreOneToOne`, `ReplacementComplete`, `StoresAgree` | `VerifiedInv`: in a verification during which the registry stood still, a confirmed row is the only one that confirms its PUID, and joins nothing that is joined. `VerifyingInv` says the same of a verification that is under way: what was looked up so far is what the registry says. `BackfillInv`: a claim the backfill made is on its list or in place, and a current claim of a mapped source that it did not make is on the list of those to retire; a pipeline run in between ends its being alone. `StoreInv`: every key that was written has a name that is kept, and under every name is the last document of one of its keys, or a truncated file; a name keeps the collection of its key, and two rows with one name are of one format, and of one value unless the file store confuses two (`RowNames`). |
| `IdentificationProofs` | `NoFormatIsGuessed` | a result that is resolved is about one document, which was the only best match at that read (`ResolvedIs`) or which the provider chose. `QueryInv` and `BaseInv` say which reads are behind the request and what they found, `SoleInv` that the history keeps what was the only best match at each of them, `FoundInv` that what is found comes from there. The result is resolved once more by its id, in another registry: a document that answers to the id has it (`IdentificationConstants`). |
| `AssessmentProofs` | `SteadyRiskCounts`, `UnansweredArePlanned`, `AIOnlyFillsGaps`; `SteadyConflictsAreGenuine`, `QuietAuditsAgree`; `HeadlinesAreWorstOfNearest`; `ConfiguredRisksBind`, `GovernedRisksSupplied` | Requests: the properties say nothing of a request that is still reading, so `CoverageInv` says of each prefix of the ids that the claims under them that stood since the start are among what was read, `OriginInv` that what was read was on record at some time. A steady claim is then among the candidates of its question, and the answer is the one with the most points, which exists because the candidates are finitely many (`HasGreatest`, by well-foundedness of the strict subset order). Audits: `ReadingInv` says of the current pass, and `ReportInv` of the finished ones, that what they read lies between what stood all the time and what was on record at some time; if nobody edits, the two are equal, and so are the passes. Synthesis: `ContextInv` bounds what a request read in the same way; `ShippedHeadlineIs` reduces the manager's selection and aggregation under the shipped policy to the worst level of the smallest tier, and `BuilderAgrees` the builder's to the same. Consultation: `OneOfThemCounts`: of findings that repeat each other the first counts, so something of the level and scope of each stated one does (`EffectiveIs`, with `FindingsAre` for the one scope of a record); `HeadlineWithIs` then gives the overall level with an AI's rows. The property says nothing while the AI is asked, so `AskedInv` adds what it is asked: only what the policy does not map, and only if there is any or no headline. What is supplied is a sorted list, cut and trimmed: that sorting keeps everything and puts the assessments first (`ArrangedIs`, by counting who is ahead; `ByPriorityIs`, by the pigeonhole), and that trimming takes nothing more important than what it keeps (`TrimmedIs`, by comparing how many would be taken before either). |

No safety property of a passing run is model-checked only. Out of the prover's
reach, so left to TLC: liveness under fairness (`AcquisitionBecomesAuthority`,
`JobSettles`), ENABLED, and what a recursive definition computes for every
input. No module here declares a RECURSIVE
operator; recursion is a recursive function or a fold.

## 5. Where the code and its documentation disagree

Four have a run whose counterexample shows it; the quotes are in `PROJECT.json`.

1. `pipeline_stale_claims`. When a mapped source loses all its records its
   criterion claims stay current, since only rules that produced something are
   superseded (`builder:pipeline.py` 408).
2. `web_ai_failure`. An AI answer without an answers array fails a whole batch
   before any governed report is written
   (`manager:ai/batch_risk_analysis.py` 375).
3. `identity_alias_chain`. Aliases are followed one hop: a row joined to an
   authority group that is itself bridged ends alone under the authority's
   identifier (`builder:reconcile.py` 482).
4. `reader_rejected_candidates`. A lookup that failed is said to invent no
   formats, but when the provider named none of its candidates, all of them are
   assessed (`manager:human_format_matches.py` 82 and 162).

### Seen while modelling

These are in the models, or stand next to what is modelled, and have no run of
their own. They are what the code does; whether it should is the maintainers'
decision.

*Pipeline and jobs.*

* A run that dies after it updated canonical documents and before it saved its
  change events loses them: the next run compares with the view as it was left.
* A run first seen between the two queries of run documents that date the runs
  and choose among them is dated by its id (`builder:pipeline.py` 316), which
  sorts after every timestamp.
* A fill-gaps call answered with an empty list, or with answers that are all
  rejected, is no error: its formats keep the status "ok" and count as successful
  syntheses (`manager:web_reports.py` 273). What tells is `unanswered_by_batch`
  and, of rejected answers, the `validation_errors` of the whole batch
  (`manager:ai/batch_risk_analysis.py` 372-406). The text for people shows
  `failed_questions` (`manager:human_renderer.py` 330), which a batch does not
  set.
* A source that fails during normalization leaves the records before the bad
  one in the run's evidence (`builder:pipeline.py` 674).
* An applied rebuild writes canonical documents without the governed claims
  (`builder:rebuild_store.py` 157); the next pipeline run restores them.
* A backfill that dies after superseding is not repaired by the next one, which
  no longer finds the canonicals concerned
  (`builder:dpc_risk_assessment_backfill.py` 180); a pipeline run repairs it.
* A torn index file stops every later acquisition of its source
  (`builder:adapters/base.py` 30-38).
* Offline mode is said not to read administrator files that were not indexed
  before (`docs/SOURCE_RETRIEVAL_AND_FALLBACKS.md` 64), but the call that
  snapshots such a file does not look at the mode (`builder:adapters/base.py`
  118-151).

*Stores.*

* The memory store appends some collections that the others replace. In the file
  store two names may collide once they are made safe (`builder:storage/file.py`
  34), and one torn file makes its collection unreadable (76-88).
  `StoresAnswerAlike` excepts a value whose rows share a file name with those of
  another, and reads that raise.

*Mapping.*

* The guard against unsafe fields looks at a rule's `from_field` only; alternate
  fields are not guarded (`builder:criterion_mapping.py` 404-411).
* A backfill takes the newest record of each key over all runs, the dead ones
  included.

*LOC bridges.*

* Once a bridge is applied, verification calls it already reconciled, and the
  next approval drops it: applying alternates.
* Rows are looked up one by one while runs may replace the registry, and the
  canonical identifier noted at review is not compared again.
* Two rows that name the same FDD and PUID exclude each other.

*Requests.*

* The limit of a family request cuts before the band filter
  (`manager:request_api.py` 528-530).
* Answers to global requests include a synthesis computed with institution
  overlays, against `docs/sources/QNL_LOCAL.md` 67 and
  `HUMAN_AND_SYSTEM_QUERIES.md` 257.
* AI gap filling may replace the conservative answer of a conflict.
* AI synthesis: a limit may cut the very finding that does not map; an
  interpretation that is repeated counts twice; when the call fails, the
  governed synthesis is kept without the rows the configuration normalizes; the
  shipped policy is used whatever policy was asked for.
* Audit: gap fills of the base pass are not filtered by scope, and
  `matches_base_audit_count` compares counts only.

## 6. Not modelled, and why

* Downloads, parsing, exporters, command lines, HTML: input and output without
  state that anything reads back.
* The risk a source's mapping gives to one record: the models choose the claims
  of a record freely, which covers every mapping. Risk previews read only.
* Drift gates, simulations and projections: a gate that blocks writes nothing.
  The run documents of backfills: evidence that only the status pages and the
  fallback of the next run read.
* Portfolio requests, and the repair of routed requests.
* Validation of policy files; posture, currency and recommended actions, which
  are derived from a finished answer.
* File-name encodings beyond the collision of `Safe`; the store's source
  records, overlays, change events and risk claims in its three backends (the
  pipeline and claim models take the interface's meaning for these).
* What overlapping pipeline runs do to canonical documents: nothing in the code
  orders those writes, so there is no promise to state. The evidence beneath
  them is covered with overlap.
* Two builders on one work directory: the code takes no lock and documents none.

## 7. Plan

What is done is listed in section 2. What is left, in order:

1. **Requests, continued**: routing, and portfolio requests, which ask for many
   formats at once while the registry changes.
2. **Gates**: the drift gates of `wikidata_refresh.py`, and the run documents
   the Wikidata backfill writes before its records.
3. **Identity, continued**: splits reported for records that are merely no
   longer related; a registry with validation errors is published all the same.

Runs are kept few: modules that share bounds share a run, and a run's parts are
disjoint choices of its initial state.
