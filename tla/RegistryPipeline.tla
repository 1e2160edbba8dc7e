-------------------------- MODULE RegistryPipeline --------------------------
(***************************************************************************)
(* run_pipeline of the registry builder: one run acquires every enabled    *)
(* source, completes the evidence with what earlier runs stored, rebuilds  *)
(* the canonical registry from it and writes the result to the store.      *)
(*                                                                         *)
(* The store offers no transaction: every save_*/upsert_*/create_run call  *)
(* is a step of its own, a run may die before any of them, and several     *)
(* builder processes may share one store (Overlap).  A run's document is   *)
(* written twice: as "running" when it starts and, as the last write of    *)
(* all, as "completed" with the outcome of every source.                   *)
(*                                                                         *)
(* Abstractions: a source record is named by the format it describes, and  *)
(* the canonical record of a format is identified with the format.  So     *)
(* identities are never rekeyed, merged or split here, and those change    *)
(* events do not arise: RegistryIdentity has them.  A canonical document   *)
(* carries the set of source records it was built from, and what of it     *)
(* changes with them is the constant operator ChangeOf (the configuration  *)
(* is the same for all runs); every source in Mapped has one approved      *)
(* criterion rule that fires on each of its records; snapshots, overlays,  *)
(* hazard, readiness and trend rows, which no later run reads back, are    *)
(* left out.                                                               *)
(*                                                                         *)
(* A definition named Wrong... is the one that follows it with a slip in   *)
(* it: put in its place it breaks the property PROJECT.json pairs it with. *)
(***************************************************************************)
EXTENDS Integers, FiniteSets

CONSTANTS
  Source,      \* source ids of the configuration
  Required,    \* those whose failure aborts the run
  Mapped,      \* those with an approved criterion mapping rule
  Format,      \* formats the sources describe
  MaxRun,      \* bound: number of runs
  MaxClock,    \* bound: seconds that pass (timestamps have 1 s resolution)
  Overlap,     \* may two runs be active at once?
  FieldChange, \* types of the events on a format that stays in the view
  ChangeOf(_, _),   \* those that tell a document built from one set of
                    \* records from the document built from another
  BulkMinCount,     \* _BULK_CHANGE_MIN_COUNT
  BulkDivisor       \* 1 / _BULK_CHANGE_FRACTION

ASSUME ConstantsAssumption ==
  /\ Required \subseteq Source
  /\ Mapped \subseteq Source
  /\ MaxRun \in Nat \ {0}
  /\ MaxClock \in Nat
  /\ Overlap \in BOOLEAN
  /\ IsFiniteSet(Format)
  /\ FieldChange \cap {"record_added", "record_removed",
                      "source_coverage_changed"} = {}
  /\ BulkMinCount \in Nat \ {0}
  /\ BulkDivisor \in Nat \ {0}

VARIABLES
  clock,               \* wall clock, in seconds
  \* collections of the store
  runs,                \* run documents, by run id
  source_records,      \* every source record ever stored
  canonical_formats,   \* canonical documents, by canonical id
  criterion_claims,    \* state of the criterion claim of a source on a format
  assessment_changes,  \* change events
  \* local state of each run
  pc,                  \* where the run is
  source_status,       \* outcome of each source in this run
  raw_records,         \* records extracted and normalized by this run
  previous_registry,   \* the registry view read when the run started
  seen_runs,           \* the run documents read before reusing evidence
  active_records,      \* the evidence the registry is rebuilt from
  todo,                \* what the current persistence loop still has to write
  finished_at          \* finish time put in the run report

store == <<runs, source_records, canonical_formats, criterion_claims,
           assessment_changes>>
local == <<source_status, raw_records, previous_registry, seen_runs,
           active_records, finished_at>>
vars == <<clock, store, pc, local, todo>>

RunId == 1 .. MaxRun
NoRun  == 0
Time   == 0 .. MaxClock
NoDate == -1

SourceStatus == {"pending", "disabled", "completed", "unavailable", "failed"}

RunDoc == [status : {"absent", "running", "completed"},
           started : Time, finished : Time,
           sources : [Source -> SourceStatus]]

RawRecord    == [source : Source, format : Format]
StoredRecord == [run : RunId, source : Source, format : Format]

CanonicalDoc == [state : {"absent", "current", "removed"},
                 evidence : SUBSET StoredRecord]

(* _run_timestamp_index: the date of every run there is a document of.     *)
RunDates == [RunId -> Time \cup {NoDate}]

(* What a run took from the run documents: run_index, the dates by which   *)
(* the latest runs are chosen, and latest_source_runs.                     *)
SeenRuns == [index : RunDates, dates : RunDates,
             latest : [Source -> RunId \cup {NoRun}]]

ChangeType == {"record_added", "record_removed"} \cup FieldChange

FormatChange == [run : RunId, type : ChangeType, format : Format]
BulkChange   == [run : RunId, type : {"source_coverage_changed"},
                 collapsed : ChangeType, affected : Nat]
Change == FormatChange \cup BulkChange

Reading == {"acquire", "index", "dates", "reuse"}
Looping == {"save_records", "upsert", "mark_removed", "supersede",
            "save_claims", "save_changes"}
Working == Reading \cup Looping \cup {"export"}
PC == {"idle", "done", "dead"} \cup Working

-----------------------------------------------------------------------------
(* Reading the store.                                                      *)

(* _run_timestamp_index: a run is dated by its finish, else by its start.  *)
RunTimestamps(docs) ==
  [r \in RunId |->
     CASE docs[r].status = "absent"    -> NoDate
       [] docs[r].status = "running"   -> docs[r].started
       [] docs[r].status = "completed" -> docs[r].finished]

WrongBefore(dates, p, q) == p < q

(* Sort key (timestamp, run id); a run that is not in the index is dated   *)
(* by its id, and ids ("run-...") sort after every timestamp.              *)
Before(dates, p, q) ==
  LET known(r) == dates[r] # NoDate
  IN \/ known(p) /\ ~known(q)
     \/ ~known(p) /\ ~known(q) /\ p < q
     \/ /\ known(p) /\ known(q)
        /\ dates[p] < dates[q] \/ (dates[p] = dates[q] /\ p < q)

(* _latest_completed_source_run_index: of the runs that completed s        *)
(* according to their documents, the one that none of them comes after     *)
(* according to dates.                                                     *)
LatestRun(dates, docs, s) ==
  LET completed == {r \in RunId : docs[r].sources[s] = "completed"}
      newest == {r \in completed : \A p \in completed : ~Before(dates, r, p)}
  IN IF newest = {} THEN NoRun ELSE CHOOSE r \in newest : TRUE

(* The newest stored version of each record, also of deleted ones. *)
WrongStoredEvidence(seen, records, s) ==
  LET own == {rec \in records : rec.source = s}
  IN {rec \in own :
        \A other \in own :
          other.format = rec.format /\ other.run # rec.run
            => Before(seen.index, other.run, rec.run)}

(* _stored_source_records_for_augmentation: what of the stored records     *)
(* stands for source s, given what was read of the run documents.          *)
StoredEvidence(seen, records, s) ==
  LET own == {rec \in records : rec.source = s}
      latest == seen.latest[s]
  IN IF latest # NoRun
     THEN {rec \in own : rec.run = latest}
     ELSE {rec \in own :
             \A other \in own :
               other.format = rec.format /\ other.run # rec.run
                 => Before(seen.index, other.run, rec.run)}

(* get_current_registry_view *)
CurrentIds(view) == {f \in Format : view[f].state = "current"}

-----------------------------------------------------------------------------
(* What a run computes from the evidence it holds.                         *)

RefreshedSources(r) == {s \in Source : source_status[r][s] = "completed"}

OwnRecords(r) ==
  {[run |-> r, source |-> rec.source, format |-> rec.format] :
     rec \in raw_records[r]}

EvidenceFor(r, f) == {rec \in active_records[r] : rec.format = f}

(* reconcile: one canonical record per format in evidence *)
Registry(r) == {f \in Format : EvidenceFor(r, f) # {}}

(* build_criterion_claims: claims are keyed by (source record, rule) *)
GeneratedClaims(r) ==
  {c \in Mapped \X Format : \E rec \in active_records[r] :
     rec.source = c[1] /\ rec.format = c[2]}

(* Forgets the claims on formats that left the registry. *)
WrongSupersededClaims(r) ==
  {c \in Mapped \X Registry(r) :
     /\ criterion_claims[c] = "current"
     /\ \E g \in GeneratedClaims(r) : g[1] = c[1]
     /\ c \notin GeneratedClaims(r)}

(* The current claims _persist_criterion_claims supersedes: those of a     *)
(* rule that produced claims in this run, and not among them.              *)
SupersededClaims(r) ==
  {c \in Mapped \X Format :
     /\ criterion_claims[c] = "current"
     /\ \E g \in GeneratedClaims(r) : g[1] = c[1]
     /\ c \notin GeneratedClaims(r)}

(* The formats that underwent a change between the view before, with its   *)
(* documents' evidence was, and the view after, with evidence is.          *)
Affected(type, before, was, after, is) ==
  CASE type = "record_added"   -> after \ before
    [] type = "record_removed" -> before \ after
    [] OTHER -> {f \in before \cap after : type \in ChangeOf(was[f], is[f])}

(* _collapse_bulk_changes: as many events of a type as the minimum, and as *)
(* a share of the larger of the two registries.                            *)
IsBulk(affected, before, after) ==
  \A least \in {BulkMinCount, Cardinality(before) \div BulkDivisor,
                Cardinality(after) \div BulkDivisor} :
    Cardinality(affected) >= least

(* The events of one type; a bulk event stands for all of them.            *)
ChangesOfType(r, type, affected, before, after) ==
  IF IsBulk(affected, before, after)
  THEN {[run |-> r, type |-> "source_coverage_changed", collapsed |-> type,
         affected |-> Cardinality(affected)]}
  ELSE [run : {r}, type : {type}, format : affected]

(* Compares with all canonical documents, not with the current ones. *)
WrongDetectedChanges(r) ==
  LET before == {f \in Format : previous_registry[r][f].state # "absent"}
      was == [f \in Format |-> previous_registry[r][f].evidence]
      is  == [f \in Format |-> EvidenceFor(r, f)]
  IN IF before = {} THEN {}
     ELSE UNION {ChangesOfType(r, type,
                               Affected(type, before, was, Registry(r), is),
                               before, Registry(r)) : type \in ChangeType}

(* detect_registry_changes: no event for a first registry *)
DetectedChanges(r) ==
  LET before == CurrentIds(previous_registry[r])
      was == [f \in Format |-> previous_registry[r][f].evidence]
      is  == [f \in Format |-> EvidenceFor(r, f)]
  IN IF before = {} THEN {}
     ELSE UNION {ChangesOfType(r, type,
                               Affected(type, before, was, Registry(r), is),
                               before, Registry(r)) : type \in ChangeType}

-----------------------------------------------------------------------------
NoRunDocs ==
  [r \in RunId |-> [status |-> "absent", started |-> 0, finished |-> 0,
                    sources |-> [s \in Source |-> "pending"]]]

NoDates == [r \in RunId |-> NoDate]

NothingSeen == [index |-> NoDates, dates |-> NoDates,
                latest |-> [s \in Source |-> NoRun]]

NoRegistry == [f \in Format |-> [state |-> "absent", evidence |-> {}]]

Init ==
  /\ clock = 0
  /\ runs = NoRunDocs
  /\ source_records = {}
  /\ canonical_formats = NoRegistry
  /\ criterion_claims = [c \in Source \X Format |-> "absent"]
  /\ assessment_changes = {}
  /\ pc = [r \in RunId |-> "idle"]
  /\ source_status = [r \in RunId |-> [s \in Source |-> "pending"]]
  /\ raw_records = [r \in RunId |-> {}]
  /\ previous_registry = [r \in RunId |-> NoRegistry]
  /\ seen_runs = [r \in RunId |-> NothingSeen]
  /\ active_records = [r \in RunId |-> {}]
  /\ todo = [r \in RunId |-> {}]
  /\ finished_at = [r \in RunId |-> 0]

Tick ==
  /\ clock < MaxClock
  /\ clock' = clock + 1
  /\ UNCHANGED <<store, pc, local, todo>>

Goto(r, label) == pc' = [pc EXCEPT ![r] = label]

(* The process of run r is gone and its memory with it. *)
Exit(r, label) ==
  /\ Goto(r, label)
  /\ previous_registry' = [previous_registry EXCEPT ![r] = NoRegistry]
  /\ seen_runs' = [seen_runs EXCEPT ![r] = NothingSeen]
  /\ active_records' = [active_records EXCEPT ![r] = {}]
  /\ todo' = [todo EXCEPT ![r] = {}]
  /\ finished_at' = [finished_at EXCEPT ![r] = 0]

(* A run that dies has acquired nothing; of one that commits, what it      *)
(* acquired is kept as history.                                            *)
Die(r) ==
  /\ Exit(r, "dead")
  /\ source_status' = [source_status EXCEPT ![r] = [s \in Source |-> "pending"]]
  /\ raw_records' = [raw_records EXCEPT ![r] = {}]

(* The run id starts with the second the run started in, so ids given out  *)
(* in a later second sort later; within a second the suffix is random.     *)
Start(r) ==
  /\ pc[r] = "idle"
  /\ \A q \in RunId :
       runs[q].status # "absent" =>
         /\ runs[q].started < clock => q < r
         /\ Overlap \/ pc[q] \in {"done", "dead"}
  /\ previous_registry' = [previous_registry EXCEPT ![r] = canonical_formats]
  /\ runs' = [runs EXCEPT ![r].status = "running", ![r].started = clock]
  /\ Goto(r, "acquire")
  /\ UNCHANGED <<clock, source_records, canonical_formats, criterion_claims,
                 assessment_changes, source_status, raw_records, seen_runs,
                 active_records, todo, finished_at>>

-----------------------------------------------------------------------------
(* The source loop.                                                        *)

SourceOutcome(r, s, status, formats) ==
  /\ pc[r] = "acquire"
  /\ source_status[r][s] = "pending"
  /\ source_status' = [source_status EXCEPT ![r][s] = status]
  /\ raw_records' = [raw_records EXCEPT
                       ![r] = @ \cup [source : {s}, format : formats]]
  /\ UNCHANGED <<clock, store, previous_registry, seen_runs, active_records,
                 todo, finished_at>>

SourceSkipped(r, s) ==
  /\ SourceOutcome(r, s, "disabled", {})
  /\ UNCHANGED pc

(* The snapshot may legitimately hold no records at all. *)
SourceCompleted(r, s) ==
  /\ \E formats \in SUBSET Format : SourceOutcome(r, s, "completed", formats)
  /\ UNCHANGED pc

(* Neither snapshots nor records: an optional upstream that is not there.  *)
SourceUnavailable(r, s) ==
  /\ SourceOutcome(r, s, "unavailable", {})
  /\ UNCHANGED pc

(* acquire, extract or normalize raised.  Records are normalized while     *)
(* they are appended, so those before the bad one stay in raw_records.     *)
OptionalSourceFailed(r, s) ==
  /\ s \notin Required
  /\ \E formats \in SUBSET Format : SourceOutcome(r, s, "failed", formats)
  /\ UNCHANGED pc

(* The exception of a required source ends the run. *)
RequiredSourceFailed(r, s) ==
  /\ s \in Required
  /\ pc[r] = "acquire"
  /\ source_status[r][s] = "pending"
  /\ Die(r)
  /\ UNCHANGED <<clock, store>>

-----------------------------------------------------------------------------
(* Reuse of stored evidence, and reconciliation.                           *)

(* The run documents are queried three times before the source records     *)
(* are: another builder may commit between any two of these reads.         *)
ReadsRuns(r, label, next, seen) ==
  /\ pc[r] = label
  /\ seen_runs' = [seen_runs EXCEPT ![r] = seen]
  /\ Goto(r, next)
  /\ UNCHANGED <<clock, store, source_status, raw_records, previous_registry,
                 active_records, todo, finished_at>>

ReadRunIndex(r) ==
  /\ \A s \in Source : source_status[r][s] # "pending"
  /\ ReadsRuns(r, "acquire", "index",
               [seen_runs[r] EXCEPT !.index = RunTimestamps(runs)])

ReadRunDates(r) ==
  ReadsRuns(r, "index", "dates",
            [seen_runs[r] EXCEPT !.dates = RunTimestamps(runs)])

ReadRunDocs(r) ==
  ReadsRuns(r, "dates", "reuse",
            [seen_runs[r] EXCEPT
               !.dates = NoDates,
               !.latest = [s \in Source |-> LatestRun(seen_runs[r].dates, runs, s)]])

(* Saves only records no run stored before. *)
WrongReadStoredRecords(r) ==
  /\ pc[r] = "reuse"
  /\ active_records' =
       [active_records EXCEPT
          ![r] = OwnRecords(r) \cup
                 UNION {StoredEvidence(seen_runs[r], source_records, s) :
                          s \in Source \ RefreshedSources(r)}]
  /\ todo' = [todo EXCEPT ![r] =
                 {rec \in OwnRecords(r) : \A old \in source_records :
                    old.source = rec.source => old.format # rec.format}]
  /\ seen_runs' = [seen_runs EXCEPT ![r].index = NoDates]
  /\ Goto(r, "save_records")
  /\ UNCHANGED <<clock, store, source_status, raw_records, previous_registry,
                 finished_at>>

ReadStoredRecords(r) ==
  /\ pc[r] = "reuse"
  /\ active_records' =
       [active_records EXCEPT
          ![r] = OwnRecords(r) \cup
                 UNION {StoredEvidence(seen_runs[r], source_records, s) :
                          s \in Source \ RefreshedSources(r)}]
  /\ todo' = [todo EXCEPT ![r] = OwnRecords(r)]
  /\ seen_runs' = [seen_runs EXCEPT ![r].index = NoDates]
  /\ Goto(r, "save_records")
  /\ UNCHANGED <<clock, store, source_status, raw_records, previous_registry,
                 finished_at>>

-----------------------------------------------------------------------------
(* _persist_registry_to_store, one store call at a time.                   *)

Writes(r, label, item) ==
  /\ pc[r] = label
  /\ item \in todo[r]
  /\ todo' = [todo EXCEPT ![r] = @ \ {item}]
  /\ UNCHANGED <<clock, runs, pc, local>>

(* The loop at label is over; the next one, at next, has items to write.   *)
NextLoop(r, label, next, items) ==
  /\ pc[r] = label
  /\ todo[r] = {}
  /\ todo' = [todo EXCEPT ![r] = items]
  /\ Goto(r, next)
  /\ UNCHANGED <<clock, store, local>>

SaveSourceRecord(r) ==
  \E rec \in todo[r] :
    /\ Writes(r, "save_records", rec)
    /\ source_records' = source_records \cup {rec}
    /\ UNCHANGED <<canonical_formats, criterion_claims, assessment_changes>>

BeginUpserts(r) == NextLoop(r, "save_records", "upsert", Registry(r))

UpsertCanonicalFormat(r) ==
  \E f \in todo[r] :
    /\ Writes(r, "upsert", f)
    /\ canonical_formats' = [canonical_formats EXCEPT
         ![f] = [state |-> "current", evidence |-> EvidenceFor(r, f)]]
    /\ UNCHANGED <<source_records, criterion_claims, assessment_changes>>

WrongBeginRemovals(r) == NextLoop(r, "upsert", "mark_removed", {})

BeginRemovals(r) ==
  NextLoop(r, "upsert", "mark_removed",
           CurrentIds(previous_registry[r]) \ Registry(r))

(* The document written back is the one read when the run started. *)
MarkRemoved(r) ==
  \E f \in todo[r] :
    /\ Writes(r, "mark_removed", f)
    /\ canonical_formats' = [canonical_formats EXCEPT
         ![f] = [previous_registry[r][f] EXCEPT !.state = "removed"]]
    /\ UNCHANGED <<source_records, criterion_claims, assessment_changes>>

BeginClaims(r) ==
  IF GeneratedClaims(r) = {}
  THEN NextLoop(r, "mark_removed", "save_changes", DetectedChanges(r))
  ELSE NextLoop(r, "mark_removed", "supersede", SupersededClaims(r))

SupersedeClaim(r) ==
  \E c \in todo[r] :
    /\ Writes(r, "supersede", c)
    /\ criterion_claims' = [criterion_claims EXCEPT ![c] = "superseded"]
    /\ UNCHANGED <<source_records, canonical_formats, assessment_changes>>

BeginSaveClaims(r) ==
  NextLoop(r, "supersede", "save_claims", GeneratedClaims(r))

SaveCriterionClaim(r) ==
  \E c \in todo[r] :
    /\ Writes(r, "save_claims", c)
    /\ criterion_claims' = [criterion_claims EXCEPT ![c] = "current"]
    /\ UNCHANGED <<source_records, canonical_formats, assessment_changes>>

BeginSaveChanges(r) ==
  NextLoop(r, "save_claims", "save_changes", DetectedChanges(r))

SaveAssessmentChange(r) ==
  \E change \in todo[r] :
    /\ Writes(r, "save_changes", change)
    /\ assessment_changes' = assessment_changes \cup {change}
    /\ UNCHANGED <<source_records, canonical_formats, criterion_claims>>

(* The report is dated before the file exports are written. *)
Report(r) ==
  /\ pc[r] = "save_changes"
  /\ todo[r] = {}
  /\ finished_at' = [finished_at EXCEPT ![r] = clock]
  /\ Goto(r, "export")
  /\ UNCHANGED <<clock, store, source_status, raw_records, previous_registry,
                 seen_runs, active_records, todo>>

(* Omits the outcomes of the sources. *)
WrongFinish(r) ==
  /\ pc[r] = "export"
  /\ runs' = [runs EXCEPT ![r].status = "completed",
                          ![r].finished = finished_at[r]]
  /\ Exit(r, "done")
  /\ UNCHANGED <<clock, source_records, canonical_formats, criterion_claims,
                 assessment_changes, source_status, raw_records>>

(* The last write: the run's document now says what it acquired. *)
Finish(r) ==
  /\ pc[r] = "export"
  /\ runs' = [runs EXCEPT ![r].status = "completed",
                          ![r].finished = finished_at[r],
                          ![r].sources = source_status[r]]
  /\ Exit(r, "done")
  /\ UNCHANGED <<clock, source_records, canonical_formats, criterion_claims,
                 assessment_changes, source_status, raw_records>>

(* The process is killed, or a store call or an export raises. *)
Crash(r) ==
  /\ pc[r] \in Working
  /\ Die(r)
  /\ UNCHANGED <<clock, store>>

-----------------------------------------------------------------------------
SourceStep(r) ==
  \E s \in Source :
    \/ SourceSkipped(r, s)
    \/ SourceCompleted(r, s)
    \/ SourceUnavailable(r, s)
    \/ OptionalSourceFailed(r, s)
    \/ RequiredSourceFailed(r, s)

ReadRuns(r) == ReadRunIndex(r) \/ ReadRunDates(r) \/ ReadRunDocs(r)

PersistStep(r) ==
  \/ SaveSourceRecord(r)
  \/ BeginUpserts(r)
  \/ UpsertCanonicalFormat(r)
  \/ BeginRemovals(r)
  \/ MarkRemoved(r)
  \/ BeginClaims(r)
  \/ SupersedeClaim(r)
  \/ BeginSaveClaims(r)
  \/ SaveCriterionClaim(r)
  \/ BeginSaveChanges(r)
  \/ SaveAssessmentChange(r)

RunStep(r) ==
  \/ SourceStep(r)
  \/ ReadRuns(r)
  \/ ReadStoredRecords(r)
  \/ PersistStep(r)
  \/ Report(r)
  \/ Finish(r)

Next ==
  \/ Tick
  \/ \E r \in RunId : Start(r) \/ RunStep(r) \/ Crash(r)

Spec == Init /\ [][Next]_vars

(* A run that is neither killed nor finished goes on executing. *)
FairSpec == Spec /\ \A r \in RunId : WF_vars(RunStep(r))

-----------------------------------------------------------------------------
(* Properties.                                                             *)

(* What run r acquired from source s.                                      *)
Acquired(r, s) == {f \in Format : [source |-> s, format |-> f] \in raw_records[r]}

Acquisition(r, s) ==
  {[run |-> r, source |-> s, format |-> f] : f \in Acquired(r, s)}

StoredOf(records, r, s) ==
  {f \in Format : [run |-> r, source |-> s, format |-> f] \in records}

HasEvidence(r) == pc[r] \in Working \ Reading

TodoTypeOK(r) ==
  /\ pc[r] = "save_records" => todo[r] \subseteq StoredRecord
  /\ pc[r] \in {"upsert", "mark_removed"} => todo[r] \subseteq Format
  /\ pc[r] \in {"supersede", "save_claims"} => todo[r] \subseteq Mapped \X Format
  /\ pc[r] = "save_changes" => todo[r] \subseteq Change
  /\ pc[r] \notin Looping => todo[r] = {}

(* Every variable has its type; the loop variable has the type of the loop *)
(* the run is in.                                                          *)
TypeOK ==
  /\ clock \in Time
  /\ runs \in [RunId -> RunDoc]
  /\ source_records \subseteq StoredRecord
  /\ canonical_formats \in [Format -> CanonicalDoc]
  /\ criterion_claims \in [Source \X Format -> {"absent", "current", "superseded"}]
  /\ assessment_changes \subseteq Change
  /\ pc \in [RunId -> PC]
  /\ source_status \in [RunId -> [Source -> SourceStatus]]
  /\ raw_records \in [RunId -> SUBSET RawRecord]
  /\ previous_registry \in [RunId -> [Format -> CanonicalDoc]]
  /\ seen_runs \in [RunId -> SeenRuns]
  /\ active_records \in [RunId -> SUBSET StoredRecord]
  /\ finished_at \in [RunId -> Time]
  /\ \A r \in RunId : TodoTypeOK(r)
  /\ todo = [r \in RunId |-> todo[r]]

(* A run document that says a source was completed is only ever visible    *)
(* once every record of that acquisition is in the store, whatever other   *)
(* runs do and wherever runs die: the run document is the commit point.    *)
CommittedAcquisitionStored ==
  \A r \in RunId, s \in Source :
    runs[r].sources[s] = "completed" =>
      StoredOf(source_records, r, s) = Acquired(r, s)

(* The run whose acquisition of source s run r has to use.                 *)
Authority(r, s) ==
  IF s \in RefreshedSources(r) THEN r ELSE seen_runs[r].latest[s]

(* The evidence a run rebuilds the registry from holds, of each source     *)
(* that did not fail, exactly one whole acquisition: its own if it         *)
(* refreshed the source, else that of the authority it read.  A deleted    *)
(* upstream record is gone, and a half-stored acquisition is never used.   *)
EvidenceIsOneAcquisition ==
  \A r \in RunId, s \in Source :
    /\ HasEvidence(r)
    /\ Authority(r, s) # NoRun
    /\ source_status[r][s] # "failed"
    => {rec \in active_records[r] : rec.source = s}
         = Acquisition(Authority(r, s), s)

(* When a run is about to commit, the current registry is the one it       *)
(* rebuilt and nothing else, also after runs that died half way through    *)
(* replacing it.  Runs must not overlap for this.                          *)
PublishedRegistryIsWhole ==
  \A r \in RunId : pc[r] = "export" =>
    /\ CurrentIds(canonical_formats) = Registry(r)
    /\ \A f \in Registry(r) : canonical_formats[f].evidence = EvidenceFor(r, f)

(* The current claims of a rule that produced claims in the run about to   *)
(* commit are those claims: earlier ones, also those of a run that died    *)
(* while it was replacing them, are superseded.                            *)
ProducingRulesReplaced ==
  \A r \in RunId : pc[r] = "export" =>
    \A s \in Mapped :
      (\E c \in GeneratedClaims(r) : c[1] = s) =>
        {c \in {s} \X Format : criterion_claims[c] = "current"}
          = {c \in GeneratedClaims(r) : c[1] = s}

EventsOf(r) == {change \in assessment_changes : change.run = r}

(* The events tell of each affected format, or of a bulk change how many.  *)
TellChange(events, type, affected, before, after) ==
  LET single == {change \in events : change.type = type}
      bulk == {change \in events : /\ change.type = "source_coverage_changed"
                                   /\ change.collapsed = type}
  IN IF IsBulk(affected, before, after)
     THEN /\ single = {}
          /\ {change.affected : change \in bulk} = {Cardinality(affected)}
     ELSE /\ bulk = {}
          /\ {change.format : change \in single} = affected

(* What a run changes in the current view it says, and nothing else: when  *)
(* it is about to commit, the formats that entered the view it found, left *)
(* it or stayed with another document have one event each of that run for  *)
(* every change they underwent; or, where a change is as frequent as a     *)
(* bulk change, one event that tells how many formats underwent it and     *)
(* none on a single format.  A run that rebuilds an empty view has no      *)
(* events.  Views are those in the store, also where runs died between     *)
(* two writes of them.  Runs must not overlap for this.                    *)
ChangesAccountedFor ==
  \A r \in RunId : pc[r] = "export" =>
    LET before == CurrentIds(previous_registry[r])
        after  == CurrentIds(canonical_formats)
        was == [f \in Format |-> previous_registry[r][f].evidence]
        is  == [f \in Format |-> canonical_formats[f].evidence]
    IN IF before = {}
       THEN EventsOf(r) = {}
       ELSE \A type \in ChangeType :
              TellChange(EventsOf(r), type,
                         Affected(type, before, was, after, is), before, after)

(* The authority of source s according to one reading of the documents.    *)
CommittedRun(docs, s) == LatestRun(RunTimestamps(docs), docs, s)

(* The run documents and source records implement a register per source    *)
(* that changes atomically: SourceEvidence.                                *)
Evidence == INSTANCE SourceEvidence WITH
  acquired <- [r \in RunId |-> RefreshedSources(r)],
  batch <- [r \in RunId |-> [s \in Source |->
              IF s \in RefreshedSources(r) THEN Acquired(r, s) ELSE {}]],
  finished <- [r \in RunId |->
                 IF runs[r].status = "completed" THEN runs[r].finished ELSE -1],
  authority <- [s \in Source |-> CommittedRun(runs, s)],
  visible <- [s \in Source |->
                IF CommittedRun(runs, s) = NoRun THEN {}
                ELSE StoredOf(source_records, CommittedRun(runs, s), s)]

(* Between two commits no reader sees the evidence of a source move, and a *)
(* commit moves the evidence of all its sources at once.                   *)
EvidenceSwitchesAtomically == Evidence!Spec

(* A completed acquisition becomes the source's authority, or is overtaken *)
(* by a newer one, unless its run dies.                                    *)
AcquisitionBecomesAuthority ==
  \A r \in RunId, s \in Source :
    source_status[r][s] = "completed" ~>
      \/ pc[r] = "dead"
      \/ /\ runs[r].sources[s] = "completed"
         /\ ~Before(RunTimestamps(runs), CommittedRun(runs, s), r)

-----------------------------------------------------------------------------
(* A statement of the documentation that the code does not keep.           *)

(* When a run is about to commit, every current criterion claim rests on a *)
(* record of the active evidence.                                          *)
CurrentClaimsHaveEvidence ==
  \A r \in RunId : pc[r] = "export" =>
    \A c \in Mapped \X Format :
      criterion_claims[c] = "current" => c \in GeneratedClaims(r)

=============================================================================
