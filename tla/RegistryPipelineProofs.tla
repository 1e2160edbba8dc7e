----------------------- MODULE RegistryPipelineProofs -----------------------
(***************************************************************************)
(* Theorems about RegistryPipeline, for any number of sources, formats,    *)
(* runs and seconds, and whether or not runs overlap.                      *)
(***************************************************************************)
EXTENDS RegistryPipeline, FiniteSetTheorems, TLAPS

-----------------------------------------------------------------------------
(* What is read from the store has the type of what is in it.              *)

LEMMA StoredEvidenceType ==
  ASSUME NEW seen, NEW records, NEW s
  PROVE  StoredEvidence(seen, records, s) \subseteq {rec \in records : rec.source = s}
BY DEF StoredEvidence

LEMMA OwnRecordsType ==
  ASSUME TypeOK, NEW r \in RunId
  PROVE  OwnRecords(r) \subseteq StoredRecord
BY DEF OwnRecords, TypeOK, RawRecord, StoredRecord

LEMMA AffectedType ==
  ASSUME NEW type, NEW before \in SUBSET Format, NEW after \in SUBSET Format,
         NEW was, NEW is
  PROVE  Affected(type, before, was, after, is) \subseteq Format
BY DEF Affected

LEMMA ChangesOfTypeType ==
  ASSUME NEW r \in RunId, NEW type \in ChangeType,
         NEW affected \in SUBSET Format, NEW before, NEW after
  PROVE  ChangesOfType(r, type, affected, before, after) \subseteq Change
<1>1. Cardinality(affected) \in Nat
  BY ConstantsAssumption, FS_Subset, FS_CardinalityType
<1>. QED
  BY <1>1 DEF ChangesOfType, Change, FormatChange, BulkChange

LEMMA GeneratedTypes ==
  ASSUME TypeOK, NEW r \in RunId
  PROVE  /\ Registry(r) \subseteq Format
         /\ GeneratedClaims(r) \subseteq Mapped \X Format
         /\ SupersededClaims(r) \subseteq Mapped \X Format
         /\ DetectedChanges(r) \subseteq Change
<1>1. Registry(r) \subseteq Format
  BY DEF Registry
<1>2. /\ GeneratedClaims(r) \subseteq Mapped \X Format
      /\ SupersededClaims(r) \subseteq Mapped \X Format
  BY DEF GeneratedClaims, SupersededClaims
<1>3. CurrentIds(previous_registry[r]) \subseteq Format
  BY DEF CurrentIds
<1>4. DetectedChanges(r) \subseteq Change
  <2>. DEFINE before == CurrentIds(previous_registry[r])
              was == [f \in Format |-> previous_registry[r][f].evidence]
              is == [f \in Format |-> EvidenceFor(r, f)]
              affected(t) == Affected(t, before, was, Registry(r), is)
              ofType(t) == ChangesOfType(r, t, affected(t), before, Registry(r))
  <2>1. ASSUME NEW t \in ChangeType PROVE ofType(t) \subseteq Change
    <3>1. affected(t) \in SUBSET Format
      BY <1>1, <1>3, AffectedType
    <3>. QED
      BY <3>1, ChangesOfTypeType
  <2>2. DetectedChanges(r) \subseteq UNION {ofType(t) : t \in ChangeType}
    BY DEF DetectedChanges
  <2>. HIDE DEF ofType
  <2>. QED
    BY <2>1, <2>2
<1>. QED
  BY <1>1, <1>2, <1>4

LEMMA TimestampsType ==
  ASSUME NEW docs \in [RunId -> RunDoc]
  PROVE  RunTimestamps(docs) \in RunDates
BY DEF RunTimestamps, RunDates, RunDoc

LEMMA EmptyTypes ==
  /\ NoRunDocs \in [RunId -> RunDoc]
  /\ NoDates \in RunDates
  /\ NothingSeen \in SeenRuns
  /\ NoRegistry \in [Format -> CanonicalDoc]
BY ConstantsAssumption
   DEF NoRunDocs, RunDoc, SourceStatus, Time, NoDates, RunDates, NothingSeen,
       SeenRuns, NoRegistry, CanonicalDoc

LEMMA LatestRunCompleted ==
  ASSUME NEW dates, NEW docs, NEW s, LatestRun(dates, docs, s) # NoRun
  PROVE  /\ LatestRun(dates, docs, s) \in RunId
         /\ docs[LatestRun(dates, docs, s)].sources[s] = "completed"
BY DEF LatestRun

LEMMA RunDocUpdates ==
  ASSUME NEW docs \in [RunId -> RunDoc], NEW r \in RunId, NEW t \in Time,
         NEW outcomes \in [Source -> SourceStatus]
  PROVE  /\ [docs EXCEPT ![r].status = "running", ![r].started = t]
              \in [RunId -> RunDoc]
         /\ [docs EXCEPT ![r].status = "completed", ![r].finished = t,
                         ![r].sources = outcomes] \in [RunId -> RunDoc]
BY DEF RunDoc

LEMMA CanonicalRemoved ==
  ASSUME NEW doc \in CanonicalDoc
  PROVE  [doc EXCEPT !.state = "removed"] \in CanonicalDoc
BY DEF CanonicalDoc

(* A reading of the run documents: r goes on to the next one.              *)
LEMMA ReadRunsEffect ==
  ASSUME TypeOK, NEW r \in RunId, ReadRuns(r)
  PROVE  /\ pc[r] \in {"acquire", "index", "dates"}
         /\ pc'[r] \in {"index", "dates", "reuse"}
         /\ pc' \in [RunId -> PC]
         /\ \A q \in RunId \ {r} : pc'[q] = pc[q]
         /\ seen_runs' \in [RunId -> SeenRuns]
         /\ \A q \in RunId \ {r} : seen_runs'[q] = seen_runs[q]
         /\ \A s \in Source :
              seen_runs'[r].latest[s] \in {seen_runs[r].latest[s],
                                           LatestRun(seen_runs[r].dates, runs, s)}
         /\ UNCHANGED <<clock, runs, source_records, canonical_formats,
                        criterion_claims, assessment_changes, source_status,
                        raw_records, previous_registry, active_records, todo,
                        finished_at>>
<1>1. seen_runs \in [RunId -> SeenRuns] /\ RunTimestamps(runs) \in RunDates
  BY TimestampsType DEF TypeOK
<1>2. ASSUME NEW label \in {"acquire", "index", "dates"},
             NEW next \in {"index", "dates", "reuse"}, NEW seen \in SeenRuns,
             ReadsRuns(r, label, next, seen)
      PROVE  /\ pc[r] \in {"acquire", "index", "dates"}
             /\ pc'[r] = next
             /\ pc' \in [RunId -> PC]
             /\ \A q \in RunId \ {r} : pc'[q] = pc[q]
             /\ seen_runs' \in [RunId -> SeenRuns]
             /\ seen_runs'[r] = seen
             /\ \A q \in RunId \ {r} : seen_runs'[q] = seen_runs[q]
             /\ UNCHANGED <<clock, runs, source_records, canonical_formats,
                            criterion_claims, assessment_changes, source_status,
                            raw_records, previous_registry, active_records, todo,
                            finished_at>>
  <2>1. /\ pc[r] \in {"acquire", "index", "dates"}
        /\ pc'[r] = next
        /\ pc' \in [RunId -> PC]
        /\ \A q \in RunId \ {r} : pc'[q] = pc[q]
    BY <1>2 DEF ReadsRuns, Goto, TypeOK, PC, Working, Reading
  <2>. QED
    BY <1>1, <1>2, <2>1 DEF ReadsRuns, store
<1>3. CASE ReadRunIndex(r)
  <2>. DEFINE seen == [seen_runs[r] EXCEPT !.index = RunTimestamps(runs)]
  <2>1. seen \in SeenRuns /\ seen.latest = seen_runs[r].latest
    BY <1>1 DEF SeenRuns
  <2>2. ReadsRuns(r, "acquire", "index", seen)
    BY <1>3 DEF ReadRunIndex
  <2>. HIDE DEF seen
  <2>. QED
    BY <1>2, <2>1, <2>2
<1>4. CASE ReadRunDates(r)
  <2>. DEFINE seen == [seen_runs[r] EXCEPT !.dates = RunTimestamps(runs)]
  <2>1. seen \in SeenRuns /\ seen.latest = seen_runs[r].latest
    BY <1>1 DEF SeenRuns
  <2>2. ReadsRuns(r, "index", "dates", seen)
    BY <1>4 DEF ReadRunDates
  <2>. HIDE DEF seen
  <2>. QED
    BY <1>2, <2>1, <2>2
<1>5. CASE ReadRunDocs(r)
  <2>. DEFINE latest == [s \in Source |-> LatestRun(seen_runs[r].dates, runs, s)]
              seen == [seen_runs[r] EXCEPT !.dates = NoDates, !.latest = latest]
  <2>1. latest \in [Source -> RunId \cup {NoRun}]
    BY LatestRunCompleted
  <2>2. seen \in SeenRuns /\ seen.latest = latest
    <3>. HIDE DEF latest
    <3>. QED
      BY <1>1, <2>1, EmptyTypes DEF SeenRuns
  <2>3. ReadsRuns(r, "dates", "reuse", seen)
    BY <1>5 DEF ReadRunDocs
  <2>4. \A s \in Source : latest[s] = LatestRun(seen_runs[r].dates, runs, s)
    OBVIOUS
  <2>. HIDE DEF seen, latest
  <2>. QED
    BY <1>2, <2>2, <2>3, <2>4
<1>. QED
  BY <1>3, <1>4, <1>5 DEF ReadRuns

-----------------------------------------------------------------------------
LEMMA TypeInit == Init => TypeOK
BY ConstantsAssumption, EmptyTypes
   DEF Init, TypeOK, TodoTypeOK, Looping, Working, Reading, PC, SourceStatus, Time

(* Leaving the process, as Finish does and as a run that dies does.        *)
LEMMA ExitType ==
  ASSUME TypeOK, NEW r \in RunId, NEW label \in {"done", "dead"}, Exit(r, label)
  PROVE  /\ pc' \in [RunId -> PC]
         /\ previous_registry' \in [RunId -> [Format -> CanonicalDoc]]
         /\ seen_runs' \in [RunId -> SeenRuns]
         /\ active_records' \in [RunId -> SUBSET StoredRecord]
         /\ finished_at' \in [RunId -> Time]
         /\ \A q \in RunId : TodoTypeOK(q)'
         /\ todo' = [q \in RunId |-> todo'[q]]
<1>1. 0 \in Time
  BY ConstantsAssumption DEF Time
<1>2. label \in PC /\ label \notin Looping /\ label \notin Working
  BY DEF PC, Looping, Working, Reading
<1>. QED
  BY <1>1, <1>2, EmptyTypes DEF TypeOK, TodoTypeOK, Looping, Working, Reading, Exit, Goto

LEMMA DieType ==
  ASSUME TypeOK, NEW r \in RunId, Die(r), UNCHANGED <<clock, store>>
  PROVE  TypeOK'
<1>1. Exit(r, "dead")
  BY DEF Die
<1>. QED
  BY <1>1, ExitType DEF TypeOK, Die, store, SourceStatus

(* A loop that goes on, and a loop that hands over to the next one.        *)
LEMMA WritesType ==
  ASSUME TypeOK, NEW r \in RunId, NEW label, NEW item, Writes(r, label, item),
         source_records' \subseteq StoredRecord,
         canonical_formats' \in [Format -> CanonicalDoc],
         criterion_claims' \in [Source \X Format -> {"absent", "current", "superseded"}],
         assessment_changes' \subseteq Change
  PROVE  TypeOK'
<1>1. \A q \in RunId : TodoTypeOK(q)'
  BY DEF TypeOK, TodoTypeOK, Writes
<1>. QED
  BY <1>1 DEF TypeOK, Writes, local

LEMMA NextLoopType ==
  ASSUME TypeOK, NEW r \in RunId, NEW label, NEW next \in Looping, NEW items,
         NextLoop(r, label, next, items),
         \/ next \in {"upsert", "mark_removed"} /\ items \subseteq Format
         \/ next \in {"supersede", "save_claims"} /\ items \subseteq Mapped \X Format
         \/ next = "save_changes" /\ items \subseteq Change
  PROVE  TypeOK'
<1>1. next \in PC
  BY DEF Working, PC
<1>2. \A q \in RunId : TodoTypeOK(q)'
  BY DEF TypeOK, TodoTypeOK, NextLoop, Goto, Looping, Working, Reading
<1>. QED
  BY <1>1, <1>2 DEF TypeOK, NextLoop, Goto, store, local

(* Every action preserves the types.                                       *)
LEMMA TypeStep == TypeOK /\ [Next]_vars => TypeOK'
<1>. SUFFICES ASSUME TypeOK, [Next]_vars PROVE TypeOK'
  OBVIOUS
<1>1. CASE Tick
  BY <1>1, ConstantsAssumption DEF Tick, TypeOK, TodoTypeOK, Time, store, local
<1>2. ASSUME NEW r \in RunId, Start(r) PROVE TypeOK'
  <2>1. runs' \in [RunId -> RunDoc]
    BY <1>2, RunDocUpdates DEF Start, TypeOK
  <2>2. \A q \in RunId : TodoTypeOK(q)'
    BY <1>2 DEF Start, Goto, TypeOK, TodoTypeOK, Looping, Working, Reading
  <2>. QED
    BY <1>2, <2>1, <2>2 DEF Start, Goto, TypeOK, PC, Working, Looping, Reading
<1>3. ASSUME NEW r \in RunId, NEW s \in Source, NEW status \in SourceStatus,
             NEW formats \in SUBSET Format,
             SourceOutcome(r, s, status, formats), UNCHANGED pc
      PROVE  TypeOK'
  <2>1. source_status' \in [RunId -> [Source -> SourceStatus]]
    BY <1>3 DEF SourceOutcome, TypeOK
  <2>2. raw_records' \in [RunId -> SUBSET RawRecord]
    BY <1>3 DEF SourceOutcome, TypeOK, RawRecord
  <2>. QED
    BY <1>3, <2>1, <2>2 DEF SourceOutcome, TypeOK, TodoTypeOK, store
<1>4. ASSUME NEW r \in RunId, SourceStep(r) PROVE TypeOK'
  BY <1>3, <1>4, DieType
     DEF SourceStep, SourceSkipped, SourceCompleted, SourceUnavailable,
         OptionalSourceFailed, RequiredSourceFailed, SourceStatus
<1>5. ASSUME NEW r \in RunId, ReadRuns(r) PROVE TypeOK'
  <2>1. \A q \in RunId : TodoTypeOK(q)'
    BY <1>5, ReadRunsEffect DEF TypeOK, TodoTypeOK, Looping
  <2>. QED
    BY <1>5, <2>1, ReadRunsEffect DEF TypeOK
<1>6. ASSUME NEW r \in RunId, ReadStoredRecords(r) PROVE TypeOK'
  <2>1. active_records' \in [RunId -> SUBSET StoredRecord]
    <3>1. UNION {StoredEvidence(seen_runs[r], source_records, s) :
                   s \in Source \ RefreshedSources(r)} \subseteq StoredRecord
      BY StoredEvidenceType DEF TypeOK
    <3>. QED
      BY <1>6, <3>1, OwnRecordsType DEF ReadStoredRecords, TypeOK
  <2>2. \A q \in RunId : TodoTypeOK(q)'
    BY <1>6, OwnRecordsType
       DEF ReadStoredRecords, Goto, TypeOK, TodoTypeOK, Looping, Working, Reading
  <2>3. seen_runs' \in [RunId -> SeenRuns]
    <3>1. NoDates \in RunDates
      BY EmptyTypes
    <3>2. seen_runs \in [RunId -> SeenRuns]
      BY DEF TypeOK
    <3>. QED
      BY <1>6, <3>1, <3>2 DEF ReadStoredRecords, SeenRuns
  <2>. QED
    BY <1>6, <2>1, <2>2, <2>3
       DEF ReadStoredRecords, Goto, TypeOK, PC, Working, Looping, Reading, store
<1>7. ASSUME NEW r \in RunId, PersistStep(r) PROVE TypeOK'
  <2>1. CASE SaveSourceRecord(r)
    BY <2>1, WritesType DEF SaveSourceRecord, Writes, TypeOK, TodoTypeOK
  <2>2. CASE BeginUpserts(r)
    BY <2>2, NextLoopType, GeneratedTypes DEF BeginUpserts, Looping, Working, Reading
  <2>3. CASE UpsertCanonicalFormat(r)
    <3>. PICK f \in todo[r] : /\ Writes(r, "upsert", f)
                              /\ canonical_formats' = [canonical_formats EXCEPT
                                   ![f] = [state |-> "current", evidence |-> EvidenceFor(r, f)]]
                              /\ UNCHANGED <<source_records, criterion_claims, assessment_changes>>
      BY <2>3 DEF UpsertCanonicalFormat
    <3>1. [state |-> "current", evidence |-> EvidenceFor(r, f)] \in CanonicalDoc
      BY DEF EvidenceFor, TypeOK, CanonicalDoc
    <3>. QED
      BY <3>1, WritesType DEF TypeOK
  <2>4. CASE BeginRemovals(r)
    BY <2>4, NextLoopType DEF BeginRemovals, CurrentIds, Looping, Working, Reading
  <2>5. CASE MarkRemoved(r)
    <3>. PICK f \in todo[r] : /\ Writes(r, "mark_removed", f)
                              /\ canonical_formats' = [canonical_formats EXCEPT
                                   ![f] = [previous_registry[r][f] EXCEPT !.state = "removed"]]
                              /\ UNCHANGED <<source_records, criterion_claims, assessment_changes>>
      BY <2>5 DEF MarkRemoved
    <3>1. f \in Format
      BY DEF Writes, TypeOK, TodoTypeOK
    <3>2. [previous_registry[r][f] EXCEPT !.state = "removed"] \in CanonicalDoc
      BY <3>1, CanonicalRemoved DEF TypeOK
    <3>. QED
      BY <3>2, WritesType DEF TypeOK
  <2>6. CASE BeginClaims(r)
    BY <2>6, NextLoopType, GeneratedTypes DEF BeginClaims, Looping, Working, Reading
  <2>7. CASE SupersedeClaim(r)
    BY <2>7, WritesType DEF SupersedeClaim, TypeOK
  <2>8. CASE BeginSaveClaims(r)
    BY <2>8, NextLoopType, GeneratedTypes DEF BeginSaveClaims, Looping, Working, Reading
  <2>9. CASE SaveCriterionClaim(r)
    BY <2>9, WritesType DEF SaveCriterionClaim, TypeOK
  <2>10. CASE BeginSaveChanges(r)
    BY <2>10, NextLoopType, GeneratedTypes DEF BeginSaveChanges, Looping, Working, Reading
  <2>11. CASE SaveAssessmentChange(r)
    BY <2>11, WritesType DEF SaveAssessmentChange, Writes, TypeOK, TodoTypeOK
  <2>. QED
    BY <1>7, <2>1, <2>2, <2>3, <2>4, <2>5, <2>6, <2>7, <2>8, <2>9, <2>10, <2>11
       DEF PersistStep
<1>8. ASSUME NEW r \in RunId, Report(r) PROVE TypeOK'
  <2>1. \A q \in RunId : TodoTypeOK(q)'
    BY <1>8 DEF Report, Goto, TypeOK, TodoTypeOK, Looping, Working, Reading
  <2>. QED
    BY <1>8, <2>1 DEF Report, Goto, TypeOK, PC, Working, Looping, Reading, store
<1>9. ASSUME NEW r \in RunId, Finish(r) PROVE TypeOK'
  <2>1. runs' \in [RunId -> RunDoc]
    BY <1>9, RunDocUpdates DEF Finish, TypeOK
  <2>2. Exit(r, "done")
    BY <1>9 DEF Finish
  <2>. QED
    BY <1>9, <2>1, <2>2, ExitType DEF Finish, TypeOK
<1>10. ASSUME NEW r \in RunId, Crash(r) PROVE TypeOK'
  BY <1>10, DieType DEF Crash
<1>11. CASE UNCHANGED vars
  BY <1>11 DEF vars, store, local, TypeOK, TodoTypeOK
<1>. QED
  BY <1>1, <1>2, <1>4, <1>5, <1>6, <1>7, <1>8, <1>9, <1>10, <1>11 DEF Next, RunStep

(* Types, at every step of every run: in particular the loop variable of a *)
(* run that moves on to its next loop holds items of that loop only.       *)
THEOREM TypeCorrect == Spec => []TypeOK
BY TypeInit, TypeStep, PTL DEF Spec

-----------------------------------------------------------------------------
(* Why a committed acquisition is stored.  The invariant follows the       *)
(* records of run r from raw_records through the loop that saves them to   *)
(* the run document: nobody else writes records of r, the loop accounts    *)
(* for each of them, and only a run that is past the loop commits.         *)

RecordsOf(r) == {rec \in source_records : rec.run = r}

RecordsFollowed(r) ==
  /\ pc[r] # "dead" => RecordsOf(r) \subseteq OwnRecords(r)
  /\ pc[r] = "save_records" =>
       /\ todo[r] \subseteq OwnRecords(r)
       /\ OwnRecords(r) \subseteq source_records \cup todo[r]
  /\ pc[r] \in {"upsert", "mark_removed", "supersede", "save_claims",
                "save_changes", "export", "done"}
       => OwnRecords(r) \subseteq source_records
  /\ \A s \in Source : runs[r].sources[s] = "completed" => pc[r] = "done"

AcquisitionInv == \A r \in RunId : RecordsFollowed(r)

LEMMA AcquisitionInvImplies ==
  TypeOK /\ AcquisitionInv => CommittedAcquisitionStored
<1>. SUFFICES ASSUME TypeOK, AcquisitionInv, NEW r \in RunId, NEW s \in Source,
                     runs[r].sources[s] = "completed"
              PROVE  StoredOf(source_records, r, s) = Acquired(r, s)
  BY DEF CommittedAcquisitionStored
<1>1. OwnRecords(r) \subseteq source_records /\ RecordsOf(r) \subseteq OwnRecords(r)
  BY DEF AcquisitionInv, RecordsFollowed
<1>2. ASSUME NEW f \in Format
      PROVE  [run |-> r, source |-> s, format |-> f] \in OwnRecords(r)
               <=> [source |-> s, format |-> f] \in raw_records[r]
  <2>1. ASSUME NEW rec \in raw_records[r], rec.source = s, rec.format = f
        PROVE  rec = [source |-> s, format |-> f]
    BY <2>1 DEF TypeOK, RawRecord
  <2>2. ASSUME NEW rec \in raw_records[r],
               [run |-> r, source |-> s, format |-> f]
                 = [run |-> r, source |-> rec.source, format |-> rec.format]
        PROVE  rec.source = s /\ rec.format = f
    BY <2>2
  <2>. QED
    BY <2>1, <2>2 DEF OwnRecords
<1>3. ASSUME NEW rec, rec.run = r
      PROVE  rec \in OwnRecords(r) <=> rec \in source_records
  BY <1>1, <1>3 DEF RecordsOf
<1>. QED
  BY <1>2, <1>3 DEF StoredOf, Acquired

(* A step in which q takes no part, and that stores no record of q.        *)
LEMMA RecordsFrame ==
  ASSUME NEW q, RecordsFollowed(q),
         pc'[q] = pc[q], todo'[q] = todo[q], raw_records'[q] = raw_records[q],
         runs'[q].sources = runs[q].sources,
         source_records \subseteq source_records',
         \A rec \in source_records' : rec.run = q => rec \in source_records
  PROVE  RecordsFollowed(q)'
BY DEF RecordsFollowed, RecordsOf, OwnRecords

LEMMA AcquisitionInit == Init => AcquisitionInv
BY DEF Init, AcquisitionInv, RecordsFollowed, RecordsOf, OwnRecords, NoRunDocs

LEMMA AcquisitionDie ==
  ASSUME TypeOK, AcquisitionInv, NEW r \in RunId, pc[r] # "done", Die(r),
         UNCHANGED <<clock, store>>
  PROVE  AcquisitionInv'
<1>1. RecordsFollowed(r)'
  BY DEF AcquisitionInv, RecordsFollowed, Die, Exit, Goto, TypeOK, store
<1>2. ASSUME NEW q \in RunId, q # r PROVE RecordsFollowed(q)'
  BY <1>2, RecordsFrame DEF AcquisitionInv, Die, Exit, Goto, TypeOK, store
<1>. QED
  BY <1>1, <1>2 DEF AcquisitionInv

LEMMA AcquisitionStep == TypeOK /\ AcquisitionInv /\ [Next]_vars => AcquisitionInv'
<1>. SUFFICES ASSUME TypeOK, AcquisitionInv, [Next]_vars PROVE AcquisitionInv'
  OBVIOUS
<1>1. CASE Tick \/ UNCHANGED vars
  BY <1>1, RecordsFrame DEF Tick, vars, store, local, AcquisitionInv
<1>2. ASSUME NEW r \in RunId, Start(r) PROVE AcquisitionInv'
  <2>1. \A q \in RunId : runs'[q].sources = runs[q].sources
    BY <1>2 DEF Start, TypeOK, RunDoc
  <2>2. RecordsFollowed(r)'
    BY <1>2, <2>1 DEF Start, Goto, TypeOK, AcquisitionInv, RecordsFollowed,
                      RecordsOf, OwnRecords
  <2>3. ASSUME NEW q \in RunId, q # r PROVE RecordsFollowed(q)'
    BY <1>2, <2>1, <2>3, RecordsFrame DEF Start, Goto, TypeOK, AcquisitionInv
  <2>. QED
    BY <2>2, <2>3 DEF AcquisitionInv
<1>3. ASSUME NEW r \in RunId, NEW s \in Source, NEW status, NEW formats,
             SourceOutcome(r, s, status, formats), UNCHANGED pc
      PROVE  AcquisitionInv'
  <2>1. raw_records[r] \subseteq raw_records'[r]
    BY <1>3 DEF SourceOutcome, TypeOK
  <2>2. OwnRecords(r) \subseteq OwnRecords(r)'
    BY <2>1 DEF OwnRecords
  <2>3. RecordsFollowed(r)'
    BY <1>3, <2>2 DEF SourceOutcome, AcquisitionInv, RecordsFollowed, RecordsOf, store
  <2>4. ASSUME NEW q \in RunId, q # r PROVE RecordsFollowed(q)'
    BY <1>3, <2>4, RecordsFrame DEF SourceOutcome, TypeOK, AcquisitionInv, store
  <2>. QED
    BY <2>3, <2>4 DEF AcquisitionInv
<1>4. ASSUME NEW r \in RunId, SourceStep(r) PROVE AcquisitionInv'
  BY <1>3, <1>4, AcquisitionDie
     DEF SourceStep, SourceSkipped, SourceCompleted, SourceUnavailable,
         OptionalSourceFailed, RequiredSourceFailed
<1>5. ASSUME NEW r \in RunId, ReadRuns(r) \/ ReadStoredRecords(r) \/ Report(r)
      PROVE  AcquisitionInv'
  <2>0. OwnRecords(r)' = OwnRecords(r) /\ RecordsOf(r)' = RecordsOf(r)
    BY <1>5, ReadRunsEffect DEF ReadStoredRecords, Report, RecordsOf, OwnRecords, store
  <2>1. RecordsFollowed(r)'
    <3>1. CASE ReadRuns(r)
      BY <3>1, <2>0, ReadRunsEffect DEF AcquisitionInv, RecordsFollowed
    <3>2. CASE ReadStoredRecords(r)
      BY <3>2, <2>0 DEF ReadStoredRecords, Goto, TypeOK, AcquisitionInv,
                        RecordsFollowed, store
    <3>3. CASE Report(r)
      BY <3>3, <2>0 DEF Report, Goto, TypeOK, AcquisitionInv, RecordsFollowed, store
    <3>. QED
      BY <1>5, <3>1, <3>2, <3>3
  <2>2. ASSUME NEW q \in RunId, q # r PROVE RecordsFollowed(q)'
    BY <1>5, <2>2, RecordsFrame, ReadRunsEffect
       DEF ReadStoredRecords, Report, Goto, TypeOK, AcquisitionInv, store
  <2>. QED
    BY <2>1, <2>2 DEF AcquisitionInv
<1>6. ASSUME NEW r \in RunId, SaveSourceRecord(r) PROVE AcquisitionInv'
  <2>. PICK rec \in todo[r] : /\ Writes(r, "save_records", rec)
                              /\ source_records' = source_records \cup {rec}
    BY <1>6 DEF SaveSourceRecord
  <2>1. rec \in OwnRecords(r) /\ rec.run = r
    BY DEF Writes, AcquisitionInv, RecordsFollowed, OwnRecords
  <2>2. RecordsFollowed(r)'
    BY <2>1 DEF Writes, TypeOK, AcquisitionInv, RecordsFollowed, RecordsOf,
                OwnRecords, local
  <2>3. ASSUME NEW q \in RunId, q # r PROVE RecordsFollowed(q)'
    BY <2>1, <2>3, RecordsFrame DEF Writes, TypeOK, AcquisitionInv, local
  <2>. QED
    BY <2>2, <2>3 DEF AcquisitionInv
<1>7. ASSUME NEW r \in RunId, NEW label, NEW item, Writes(r, label, item),
             label # "save_records", UNCHANGED source_records
      PROVE  AcquisitionInv'
  <2>1. RecordsFollowed(r)'
    BY <1>7 DEF Writes, AcquisitionInv, RecordsFollowed, RecordsOf, OwnRecords, local
  <2>2. ASSUME NEW q \in RunId, q # r PROVE RecordsFollowed(q)'
    BY <1>7, <2>2, RecordsFrame DEF Writes, TypeOK, AcquisitionInv, local
  <2>. QED
    BY <2>1, <2>2 DEF AcquisitionInv
<1>8. ASSUME NEW r \in RunId, NEW label \in Looping, NEW next, NEW items,
             next \in {"upsert", "mark_removed", "supersede", "save_claims", "save_changes"},
             NextLoop(r, label, next, items)
      PROVE  AcquisitionInv'
  <2>1. RecordsFollowed(r)'
    BY <1>8 DEF NextLoop, Goto, TypeOK, Looping, Working, Reading, AcquisitionInv,
                RecordsFollowed, RecordsOf, OwnRecords, store, local
  <2>2. ASSUME NEW q \in RunId, q # r PROVE RecordsFollowed(q)'
    BY <1>8, <2>2, RecordsFrame DEF NextLoop, Goto, TypeOK, AcquisitionInv, store, local
  <2>. QED
    BY <2>1, <2>2 DEF AcquisitionInv
<1>9. ASSUME NEW r \in RunId, PersistStep(r) PROVE AcquisitionInv'
  <2>1. CASE \/ UpsertCanonicalFormat(r) \/ MarkRemoved(r) \/ SupersedeClaim(r)
             \/ SaveCriterionClaim(r) \/ SaveAssessmentChange(r)
    BY <1>7, <2>1 DEF UpsertCanonicalFormat, MarkRemoved, SupersedeClaim,
                      SaveCriterionClaim, SaveAssessmentChange
  <2>2. CASE \/ BeginUpserts(r) \/ BeginRemovals(r) \/ BeginClaims(r)
             \/ BeginSaveClaims(r) \/ BeginSaveChanges(r)
    BY <1>8, <2>2 DEF BeginUpserts, BeginRemovals, BeginClaims, BeginSaveClaims,
                      BeginSaveChanges, Looping, Working, Reading
  <2>. QED
    BY <1>6, <1>9, <2>1, <2>2 DEF PersistStep
<1>10. ASSUME NEW r \in RunId, Finish(r) PROVE AcquisitionInv'
  <2>1. pc'[r] = "done" /\ UNCHANGED <<source_records, raw_records>>
    BY <1>10 DEF Finish, Exit, Goto, TypeOK
  <2>2. RecordsFollowed(r)'
    BY <1>10, <2>1 DEF Finish, AcquisitionInv, RecordsFollowed, RecordsOf, OwnRecords
  <2>3. ASSUME NEW q \in RunId, q # r PROVE RecordsFollowed(q)'
    BY <1>10, <2>1, <2>3, RecordsFrame DEF Finish, Exit, Goto, TypeOK, AcquisitionInv
  <2>. QED
    BY <2>2, <2>3 DEF AcquisitionInv
<1>11. ASSUME NEW r \in RunId, Crash(r) PROVE AcquisitionInv'
  BY <1>11, AcquisitionDie DEF Crash, Working, Looping, Reading
<1>. QED
  BY <1>1, <1>2, <1>4, <1>5, <1>9, <1>10, <1>11 DEF Next, RunStep

(* A run document never says a source was completed before every record of *)
(* that acquisition is stored, whatever overlaps it and wherever runs die. *)
THEOREM CommittedStored == Spec => []CommittedAcquisitionStored
<1>1. TypeOK /\ AcquisitionInv /\ [Next]_vars => (TypeOK /\ AcquisitionInv)'
  BY TypeStep, AcquisitionStep
<1>. QED
  BY <1>1, TypeInit, AcquisitionInit, AcquisitionInvImplies, PTL DEF Spec

-----------------------------------------------------------------------------
(* Why the evidence of a source is one whole acquisition.  What a run      *)
(* reads is right because the authority it read has committed (above); it  *)
(* stays right because a committed run acquires no more.                   *)

EvidenceSound(r) ==
  /\ \A rec \in raw_records[r] :
       source_status[r][rec.source] \in {"completed", "failed"}
  /\ \A s \in Source :
       seen_runs[r].latest[s] # NoRun =>
         runs[seen_runs[r].latest[s]].sources[s] = "completed"
  /\ \A s \in Source :
       /\ HasEvidence(r)
       /\ Authority(r, s) # NoRun
       /\ source_status[r][s] # "failed"
       => {rec \in active_records[r] : rec.source = s}
            = Acquisition(Authority(r, s), s)

EvidenceInv == \A r \in RunId : EvidenceSound(r)

(* The records of one source in an acquisition and in the store.           *)
LEMMA OwnRecordsOfSource ==
  ASSUME TypeOK, NEW r \in RunId, NEW s \in Source
  PROVE  {rec \in OwnRecords(r) : rec.source = s}
           = Acquisition(r, s)
<1>1. ASSUME NEW raw \in raw_records[r], raw.source = s
      PROVE  raw.format \in Acquired(r, s)
  <2>1. raw = [source |-> s, format |-> raw.format] /\ raw.format \in Format
    BY <1>1 DEF TypeOK, RawRecord
  <2>. QED
    BY <2>1 DEF Acquired
<1>2. ASSUME NEW f \in Acquired(r, s)
      PROVE  [run |-> r, source |-> s, format |-> f] \in OwnRecords(r)
  <2>. DEFINE raw == [source |-> s, format |-> f]
  <2>1. raw \in raw_records[r] /\ raw.source = s /\ raw.format = f
    BY DEF Acquired
  <2>. QED
    BY <2>1 DEF OwnRecords
<1>3. ASSUME NEW rec \in OwnRecords(r), rec.source = s
      PROVE  \E f \in Acquired(r, s) : rec = [run |-> r, source |-> s, format |-> f]
  <2>. PICK raw \in raw_records[r] :
              rec = [run |-> r, source |-> raw.source, format |-> raw.format]
    BY DEF OwnRecords
  <2>1. raw.source = s
    BY <1>3
  <2>. QED
    BY <1>1, <2>1
<1>. QED
  BY <1>2, <1>3 DEF Acquisition

LEMMA StoredRecordsOfSource ==
  ASSUME TypeOK, CommittedAcquisitionStored, NEW a \in RunId, NEW s \in Source,
         runs[a].sources[s] = "completed"
  PROVE  {rec \in source_records : rec.source = s /\ rec.run = a}
           = Acquisition(a, s)
<1>1. StoredOf(source_records, a, s) = Acquired(a, s)
  BY DEF CommittedAcquisitionStored
<1>2. ASSUME NEW rec \in source_records, rec.source = s, rec.run = a
      PROVE  \E f \in StoredOf(source_records, a, s) :
               rec = [run |-> a, source |-> s, format |-> f]
  <2>1. rec = [run |-> a, source |-> s, format |-> rec.format] /\ rec.format \in Format
    BY <1>2 DEF TypeOK, StoredRecord
  <2>. QED
    BY <2>1 DEF StoredOf
<1>3. ASSUME NEW f \in StoredOf(source_records, a, s)
      PROVE  [run |-> a, source |-> s, format |-> f] \in source_records
  BY DEF StoredOf
<1>. QED
  BY <1>1, <1>2, <1>3 DEF Acquisition

(* A step in which q takes no part: what it holds and what its authorities *)
(* acquired stay the same.                                                 *)
LEMMA EvidenceFrame ==
  ASSUME TypeOK, AcquisitionInv, NEW q \in RunId, EvidenceSound(q),
         HasEvidence(q)' => HasEvidence(q),
         source_status'[q] = source_status[q], raw_records'[q] = raw_records[q],
         seen_runs'[q] = seen_runs[q], active_records'[q] = active_records[q],
         \A p \in RunId : pc[p] = "done" => raw_records'[p] = raw_records[p],
         \A p \in RunId, s \in Source :
           runs[p].sources[s] = "completed" => runs'[p].sources[s] = "completed"
  PROVE  EvidenceSound(q)'
<1>1. RefreshedSources(q)' = RefreshedSources(q)
  BY DEF RefreshedSources
<1>2. \A s \in Source : Authority(q, s)' = Authority(q, s)
  BY <1>1 DEF Authority
<1>3. ASSUME NEW s \in Source, Authority(q, s) # NoRun
      PROVE  Acquisition(Authority(q, s), s)' = Acquisition(Authority(q, s), s)
  <2>1. CASE s \in RefreshedSources(q)
    BY <2>1, <1>2 DEF Authority, Acquired, Acquisition
  <2>2. CASE s \notin RefreshedSources(q)
    <3>. DEFINE a == seen_runs[q].latest[s]
    <3>1. a = Authority(q, s)
      BY <2>2 DEF Authority
    <3>2. a \in RunId /\ runs[a].sources[s] = "completed"
      BY <1>3, <3>1 DEF EvidenceSound, TypeOK, SeenRuns
    <3>3. pc[a] = "done"
      BY <3>2 DEF EvidenceSound, AcquisitionInv, RecordsFollowed
    <3>4. raw_records'[a] = raw_records[a]
      BY <3>2, <3>3
    <3>5. Authority(q, s)' = a
      BY <1>2, <3>1
    <3>. HIDE DEF a
    <3>6. Acquisition(Authority(q, s), s)' = Acquisition(a, s)
      <4>1. Acquisition(Authority(q, s), s)' =
              {[run |-> a, source |-> s, format |-> f] :
                 f \in {g \in Format : [source |-> s, format |-> g] \in raw_records'[a]}}
        BY <3>5 DEF Acquired, Acquisition
      <4>. QED
        BY <3>4, <4>1 DEF Acquired, Acquisition
    <3>. QED
      BY <3>1, <3>6
  <2>. QED
    BY <2>1, <2>2
<1>4. \A rec \in raw_records'[q] :
        source_status'[q][rec.source] \in {"completed", "failed"}
  BY DEF EvidenceSound
<1>5. ASSUME NEW s \in Source, seen_runs'[q].latest[s] # NoRun
      PROVE  runs'[seen_runs'[q].latest[s]].sources[s] = "completed"
  <2>1. seen_runs[q].latest[s] \in RunId
    BY <1>5 DEF TypeOK, SeenRuns
  <2>. QED
    BY <1>5, <2>1 DEF EvidenceSound
<1>6. ASSUME NEW s \in Source, HasEvidence(q)', Authority(q, s)' # NoRun,
             source_status'[q][s] # "failed"
      PROVE  {rec \in active_records'[q] : rec.source = s}
               = Acquisition(Authority(q, s), s)'
  <2>1. {rec \in active_records[q] : rec.source = s}
          = Acquisition(Authority(q, s), s)
    BY <1>2, <1>6 DEF EvidenceSound
  <2>. QED
    BY <1>2, <1>3, <1>6, <2>1
<1>. QED
  BY <1>4, <1>5, <1>6 DEF EvidenceSound

LEMMA EvidenceInit == Init => EvidenceInv
BY DEF Init, EvidenceInv, EvidenceSound, NothingSeen, NoRunDocs, HasEvidence,
       Working, Looping, Reading

(* Run documents only ever gain completed sources. *)
LEMMA CompletedStays ==
  ASSUME TypeOK, AcquisitionInv, [Next]_vars, NEW p \in RunId, NEW s \in Source,
         runs[p].sources[s] = "completed"
  PROVE  runs'[p].sources[s] = "completed"
<1>1. pc[p] = "done"
  BY DEF AcquisitionInv, RecordsFollowed
<1>2. CASE \E r \in RunId : Start(r)
  BY <1>2 DEF Start, TypeOK, RunDoc
<1>3. CASE \E r \in RunId : Finish(r)
  <2>. PICK r \in RunId : Finish(r)
    BY <1>3
  <2>1. r # p
    BY <1>1 DEF Finish
  <2>. QED
    BY <2>1 DEF Finish, TypeOK
<1>4. CASE UNCHANGED runs
  BY <1>4
<1>. QED
  BY <1>2, <1>3, <1>4, ReadRunsEffect
     DEF Next, Tick, RunStep, SourceStep, SourceSkipped, SourceCompleted,
         SourceUnavailable, OptionalSourceFailed, RequiredSourceFailed,
         SourceOutcome, ReadStoredRecords, PersistStep,
         SaveSourceRecord, BeginUpserts, UpsertCanonicalFormat, BeginRemovals,
         MarkRemoved, BeginClaims, SupersedeClaim, BeginSaveClaims,
         SaveCriterionClaim, BeginSaveChanges, SaveAssessmentChange, Writes,
         NextLoop, Report, Crash, store, vars

(* The steps that leave what every run holds as it is. *)
LEMMA EvidenceKept ==
  ASSUME TypeOK, AcquisitionInv, EvidenceInv, [Next]_vars,
         UNCHANGED <<source_status, raw_records, seen_runs, active_records>>,
         \A q \in RunId : HasEvidence(q)' => HasEvidence(q)
  PROVE  EvidenceInv'
BY CompletedStays, EvidenceFrame DEF EvidenceInv

LEMMA EvidenceDie ==
  ASSUME TypeOK, AcquisitionInv, EvidenceInv, [Next]_vars, NEW r \in RunId,
         pc[r] # "done", Die(r)
  PROVE  EvidenceInv'
<1>1. EvidenceSound(r)'
  BY DEF Die, Exit, Goto, TypeOK, EvidenceSound, HasEvidence, Working, Looping,
         Reading, NothingSeen, NoRunDocs
<1>2. ASSUME NEW q \in RunId, q # r PROVE EvidenceSound(q)'
  <2>1. \A p \in RunId : pc[p] = "done" => raw_records'[p] = raw_records[p]
    BY DEF Die, TypeOK
  <2>2. HasEvidence(q)' => HasEvidence(q)
    BY <1>2 DEF Die, Exit, Goto, TypeOK, HasEvidence
  <2>3. /\ source_status'[q] = source_status[q] /\ raw_records'[q] = raw_records[q]
        /\ seen_runs'[q] = seen_runs[q] /\ active_records'[q] = active_records[q]
    BY <1>2 DEF Die, Exit, TypeOK
  <2>. QED
    BY <2>1, <2>2, <2>3, CompletedStays, EvidenceFrame DEF EvidenceInv
<1>. QED
  BY <1>1, <1>2 DEF EvidenceInv

LEMMA EvidenceStep ==
  TypeOK /\ AcquisitionInv /\ EvidenceInv /\ [Next]_vars => EvidenceInv'
<1>. SUFFICES ASSUME TypeOK, AcquisitionInv, EvidenceInv, [Next]_vars
              PROVE  EvidenceInv'
  OBVIOUS
<1>1. CASE Tick \/ UNCHANGED vars
  BY <1>1, EvidenceKept DEF Tick, vars, local, HasEvidence
<1>2. ASSUME NEW r \in RunId, Start(r) PROVE EvidenceInv'
  <2>1. \A q \in RunId : HasEvidence(q)' => HasEvidence(q)
    BY <1>2 DEF Start, Goto, TypeOK, HasEvidence, Working, Looping, Reading
  <2>. QED
    BY <1>2, <2>1, EvidenceKept DEF Start
<1>3. ASSUME NEW r \in RunId, NEW s \in Source, NEW status, NEW formats,
             SourceOutcome(r, s, status, formats), UNCHANGED pc,
             formats = {} \/ status \in {"completed", "failed"}
      PROVE  EvidenceInv'
  <2>1. EvidenceSound(r)'
    <3>1. \A rec \in raw_records'[r] :
            source_status'[r][rec.source] \in {"completed", "failed"}
      <4>. SUFFICES ASSUME NEW rec \in raw_records'[r]
                    PROVE  source_status'[r][rec.source] \in {"completed", "failed"}
        OBVIOUS
      <4>1. CASE rec \in raw_records[r]
        <5>1. rec.source # s /\ rec.source \in Source
          <6>1. source_status[r][rec.source] \in {"completed", "failed"}
            BY <4>1 DEF EvidenceInv, EvidenceSound
          <6>. QED
            BY <4>1, <6>1, <1>3 DEF SourceOutcome, TypeOK, RawRecord
        <5>. QED
          BY <4>1, <5>1, <1>3 DEF EvidenceInv, EvidenceSound, SourceOutcome, TypeOK
      <4>2. CASE rec \in [source : {s}, format : formats]
        <5>1. rec.source = s /\ rec.format \in formats
          BY <4>2
        <5>. QED
          BY <5>1, <1>3 DEF SourceOutcome, TypeOK
      <4>. QED
        BY <4>1, <4>2, <1>3 DEF SourceOutcome, TypeOK
    <3>2. ~ HasEvidence(r)'
      BY <1>3 DEF SourceOutcome, HasEvidence, Working, Looping, Reading
    <3>3. \A t \in Source :
            seen_runs'[r].latest[t] # NoRun =>
              runs'[seen_runs'[r].latest[t]].sources[t] = "completed"
      BY <1>3 DEF SourceOutcome, EvidenceInv, EvidenceSound, store
    <3>. QED
      BY <3>1, <3>2, <3>3 DEF EvidenceSound
  <2>2. ASSUME NEW q \in RunId, q # r PROVE EvidenceSound(q)'
    <3>1. \A p \in RunId : pc[p] = "done" => raw_records'[p] = raw_records[p]
      BY <1>3 DEF SourceOutcome, TypeOK
    <3>2. /\ source_status'[q] = source_status[q] /\ raw_records'[q] = raw_records[q]
          /\ seen_runs'[q] = seen_runs[q] /\ active_records'[q] = active_records[q]
          /\ HasEvidence(q)' = HasEvidence(q)
      BY <1>3, <2>2 DEF SourceOutcome, TypeOK, HasEvidence
    <3>. QED
      BY <3>1, <3>2, CompletedStays, EvidenceFrame DEF EvidenceInv
  <2>. QED
    BY <2>1, <2>2 DEF EvidenceInv
<1>4. ASSUME NEW r \in RunId, SourceStep(r) PROVE EvidenceInv'
  BY <1>3, <1>4, EvidenceDie
     DEF SourceStep, SourceSkipped, SourceCompleted, SourceUnavailable,
         OptionalSourceFailed, RequiredSourceFailed
<1>5. ASSUME NEW r \in RunId, ReadRuns(r) PROVE EvidenceInv'
  <2>1. /\ ~ HasEvidence(r)'
        /\ \A s \in Source :
             seen_runs'[r].latest[s] \in {seen_runs[r].latest[s],
                                          LatestRun(seen_runs[r].dates, runs, s)}
        /\ UNCHANGED <<runs, source_status, raw_records, active_records>>
    BY <1>5, ReadRunsEffect DEF HasEvidence, Working, Looping, Reading
  <2>2. EvidenceSound(r)'
    <3>1. ASSUME NEW s \in Source, seen_runs'[r].latest[s] # NoRun
          PROVE  runs[seen_runs'[r].latest[s]].sources[s] = "completed"
      BY <2>1, <3>1, LatestRunCompleted DEF EvidenceInv, EvidenceSound
    <3>. QED
      BY <2>1, <3>1 DEF EvidenceInv, EvidenceSound
  <2>3. ASSUME NEW q \in RunId, q # r PROVE EvidenceSound(q)'
    <3>1. seen_runs'[q] = seen_runs[q] /\ HasEvidence(q)' = HasEvidence(q)
      BY <1>5, <2>3, ReadRunsEffect DEF HasEvidence
    <3>. QED
      BY <2>1, <3>1, CompletedStays, EvidenceFrame DEF EvidenceInv
  <2>. QED
    BY <2>2, <2>3 DEF EvidenceInv
<1>6. ASSUME NEW r \in RunId, ReadStoredRecords(r) PROVE EvidenceInv'
  <2>1. /\ UNCHANGED <<store, source_status, raw_records>>
        /\ \A q \in RunId : seen_runs'[q].latest = seen_runs[q].latest
        /\ \A q \in RunId : q # r => seen_runs'[q] = seen_runs[q]
    BY <1>6 DEF ReadStoredRecords, TypeOK, SeenRuns
  <2>2. ASSUME NEW s \in Source, Authority(r, s) # NoRun, source_status[r][s] # "failed"
        PROVE  {rec \in active_records'[r] : rec.source = s} = Acquisition(Authority(r, s), s)
    <3>. DEFINE own == {rec \in OwnRecords(r) : rec.source = s}
                stored(t) == StoredEvidence(seen_runs[r], source_records, t)
                active == OwnRecords(r) \cup UNION {stored(t) : t \in Source \ RefreshedSources(r)}
    <3>1. active_records'[r] = active
      BY <1>6 DEF ReadStoredRecords, TypeOK
    <3>2. \A t \in Source : \A rec \in stored(t) : rec.source = t
      BY StoredEvidenceType
    <3>3. own = Acquisition(r, s)
      BY OwnRecordsOfSource
    <3>4. CASE s \in RefreshedSources(r)
      <4>1. {rec \in active : rec.source = s} = own
        BY <3>2, <3>4
      <4>. QED
        BY <3>1, <3>3, <3>4, <4>1 DEF Authority
    <3>5. CASE s \notin RefreshedSources(r)
      <4>. DEFINE a == seen_runs[r].latest[s]
      <4>1. a = Authority(r, s) /\ a # NoRun
        BY <2>2, <3>5 DEF Authority
      <4>2. a \in RunId /\ runs[a].sources[s] = "completed"
        BY <4>1 DEF EvidenceInv, EvidenceSound, TypeOK, SeenRuns
      <4>3. own = {}
        <5>1. \A raw \in raw_records[r] : raw.source # s
          BY <2>2, <3>5 DEF EvidenceInv, EvidenceSound, RefreshedSources
        <5>. QED
          BY <5>1 DEF OwnRecords
      <4>4. stored(s) = {rec \in source_records : rec.source = s /\ rec.run = a}
        BY <4>1 DEF StoredEvidence
      <4>5. stored(s) = Acquisition(a, s)
        BY <4>2, <4>4, AcquisitionInvImplies, StoredRecordsOfSource
      <4>6. {rec \in active : rec.source = s} = stored(s)
        BY <3>2, <3>5, <4>3
      <4>. QED
        BY <3>1, <4>1, <4>5, <4>6
    <3>. QED
      BY <3>4, <3>5
  <2>3. EvidenceSound(r)'
    <3>1. \A s \in Source : /\ Authority(r, s)' = Authority(r, s)
                            /\ Acquisition(Authority(r, s), s)' = Acquisition(Authority(r, s), s)
      BY <2>1 DEF Authority, RefreshedSources, Acquisition, Acquired
    <3>. QED
      BY <2>1, <2>2, <3>1 DEF EvidenceInv, EvidenceSound, store
  <2>4. ASSUME NEW q \in RunId, q # r PROVE EvidenceSound(q)'
    <3>1. /\ seen_runs'[q] = seen_runs[q] /\ active_records'[q] = active_records[q]
          /\ HasEvidence(q)' = HasEvidence(q)
      BY <1>6, <2>1, <2>4 DEF ReadStoredRecords, Goto, TypeOK, HasEvidence
    <3>. QED
      BY <2>1, <3>1, CompletedStays, EvidenceFrame DEF EvidenceInv
  <2>. QED
    BY <2>3, <2>4 DEF EvidenceInv
<1>7. ASSUME NEW r \in RunId, PersistStep(r) \/ Report(r) PROVE EvidenceInv'
  <2>1. UNCHANGED <<source_status, raw_records, seen_runs, active_records>>
    BY <1>7 DEF PersistStep, SaveSourceRecord, BeginUpserts, UpsertCanonicalFormat,
                BeginRemovals, MarkRemoved, BeginClaims, SupersedeClaim,
                BeginSaveClaims, SaveCriterionClaim, BeginSaveChanges,
                SaveAssessmentChange, Writes, NextLoop, Report, local
  <2>2. pc[r] \in Looping /\ \A q \in RunId \ {r} : pc'[q] = pc[q]
    BY <1>7 DEF PersistStep, SaveSourceRecord, BeginUpserts, UpsertCanonicalFormat,
                BeginRemovals, MarkRemoved, BeginClaims, SupersedeClaim,
                BeginSaveClaims, SaveCriterionClaim, BeginSaveChanges,
                SaveAssessmentChange, Writes, NextLoop, Report, Goto, local,
                Looping, Working, Reading, TypeOK
  <2>3. \A q \in RunId : HasEvidence(q)' => HasEvidence(q)
    BY <2>2 DEF HasEvidence, Looping, Working, Reading
  <2>. QED
    BY <2>1, <2>3, EvidenceKept
<1>8. ASSUME NEW r \in RunId, Finish(r) PROVE EvidenceInv'
  <2>1. EvidenceSound(r)'
    BY <1>8, CompletedStays
       DEF Finish, Exit, Goto, TypeOK, EvidenceInv, EvidenceSound, HasEvidence,
           Working, Looping, Reading, NothingSeen, NoRunDocs
  <2>2. ASSUME NEW q \in RunId, q # r PROVE EvidenceSound(q)'
    <3>1. /\ UNCHANGED <<source_status, raw_records>>
          /\ seen_runs'[q] = seen_runs[q] /\ active_records'[q] = active_records[q]
          /\ HasEvidence(q)' = HasEvidence(q)
      BY <1>8, <2>2 DEF Finish, Exit, Goto, TypeOK, HasEvidence
    <3>. QED
      BY <3>1, CompletedStays, EvidenceFrame DEF EvidenceInv
  <2>. QED
    BY <2>1, <2>2 DEF EvidenceInv
<1>9. ASSUME NEW r \in RunId, Crash(r) PROVE EvidenceInv'
  BY <1>9, EvidenceDie DEF Crash, Working, Looping, Reading
<1>. QED
  BY <1>1, <1>2, <1>4, <1>5, <1>6, <1>7, <1>8, <1>9 DEF Next, RunStep

(* Whatever overlaps it, a run rebuilds the registry from exactly one      *)
(* whole acquisition of each source that did not fail.                     *)
THEOREM OneAcquisitionPerSource == Spec => []EvidenceIsOneAcquisition
<1>1. Init => TypeOK /\ AcquisitionInv /\ EvidenceInv
  BY TypeInit, AcquisitionInit, EvidenceInit
<1>2. TypeOK /\ AcquisitionInv /\ EvidenceInv /\ [Next]_vars
        => (TypeOK /\ AcquisitionInv /\ EvidenceInv)'
  BY TypeStep, AcquisitionStep, EvidenceStep
<1>3. EvidenceInv => EvidenceIsOneAcquisition
  BY DEF EvidenceInv, EvidenceSound, EvidenceIsOneAcquisition
<1>. QED
  BY <1>1, <1>2, <1>3, PTL DEF Spec

-----------------------------------------------------------------------------
(* Why the store implements SourceEvidence.  Among the runs that completed *)
(* a source one comes after all others; a run that commits is compared     *)
(* with that one only.  That there is one needs no induction over a set:   *)
(* the first commit makes one, every later commit keeps one.               *)

CompletedRuns(docs, s) == {r \in RunId : docs[r].sources[s] = "completed"}

IsLatest(docs, s, last) ==
  /\ last \in CompletedRuns(docs, s)
  /\ \A p \in CompletedRuns(docs, s) : ~Before(RunTimestamps(docs), last, p)

Dated(docs) ==
  /\ docs \in [RunId -> RunDoc]
  /\ \A s \in Source : \A r \in CompletedRuns(docs, s) : docs[r].status = "completed"

DocumentsInv ==
  /\ \A r \in RunId : runs[r].status = "completed" <=> pc[r] = "done"
  /\ \A s \in Source : CompletedRuns(runs, s) # {} =>
       \E last \in RunId : IsLatest(runs, s, last)

LEMMA DocumentsDated ==
  ASSUME TypeOK, AcquisitionInv, DocumentsInv
  PROVE  Dated(runs)
BY DEF TypeOK, AcquisitionInv, RecordsFollowed, DocumentsInv, Dated, CompletedRuns

LEMMA BeforeCompleted ==
  ASSUME NEW docs, Dated(docs), NEW p \in RunId, NEW q \in RunId,
         docs[p].status = "completed", docs[q].status = "completed"
  PROVE  Before(RunTimestamps(docs), p, q) <=>
           \/ docs[p].finished < docs[q].finished
           \/ docs[p].finished = docs[q].finished /\ p < q
<1>1. docs[p].finished # NoDate /\ docs[q].finished # NoDate
  BY ConstantsAssumption DEF Dated, RunDoc, Time, NoDate
<1>2. /\ RunTimestamps(docs)[p] = docs[p].finished
      /\ RunTimestamps(docs)[q] = docs[q].finished
  BY DEF RunTimestamps
<1>. QED
  BY <1>1, <1>2 DEF Before

LEMMA LatestRunIs ==
  ASSUME NEW docs, Dated(docs), NEW s \in Source, NEW last, IsLatest(docs, s, last)
  PROVE  CommittedRun(docs, s) = last
<1>. DEFINE newest == {r \in CompletedRuns(docs, s) :
                         \A p \in CompletedRuns(docs, s) : ~Before(RunTimestamps(docs), r, p)}
<1>1. last \in newest
  BY DEF IsLatest
<1>2. ASSUME NEW r \in newest PROVE r = last
  <2>1. ~Before(RunTimestamps(docs), r, last) /\ ~Before(RunTimestamps(docs), last, r)
    BY <1>1
  <2>2. docs[r].status = "completed" /\ docs[last].status = "completed"
    BY <1>1 DEF Dated
  <2>3. /\ r \in Int /\ last \in Int
        /\ docs[r].finished \in Int /\ docs[last].finished \in Int
    BY <1>1, ConstantsAssumption DEF Dated, CompletedRuns, RunId, RunDoc, Time
  <2>4. r \in RunId /\ last \in RunId
    BY <1>1 DEF CompletedRuns
  <2>. QED
    BY <2>1, <2>2, <2>3, <2>4, BeforeCompleted
<1>3. CommittedRun(docs, s) = CHOOSE r \in newest : TRUE
  BY <1>1 DEF CommittedRun, LatestRun, CompletedRuns
<1>. QED
  BY <1>1, <1>2, <1>3

LEMMA NoLatestRun ==
  ASSUME NEW docs, NEW s, CompletedRuns(docs, s) = {}
  PROVE  CommittedRun(docs, s) = NoRun
BY DEF CommittedRun, LatestRun, CompletedRuns

(* Documents of the same runs, with the same dates.                        *)
LEMMA SameLatest ==
  ASSUME NEW docs, NEW other, Dated(docs), Dated(other), NEW s \in Source,
         CompletedRuns(other, s) = CompletedRuns(docs, s),
         \A p \in CompletedRuns(docs, s) : other[p].finished = docs[p].finished,
         NEW last, IsLatest(docs, s, last)
  PROVE  IsLatest(other, s, last)
<1>1. ASSUME NEW p \in CompletedRuns(docs, s)
      PROVE  ~Before(RunTimestamps(other), last, p)
  <2>1. last \in CompletedRuns(docs, s) /\ ~Before(RunTimestamps(docs), last, p)
    BY DEF IsLatest
  <2>2. /\ last \in RunId /\ p \in RunId
        /\ docs[last].status = "completed" /\ docs[p].status = "completed"
        /\ other[last].status = "completed" /\ other[p].status = "completed"
    BY <2>1 DEF Dated, CompletedRuns
  <2>3. other[last].finished = docs[last].finished /\ other[p].finished = docs[p].finished
    BY <2>1
  <2>. QED
    BY <2>1, <2>2, <2>3, BeforeCompleted
<1>. QED
  BY <1>1 DEF IsLatest

LEMMA DocumentsInit == Init => DocumentsInv
BY DEF Init, DocumentsInv, CompletedRuns, NoRunDocs

(* The steps that write no run document. *)
LEMMA DocumentsKept ==
  ASSUME DocumentsInv, UNCHANGED runs,
         \A q \in RunId : pc'[q] = "done" <=> pc[q] = "done"
  PROVE  DocumentsInv'
BY DEF DocumentsInv, IsLatest, CompletedRuns

(* The document of a run that starts: nothing that is completed changes.   *)
LEMMA StartedDocument ==
  ASSUME TypeOK, AcquisitionInv, DocumentsInv, NEW r \in RunId, Start(r)
  PROVE  /\ \A q \in RunId : runs'[q].sources = runs[q].sources
         /\ \A q \in RunId : runs'[q].finished = runs[q].finished
         /\ \A q \in RunId : runs'[q].status = "completed" <=> runs[q].status = "completed"
         /\ \A s \in Source : CompletedRuns(runs', s) = CompletedRuns(runs, s)
         /\ runs' \in [RunId -> RunDoc]
         /\ Dated(runs')
<1>1. runs[r].status # "completed"
  BY DEF DocumentsInv, Start
<1>2. /\ \A q \in RunId : runs'[q].sources = runs[q].sources
      /\ \A q \in RunId : runs'[q].finished = runs[q].finished
      /\ \A q \in RunId : runs'[q].status = "completed" <=> runs[q].status = "completed"
  BY <1>1 DEF Start, TypeOK, RunDoc
<1>3. \A s \in Source : CompletedRuns(runs', s) = CompletedRuns(runs, s)
  BY <1>2 DEF CompletedRuns
<1>4. runs' \in [RunId -> RunDoc]
  BY RunDocUpdates DEF Start, TypeOK
<1>. QED
  BY <1>2, <1>3, <1>4, DocumentsDated DEF Dated, CompletedRuns

(* r, about to commit, comes after the last run that completed s.          *)
Overtakes(r, s) ==
  \/ CommittedRun(runs, s) = NoRun
  \/ runs[CommittedRun(runs, s)].finished < finished_at[r]
  \/ runs[CommittedRun(runs, s)].finished = finished_at[r] /\ CommittedRun(runs, s) < r

LEMMA FinishedDocument ==
  ASSUME TypeOK, AcquisitionInv, DocumentsInv, NEW r \in RunId, Finish(r)
  PROVE  /\ runs[r].status # "completed"
         /\ runs'[r].status = "completed"
         /\ runs'[r].finished = finished_at[r]
         /\ runs'[r].sources = source_status[r]
         /\ \A q \in RunId \ {r} : runs'[q] = runs[q]
         /\ \A s \in Source : r \notin CompletedRuns(runs, s)
         /\ \A s \in Source :
              CompletedRuns(runs', s) =
                IF s \in RefreshedSources(r)
                THEN CompletedRuns(runs, s) \cup {r}
                ELSE CompletedRuns(runs, s)
         /\ Dated(runs')
<1>1. pc[r] = "export" /\ runs[r].status # "completed"
  BY DEF Finish, DocumentsInv
<1>2. /\ runs'[r].status = "completed"
      /\ runs'[r].finished = finished_at[r]
      /\ runs'[r].sources = source_status[r]
      /\ \A q \in RunId \ {r} : runs'[q] = runs[q]
  BY DEF Finish, TypeOK, RunDoc
<1>3. \A s \in Source : r \notin CompletedRuns(runs, s)
  BY <1>1 DEF AcquisitionInv, RecordsFollowed, CompletedRuns
<1>4. \A s \in Source :
        CompletedRuns(runs', s) =
          IF s \in RefreshedSources(r)
          THEN CompletedRuns(runs, s) \cup {r}
          ELSE CompletedRuns(runs, s)
  BY <1>2, <1>3 DEF CompletedRuns, RefreshedSources
<1>5. runs' \in [RunId -> RunDoc]
  BY RunDocUpdates DEF Finish, TypeOK
<1>6. \A s \in Source : \A q \in CompletedRuns(runs', s) : runs'[q].status = "completed"
  BY <1>2, <1>4, DocumentsDated DEF Dated, CompletedRuns
<1>. QED
  BY <1>1, <1>2, <1>3, <1>4, <1>5, <1>6 DEF Dated

LEMMA FinishedLatest ==
  ASSUME TypeOK, AcquisitionInv, DocumentsInv, NEW r \in RunId, Finish(r),
         NEW s \in Source, CompletedRuns(runs', s) # {}
  PROVE  IsLatest(runs', s, IF s \in RefreshedSources(r) /\ Overtakes(r, s)
                            THEN r ELSE CommittedRun(runs, s))
<1>. USE FinishedDocument
<1>0. Dated(runs)
  BY DocumentsDated
<1>1. CASE CompletedRuns(runs, s) = {}
  <2>1. CommittedRun(runs, s) = NoRun
    BY <1>1, NoLatestRun
  <2>2. s \in RefreshedSources(r) /\ CompletedRuns(runs', s) = {r}
    BY <1>1
  <2>3. ~Before(RunTimestamps(runs'), r, r)
    <3>1. finished_at[r] \in Int /\ r \in Int
      BY ConstantsAssumption DEF TypeOK, Time, RunId
    <3>. QED
      BY <3>1, BeforeCompleted
  <2>. QED
    BY <2>1, <2>2, <2>3 DEF Overtakes, IsLatest
<1>2. CASE CompletedRuns(runs, s) # {}
  <2>1. PICK last \in RunId : IsLatest(runs, s, last)
    BY <1>2 DEF DocumentsInv
  <2>2. CommittedRun(runs, s) = last
    BY <1>0, <2>1, LatestRunIs
  <2>3. last # NoRun /\ last # r /\ last \in CompletedRuns(runs', s)
    BY <2>1, ConstantsAssumption DEF IsLatest, RunId, NoRun
  <2>4. ASSUME NEW p \in CompletedRuns(runs, s)
        PROVE  /\ p \in Int /\ last \in Int
               /\ runs[p].finished \in Int /\ runs[last].finished \in Int
               /\ runs'[p].finished = runs[p].finished
               /\ runs'[last].finished = runs[last].finished
               /\ runs'[p].status = "completed" /\ runs'[last].status = "completed"
               /\ ~(\/ runs[last].finished < runs[p].finished
                    \/ runs[last].finished = runs[p].finished /\ last < p)
    <3>1. p \in RunId /\ p # r /\ last # r
      BY <2>3 DEF CompletedRuns
    <3>2. runs'[p] = runs[p] /\ runs'[last] = runs[last]
      BY <3>1
    <3>3. runs[p].status = "completed" /\ runs[last].status = "completed"
      BY <1>0, <2>1 DEF Dated, IsLatest
    <3>4. ~Before(RunTimestamps(runs), last, p)
      BY <2>1 DEF IsLatest
    <3>5. /\ p \in Int /\ last \in Int
          /\ runs[p].finished \in Int /\ runs[last].finished \in Int
      <4>1. p \in RunId /\ last \in RunId
        BY <3>1
      <4>2. runs[p].finished \in Time /\ runs[last].finished \in Time
        BY <4>1 DEF TypeOK, RunDoc
      <4>. QED
        BY <4>1, <4>2, ConstantsAssumption DEF RunId, Time
    <3>6. last \in RunId
      BY <2>1
    <3>. QED
      BY <1>0, <3>1, <3>2, <3>3, <3>4, <3>5, <3>6, BeforeCompleted
  <2>5. finished_at[r] \in Int /\ r \in Int
    BY ConstantsAssumption DEF TypeOK, Time, RunId
  <2>6. CASE s \notin RefreshedSources(r)
    <3>1. CompletedRuns(runs', s) = CompletedRuns(runs, s)
      BY <2>6
    <3>2. ASSUME NEW p \in CompletedRuns(runs, s)
          PROVE  ~Before(RunTimestamps(runs'), last, p)
      BY <2>1, <2>4, BeforeCompleted DEF CompletedRuns
    <3>. QED
      BY <2>2, <2>3, <2>6, <3>1, <3>2 DEF IsLatest
  <2>7. CASE s \in RefreshedSources(r) /\ Overtakes(r, s)
    <3>1. \/ runs[last].finished < finished_at[r]
          \/ runs[last].finished = finished_at[r] /\ last < r
      BY <2>2, <2>3, <2>7 DEF Overtakes
    <3>2. ASSUME NEW p \in CompletedRuns(runs', s) PROVE ~Before(RunTimestamps(runs'), r, p)
      <4>1. CASE p = r
        BY <2>5, <4>1, BeforeCompleted
      <4>2. CASE p # r
        <5>1. p \in CompletedRuns(runs, s)
          BY <2>7, <4>2
        <5>2. ~(\/ finished_at[r] < runs[p].finished
                \/ finished_at[r] = runs[p].finished /\ r < p)
          BY <2>4, <2>5, <3>1, <5>1
        <5>3. p \in RunId
          BY <5>1 DEF CompletedRuns
        <5>. QED
          BY <2>4, <5>1, <5>2, <5>3, BeforeCompleted
      <4>. QED
        BY <4>1, <4>2
    <3>3. r \in CompletedRuns(runs', s)
      BY <2>7
    <3>. QED
      BY <2>7, <3>2, <3>3 DEF IsLatest
  <2>8. CASE s \in RefreshedSources(r) /\ ~Overtakes(r, s)
    <3>1. ~(\/ runs[last].finished < finished_at[r]
            \/ runs[last].finished = finished_at[r] /\ last < r)
      BY <2>2, <2>8 DEF Overtakes
    <3>2. ASSUME NEW p \in CompletedRuns(runs', s) PROVE ~Before(RunTimestamps(runs'), last, p)
      <4>1. last \in CompletedRuns(runs, s)
        BY <2>1 DEF IsLatest
      <4>2. CASE p = r
        BY <2>1, <2>4, <3>1, <4>1, <4>2, BeforeCompleted
      <4>3. CASE p # r
        <5>1. p \in CompletedRuns(runs, s)
          BY <2>8, <4>3
        <5>2. p \in RunId
          BY <5>1 DEF CompletedRuns
        <5>. QED
          BY <2>1, <2>4, <5>1, <5>2, BeforeCompleted
      <4>. QED
        BY <4>2, <4>3
    <3>. QED
      BY <2>2, <2>3, <2>8, <3>2 DEF IsLatest
  <2>. QED
    BY <2>6, <2>7, <2>8
<1>. QED
  BY <1>1, <1>2

LEMMA DocumentsStep ==
  TypeOK /\ AcquisitionInv /\ DocumentsInv /\ [Next]_vars => DocumentsInv'
<1>. SUFFICES ASSUME TypeOK, AcquisitionInv, DocumentsInv, [Next]_vars
              PROVE  DocumentsInv'
  OBVIOUS
<1>1. ASSUME NEW r \in RunId, Start(r) PROVE DocumentsInv'
  <2>1. \A q \in RunId : pc'[q] = "done" <=> pc[q] = "done"
    BY <1>1 DEF Start, Goto, TypeOK
  <2>2. ASSUME NEW s \in Source, CompletedRuns(runs', s) # {}
        PROVE  \E last \in RunId : IsLatest(runs', s, last)
    <3>1. PICK last \in RunId : IsLatest(runs, s, last)
      BY <1>1, <2>2, StartedDocument DEF DocumentsInv
    <3>2. IsLatest(runs', s, last)
      <4>1. \A p \in CompletedRuns(runs, s) : runs'[p].finished = runs[p].finished
        BY <1>1, StartedDocument DEF CompletedRuns
      <4>. QED
        BY <1>1, <3>1, <4>1, StartedDocument, DocumentsDated, SameLatest
    <3>. QED
      BY <3>2
  <2>. QED
    BY <1>1, <2>1, <2>2, StartedDocument DEF DocumentsInv
<1>2. ASSUME NEW r \in RunId, Finish(r) PROVE DocumentsInv'
  <2>1. \A q \in RunId : pc'[q] = "done" <=> (pc[q] = "done" \/ q = r)
    BY <1>2 DEF Finish, Exit, Goto, TypeOK
  <2>2. \A q \in RunId : runs'[q].status = "completed"
                           <=> (runs[q].status = "completed" \/ q = r)
    BY <1>2, FinishedDocument
  <2>3. ASSUME NEW s \in Source, CompletedRuns(runs', s) # {}
        PROVE  \E last \in RunId : IsLatest(runs', s, last)
    BY <1>2, <2>3, FinishedLatest DEF IsLatest, CompletedRuns
  <2>. QED
    BY <2>1, <2>2, <2>3 DEF DocumentsInv
<1>3. ASSUME UNCHANGED runs, \A q \in RunId : pc'[q] = "done" <=> pc[q] = "done"
      PROVE  DocumentsInv'
  BY <1>3, DocumentsKept
<1>4. ASSUME NEW r \in RunId, Crash(r) \/ \E s \in Source : RequiredSourceFailed(r, s)
      PROVE  DocumentsInv'
  BY <1>3, <1>4 DEF Crash, RequiredSourceFailed, Die, Exit, Goto, TypeOK, store, Working, Looping, Reading
<1>5. ASSUME NEW r \in RunId,
             ReadRuns(r) \/ ReadStoredRecords(r) \/ PersistStep(r) \/ Report(r)
      PROVE  DocumentsInv'
  <2>1. UNCHANGED runs
    BY <1>5, ReadRunsEffect DEF ReadStoredRecords, PersistStep, Report,
         SaveSourceRecord, BeginUpserts, UpsertCanonicalFormat, BeginRemovals,
         MarkRemoved, BeginClaims, SupersedeClaim, BeginSaveClaims,
         SaveCriterionClaim, BeginSaveChanges, SaveAssessmentChange, Writes,
         NextLoop, store
  <2>2. \A q \in RunId : pc'[q] = "done" <=> pc[q] = "done"
    BY <1>5, ReadRunsEffect DEF ReadStoredRecords, PersistStep, Report,
         SaveSourceRecord, BeginUpserts, UpsertCanonicalFormat, BeginRemovals,
         MarkRemoved, BeginClaims, SupersedeClaim, BeginSaveClaims,
         SaveCriterionClaim, BeginSaveChanges, SaveAssessmentChange, Writes,
         NextLoop, Goto, TypeOK
  <2>. QED
    BY <2>1, <2>2, <1>3
<1>6. ASSUME NEW r \in RunId, SourceStep(r) PROVE DocumentsInv'
  BY <1>3, <1>4, <1>6
     DEF SourceStep, SourceSkipped, SourceCompleted, SourceUnavailable,
         OptionalSourceFailed, SourceOutcome, store
<1>7. CASE Tick \/ UNCHANGED vars
  BY <1>3, <1>7 DEF Tick, vars, store
<1>. QED
  BY <1>1, <1>2, <1>4, <1>5, <1>6, <1>7 DEF Next, RunStep

(* What SourceEvidence sees of a state is unchanged if these are.          *)
LEMMA EvidenceStutters ==
  ASSUME \A r \in RunId : RefreshedSources(r)' = RefreshedSources(r),
         \A r \in RunId : \A s \in RefreshedSources(r) :
           Acquired(r, s)' = Acquired(r, s),
         \A r \in RunId : runs'[r].status = "completed" <=> runs[r].status = "completed",
         \A r \in RunId : runs'[r].finished = runs[r].finished,
         \A s \in Source : CommittedRun(runs, s)' = CommittedRun(runs, s),
         \A s \in Source : CommittedRun(runs, s) # NoRun =>
           StoredOf(source_records, CommittedRun(runs, s), s)'
             = StoredOf(source_records, CommittedRun(runs, s), s)
  PROVE  UNCHANGED Evidence!vars
<1>1. UNCHANGED [r \in RunId |-> RefreshedSources(r)]
  OBVIOUS
<1>2. UNCHANGED [r \in RunId |-> [s \in Source |->
         IF s \in RefreshedSources(r) THEN Acquired(r, s) ELSE {}]]
  OBVIOUS
<1>3. UNCHANGED [r \in RunId |->
         IF runs[r].status = "completed" THEN runs[r].finished ELSE -1]
  OBVIOUS
<1>4. UNCHANGED [s \in Source |-> CommittedRun(runs, s)]
  OBVIOUS
<1>5. UNCHANGED [s \in Source |->
         IF CommittedRun(runs, s) = NoRun THEN {}
         ELSE StoredOf(source_records, CommittedRun(runs, s), s)]
  OBVIOUS
<1>. QED
  BY <1>1, <1>2, <1>3, <1>4, <1>5 DEF Evidence!vars

LEMMA EvidenceInitially == Init => Evidence!Init
<1>. SUFFICES ASSUME Init PROVE Evidence!Init
  OBVIOUS
<1>1. \A r \in RunId : RefreshedSources(r) = {}
  BY DEF Init, RefreshedSources
<1>2. \A s \in Source : CommittedRun(runs, s) = NoRun
  BY NoLatestRun DEF Init, NoRunDocs, CompletedRuns
<1>3. \A r \in RunId : runs[r].status = "absent"
  BY DEF Init, NoRunDocs
<1>. QED
  BY <1>1, <1>2, <1>3 DEF Evidence!Init

(* Steps that neither acquire nor commit nor save. *)
LEMMA QuietStep ==
  ASSUME UNCHANGED <<runs, source_records, source_status, raw_records>>
  PROVE  UNCHANGED Evidence!vars
BY EvidenceStutters DEF RefreshedSources, Acquired, StoredOf, CommittedRun, LatestRun, Before, RunTimestamps

LEMMA StartIsQuiet ==
  ASSUME TypeOK, AcquisitionInv, DocumentsInv, NEW r \in RunId, Start(r)
  PROVE  UNCHANGED Evidence!vars
<1>1. UNCHANGED <<source_records, source_status, raw_records>>
  BY DEF Start
<1>2. ASSUME NEW s \in Source PROVE CommittedRun(runs', s) = CommittedRun(runs, s)
  <2>1. CASE CompletedRuns(runs, s) = {}
    BY <2>1, StartedDocument, NoLatestRun
  <2>2. CASE CompletedRuns(runs, s) # {}
    <3>1. PICK last \in RunId : IsLatest(runs, s, last)
      BY <2>2 DEF DocumentsInv
    <3>2. \A p \in CompletedRuns(runs, s) : runs'[p].finished = runs[p].finished
      BY StartedDocument DEF CompletedRuns
    <3>3. IsLatest(runs', s, last)
      BY <3>1, <3>2, StartedDocument, DocumentsDated, SameLatest
    <3>. QED
      BY <3>1, <3>3, StartedDocument, DocumentsDated, LatestRunIs
  <2>. QED
    BY <2>1, <2>2
<1>. QED
  BY <1>1, <1>2, StartedDocument, EvidenceStutters
     DEF RefreshedSources, Acquired, StoredOf

(* A record that is saved is of a run that has not committed. *)
LEMMA SaveIsQuiet ==
  ASSUME TypeOK, AcquisitionInv, NEW r \in RunId, SaveSourceRecord(r)
  PROVE  UNCHANGED Evidence!vars
<1>1. UNCHANGED <<runs, source_status, raw_records>>
  BY DEF SaveSourceRecord, Writes, local
<1>2. PICK rec \in OwnRecords(r) : source_records' = source_records \cup {rec}
  BY DEF SaveSourceRecord, Writes, AcquisitionInv, RecordsFollowed
<1>3. ASSUME NEW s \in Source, CommittedRun(runs, s) # NoRun
      PROVE  StoredOf(source_records', CommittedRun(runs, s), s)
               = StoredOf(source_records, CommittedRun(runs, s), s)
  <2>1. pc[CommittedRun(runs, s)] = "done"
    BY <1>3, LatestRunCompleted DEF CommittedRun, AcquisitionInv, RecordsFollowed
  <2>2. CommittedRun(runs, s) # r
    BY <2>1 DEF SaveSourceRecord, Writes
  <2>3. rec.run = r
    BY <1>2 DEF OwnRecords
  <2>. QED
    BY <1>2, <2>2, <2>3 DEF StoredOf
<1>4. \A s \in Source : CommittedRun(runs, s)' = CommittedRun(runs, s)
  BY <1>1 DEF CommittedRun, LatestRun, Before, RunTimestamps
<1>5. \A s \in Source : CommittedRun(runs, s) # NoRun =>
        StoredOf(source_records, CommittedRun(runs, s), s)'
          = StoredOf(source_records, CommittedRun(runs, s), s)
  BY <1>3, <1>4 DEF StoredOf
<1>6. \A q \in RunId :
        /\ RefreshedSources(q)' = RefreshedSources(q)
        /\ \A s \in RefreshedSources(q) : Acquired(q, s)' = Acquired(q, s)
  BY <1>1 DEF RefreshedSources, Acquired
<1>7. \A q \in RunId : /\ runs'[q].status = "completed" <=> runs[q].status = "completed"
                      /\ runs'[q].finished = runs[q].finished
  BY <1>1
<1>. QED
  BY <1>4, <1>5, <1>6, <1>7, EvidenceStutters

LEMMA OutcomeOf ==
  ASSUME TypeOK, NEW r \in RunId, NEW s \in Source, NEW status \in SourceStatus,
         NEW formats \in SUBSET Format, SourceOutcome(r, s, status, formats)
  PROVE  /\ s \notin RefreshedSources(r)
         /\ RefreshedSources(r)' = IF status = "completed"
                                   THEN RefreshedSources(r) \cup {s}
                                   ELSE RefreshedSources(r)
         /\ \A q \in RunId \ {r} : /\ RefreshedSources(q)' = RefreshedSources(q)
                                   /\ \A p \in Source : Acquired(q, p)' = Acquired(q, p)
         /\ \A p \in Source \ {s} : Acquired(r, p)' = Acquired(r, p)
<1>1. /\ source_status[r][s] = "pending"
      /\ source_status'[r] = [source_status[r] EXCEPT ![s] = status]
      /\ raw_records'[r] = raw_records[r] \cup [source : {s}, format : formats]
      /\ \A q \in RunId \ {r} : /\ source_status'[q] = source_status[q]
                                /\ raw_records'[q] = raw_records[q]
  BY DEF SourceOutcome, TypeOK
<1>2. RefreshedSources(r)' = IF status = "completed"
                             THEN RefreshedSources(r) \cup {s}
                             ELSE RefreshedSources(r)
  BY <1>1 DEF RefreshedSources, TypeOK
<1>. QED
  BY <1>1, <1>2 DEF RefreshedSources, Acquired

LEMMA AcquireImplements ==
  ASSUME TypeOK, DocumentsInv, NEW r \in RunId, NEW s \in Source,
         NEW formats \in SUBSET Format,
         SourceOutcome(r, s, "completed", formats), UNCHANGED pc
  PROVE  Evidence!Acquire(r, s)
<1>1. UNCHANGED <<runs, source_records>>
  BY DEF SourceOutcome, store
<1>2. runs[r].status # "completed"
  BY DEF SourceOutcome, DocumentsInv
<1>3. "completed" \in SourceStatus
  BY DEF SourceStatus
<1>. DEFINE acquired == [q \in RunId |-> RefreshedSources(q)]
            batch == [q \in RunId |-> [p \in Source |->
                        IF p \in RefreshedSources(q) THEN Acquired(q, p) ELSE {}]]
            finished == [q \in RunId |->
                           IF runs[q].status = "completed" THEN runs[q].finished ELSE -1]
            authority == [p \in Source |-> CommittedRun(runs, p)]
            visible == [p \in Source |->
                          IF CommittedRun(runs, p) = NoRun THEN {}
                          ELSE StoredOf(source_records, CommittedRun(runs, p), p)]
<1>4. ~(finished[r] >= 0)
  BY <1>2
<1>5. s \notin acquired[r]
  BY <1>3, OutcomeOf
<1>6. acquired' = [acquired EXCEPT ![r] = @ \cup {s}]
  BY <1>3, OutcomeOf
<1>7. /\ Acquired(r, s)' \in SUBSET Format
      /\ batch' = [batch EXCEPT ![r][s] = Acquired(r, s)']
  <2>1. Acquired(r, s)' \in SUBSET Format
    BY DEF Acquired
  <2>2. ASSUME NEW q \in RunId
        PROVE  batch'[q] = [batch EXCEPT ![r][s] = Acquired(r, s)'][q]
    <3>1. CASE q # r
      <4>1. /\ RefreshedSources(q)' = RefreshedSources(q)
            /\ \A p \in Source : Acquired(q, p)' = Acquired(q, p)
        BY <1>3, <3>1, OutcomeOf
      <4>. QED
        BY <3>1, <4>1
    <3>2. CASE q = r
      <4>1. /\ RefreshedSources(r)' = RefreshedSources(r) \cup {s}
            /\ \A p \in Source \ {s} : Acquired(r, p)' = Acquired(r, p)
        BY <1>3, OutcomeOf
      <4>2. batch'[r] = [batch[r] EXCEPT ![s] = Acquired(r, s)']
        BY <4>1
      <4>. QED
        BY <3>2, <4>2
    <3>. QED
      BY <3>1, <3>2
  <2>. QED
    BY <2>1, <2>2
<1>8. UNCHANGED <<finished, authority, visible>>
  BY <1>1 DEF CommittedRun, LatestRun, Before, RunTimestamps, StoredOf
<1>. QED
  BY <1>4, <1>5, <1>6, <1>7, <1>8 DEF Evidence!Acquire, Evidence!Committed

LEMMA DieImplements ==
  ASSUME TypeOK, DocumentsInv, NEW r \in RunId, pc[r] # "done", Die(r),
         UNCHANGED <<clock, store>>
  PROVE  Evidence!Abandon(r)
<1>1. UNCHANGED <<runs, source_records>>
  BY DEF store
<1>2. runs[r].status # "completed"
  BY DEF DocumentsInv
<1>3. /\ RefreshedSources(r)' = {}
      /\ \A q \in RunId \ {r} : /\ RefreshedSources(q)' = RefreshedSources(q)
                                /\ \A s \in Source : Acquired(q, s)' = Acquired(q, s)
  BY DEF Die, TypeOK, RefreshedSources, Acquired
<1>. DEFINE acquired == [q \in RunId |-> RefreshedSources(q)]
            batch == [q \in RunId |-> [p \in Source |->
                        IF p \in RefreshedSources(q) THEN Acquired(q, p) ELSE {}]]
            finished == [q \in RunId |->
                           IF runs[q].status = "completed" THEN runs[q].finished ELSE -1]
            authority == [p \in Source |-> CommittedRun(runs, p)]
            visible == [p \in Source |->
                          IF CommittedRun(runs, p) = NoRun THEN {}
                          ELSE StoredOf(source_records, CommittedRun(runs, p), p)]
<1>4. ~(finished[r] >= 0)
  BY <1>2
<1>5. acquired' = [acquired EXCEPT ![r] = {}]
  BY <1>3
<1>6. batch' = [batch EXCEPT ![r] = [s \in Source |-> {}]]
  BY <1>3
<1>7. UNCHANGED <<finished, authority, visible>>
  BY <1>1 DEF CommittedRun, LatestRun, Before, RunTimestamps, StoredOf
<1>. QED
  BY <1>4, <1>5, <1>6, <1>7 DEF Evidence!Abandon, Evidence!Committed

LEMMA FinishImplements ==
  ASSUME TypeOK, AcquisitionInv, DocumentsInv, NEW r \in RunId, Finish(r),
         NEW t \in Time, t = finished_at[r]
  PROVE  Evidence!Commit(r, t)
<1>1. UNCHANGED <<source_records, source_status, raw_records>>
  BY DEF Finish
<1>. DEFINE acquired == [q \in RunId |-> RefreshedSources(q)]
            batch == [q \in RunId |-> [p \in Source |->
                        IF p \in RefreshedSources(q) THEN Acquired(q, p) ELSE {}]]
            finished == [q \in RunId |->
                           IF runs[q].status = "completed" THEN runs[q].finished ELSE -1]
            authority == [p \in Source |-> CommittedRun(runs, p)]
            visible == [p \in Source |->
                          IF CommittedRun(runs, p) = NoRun THEN {}
                          ELSE StoredOf(source_records, CommittedRun(runs, p), p)]
            taken == {s \in RefreshedSources(r) : Overtakes(r, s)}
<1>2. finished' = [finished EXCEPT ![r] = t]
  BY FinishedDocument
<1>3. ASSUME NEW s \in Source
      PROVE  CommittedRun(runs', s) = IF s \in taken THEN r ELSE CommittedRun(runs, s)
  <2>1. CASE CompletedRuns(runs', s) = {}
    <3>1. CompletedRuns(runs, s) = {} /\ s \notin RefreshedSources(r)
      BY <2>1, FinishedDocument
    <3>. QED
      BY <2>1, <3>1, NoLatestRun
  <2>2. CASE CompletedRuns(runs', s) # {}
    BY <2>2, FinishedLatest, FinishedDocument, LatestRunIs
  <2>. QED
    BY <2>1, <2>2
<1>4. ASSUME NEW s \in taken PROVE StoredOf(source_records, r, s) = Acquired(r, s)
  <2>1. TypeOK' /\ AcquisitionInv'
    <3>1. Next
      BY DEF Next, RunStep
    <3>2. [Next]_vars
      BY <3>1
    <3>3. TypeOK'
      BY <3>2, TypeStep
    <3>4. AcquisitionInv'
      BY <3>2, AcquisitionStep
    <3>. QED
      BY <3>3, <3>4
  <2>2. CommittedAcquisitionStored'
    BY <2>1, AcquisitionInvImplies, PTL
  <2>3. s \in Source /\ runs'[r].sources[s] = "completed"
    BY FinishedDocument DEF RefreshedSources
  <2>4. StoredOf(source_records', r, s) = Acquired(r, s)'
    BY <2>2, <2>3 DEF CommittedAcquisitionStored
  <2>. QED
    BY <1>1, <2>4 DEF Acquired
<1>5. r # NoRun
  BY ConstantsAssumption DEF RunId, NoRun
<1>6. authority' = [s \in Source |-> IF s \in taken THEN r ELSE authority[s]]
  BY <1>3
<1>7. visible' = [s \in Source |-> IF s \in taken THEN batch[r][s] ELSE visible[s]]
  <2>1. ASSUME NEW s \in Source
        PROVE  visible'[s] = IF s \in taken THEN batch[r][s] ELSE visible[s]
    <3>1. CASE s \in taken
      BY <1>1, <1>3, <1>4, <1>5, <3>1
    <3>2. CASE s \notin taken
      BY <1>1, <1>3, <3>2
    <3>. QED
      BY <3>1, <3>2
  <2>. QED
    BY <2>1
<1>8. UNCHANGED <<acquired, batch>>
  BY <1>1 DEF RefreshedSources, Acquired
<1>9. ~(finished[r] >= 0)
  BY FinishedDocument
<1>10. taken = {s \in acquired[r] :
                  \/ authority[s] = NoRun
                  \/ finished[authority[s]] < t
                  \/ finished[authority[s]] = t /\ authority[s] < r}
  <2>1. ASSUME NEW s \in Source, CommittedRun(runs, s) # NoRun
        PROVE  finished[CommittedRun(runs, s)] = runs[CommittedRun(runs, s)].finished
    BY <2>1, LatestRunCompleted, DocumentsDated DEF CommittedRun, Dated, CompletedRuns
  <2>. QED
    BY <2>1 DEF Overtakes, RefreshedSources
<1>. QED
  BY <1>2, <1>6, <1>7, <1>8, <1>9, <1>10
     DEF Evidence!Commit, Evidence!Committed, Evidence!Overrides

LEMMA EvidenceImplemented ==
  TypeOK /\ AcquisitionInv /\ DocumentsInv /\ [Next]_vars
    => [Evidence!Next]_Evidence!vars
<1>. SUFFICES ASSUME TypeOK, AcquisitionInv, DocumentsInv, [Next]_vars
              PROVE  Evidence!Next \/ UNCHANGED Evidence!vars
  OBVIOUS
<1>1. ASSUME NEW r \in RunId, Start(r) PROVE UNCHANGED Evidence!vars
  BY <1>1, StartIsQuiet
<1>2. ASSUME NEW r \in RunId, NEW s \in Source, SourceCompleted(r, s)
      PROVE  Evidence!Next
  BY <1>2, AcquireImplements DEF SourceCompleted, Evidence!Next
<1>3. ASSUME NEW r \in RunId, NEW s \in Source,
             \/ SourceSkipped(r, s)
             \/ SourceUnavailable(r, s)
             \/ OptionalSourceFailed(r, s)
      PROVE  UNCHANGED Evidence!vars
  <2>1. PICK status \in SourceStatus \ {"completed"}, formats \in SUBSET Format :
          SourceOutcome(r, s, status, formats)
    BY <1>3 DEF SourceSkipped, SourceUnavailable, OptionalSourceFailed, SourceStatus
  <2>2. UNCHANGED <<runs, source_records>>
    BY <2>1 DEF SourceOutcome, store
  <2>3. /\ s \notin RefreshedSources(r)
        /\ \A q \in RunId : RefreshedSources(q)' = RefreshedSources(q)
        /\ \A q \in RunId : \A p \in Source :
             q # r \/ p # s => Acquired(q, p)' = Acquired(q, p)
    BY <2>1, OutcomeOf
  <2>4. \A q \in RunId : \A p \in RefreshedSources(q) :
          Acquired(q, p)' = Acquired(q, p)
    BY <2>3 DEF RefreshedSources
  <2>5. /\ \A p \in Source : CommittedRun(runs, p)' = CommittedRun(runs, p)
        /\ \A p \in Source : StoredOf(source_records, CommittedRun(runs, p), p)'
                              = StoredOf(source_records, CommittedRun(runs, p), p)
    BY <2>2 DEF StoredOf, CommittedRun, LatestRun, Before, RunTimestamps
  <2>. QED
    BY <2>2, <2>3, <2>4, <2>5, EvidenceStutters
<1>4. ASSUME NEW r \in RunId, Crash(r) \/ \E s \in Source : RequiredSourceFailed(r, s)
      PROVE  Evidence!Next
  <2>1. pc[r] # "done" /\ Die(r) /\ UNCHANGED <<clock, store>>
    BY <1>4 DEF Crash, RequiredSourceFailed, Working, Looping, Reading
  <2>. QED
    BY <2>1, DieImplements DEF Evidence!Next
<1>5. ASSUME NEW r \in RunId, SourceStep(r)
      PROVE  Evidence!Next \/ UNCHANGED Evidence!vars
  BY <1>2, <1>3, <1>4, <1>5 DEF SourceStep
<1>6. ASSUME NEW r \in RunId, SaveSourceRecord(r) PROVE UNCHANGED Evidence!vars
  BY <1>6, SaveIsQuiet
<1>7. ASSUME NEW r \in RunId,
             \/ ReadRuns(r)
             \/ ReadStoredRecords(r)
             \/ PersistStep(r) /\ ~SaveSourceRecord(r)
             \/ Report(r)
      PROVE  UNCHANGED Evidence!vars
  <2>1. UNCHANGED <<runs, source_records, source_status, raw_records>>
    BY <1>7, ReadRunsEffect DEF ReadStoredRecords, PersistStep, Report,
         BeginUpserts, UpsertCanonicalFormat, BeginRemovals,
         MarkRemoved, BeginClaims, SupersedeClaim, BeginSaveClaims,
         SaveCriterionClaim, BeginSaveChanges, SaveAssessmentChange, Writes,
         NextLoop, store, local
  <2>. QED
    BY <2>1, QuietStep
<1>8. ASSUME NEW r \in RunId, Finish(r) PROVE Evidence!Next
  <2>1. PICK t \in Time : t = finished_at[r]
    BY DEF TypeOK
  <2>. QED
    BY <1>8, <2>1, FinishImplements DEF Evidence!Next
<1>9. CASE Tick \/ UNCHANGED vars
  BY <1>9, QuietStep DEF Tick, vars, store, local
<1>. QED
  BY <1>1, <1>4, <1>5, <1>6, <1>7, <1>8, <1>9 DEF Next, RunStep

(* The run documents and source records of the store implement one         *)
(* register per source that changes atomically, when a run commits: no     *)
(* reader sees half an acquisition, for any runs that overlap and die.     *)
THEOREM StoreImplementsEvidence == Spec => EvidenceSwitchesAtomically
<1>1. Init => TypeOK /\ AcquisitionInv /\ DocumentsInv
  BY TypeInit, AcquisitionInit, DocumentsInit
<1>2. TypeOK /\ AcquisitionInv /\ DocumentsInv /\ [Next]_vars
        => (TypeOK /\ AcquisitionInv /\ DocumentsInv)'
  BY TypeStep, AcquisitionStep, DocumentsStep
<1>. QED
  BY <1>1, <1>2, EvidenceInitially, EvidenceImplemented, PTL
     DEF Spec, EvidenceSwitchesAtomically, Evidence!Spec

-----------------------------------------------------------------------------
(* Why a run publishes its registry, its claims and its events, and        *)
(* nothing else.  Each loop is followed item by item: what it has written  *)
(* is as this run wants it, what is still in todo is as the run found it.  *)
(* Runs must not overlap: another one would write to the same documents.   *)

Alone ==
  /\ \A q, r \in RunId : pc[q] \in Working /\ pc[r] \in Working => q = r
  /\ \A r \in RunId : runs[r].status = "absent" => pc[r] = "idle"

(* f is in the current view as run r built it, or it is not current.       *)
Rewritten(r, f) ==
  IF f \in Registry(r)
  THEN /\ canonical_formats[f].state = "current"
       /\ canonical_formats[f].evidence = EvidenceFor(r, f)
  ELSE canonical_formats[f].state # "current"

RegistryFollowed(r) ==
  /\ pc[r] \in {"acquire", "index", "dates", "reuse", "save_records"} =>
       canonical_formats = previous_registry[r]
  /\ pc[r] = "upsert" =>
       /\ todo[r] \subseteq Registry(r)
       /\ \A f \in Format :
            /\ f \in Registry(r) => f \in todo[r] \/ Rewritten(r, f)
            /\ f \notin Registry(r) => canonical_formats[f] = previous_registry[r][f]
  /\ pc[r] = "mark_removed" =>
       /\ todo[r] \cap Registry(r) = {}
       /\ \A f \in Format : f \in todo[r] \/ Rewritten(r, f)
  /\ pc[r] \in {"supersede", "save_claims", "save_changes", "export"} =>
       \A f \in Format : Rewritten(r, f)

ClaimsFollowed(r) ==
  /\ pc[r] = "supersede" => SupersededClaims(r) \subseteq todo[r]
  /\ pc[r] \in {"save_claims", "save_changes", "export"} => SupersededClaims(r) = {}
  /\ pc[r] = "save_claims" => todo[r] \subseteq GeneratedClaims(r)
  /\ pc[r] \in {"save_claims", "save_changes", "export"} =>
       \A c \in GeneratedClaims(r) :
         \/ pc[r] = "save_claims" /\ c \in todo[r]
         \/ criterion_claims[c] = "current"

PublishInv ==
  Alone /\ \A r \in RunId : RegistryFollowed(r) /\ ClaimsFollowed(r)

LEMMA PublishImplies ==
  TypeOK /\ PublishInv => PublishedRegistryIsWhole /\ ProducingRulesReplaced
<1>. SUFFICES ASSUME TypeOK, PublishInv, NEW r \in RunId, pc[r] = "export"
              PROVE  /\ CurrentIds(canonical_formats) = Registry(r)
                     /\ \A f \in Registry(r) :
                          canonical_formats[f].evidence = EvidenceFor(r, f)
                     /\ \A s \in Mapped :
                          (\E c \in GeneratedClaims(r) : c[1] = s) =>
                            {c \in {s} \X Format : criterion_claims[c] = "current"}
                              = {c \in GeneratedClaims(r) : c[1] = s}
  BY DEF PublishedRegistryIsWhole, ProducingRulesReplaced
<1>1. \A f \in Format : Rewritten(r, f)
  BY DEF PublishInv, RegistryFollowed
<1>2. Registry(r) \subseteq Format
  BY DEF Registry
<1>3. CurrentIds(canonical_formats) = Registry(r)
  BY <1>1, <1>2 DEF Rewritten, CurrentIds
<1>4. \A f \in Registry(r) : canonical_formats[f].evidence = EvidenceFor(r, f)
  BY <1>1, <1>2 DEF Rewritten
<1>5. ASSUME NEW s \in Mapped, NEW g \in GeneratedClaims(r), g[1] = s
      PROVE  {c \in {s} \X Format : criterion_claims[c] = "current"}
               = {c \in GeneratedClaims(r) : c[1] = s}
  <2>1. SupersededClaims(r) = {}
    BY DEF PublishInv, ClaimsFollowed
  <2>2. \A c \in GeneratedClaims(r) : criterion_claims[c] = "current"
    BY DEF PublishInv, ClaimsFollowed
  <2>3. \A c \in GeneratedClaims(r) : c \in Mapped \X Format
    BY DEF GeneratedClaims
  <2>4. ASSUME NEW c \in {s} \X Format, criterion_claims[c] = "current"
        PROVE  c \in GeneratedClaims(r) /\ c[1] = s
    BY <1>5, <2>1, <2>4 DEF SupersededClaims
  <2>5. ASSUME NEW c \in GeneratedClaims(r), c[1] = s
        PROVE  c \in {s} \X Format
    BY <2>3, <2>5
  <2>. QED
    BY <2>2, <2>4, <2>5
<1>. QED
  BY <1>3, <1>4, <1>5

LEMMA PublishInit == Init => PublishInv
BY DEF Init, PublishInv, Alone, RegistryFollowed, ClaimsFollowed, Working, Looping, Reading, NoRunDocs

(* Run r works, before a step and after it: the others do not.             *)
LEMMA PublishStepOf ==
  ASSUME TypeOK, PublishInv, NEW r \in RunId, pc[r] \in Working,
         \A q \in RunId \ {r} : pc'[q] = pc[q],
         \A q \in RunId : runs'[q].status = "absent" => runs[q].status = "absent",
         runs'[r].status # "absent",
         pc'[r] \in Working => RegistryFollowed(r)' /\ ClaimsFollowed(r)'
  PROVE  PublishInv'
<1>1. \A q \in RunId \ {r} : pc'[q] \notin Working
  BY DEF PublishInv, Alone
<1>2. Alone'
  BY <1>1 DEF PublishInv, Alone
<1>3. ASSUME NEW q \in RunId PROVE RegistryFollowed(q)' /\ ClaimsFollowed(q)'
  BY <1>1 DEF RegistryFollowed, ClaimsFollowed, Working, Looping, Reading
<1>. QED
  BY <1>2, <1>3 DEF PublishInv

LEMMA SameEvidence ==
  ASSUME NEW r \in RunId, active_records'[r] = active_records[r]
  PROVE  /\ Registry(r)' = Registry(r)
         /\ \A f : EvidenceFor(r, f)' = EvidenceFor(r, f)
         /\ GeneratedClaims(r)' = GeneratedClaims(r)
BY DEF Registry, EvidenceFor, GeneratedClaims

LEMMA PublishStart ==
  ASSUME TypeOK, PublishInv, ~Overlap, NEW r \in RunId, Start(r)
  PROVE  PublishInv'
<1>1. \A q \in RunId : pc[q] \notin Working
  BY DEF Start, PublishInv, Alone, Working, Looping, Reading
<1>2. /\ pc'[r] = "acquire"
      /\ \A q \in RunId \ {r} : pc'[q] = pc[q]
      /\ canonical_formats' = previous_registry'[r]
  BY DEF Start, Goto, TypeOK
<1>3. \A q \in RunId : runs'[q].status = "absent" => q # r /\ runs[q].status = "absent"
  BY DEF Start, TypeOK, RunDoc
<1>4. Alone'
  BY <1>1, <1>2, <1>3 DEF PublishInv, Alone
<1>5. ASSUME NEW q \in RunId PROVE RegistryFollowed(q)' /\ ClaimsFollowed(q)'
  BY <1>1, <1>2 DEF RegistryFollowed, ClaimsFollowed, Working, Looping, Reading
<1>. QED
  BY <1>4, <1>5 DEF PublishInv

(* Until the first upsert the view is the one the run read. *)
LEMMA PublishEarly ==
  ASSUME TypeOK, PublishInv, NEW r \in RunId,
         pc[r] \in {"acquire", "index", "dates", "reuse", "save_records"},
         pc'[r] \in {"acquire", "index", "dates", "reuse", "save_records"},
         \A q \in RunId \ {r} : pc'[q] = pc[q],
         UNCHANGED <<runs, canonical_formats, previous_registry>>
  PROVE  PublishInv'
<1>1. RegistryFollowed(r)' /\ ClaimsFollowed(r)'
  BY DEF PublishInv, RegistryFollowed, ClaimsFollowed
<1>2. runs[r].status # "absent" /\ pc[r] \in Working
  BY DEF PublishInv, Alone, Working, Looping, Reading
<1>. QED
  BY <1>1, <1>2, PublishStepOf

LEMMA PublishDie ==
  ASSUME TypeOK, PublishInv, NEW r \in RunId, pc[r] \in Working, Die(r),
         UNCHANGED <<clock, store>>
  PROVE  PublishInv'
<1>1. /\ pc'[r] = "dead" /\ \A q \in RunId \ {r} : pc'[q] = pc[q]
      /\ UNCHANGED runs
  BY DEF Die, Exit, Goto, TypeOK, store
<1>2. runs[r].status # "absent" /\ pc'[r] \notin Working
  BY <1>1 DEF PublishInv, Alone, Working, Looping, Reading
<1>. QED
  BY <1>1, <1>2, PublishStepOf

(* A step of a loop, or to the next one. *)
LEMMA PublishLoop ==
  ASSUME TypeOK, PublishInv, NEW r \in RunId, PersistStep(r)
  PROVE  PublishInv'
<1>1. /\ pc[r] \in Working /\ runs[r].status # "absent"
      /\ UNCHANGED <<runs, active_records, previous_registry>>
      /\ \A q \in RunId \ {r} : pc'[q] = pc[q]
  BY DEF PersistStep, SaveSourceRecord, BeginUpserts, UpsertCanonicalFormat,
         BeginRemovals, MarkRemoved, BeginClaims, SupersedeClaim,
         BeginSaveClaims, SaveCriterionClaim, BeginSaveChanges,
         SaveAssessmentChange, Writes, NextLoop, Goto, store, local, TypeOK,
         PublishInv, Alone, Working, Looping, Reading
<1>2. /\ Registry(r)' = Registry(r)
      /\ \A f : EvidenceFor(r, f)' = EvidenceFor(r, f)
      /\ GeneratedClaims(r)' = GeneratedClaims(r)
  BY <1>1, SameEvidence
<1>3. RegistryFollowed(r) /\ ClaimsFollowed(r)
  BY DEF PublishInv
<1>4. CASE SaveSourceRecord(r)
  BY <1>1, <1>4, PublishEarly DEF SaveSourceRecord, Writes
<1>5. CASE BeginUpserts(r)
  <2>1. /\ pc[r] = "save_records" /\ pc'[r] = "upsert"
        /\ todo'[r] = Registry(r) /\ UNCHANGED canonical_formats
    BY <1>5 DEF BeginUpserts, NextLoop, Goto, store, TypeOK
  <2>2. RegistryFollowed(r)'
    BY <1>1, <1>2, <1>3, <2>1 DEF RegistryFollowed
  <2>. QED
    BY <1>1, <2>1, <2>2, PublishStepOf DEF ClaimsFollowed
<1>6. CASE UpsertCanonicalFormat(r)
  <2>1. PICK g \in todo[r] :
          /\ pc[r] = "upsert" /\ pc'[r] = "upsert" /\ todo'[r] = todo[r] \ {g}
          /\ canonical_formats' = [canonical_formats EXCEPT
               ![g] = [state |-> "current", evidence |-> EvidenceFor(r, g)]]
    BY <1>6 DEF UpsertCanonicalFormat, Writes, TypeOK
  <2>2. g \in Format
    BY <2>1 DEF TypeOK, TodoTypeOK
  <2>3. /\ canonical_formats'[g].state = "current"
        /\ canonical_formats'[g].evidence = EvidenceFor(r, g)
        /\ \A f \in Format \ {g} : canonical_formats'[f] = canonical_formats[f]
    BY <2>1, <2>2 DEF TypeOK
  <2>4. ASSUME NEW f \in Format
        PROVE  /\ f \in Registry(r) => f \in todo'[r] \/ Rewritten(r, f)'
               /\ f \notin Registry(r) /\ f # g =>
                    canonical_formats'[f] = previous_registry'[r][f]
    BY <1>1, <1>2, <1>3, <2>1, <2>3 DEF RegistryFollowed, Rewritten
  <2>5. g \in Registry(r)
    BY <1>3, <2>1 DEF RegistryFollowed
  <2>6. RegistryFollowed(r)'
    <3>1. todo'[r] \subseteq Registry(r)'
      BY <1>2, <1>3, <2>1 DEF RegistryFollowed
    <3>2. ASSUME NEW f \in Format
          PROVE  /\ f \in Registry(r)' => f \in todo'[r] \/ Rewritten(r, f)'
                 /\ f \notin Registry(r)' =>
                      canonical_formats'[f] = previous_registry'[r][f]
      BY <1>2, <2>4, <2>5
    <3>. QED
      BY <2>1, <3>1, <3>2 DEF RegistryFollowed
  <2>. QED
    BY <1>1, <2>1, <2>6, PublishStepOf DEF ClaimsFollowed
<1>7. CASE BeginRemovals(r)
  <2>1. /\ pc[r] = "upsert" /\ pc'[r] = "mark_removed" /\ todo[r] = {}
        /\ todo'[r] = CurrentIds(previous_registry[r]) \ Registry(r)
        /\ UNCHANGED canonical_formats
    BY <1>7 DEF BeginRemovals, NextLoop, Goto, store, TypeOK
  <2>2. RegistryFollowed(r)'
    BY <1>1, <1>2, <1>3, <2>1 DEF RegistryFollowed, Rewritten, CurrentIds
  <2>. QED
    BY <1>1, <2>1, <2>2, PublishStepOf DEF ClaimsFollowed
<1>8. CASE MarkRemoved(r)
  <2>1. PICK g \in todo[r] :
          /\ pc[r] = "mark_removed" /\ pc'[r] = "mark_removed"
          /\ todo'[r] = todo[r] \ {g}
          /\ canonical_formats' = [canonical_formats EXCEPT
               ![g] = [previous_registry[r][g] EXCEPT !.state = "removed"]]
    BY <1>8 DEF MarkRemoved, Writes, TypeOK
  <2>2. g \in Format /\ g \notin Registry(r)
    BY <1>3, <2>1 DEF TypeOK, TodoTypeOK, RegistryFollowed
  <2>3. canonical_formats'[g].state = "removed"
    BY <2>1, <2>2 DEF TypeOK, CanonicalDoc
  <2>4. \A f \in Format \ {g} : canonical_formats'[f] = canonical_formats[f]
    BY <2>1 DEF TypeOK
  <2>5. RegistryFollowed(r)'
    BY <1>1, <1>2, <1>3, <2>1, <2>2, <2>3, <2>4 DEF RegistryFollowed, Rewritten
  <2>. QED
    BY <1>1, <2>1, <2>5, PublishStepOf DEF ClaimsFollowed
<1>9. ASSUME pc[r] \in {"mark_removed", "supersede", "save_claims", "save_changes"},
             pc[r] = "mark_removed" => todo[r] = {},
             pc'[r] \in {"supersede", "save_claims", "save_changes"},
             UNCHANGED canonical_formats
      PROVE  RegistryFollowed(r)'
  BY <1>1, <1>2, <1>3, <1>9 DEF RegistryFollowed, Rewritten
<1>10. CASE BeginClaims(r)
  <2>1. /\ pc[r] = "mark_removed" /\ todo[r] = {}
        /\ pc'[r] = IF GeneratedClaims(r) = {} THEN "save_changes" ELSE "supersede"
        /\ GeneratedClaims(r) # {} => todo'[r] = SupersededClaims(r)
        /\ UNCHANGED <<canonical_formats, criterion_claims>>
    BY <1>10 DEF BeginClaims, NextLoop, Goto, store, TypeOK
  <2>2. SupersededClaims(r)' = SupersededClaims(r)
    BY <1>2, <2>1 DEF SupersededClaims
  <2>3. GeneratedClaims(r) = {} => SupersededClaims(r) = {}
    BY DEF SupersededClaims
  <2>4. ClaimsFollowed(r)'
    BY <1>2, <2>1, <2>2, <2>3 DEF ClaimsFollowed
  <2>. QED
    BY <1>1, <1>9, <2>1, <2>4, PublishStepOf
<1>11. CASE SupersedeClaim(r)
  <2>1. PICK c \in todo[r] :
          /\ pc[r] = "supersede" /\ pc'[r] = "supersede" /\ todo'[r] = todo[r] \ {c}
          /\ criterion_claims' = [criterion_claims EXCEPT ![c] = "superseded"]
          /\ UNCHANGED canonical_formats
    BY <1>11 DEF SupersedeClaim, Writes, TypeOK
  <2>2. c \in Source \X Format
    BY <2>1, ConstantsAssumption DEF TypeOK, TodoTypeOK
  <2>3. SupersededClaims(r)' \subseteq SupersededClaims(r) \ {c}
    BY <1>2, <2>1, <2>2, ConstantsAssumption DEF SupersededClaims, TypeOK
  <2>4. ClaimsFollowed(r)'
    BY <1>3, <2>1, <2>3 DEF ClaimsFollowed
  <2>. QED
    BY <1>1, <1>9, <2>1, <2>4, PublishStepOf
<1>12. CASE BeginSaveClaims(r)
  <2>1. /\ pc[r] = "supersede" /\ todo[r] = {} /\ pc'[r] = "save_claims"
        /\ todo'[r] = GeneratedClaims(r)
        /\ UNCHANGED <<canonical_formats, criterion_claims>>
    BY <1>12 DEF BeginSaveClaims, NextLoop, Goto, store, TypeOK
  <2>2. SupersededClaims(r)' = SupersededClaims(r)
    BY <1>2, <2>1 DEF SupersededClaims
  <2>3. ClaimsFollowed(r)'
    BY <1>2, <1>3, <2>1, <2>2 DEF ClaimsFollowed
  <2>. QED
    BY <1>1, <1>9, <2>1, <2>3, PublishStepOf
<1>13. CASE SaveCriterionClaim(r)
  <2>1. PICK c \in todo[r] :
          /\ pc[r] = "save_claims" /\ pc'[r] = "save_claims"
          /\ todo'[r] = todo[r] \ {c}
          /\ criterion_claims' = [criterion_claims EXCEPT ![c] = "current"]
          /\ UNCHANGED canonical_formats
    BY <1>13 DEF SaveCriterionClaim, Writes, TypeOK
  <2>2. c \in GeneratedClaims(r) /\ c \in Source \X Format
    BY <1>3, <2>1, ConstantsAssumption DEF ClaimsFollowed, TypeOK, TodoTypeOK
  <2>3. SupersededClaims(r)' \subseteq SupersededClaims(r)
    BY <1>2, <2>1, <2>2, ConstantsAssumption DEF SupersededClaims, TypeOK
  <2>4. \A d \in GeneratedClaims(r) :
          criterion_claims'[d] = IF d = c THEN "current" ELSE criterion_claims[d]
    BY <2>1, <2>2, ConstantsAssumption DEF TypeOK, GeneratedClaims
  <2>5. ClaimsFollowed(r)'
    BY <1>2, <1>3, <2>1, <2>2, <2>3, <2>4 DEF ClaimsFollowed
  <2>. QED
    BY <1>1, <1>9, <2>1, <2>5, PublishStepOf
<1>14. CASE BeginSaveChanges(r) \/ SaveAssessmentChange(r)
  <2>1. /\ pc'[r] = "save_changes"
        /\ \/ pc[r] = "save_claims" /\ todo[r] = {}
           \/ pc[r] = "save_changes"
        /\ UNCHANGED <<canonical_formats, criterion_claims>>
    BY <1>14 DEF BeginSaveChanges, SaveAssessmentChange, Writes, NextLoop, Goto,
                 store, TypeOK
  <2>2. SupersededClaims(r)' = SupersededClaims(r)
    BY <1>2, <2>1 DEF SupersededClaims
  <2>3. ClaimsFollowed(r)'
    BY <1>2, <1>3, <2>1, <2>2 DEF ClaimsFollowed
  <2>. QED
    BY <1>1, <1>9, <2>1, <2>3, PublishStepOf
<1>. QED
  BY <1>4, <1>5, <1>6, <1>7, <1>8, <1>10, <1>11, <1>12, <1>13, <1>14
     DEF PersistStep

LEMMA PublishStep ==
  ASSUME ~Overlap
  PROVE  TypeOK /\ PublishInv /\ [Next]_vars => PublishInv'
<1>. SUFFICES ASSUME TypeOK, PublishInv, [Next]_vars PROVE PublishInv'
  OBVIOUS
<1>1. ASSUME NEW r \in RunId, Start(r) PROVE PublishInv'
  BY <1>1, PublishStart
<1>2. ASSUME NEW r \in RunId,
             Crash(r) \/ \E s \in Source : RequiredSourceFailed(r, s)
      PROVE  PublishInv'
  BY <1>2, PublishDie DEF Crash, RequiredSourceFailed, Working, Looping, Reading
<1>3. ASSUME NEW r \in RunId, SourceStep(r) PROVE PublishInv'
  BY <1>2, <1>3, PublishEarly
     DEF SourceStep, SourceSkipped, SourceCompleted, SourceUnavailable,
         OptionalSourceFailed, SourceOutcome, store
<1>4. ASSUME NEW r \in RunId, ReadRuns(r) \/ ReadStoredRecords(r)
      PROVE  PublishInv'
  BY <1>4, PublishEarly, ReadRunsEffect DEF ReadStoredRecords, Goto, store, TypeOK
<1>5. ASSUME NEW r \in RunId, PersistStep(r) PROVE PublishInv'
  BY <1>5, PublishLoop
<1>6. ASSUME NEW r \in RunId, Report(r) PROVE PublishInv'
  <2>1. /\ pc[r] = "save_changes" /\ pc'[r] = "export"
        /\ \A q \in RunId \ {r} : pc'[q] = pc[q]
        /\ UNCHANGED <<runs, canonical_formats, criterion_claims, active_records>>
        /\ runs[r].status # "absent"
    BY <1>6 DEF Report, Goto, store, TypeOK, PublishInv, Alone
  <2>2. /\ Registry(r)' = Registry(r)
        /\ \A f : EvidenceFor(r, f)' = EvidenceFor(r, f)
        /\ GeneratedClaims(r)' = GeneratedClaims(r)
    BY <2>1, SameEvidence
  <2>3. SupersededClaims(r)' = SupersededClaims(r)
    BY <2>1, <2>2 DEF SupersededClaims
  <2>4. RegistryFollowed(r)' /\ ClaimsFollowed(r)'
    BY <2>1, <2>2, <2>3 DEF PublishInv, RegistryFollowed, ClaimsFollowed, Rewritten
  <2>. QED
    BY <2>1, <2>4, PublishStepOf DEF Working, Looping, Reading
<1>7. ASSUME NEW r \in RunId, Finish(r) PROVE PublishInv'
  <2>1. /\ pc[r] = "export" /\ pc'[r] = "done"
        /\ \A q \in RunId \ {r} : pc'[q] = pc[q]
        /\ runs'[r].status = "completed"
        /\ \A q \in RunId \ {r} : runs'[q] = runs[q]
    BY <1>7 DEF Finish, Exit, Goto, TypeOK, RunDoc
  <2>. QED
    BY <2>1, PublishStepOf DEF Working, Looping, Reading
<1>8. CASE Tick \/ UNCHANGED vars
  <2>1. UNCHANGED <<store, pc, local, todo>>
    BY <1>8 DEF Tick, vars
  <2>. QED
    BY <2>1 DEF store, local, PublishInv, Alone, RegistryFollowed, ClaimsFollowed,
         Rewritten, Registry, EvidenceFor, GeneratedClaims, SupersededClaims
<1>. QED
  BY <1>1, <1>2, <1>3, <1>4, <1>5, <1>6, <1>7, <1>8 DEF Next, RunStep

LEMMA PublishHolds ==
  ASSUME ~Overlap
  PROVE  Spec => [](PublishedRegistryIsWhole /\ ProducingRulesReplaced)
<1>1. TypeOK /\ PublishInv /\ [Next]_vars => (TypeOK /\ PublishInv)'
  BY TypeStep, PublishStep
<1>. QED
  BY <1>1, TypeInit, PublishInit, PublishImplies, PTL DEF Spec

(* Without overlap, a run that is about to commit has left exactly the     *)
(* registry it rebuilt, whatever runs that died before it left half done.  *)
THEOREM RegistryIsWhole ==
  ASSUME ~Overlap
  PROVE  Spec => []PublishedRegistryIsWhole
BY PublishHolds, PTL

(* Without overlap, the current claims of a rule that produced some in a   *)
(* run are those claims, also after a run that died replacing them.        *)
THEOREM RulesReplaced ==
  ASSUME ~Overlap
  PROVE  Spec => []ProducingRulesReplaced
BY PublishHolds, PTL

-----------------------------------------------------------------------------
(* Why each change of the view has its event: the events of a run are      *)
(* those it detected, less those its last loop has still to save, and no   *)
(* other run saves any under its id.                                       *)

EventsFollowed(r) ==
  /\ pc[r] \in {"idle", "acquire", "index", "dates", "reuse", "save_records", "upsert",
                "mark_removed", "supersede", "save_claims"}
       => EventsOf(r) = {}
  /\ pc[r] = "save_changes" =>
       /\ todo[r] \subseteq DetectedChanges(r)
       /\ EventsOf(r) \subseteq DetectedChanges(r)
       /\ DetectedChanges(r) \subseteq EventsOf(r) \cup todo[r]
  /\ pc[r] = "export" => EventsOf(r) = DetectedChanges(r)

EventsInv == \A r \in RunId : EventsFollowed(r)

LEMMA DetectedRun ==
  ASSUME NEW r, NEW change \in DetectedChanges(r)
  PROVE  change.run = r
<1>. DEFINE before == CurrentIds(previous_registry[r])
            was == [f \in Format |-> previous_registry[r][f].evidence]
            is == [f \in Format |-> EvidenceFor(r, f)]
            affected(t) == Affected(t, before, was, Registry(r), is)
<1>1. PICK t \in ChangeType :
        change \in ChangesOfType(r, t, affected(t), before, Registry(r))
  BY DEF DetectedChanges
<1>. HIDE DEF affected, before
<1>. QED
  BY <1>1 DEF ChangesOfType

(* What an event says of its type, and what each type has of events.       *)
LEMMA EventOfType ==
  ASSUME NEW r, NEW type \in ChangeType, NEW t \in ChangeType,
         NEW affected, NEW before, NEW after,
         NEW change \in ChangesOfType(r, t, affected, before, after)
  PROVE  /\ change.type = type =>
              t = type /\ ~IsBulk(affected, before, after) /\ change.format \in affected
         /\ change.type = "source_coverage_changed" =>
              /\ IsBulk(affected, before, after)
              /\ change.collapsed = t
              /\ change.affected = Cardinality(affected)
<1>1. type # "source_coverage_changed" /\ t # "source_coverage_changed"
  BY ConstantsAssumption DEF ChangeType
<1>. QED
  BY <1>1 DEF ChangesOfType

LEMMA TypeHasEvents ==
  ASSUME NEW r, NEW type, NEW affected, NEW before, NEW after
  PROVE  /\ ~IsBulk(affected, before, after) =>
              \A f \in affected : [run |-> r, type |-> type, format |-> f]
                                  \in ChangesOfType(r, type, affected, before, after)
         /\ IsBulk(affected, before, after) =>
              [run |-> r, type |-> "source_coverage_changed", collapsed |-> type,
               affected |-> Cardinality(affected)]
                \in ChangesOfType(r, type, affected, before, after)
BY DEF ChangesOfType

(* Which formats changed depends on the documents in both views only.      *)
LEMMA AffectedSame ==
  ASSUME NEW type, NEW before, NEW after, NEW was, NEW is, NEW other,
         \A f \in after : is[f] = other[f]
  PROVE  Affected(type, before, was, after, is) = Affected(type, before, was, after, other)
BY DEF Affected

(* The events of all types together tell the change of each type.          *)
LEMMA ChangesTold ==
  ASSUME NEW r, NEW before, NEW after, NEW affected, NEW type \in ChangeType,
         NEW events,
         \A change : change \in events <=>
           \E t \in ChangeType :
             change \in ChangesOfType(r, t, affected[t], before, after)
  PROVE  TellChange(events, type, affected[type], before, after)
<1>. DEFINE ofType(t) == ChangesOfType(r, t, affected[t], before, after)
            single == {change \in events : change.type = type}
            bulk == {change \in events : /\ change.type = "source_coverage_changed"
                                         /\ change.collapsed = type}
<1>1. ASSUME NEW change \in single
      PROVE  ~IsBulk(affected[type], before, after) /\ change.format \in affected[type]
  BY EventOfType
<1>2. ASSUME NEW change \in bulk
      PROVE  /\ IsBulk(affected[type], before, after)
             /\ change.affected = Cardinality(affected[type])
  BY EventOfType
<1>3. CASE IsBulk(affected[type], before, after)
  <2>. DEFINE event == [run |-> r, type |-> "source_coverage_changed",
                        collapsed |-> type, affected |-> Cardinality(affected[type])]
  <2>1. event \in ofType(type)
    BY <1>3, TypeHasEvents
  <2>2. event \in bulk /\ event.affected = Cardinality(affected[type])
    BY <2>1
  <2>3. single = {}
    BY <1>1, <1>3
  <2>4. {change.affected : change \in bulk} = {Cardinality(affected[type])}
    <3>. HIDE DEF event, bulk
    <3>. QED
      BY <1>2, <2>2
  <2>. QED
    BY <1>3, <2>3, <2>4 DEF TellChange
<1>4. CASE ~IsBulk(affected[type], before, after)
  <2>1. bulk = {}
    BY <1>2, <1>4
  <2>2. ASSUME NEW f \in affected[type] PROVE \E change \in single : change.format = f
    <3>. DEFINE event == [run |-> r, type |-> type, format |-> f]
    <3>1. event \in ofType(type)
      BY <1>4, TypeHasEvents
    <3>2. event \in single /\ event.format = f
      BY <3>1
    <3>. QED
      BY <3>2
  <2>3. {change.format : change \in single} = affected[type]
    <3>. HIDE DEF single
    <3>. QED
      BY <1>1, <2>2
  <2>. QED
    BY <1>4, <2>1, <2>3 DEF TellChange
<1>. QED
  BY <1>3, <1>4

LEMMA EventsImply ==
  TypeOK /\ EventsInv /\ PublishedRegistryIsWhole => ChangesAccountedFor
<1>. SUFFICES ASSUME TypeOK, EventsInv, PublishedRegistryIsWhole
              PROVE  ChangesAccountedFor
  OBVIOUS
<1>. SUFFICES ASSUME NEW r \in RunId, pc[r] = "export"
              PROVE  LET before == CurrentIds(previous_registry[r])
                         after  == CurrentIds(canonical_formats)
                         was == [f \in Format |-> previous_registry[r][f].evidence]
                         is  == [f \in Format |-> canonical_formats[f].evidence]
                     IN IF before = {}
                        THEN EventsOf(r) = {}
                        ELSE \A type \in ChangeType :
                               TellChange(EventsOf(r), type,
                                          Affected(type, before, was, after, is),
                                          before, after)
  BY DEF ChangesAccountedFor
<1>. DEFINE before == CurrentIds(previous_registry[r])
            was == [f \in Format |-> previous_registry[r][f].evidence]
            stored == [f \in Format |-> canonical_formats[f].evidence]
            built == [f \in Format |-> EvidenceFor(r, f)]
            affected == [type \in ChangeType |->
                           Affected(type, before, was, Registry(r), built)]
<1>1. CurrentIds(canonical_formats) = Registry(r)
  BY DEF PublishedRegistryIsWhole
<1>2. EventsOf(r) = DetectedChanges(r)
  BY DEF EventsInv, EventsFollowed
<1>3. \A f \in Registry(r) : stored[f] = built[f]
  BY DEF PublishedRegistryIsWhole, Registry
<1>4. CASE before = {}
  BY <1>2, <1>4 DEF DetectedChanges
<1>5. ASSUME before # {}, NEW type \in ChangeType
      PROVE  TellChange(EventsOf(r), type,
                        Affected(type, before, was, Registry(r), stored),
                        before, Registry(r))
  <2>1. Affected(type, before, was, Registry(r), stored) = affected[type]
    <3>. HIDE DEF stored, built, was, before
    <3>. QED
      BY <1>3, <1>5, AffectedSame
  <2>2. EventsOf(r) = UNION {ChangesOfType(r, t, affected[t], before, Registry(r)) :
                               t \in ChangeType}
    BY <1>2, <1>5 DEF DetectedChanges
  <2>. HIDE DEF affected, before
  <2>3. \A change : change \in EventsOf(r) <=>
          \E t \in ChangeType :
            change \in ChangesOfType(r, t, affected[t], before, Registry(r))
    BY <2>2
  <2>. QED
    BY <1>5, <2>1, <2>3, ChangesTold
<1>. QED
  BY <1>1, <1>4, <1>5

LEMMA EventsInit == Init => EventsInv
BY DEF Init, EventsInv, EventsFollowed, EventsOf

(* A step of r that saves no event: the other runs are where they were.    *)
LEMMA EventsQuiet ==
  ASSUME EventsInv, NEW r \in RunId, UNCHANGED assessment_changes,
         \A q \in RunId \ {r} :
           /\ pc'[q] = pc[q] /\ todo'[q] = todo[q]
           /\ active_records'[q] = active_records[q]
           /\ previous_registry'[q] = previous_registry[q],
         EventsFollowed(r)'
  PROVE  EventsInv'
<1>1. ASSUME NEW q \in RunId \ {r} PROVE EventsFollowed(q)'
  <2>1. EventsOf(q)' = EventsOf(q)
    BY DEF EventsOf
  <2>2. DetectedChanges(q)' = DetectedChanges(q)
    BY SameEvidence DEF DetectedChanges
  <2>. QED
    BY <2>1, <2>2 DEF EventsInv, EventsFollowed
<1>. QED
  BY <1>1 DEF EventsInv

(* Until its last loop a run has saved no event. *)
LEMMA EventsEarly ==
  ASSUME EventsInv, NEW r \in RunId, UNCHANGED assessment_changes,
         pc[r] \in {"idle", "acquire", "index", "dates", "reuse", "save_records", "upsert",
                    "mark_removed", "supersede", "save_claims"},
         pc'[r] \in {"acquire", "index", "dates", "reuse", "save_records", "upsert",
                     "mark_removed", "supersede", "save_claims", "dead"},
         \A q \in RunId \ {r} :
           /\ pc'[q] = pc[q] /\ todo'[q] = todo[q]
           /\ active_records'[q] = active_records[q]
           /\ previous_registry'[q] = previous_registry[q]
  PROVE  EventsInv'
<1>1. EventsFollowed(r)'
  BY DEF EventsInv, EventsFollowed, EventsOf
<1>. QED
  BY <1>1, EventsQuiet

LEMMA EventsLoop ==
  ASSUME TypeOK, EventsInv, NEW r \in RunId, PersistStep(r)
  PROVE  EventsInv'
<1>1. /\ UNCHANGED <<active_records, previous_registry>>
      /\ \A q \in RunId \ {r} : pc'[q] = pc[q] /\ todo'[q] = todo[q]
  BY DEF PersistStep, SaveSourceRecord, BeginUpserts, UpsertCanonicalFormat,
         BeginRemovals, MarkRemoved, BeginClaims, SupersedeClaim,
         BeginSaveClaims, SaveCriterionClaim, BeginSaveChanges,
         SaveAssessmentChange, Writes, NextLoop, Goto, local, TypeOK
<1>2. DetectedChanges(r)' = DetectedChanges(r)
  BY <1>1, SameEvidence DEF DetectedChanges
<1>3. CASE \/ SaveSourceRecord(r) \/ BeginUpserts(r) \/ UpsertCanonicalFormat(r)
           \/ BeginRemovals(r) \/ MarkRemoved(r) \/ SupersedeClaim(r)
           \/ BeginSaveClaims(r) \/ SaveCriterionClaim(r)
           \/ BeginClaims(r) /\ GeneratedClaims(r) # {}
  <2>1. /\ pc[r] \in {"save_records", "upsert", "mark_removed", "supersede",
                      "save_claims"}
        /\ pc'[r] \in {"save_records", "upsert", "mark_removed", "supersede",
                       "save_claims"}
        /\ UNCHANGED assessment_changes
    BY <1>3 DEF SaveSourceRecord, BeginUpserts, UpsertCanonicalFormat,
         BeginRemovals, MarkRemoved, BeginClaims, SupersedeClaim,
         BeginSaveClaims, SaveCriterionClaim, Writes, NextLoop, Goto, store, TypeOK
  <2>. QED
    BY <1>1, <2>1, EventsEarly
<1>4. CASE \/ BeginSaveChanges(r)
           \/ BeginClaims(r) /\ GeneratedClaims(r) = {}
  <2>1. /\ pc[r] \in {"mark_removed", "save_claims"} /\ pc'[r] = "save_changes"
        /\ todo'[r] = DetectedChanges(r)
        /\ UNCHANGED assessment_changes
    BY <1>4 DEF BeginClaims, BeginSaveChanges, NextLoop, Goto, store, TypeOK
  <2>2. EventsFollowed(r)'
    BY <1>2, <2>1 DEF EventsInv, EventsFollowed, EventsOf
  <2>. QED
    BY <1>1, <2>1, <2>2, EventsQuiet
<1>5. CASE SaveAssessmentChange(r)
  <2>1. PICK change \in todo[r] :
          /\ pc[r] = "save_changes" /\ pc'[r] = "save_changes"
          /\ todo'[r] = todo[r] \ {change}
          /\ assessment_changes' = assessment_changes \cup {change}
    BY <1>5 DEF SaveAssessmentChange, Writes, TypeOK
  <2>2. change \in DetectedChanges(r) /\ change.run = r
    BY <2>1, DetectedRun DEF EventsInv, EventsFollowed
  <2>3. EventsOf(r)' = EventsOf(r) \cup {change}
    BY <2>1, <2>2 DEF EventsOf
  <2>4. EventsFollowed(r)'
    BY <1>2, <2>1, <2>2, <2>3 DEF EventsInv, EventsFollowed
  <2>5. ASSUME NEW q \in RunId \ {r} PROVE EventsFollowed(q)'
    <3>1. EventsOf(q)' = EventsOf(q)
      BY <2>1, <2>2 DEF EventsOf
    <3>2. DetectedChanges(q)' = DetectedChanges(q)
      BY <1>1, SameEvidence DEF DetectedChanges
    <3>. QED
      BY <1>1, <3>1, <3>2 DEF EventsInv, EventsFollowed
  <2>. QED
    BY <2>4, <2>5 DEF EventsInv
<1>6. CASE BeginClaims(r)
  BY <1>3, <1>4, <1>6
<1>. QED
  BY <1>3, <1>4, <1>5, <1>6 DEF PersistStep

LEMMA EventsStep == TypeOK /\ EventsInv /\ [Next]_vars => EventsInv'
<1>. SUFFICES ASSUME TypeOK, EventsInv, [Next]_vars PROVE EventsInv'
  OBVIOUS
<1>1. ASSUME NEW r \in RunId, Start(r) PROVE EventsInv'
  BY <1>1, EventsEarly DEF Start, Goto, TypeOK
<1>2. ASSUME NEW r \in RunId,
             Crash(r) \/ \E s \in Source : RequiredSourceFailed(r, s)
      PROVE  EventsInv'
  <2>1. /\ pc'[r] = "dead" /\ UNCHANGED assessment_changes
        /\ \A q \in RunId \ {r} :
             /\ pc'[q] = pc[q] /\ todo'[q] = todo[q]
             /\ active_records'[q] = active_records[q]
             /\ previous_registry'[q] = previous_registry[q]
    BY <1>2 DEF Crash, RequiredSourceFailed, Die, Exit, Goto, store, TypeOK
  <2>2. EventsFollowed(r)'
    BY <2>1 DEF EventsFollowed
  <2>. QED
    BY <2>1, <2>2, EventsQuiet
<1>3. ASSUME NEW r \in RunId, SourceStep(r) PROVE EventsInv'
  BY <1>2, <1>3, EventsEarly
     DEF SourceStep, SourceSkipped, SourceCompleted, SourceUnavailable,
         OptionalSourceFailed, SourceOutcome, store
<1>4. ASSUME NEW r \in RunId, ReadRuns(r) \/ ReadStoredRecords(r)
      PROVE  EventsInv'
  BY <1>4, EventsEarly, ReadRunsEffect DEF ReadStoredRecords, Goto, store, TypeOK
<1>5. ASSUME NEW r \in RunId, PersistStep(r) PROVE EventsInv'
  BY <1>5, EventsLoop
<1>6. ASSUME NEW r \in RunId, Report(r) PROVE EventsInv'
  <2>1. /\ pc[r] = "save_changes" /\ todo[r] = {} /\ pc'[r] = "export"
        /\ UNCHANGED <<assessment_changes, todo, active_records, previous_registry>>
        /\ \A q \in RunId \ {r} : pc'[q] = pc[q]
    BY <1>6 DEF Report, Goto, store, TypeOK
  <2>2. EventsOf(r)' = EventsOf(r) /\ DetectedChanges(r)' = DetectedChanges(r)
    BY <2>1, SameEvidence DEF EventsOf, DetectedChanges
  <2>3. EventsFollowed(r)'
    BY <2>1, <2>2 DEF EventsInv, EventsFollowed
  <2>. QED
    BY <2>1, <2>3, EventsQuiet
<1>7. ASSUME NEW r \in RunId, Finish(r) PROVE EventsInv'
  <2>1. /\ pc'[r] = "done" /\ UNCHANGED assessment_changes
        /\ \A q \in RunId \ {r} :
             /\ pc'[q] = pc[q] /\ todo'[q] = todo[q]
             /\ active_records'[q] = active_records[q]
             /\ previous_registry'[q] = previous_registry[q]
    BY <1>7 DEF Finish, Exit, Goto, TypeOK
  <2>2. EventsFollowed(r)'
    BY <2>1 DEF EventsFollowed
  <2>. QED
    BY <2>1, <2>2, EventsQuiet
<1>8. CASE Tick \/ UNCHANGED vars
  <2>1. UNCHANGED <<assessment_changes, pc, todo, active_records, previous_registry>>
    BY <1>8 DEF Tick, vars, store, local
  <2>2. ASSUME NEW q \in RunId PROVE EventsFollowed(q)'
    <3>1. EventsOf(q)' = EventsOf(q) /\ DetectedChanges(q)' = DetectedChanges(q)
      BY <2>1, SameEvidence DEF EventsOf, DetectedChanges
    <3>. QED
      BY <2>1, <3>1 DEF EventsInv, EventsFollowed
  <2>. QED
    BY <2>2 DEF EventsInv
<1>. QED
  BY <1>1, <1>2, <1>3, <1>4, <1>5, <1>6, <1>7, <1>8 DEF Next, RunStep

(* Without overlap, the events of a run that is about to commit tell of    *)
(* every format that entered the view it found, left it or stayed with     *)
(* another document, one by one or, from the threshold of                  *)
(* _collapse_bulk_changes upward, by the number of them; and of no other.  *)
THEOREM ChangesHaveEvents ==
  ASSUME ~Overlap
  PROVE  Spec => []ChangesAccountedFor
<1>1. TypeOK /\ PublishInv /\ EventsInv /\ [Next]_vars
        => (TypeOK /\ PublishInv /\ EventsInv)'
  BY TypeStep, PublishStep, EventsStep
<1>2. TypeOK /\ PublishInv /\ EventsInv => ChangesAccountedFor
  BY PublishImplies, EventsImply
<1>. QED
  BY <1>1, <1>2, TypeInit, PublishInit, EventsInit, PTL DEF Spec

=============================================================================
