--------------------------- MODULE WebJobsProofs ---------------------------
(***************************************************************************)
(* Theorems about WebJobs, for any jobs and requests, any number of        *)
(* workers and any bounds on faults and kills.                             *)
(***************************************************************************)
EXTENDS WebJobs, FiniteSetTheorems, TLAPS

Place == RunnerSteps \cup {"idle", "start", "failing"}

-----------------------------------------------------------------------------
(* Type correctness.                                                       *)

LEMMA ClampType ==
  ASSUME NEW x \in Int
  PROVE  Greatest(0, Least(100, x)) \in 0 .. 100
BY DEF Greatest, Least

LEMMA ReportedType ==
  ASSUME NEW x \in Int
  PROVE  Reported(x) \in Int
BY DEF Reported, Greatest, Least

LEMMA ProgressType ==
  ASSUME NEW i \in Nat, NEW total \in Nat \ {0}
  PROVE  SynthesisProgress(i, total) \in Int /\ AssessmentProgress(i, total) \in Int
<1>1. 100 * total \in Int /\ 100 * total > 0
  OBVIOUS
<1>2. (72 * (100 * i - 45)) \div (100 * total) \in Int
  BY <1>1
<1>3. (72 * i) \div total \in Int
  OBVIOUS
<1>. QED
  BY <1>2, <1>3 DEF SynthesisProgress, AssessmentProgress

LEMMA ArtifactType ==
  ASSUME NEW r
  PROVE  /\ Artifacts(r) \in Seq(Artifact)
         /\ ArtifactSet(r) \subseteq Artifact
<1>1. /\ <<"json", "text", "zip">> \in Seq(Artifact)
      /\ <<"json", "csv", "html", "zip">> \in Seq(Artifact)
  BY DEF Artifact
<1>2. Artifacts(r) \in Seq(Artifact)
  BY <1>1 DEF Artifacts
<1>. QED
  BY <1>2 DEF ArtifactSet

LEMMA QueuedType == Unused \in Record /\ Queued \in Record
BY DEF Unused, Queued, Record

LEMMA RecordType ==
  ASSUME NEW r \in Record, NEW p \in 0 .. 100,
         NEW s \in {"running", "failed"}
  PROVE  /\ [r EXCEPT !.progress = p] \in Record
         /\ [r EXCEPT !.status = s, !.progress = p] \in Record
BY DEF Record

LEMMA NewRunType == NewRun \in Run
BY DEF NewRun, Run

LEMMA CauseType ==
  ASSUME NEW r \in Run, NEW c \in {"error", "ai"}
  PROVE  [r EXCEPT !.cause = c] \in Run
BY DEF Run

LEMMA IndexType ==
  ASSUME NEW r \in Run, NEW n \in Nat
  PROVE  [r EXCEPT !.index = n] \in Run
BY DEF Run

LEMMA CasesType ==
  ASSUME NEW r \in Run, NEW n \in Nat, NEW cases \in Seq(Case)
  PROVE  [r EXCEPT !.index = n, !.cases = cases] \in Run
BY DEF Run

LEMMA GuardedType ==
  ASSUME NEW r \in Run, NEW g \in GuardedCall(r)
  PROVE  g \in Run
<1>1. CASE r.rate_limited
  BY <1>1 DEF GuardedCall
<1>2. CASE ~r.rate_limited
  <2>1. PICK limited \in BOOLEAN : g = [r EXCEPT !.rate_limited = limited]
    BY <1>2 DEF GuardedCall
  <2>. QED
    BY <2>1 DEF Run
<1>. QED
  BY <1>1, <1>2

LEMMA ActiveCaseType ==
  ASSUME NEW j, run[j] \in Run, NEW i \in ActiveCases(j)
  PROVE  run[j].cases[i] \in Case
BY DEF ActiveCases, Run

(* What a call asks and may be answered are questions on PUIDs.            *)
LEMMA AskedType ==
  ASSUME NEW j, run[j] \in Run
  PROVE  /\ Asked(j) \subseteq Puid \X Question
         /\ Answerable(j) \subseteq Asked(j)
<1>1. \A i \in Chunk(j) : run[j].cases[i] \in Case
  BY ActiveCaseType DEF Chunk
<1>2. \A case \in Case : Pairs(case) \subseteq Puid \X Question
  BY WebConstants DEF Case, Pairs
<1>3. Asked(j) \subseteq Puid \X Question
  BY <1>1, <1>2 DEF Asked
<1>. QED
  BY <1>3 DEF Asked, Answerable

LEMMA MergedType ==
  ASSUME NEW r \in Run, NEW case \in Case
  PROVE  MergedCase(r, case) \in Merged
<1>. DEFINE answered == {pair \in r.answers : pair[1] = case.puid}
<1>1. case.questions \subseteq Question
  BY WebConstants DEF Case
<1>2. {q \in case.questions : <<case.puid, q>> \notin answered} \subseteq Question
  BY <1>1
<1>3. r.failed_error \in BOOLEAN
  BY DEF Run
<1>. QED
  BY <1>2, <1>3 DEF MergedCase, Merged

LEMMA HeldType ==
  ASSUME TypeOK, NEW w \in Worker, worker[w] # NoJob
  PROVE  worker[w] \in Job
BY DEF TypeOK

LEMMA RequestedType ==
  ASSUME TypeOK, NEW j \in Job
  PROVE  request[j].total \in Nat \ {0}
BY WebConstants DEF TypeOK, RequestType

LEMMA UpdateType ==
  ASSUME TypeOK, NEW j \in Job, NEW record \in Record,
         NEW persisted \in Persisted, Update(j, record, persisted)
  PROVE  /\ jobs' \in [Job -> Record]
         /\ job_json' \in [Job -> Record]
         /\ faults' \in 0 .. MaxFault
<1>1. faults \in Nat /\ MaxFault \in Nat /\ faults <= MaxFault
  BY WebConstants DEF TypeOK
<1>2. CASE persisted
  BY <1>1, <1>2 DEF TypeOK, Update
<1>3. CASE ~persisted
  <2>1. faults < MaxFault
    BY <1>3 DEF Persisted
  <2>2. faults' = faults + 1
    BY <1>3 DEF Update
  <2>3. faults' \in 0 .. MaxFault
    BY <1>1, <2>1, <2>2
  <2>. QED
    BY <2>3 DEF TypeOK, Update
<1>. QED
  BY <1>2, <1>3

LEMMA ReportType ==
  ASSUME TypeOK, NEW j \in Job, NEW progress \in Int, NEW next \in Place,
         Report(j, progress, next)
  PROVE  /\ jobs' \in [Job -> Record]
         /\ job_json' \in [Job -> Record]
         /\ faults' \in 0 .. MaxFault
         /\ at' \in [Job -> Place]
<1>1. PICK persisted \in Persisted :
        /\ Update(j, [jobs[j] EXCEPT !.progress = Greatest(0, Least(100, progress))],
                  persisted)
        /\ at' = [at EXCEPT ![j] = IF persisted THEN next ELSE "failing"]
  BY DEF Report
<1>2. [jobs[j] EXCEPT !.progress = Greatest(0, Least(100, progress))] \in Record
  <2>1. jobs[j] \in Record
    BY DEF TypeOK
  <2>. QED
    BY <2>1, ClampType, RecordType
<1>3. at' \in [Job -> Place]
  BY <1>1 DEF TypeOK, Place
<1>. QED
  BY <1>1, <1>2, <1>3, UpdateType

LEMMA TypeInit == Init => TypeOK
BY QueuedType, NewRunType, WebConstants DEF Init, TypeOK, Artifact

LEMMA TypeSubmit ==
  ASSUME TypeOK, NEW j \in Job, SaveRecord(j) \/ Enqueue(j)
  PROVE  TypeOK'
<1>1. CASE SaveRecord(j)
  <2>1. PICK persisted \in Persisted :
          /\ Update(j, Queued, persisted)
          /\ entering' = IF persisted THEN entering \cup {j} ELSE entering
    BY <1>1 DEF SaveRecord
  <2>2. entering' \subseteq Job
    BY <2>1 DEF TypeOK
  <2>. QED
    BY <1>1, <2>1, <2>2, UpdateType, QueuedType DEF SaveRecord, TypeOK
<1>2. CASE Enqueue(j)
  BY <1>2 DEF Enqueue, TypeOK
<1>. QED
  BY <1>1, <1>2

LEMMA TypePool ==
  ASSUME TypeOK, NEW w \in Worker, Take(w) \/ Start(w) \/ Complete(w) \/ Fail(w) \/ Raise(w)
  PROVE  TypeOK'
<1>1. CASE Take(w)
  <2>1. Head(queue) \in Job /\ Tail(queue) \in Seq(Job)
    BY <1>1 DEF Take, TypeOK
  <2>. QED
    BY <1>1, <2>1 DEF Take, TypeOK
<1>. DEFINE j == worker[w]
<1>2. CASE Start(w)
  <2>1. j \in Job
    BY <1>2, HeldType DEF Start
  <2>2. PICK persisted \in Persisted :
          /\ Update(j, [jobs[j] EXCEPT !.status = "running", !.progress = 1], persisted)
          /\ at' = [at EXCEPT ![j] = IF persisted THEN "begin" ELSE "idle"]
          /\ IF persisted THEN UNCHANGED worker ELSE Release(w)
    BY <1>2 DEF Start
  <2>3. [jobs[j] EXCEPT !.status = "running", !.progress = 1] \in Record
    <3>1. jobs[j] \in Record
      BY <2>1 DEF TypeOK
    <3>2. 1 \in 0 .. 100 /\ 100 \in 0 .. 100
      OBVIOUS
    <3>. QED
      BY <3>1, <3>2, RecordType
  <2>4. /\ jobs' \in [Job -> Record]
        /\ job_json' \in [Job -> Record]
        /\ faults' \in 0 .. MaxFault
    BY <2>1, <2>2, <2>3, UpdateType
  <2>5. at' \in [Job -> RunnerSteps \cup {"idle", "start", "failing"}]
    BY <2>1, <2>2 DEF TypeOK, RunnerSteps
  <2>6. worker' \in [Worker -> Job \cup {NoJob}]
    BY <2>2 DEF TypeOK, Release
  <2>. QED
    BY <1>2, <2>4, <2>5, <2>6 DEF Start, TypeOK
<1>3. ASSUME j \in Job, Forgotten(j) PROVE run' \in [Job -> Run]
  <2>1. [NewRun EXCEPT !.cause = run[j].cause] \in Run
    BY <1>3, NewRunType DEF TypeOK, Run
  <2>. QED
    BY <1>3, <2>1 DEF Forgotten, TypeOK
<1>4. CASE Complete(w)
  <2>1. j \in Job
    BY <1>4, HeldType DEF Complete
  <2>2. PICK persisted \in Persisted :
          /\ Update(j, [status |-> "completed", progress |-> 100,
                        downloads |-> ArtifactSet(request[j])], persisted)
          /\ at' = [at EXCEPT ![j] = IF persisted THEN "idle" ELSE "failing"]
          /\ IF persisted THEN Release(w) ELSE UNCHANGED worker
    BY <1>4 DEF Complete
  <2>3. [status |-> "completed", progress |-> 100,
         downloads |-> ArtifactSet(request[j])] \in Record
    BY ArtifactType DEF Record
  <2>4. /\ jobs' \in [Job -> Record]
        /\ job_json' \in [Job -> Record]
        /\ faults' \in 0 .. MaxFault
    BY <2>1, <2>2, <2>3, UpdateType
  <2>5. at' \in [Job -> RunnerSteps \cup {"idle", "start", "failing"}]
    BY <2>1, <2>2 DEF TypeOK
  <2>6. worker' \in [Worker -> Job \cup {NoJob}]
    BY <2>2 DEF TypeOK, Release
  <2>7. run' \in [Job -> Run]
    BY <1>3, <1>4, <2>1 DEF Complete
  <2>. QED
    BY <1>4, <2>4, <2>5, <2>6, <2>7 DEF Complete, TypeOK
<1>5. CASE Fail(w)
  <2>1. j \in Job
    BY <1>5, HeldType DEF Fail
  <2>2. PICK persisted \in Persisted :
          Update(j, [jobs[j] EXCEPT !.status = "failed", !.progress = 100], persisted)
    BY <1>5 DEF Fail
  <2>3. [jobs[j] EXCEPT !.status = "failed", !.progress = 100] \in Record
    <3>1. jobs[j] \in Record
      BY <2>1 DEF TypeOK
    <3>2. 1 \in 0 .. 100 /\ 100 \in 0 .. 100
      OBVIOUS
    <3>. QED
      BY <3>1, <3>2, RecordType
  <2>4. /\ jobs' \in [Job -> Record]
        /\ job_json' \in [Job -> Record]
        /\ faults' \in 0 .. MaxFault
    BY <2>1, <2>2, <2>3, UpdateType
  <2>5. run' \in [Job -> Run]
    BY <1>3, <1>5, <2>1 DEF Fail
  <2>. QED
    BY <1>5, <2>1, <2>4, <2>5 DEF Fail, TypeOK, Release
<1>6. CASE Raise(w)
  <2>1. j \in Job
    BY <1>6, HeldType DEF Raise
  <2>2. [run[j] EXCEPT !.cause = "error"] \in Run
    <3>1. run[j] \in Run
      BY <2>1 DEF TypeOK
    <3>. QED
      BY <3>1, CauseType
  <2>. QED
    BY <1>6, <2>1, <2>2 DEF Raise, TypeOK, pool
<1>. QED
  BY <1>1, <1>2, <1>4, <1>5, <1>6

(* A runner writes its progress and its local state only.                  *)
LEMMA TypeRunner ==
  ASSUME TypeOK, NEW w \in Worker,
         HumanStep(w) \/ BatchStep(w) \/ WriteArtifact(w)
  PROVE  TypeOK'
<1>. DEFINE j == worker[w]
<1>0. j \in Job
  BY HeldType DEF HumanStep, BatchStep, WriteArtifact, BeginBatch, AssessFormat,
     SynthesizeFormat, EndAssessments, BeginChunk, AskProvider, MergeCases, BuildReport
<1>1. /\ RunnerSteps \subseteq Place
      /\ 5 \in Int /\ 8 \in Int /\ 20 \in Int /\ 80 \in Int /\ 86 \in Int
      /\ 88 \in Int /\ 94 \in Int /\ 96 \in Int
  BY DEF Place
<1>2. run[j] \in Run /\ request[j].total \in Nat \ {0}
  BY <1>0, RequestedType DEF TypeOK
<1>3. ASSUME NEW progress \in Int, NEW next \in RunnerSteps,
             Report(j, progress, next), run' \in [Job -> Run],
             UNCHANGED <<files, pool>>
      PROVE  TypeOK'
  <2>1. /\ jobs' \in [Job -> Record]
        /\ job_json' \in [Job -> Record]
        /\ faults' \in 0 .. MaxFault
        /\ at' \in [Job -> Place]
    BY <1>0, <1>1, <1>3, ReportType
  <2>. QED
    BY <1>3, <2>1 DEF TypeOK, pool, Place
<1>4. ASSUME NEW next \in Place, at' = [at EXCEPT ![j] = next],
             run' \in [Job -> Run], UNCHANGED <<jobs, job_json, files, pool, faults>>
      PROVE  TypeOK'
  BY <1>4 DEF TypeOK, pool, Place
<1>5. run \in [Job -> Run]
  BY DEF TypeOK
<1>6. ASSUME NEW r \in Run, run' = [run EXCEPT ![j] = r] PROVE run' \in [Job -> Run]
  BY <1>5, <1>6
<1>7. CASE HumanStep(w)
  <2>1. run' \in [Job -> Run] /\ UNCHANGED <<files, pool>>
    BY <1>5, <1>7 DEF HumanStep
  <2>2. {"resolve", "query", "write"} \subseteq RunnerSteps
    BY DEF RunnerSteps
  <2>3. PICK progress \in Int, next \in RunnerSteps : Report(j, progress, next)
    BY <1>7, <2>2 DEF HumanStep
  <2>. QED
    BY <1>3, <2>1, <2>3
<1>8. CASE BatchStep(w)
  <2>0. {"assess", "synthesize", "fill", "ask", "merge", "report", "write"}
          \subseteq RunnerSteps
    BY DEF RunnerSteps
  <2>1. CASE BeginBatch(w)
    BY <1>1, <1>3, <1>5, <2>0, <2>1 DEF BeginBatch
  <2>2. CASE AssessFormat(w)
    <3>. DEFINE i == run[j].index
                total == request[j].total
    <3>1. i \in Nat /\ i + 1 \in Nat
      BY <1>2 DEF Run
    <3>2. /\ Reported(SynthesisProgress(i, total)) \in Int
          /\ Reported(AssessmentProgress(i, total)) \in Int
      BY <1>2, <3>1, ProgressType, ReportedType
    <3>3. run' \in [Job -> Run]
      <4>1. CASE UNCHANGED run
        BY <1>5, <4>1
      <4>2. CASE run' = [run EXCEPT ![j].index = i + 1]
        <5>1. [run[j] EXCEPT !.index = i + 1] \in Run
          BY <1>2, <3>1 DEF Run
        <5>. QED
          BY <1>6, <4>2, <5>1
      <4>3. ASSUME NEW c \in Case,
                   run' = [run EXCEPT ![j].index = i + 1, ![j].cases = Append(@, c)]
            PROVE  run' \in [Job -> Run]
        <5>1. Append(run[j].cases, c) \in Seq(Case)
          BY <1>2 DEF Run
        <5>2. [run[j] EXCEPT !.index = i + 1, !.cases = Append(run[j].cases, c)] \in Run
          BY <1>2, <3>1, <5>1, CasesType
        <5>3. run' = [run EXCEPT ![j] =
                [run[j] EXCEPT !.index = i + 1, !.cases = Append(run[j].cases, c)]]
          BY <1>0, <1>5, <4>3
        <5>. QED
          BY <1>6, <5>2, <5>3
      <4>. QED
        BY <2>2, <4>1, <4>2, <4>3 DEF AssessFormat
    <3>. QED
      BY <1>3, <2>0, <2>2, <3>2, <3>3 DEF AssessFormat
  <2>3. CASE SynthesizeFormat(w)
    <3>1. run[j].index \in Nat /\ run[j].index + 1 \in Nat
      BY <1>2 DEF Run
    <3>2. Reported(AssessmentProgress(run[j].index, request[j].total)) \in Int
      BY <1>2, <3>1, ProgressType, ReportedType
    <3>3. PICK r \in GuardedCall(run[j]) :
            run' = [run EXCEPT ![j] = [r EXCEPT !.index = run[j].index + 1]]
      BY <2>3 DEF SynthesizeFormat
    <3>4. [r EXCEPT !.index = run[j].index + 1] \in Run
      <4>1. r \in Run
        BY <1>2, <3>3, GuardedType
      <4>. QED
        BY <3>1, <4>1, IndexType
    <3>5. run' \in [Job -> Run]
      BY <1>6, <3>3, <3>4
    <3>. QED
      BY <1>3, <2>0, <2>3, <3>2, <3>5 DEF SynthesizeFormat
  <2>4. CASE EndAssessments(w)
    BY <1>1, <1>3, <1>5, <2>0, <2>4 DEF EndAssessments
  <2>5. CASE BeginChunk(w)
    BY <1>1, <1>3, <1>4, <1>5, <2>0, <2>5 DEF BeginChunk
  <2>6. CASE AskProvider(w)
    <3>1. PICK r \in GuardedCall(run[j]) :
       \/ /\ run' = [run EXCEPT ![j] = [r EXCEPT !.failed_error = TRUE]]
          /\ at' = [at EXCEPT ![j] = "merge"]
       \/ /\ run' = [run EXCEPT ![j] = [r EXCEPT !.cause = "ai"]]
          /\ at' = [at EXCEPT ![j] = "failing"]
       \/ /\ \E accepted \in SUBSET Answerable(j) :
               run' = [run EXCEPT ![j] = [r EXCEPT !.start = @ + BatchSize,
                                                   !.asked = @ \cup Asked(j),
                                                   !.answers = @ \cup accepted]]
          /\ at' = [at EXCEPT ![j] = "fill"]
      BY <2>6 DEF AskProvider
    <3>2. r \in Run
      BY <1>2, <3>1, GuardedType
    <3>3. [r EXCEPT !.failed_error = TRUE] \in Run
      BY <3>2 DEF Run
    <3>4. [r EXCEPT !.cause = "ai"] \in Run
      BY <3>2 DEF Run
    <3>5. ASSUME NEW accepted \in SUBSET Answerable(j)
          PROVE  [r EXCEPT !.start = @ + BatchSize, !.asked = @ \cup Asked(j),
                           !.answers = @ \cup accepted] \in Run
      <4>1. Asked(j) \subseteq Puid \X Question /\ Answerable(j) \subseteq Asked(j)
        BY <1>2, AskedType
      <4>2. r.start + BatchSize \in Nat
        BY <3>2, WebConstants DEF Run
      <4>3. /\ r.asked \cup Asked(j) \subseteq Puid \X Question
            /\ r.answers \cup accepted \subseteq Puid \X Question
        BY <3>2, <4>1 DEF Run
      <4>. QED
        BY <3>2, <4>2, <4>3 DEF Run
    <3>6. run' \in [Job -> Run]
      BY <1>6, <3>1, <3>3, <3>4, <3>5
    <3>7. \E next \in Place : at' = [at EXCEPT ![j] = next]
      BY <3>1, <2>0 DEF Place
    <3>. QED
      BY <1>4, <2>6, <3>6, <3>7 DEF AskProvider
  <2>7. CASE MergeCases(w)
    <3>. DEFINE merged == [i \in 1 .. Len(run[j].cases) |->
                             MergedCase(run[j], run[j].cases[i])]
    <3>1. merged \in Seq(Merged)
      <4>1. Len(run[j].cases) \in Nat
            /\ \A i \in 1 .. Len(run[j].cases) : run[j].cases[i] \in Case
        BY <1>2 DEF Run
      <4>2. \A i \in 1 .. Len(run[j].cases) :
              MergedCase(run[j], run[j].cases[i]) \in Merged
        BY <1>2, <4>1, MergedType
      <4>. QED
        BY <4>1, <4>2
    <3>. HIDE DEF merged
    <3>2. [run[j] EXCEPT !.merged = merged] \in Run
      BY <1>2, <3>1 DEF Run
    <3>3. run' = [run EXCEPT ![j].merged = merged]
      BY <2>7 DEF MergeCases, merged
    <3>4. run' \in [Job -> Run]
      BY <1>6, <3>2, <3>3
    <3>. QED
      BY <1>1, <1>3, <2>0, <2>7, <3>4 DEF MergeCases
  <2>8. CASE BuildReport(w)
    BY <1>1, <1>3, <1>5, <2>0, <2>8 DEF BuildReport
  <2>. QED
    BY <1>8, <2>1, <2>2, <2>3, <2>4, <2>5, <2>6, <2>7, <2>8 DEF BatchStep
<1>9. CASE WriteArtifact(w)
  <2>1. PICK i \in 1 .. Len(Artifacts(request[j])) :
          files' = [files EXCEPT ![j] = @ \cup {Artifacts(request[j])[i]}]
    BY <1>9 DEF WriteArtifact
  <2>2. Artifacts(request[j])[i] \in Artifact
    BY ArtifactType
  <2>3. files' \in [Job -> SUBSET Artifact]
    BY <2>1, <2>2 DEF TypeOK
  <2>. QED
    BY <1>9, <2>3 DEF WriteArtifact, TypeOK, pool
<1>. QED
  BY <1>7, <1>8, <1>9

LEMMA TypeServer ==
  ASSUME TypeOK, Shutdown \/ Kill
  PROVE  TypeOK'
<1>1. CASE Shutdown
  BY <1>1 DEF Shutdown, TypeOK
<1>2. CASE Kill
  <2>1. [Unused EXCEPT !.status = "lost"] \in Record
    BY DEF Unused, Record
  <2>2. jobs' \in [Job -> Record]
    BY <1>2, <2>1, QueuedType DEF Kill
  <2>3. kills' \in 0 .. MaxKill
    BY <1>2, WebConstants DEF Kill, TypeOK
  <2>4. run' \in [Job -> Run]
    BY <1>2, NewRunType DEF Kill
  <2>5. /\ at' \in [Job -> RunnerSteps \cup {"idle", "start", "failing"}]
        /\ worker' \in [Worker -> Job \cup {NoJob}]
        /\ entering' \subseteq Job /\ queue' \in Seq(Job)
        /\ server' \in {"up", "stopping"}
    BY <1>2 DEF Kill
  <2>. QED
    BY <1>2, <2>2, <2>3, <2>4, <2>5 DEF Kill, TypeOK
<1>. QED
  BY <1>1, <1>2

LEMMA TypeStep == TypeOK /\ [Next]_vars => TypeOK'
<1>. SUFFICES ASSUME TypeOK, [Next]_vars PROVE TypeOK'
  OBVIOUS
<1>1. CASE UNCHANGED vars
  BY <1>1 DEF vars, TypeOK
<1>. QED
  BY <1>1, TypeSubmit, TypePool, TypeRunner, TypeServer DEF Next, WorkerStep

(* Every variable keeps its type, for any number of jobs and workers.      *)
THEOREM TypeCorrect == Spec => []TypeOK
BY TypeInit, TypeStep, PTL DEF Spec

-----------------------------------------------------------------------------
(* The inductive invariant behind the safety theorems: a completed job has *)
(* its files, job.json is never ahead of a job under way, and a job is at  *)
(* one place of the pool at most, with the status that place gives it.     *)

CompletedIsWritten ==
  \A j \in Job : jobs[j].status = "completed" => files[j] = ArtifactSet(request[j])

MirrorNotAhead ==
  \A j \in Job : jobs[j].status \in {"unused", "queued", "running"}
                  => job_json[j].status # "completed"

EnteringIsQueued ==
  \A j \in entering :
    /\ jobs[j].status = "queued"
    /\ \A i \in 1 .. Len(queue) : queue[i] # j
    /\ \A w \in Worker : worker[w] # j

QueueIsQueued ==
  \A i \in 1 .. Len(queue) :
    /\ jobs[queue[i]].status = "queued"
    /\ \A w \in Worker : worker[w] # queue[i]
    /\ \A k \in 1 .. Len(queue) : queue[i] = queue[k] => i = k

(* The record of a job a worker holds, by where its execution is.          *)
Stage(place, record, mirror) ==
  \/ place = "start" /\ record.status = "queued"
  \/ place \in RunnerSteps /\ record.status = "running"
  \/ place = "failing" /\ record.status = "running"
  \/ place = "failing" /\ record.status = "completed" /\ mirror.status # "completed"

StageOf(j) == Stage(at[j], jobs[j], job_json[j])

WorkersHoldOne ==
  /\ \A w \in Worker : worker[w] # NoJob => StageOf(worker[w])
  /\ \A w, v \in Worker : worker[w] # NoJob /\ worker[w] = worker[v] => w = v

PoolInv == MirrorNotAhead /\ EnteringIsQueued /\ QueueIsQueued /\ WorkersHoldOne


(* What a step of a runner may do: it writes the progress and files of its *)
(* own job and leaves the rest of the pool alone.                          *)
Working(w) ==
  LET j == worker[w] IN
  /\ j \in Job
  /\ at[j] \in RunnerSteps
  /\ at'[j] \in RunnerSteps \cup {"failing"}
  /\ \A k \in Job \ {j} : /\ at'[k] = at[k]
                          /\ jobs'[k] = jobs[k]
                          /\ job_json'[k] = job_json[k]
                          /\ files'[k] = files[k]
  /\ jobs'[j].status = jobs[j].status
  /\ jobs'[j].downloads = jobs[j].downloads
  /\ job_json'[j] \in {job_json[j], jobs'[j]}
  /\ files[j] \subseteq files'[j]
  /\ files'[j] # files[j] => files[j] # ArtifactSet(request[j])
  /\ faults' >= faults
  /\ UNCHANGED pool

LEMMA ReportWorks ==
  ASSUME TypeOK, NEW w \in Worker, worker[w] \in Job, NEW progress, 
         NEW next \in RunnerSteps, at[worker[w]] \in RunnerSteps,
         Report(worker[w], progress, next), UNCHANGED <<files, pool>>
  PROVE  Working(w)
<1>. DEFINE j == worker[w]
<1>1. PICK persisted \in Persisted :
        /\ Update(j, [jobs[j] EXCEPT !.progress = Greatest(0, Least(100, progress))],
                  persisted)
        /\ at' = [at EXCEPT ![j] = IF persisted THEN next ELSE "failing"]
  BY DEF Report
<1>2. jobs[j] \in Record /\ jobs'[j] = [jobs[j] EXCEPT !.progress = Greatest(0, Least(100, progress))]
  BY <1>1 DEF TypeOK, Update
<1>3. jobs'[j].status = jobs[j].status /\ jobs'[j].downloads = jobs[j].downloads
  BY <1>2 DEF Record
<1>4. job_json'[j] \in {job_json[j], jobs'[j]}
  BY <1>1 DEF TypeOK, Update
<1>5. faults' >= faults
  BY <1>1 DEF TypeOK, Update
<1>6. at'[j] \in RunnerSteps \cup {"failing"}
  BY <1>1 DEF TypeOK
<1>7. \A k \in Job \ {j} : /\ at'[k] = at[k]
                          /\ jobs'[k] = jobs[k]
                          /\ job_json'[k] = job_json[k]
  BY <1>1 DEF TypeOK, Update
<1>. QED
  BY <1>3, <1>4, <1>5, <1>6, <1>7 DEF Working

LEMMA QuietWorks ==
  ASSUME TypeOK, NEW w \in Worker, worker[w] \in Job, at[worker[w]] \in RunnerSteps,
         NEW next \in RunnerSteps \cup {"failing"}, at' = [at EXCEPT ![worker[w]] = next],
         UNCHANGED <<jobs, job_json, files, pool, faults>>
  PROVE  Working(w)
BY DEF Working, TypeOK

LEMMA RunnerWorks ==
  ASSUME TypeOK, NEW w \in Worker,
         HumanStep(w) \/ BatchStep(w) \/ WriteArtifact(w) \/ Raise(w)
  PROVE  Working(w)
<1>. DEFINE j == worker[w]
<1>0. j \in Job
  BY HeldType DEF HumanStep, BatchStep, WriteArtifact, Raise, BeginBatch, AssessFormat,
     SynthesizeFormat, EndAssessments, BeginChunk, AskProvider, MergeCases, BuildReport
<1>1. {"begin", "resolve", "query", "assess", "synthesize", "fill", "ask", "merge",
       "report", "write"} \subseteq RunnerSteps
  BY DEF RunnerSteps
<1>2. CASE HumanStep(w)
  BY <1>0, <1>1, <1>2, ReportWorks DEF HumanStep
<1>3. CASE BatchStep(w)
  <2>1. CASE BeginBatch(w)
    BY <1>0, <1>1, <2>1, ReportWorks DEF BeginBatch
  <2>2. CASE AssessFormat(w)
    BY <1>0, <1>1, <2>2, ReportWorks DEF AssessFormat
  <2>3. CASE SynthesizeFormat(w)
    BY <1>0, <1>1, <2>3, ReportWorks DEF SynthesizeFormat
  <2>4. CASE EndAssessments(w)
    BY <1>0, <1>1, <2>4, ReportWorks DEF EndAssessments
  <2>5. CASE BeginChunk(w)
    BY <1>0, <1>1, <2>5, ReportWorks, QuietWorks DEF BeginChunk
  <2>6. CASE AskProvider(w)
    BY <1>0, <1>1, <2>6, QuietWorks DEF AskProvider
  <2>7. CASE MergeCases(w)
    BY <1>0, <1>1, <2>7, ReportWorks DEF MergeCases
  <2>8. CASE BuildReport(w)
    BY <1>0, <1>1, <2>8, ReportWorks DEF BuildReport
  <2>. QED
    BY <1>3, <2>1, <2>2, <2>3, <2>4, <2>5, <2>6, <2>7, <2>8 DEF BatchStep
<1>4. CASE WriteArtifact(w)
  <2>1. PICK i \in 1 .. Len(Artifacts(request[j])) :
          /\ Artifacts(request[j])[i] \notin files[j]
          /\ files' = [files EXCEPT ![j] = @ \cup {Artifacts(request[j])[i]}]
    BY <1>4 DEF WriteArtifact
  <2>2. files[j] # ArtifactSet(request[j])
    BY <2>1 DEF ArtifactSet
  <2>3. files[j] \subseteq files'[j] /\ \A k \in Job \ {j} : files'[k] = files[k]
    BY <1>0, <2>1 DEF TypeOK
  <2>4. at[j] = "write" /\ UNCHANGED <<jobs, job_json, pool, at, faults>>
    BY <1>4 DEF WriteArtifact
  <2>5. faults' >= faults
    BY <2>4 DEF TypeOK
  <2>. QED
    BY <1>0, <1>1, <2>2, <2>3, <2>4, <2>5 DEF Working
<1>5. CASE Raise(w)
  BY <1>0, <1>5, QuietWorks DEF Raise
<1>. QED
  BY <1>2, <1>3, <1>4, <1>5


-----------------------------------------------------------------------------
(* Reports on offer exist.                                                 *)

ReportsInv == TypeOK /\ CompletedIsWritten /\ ReportsAreThere

LEMMA ReportsStep == ReportsInv /\ [Next]_vars => ReportsInv'
<1>. SUFFICES ASSUME ReportsInv, [Next]_vars PROVE ReportsInv'
  OBVIOUS
<1>0. TypeOK /\ TypeOK'
  BY TypeStep DEF ReportsInv
<1>. USE <1>0 DEF ReportsInv
<1>1. ASSUME NEW j \in Job, SaveRecord(j) PROVE (CompletedIsWritten /\ ReportsAreThere)'
  <2>1. PICK persisted \in Persisted : Update(j, Queued, persisted)
    BY <1>1 DEF SaveRecord
  <2>. QED
    BY <1>1, <2>1 DEF SaveRecord, Update, Queued, Unused, CompletedIsWritten,
       ReportsAreThere, TypeOK
<1>2. ASSUME NEW j \in Job, Enqueue(j) PROVE (CompletedIsWritten /\ ReportsAreThere)'
  BY <1>2 DEF Enqueue, CompletedIsWritten, ReportsAreThere
<1>3. ASSUME NEW w \in Worker, Take(w) PROVE (CompletedIsWritten /\ ReportsAreThere)'
  BY <1>3 DEF Take, CompletedIsWritten, ReportsAreThere
<1>4. ASSUME NEW w \in Worker, Working(w) PROVE (CompletedIsWritten /\ ReportsAreThere)'
  <2>1. request' = request
    BY <1>4 DEF Working, pool
  <2>2. CompletedIsWritten'
    BY <1>4, <2>1 DEF Working, CompletedIsWritten, ArtifactSet, Artifacts
  <2>3. ReportsAreThere'
    BY <1>4, <2>1 DEF Working, CompletedIsWritten, ReportsAreThere, ArtifactSet, Artifacts
  <2>. QED
    BY <2>2, <2>3
<1>5. ASSUME NEW w \in Worker, NEW record \in Record, NEW persisted \in Persisted,
             worker[w] \in Job, Update(worker[w], record, persisted),
             record.downloads \subseteq files[worker[w]],
             record.status = "completed"
               => files[worker[w]] = ArtifactSet(request[worker[w]]),
             UNCHANGED <<files, request>>
      PROVE  (CompletedIsWritten /\ ReportsAreThere)'
  <2>1. /\ jobs' = [jobs EXCEPT ![worker[w]] = record]
        /\ job_json' \in {job_json, [job_json EXCEPT ![worker[w]] = record]}
    BY <1>5 DEF Update
  <2>2. CompletedIsWritten'
    <3>. SUFFICES ASSUME NEW k \in Job, jobs'[k].status = "completed"
                  PROVE  (files[k] = ArtifactSet(request[k]))'
      BY DEF CompletedIsWritten
    <3>1. CASE k = worker[w]
      <4>1. record.status = "completed"
        BY <1>5, <2>1, <3>1 DEF TypeOK
      <4>. QED
        BY <1>5, <3>1, <4>1 DEF ArtifactSet, Artifacts
    <3>2. CASE k # worker[w]
      <4>1. jobs[k].status = "completed"
        BY <2>1, <3>2 DEF TypeOK
      <4>. QED
        BY <1>5, <4>1 DEF CompletedIsWritten, ArtifactSet, Artifacts
    <3>. QED
      BY <3>1, <3>2
  <2>3. ReportsAreThere'
    BY <1>5, <2>1 DEF ReportsAreThere, ArtifactSet, Artifacts, TypeOK
  <2>. QED
    BY <2>2, <2>3
<1>6. ASSUME NEW w \in Worker, Start(w) \/ Fail(w)
      PROVE  (CompletedIsWritten /\ ReportsAreThere)'
  <2>1. worker[w] \in Job /\ UNCHANGED <<files, request>>
    BY <1>6, HeldType DEF Start, Fail
  <2>2. PICK s \in {"running", "failed"}, p \in 0 .. 100, persisted \in Persisted :
          Update(worker[w], [jobs[worker[w]] EXCEPT !.status = s, !.progress = p], persisted)
    <3>1. 1 \in 0 .. 100 /\ 100 \in 0 .. 100
      OBVIOUS
    <3>. QED
      BY <1>6, <3>1 DEF Start, Fail
  <2>. DEFINE record == [jobs[worker[w]] EXCEPT !.status = s, !.progress = p]
  <2>3. jobs[worker[w]] \in Record
    BY <2>1 DEF TypeOK
  <2>4. record \in Record
    BY <2>3, RecordType
  <2>5. record.downloads = jobs[worker[w]].downloads /\ record.status # "completed"
    BY <2>3 DEF Record
  <2>6. record.downloads \subseteq files[worker[w]]
    BY <2>1, <2>5 DEF ReportsAreThere
  <2>. QED
    BY <1>5, <2>1, <2>2, <2>4, <2>5, <2>6
<1>7. ASSUME NEW w \in Worker, Complete(w) PROVE (CompletedIsWritten /\ ReportsAreThere)'
  <2>. DEFINE record == [status |-> "completed", progress |-> 100,
                         downloads |-> ArtifactSet(request[worker[w]])]
  <2>1. worker[w] \in Job /\ UNCHANGED <<files, request>>
    BY <1>7, HeldType DEF Complete
  <2>2. PICK persisted \in Persisted : Update(worker[w], record, persisted)
    BY <1>7 DEF Complete
  <2>3. record \in Record
    BY ArtifactType DEF Record
  <2>4. files[worker[w]] = ArtifactSet(request[worker[w]])
    BY <1>7 DEF Complete
  <2>. QED
    BY <1>5, <2>1, <2>2, <2>3, <2>4
<1>8. CASE Shutdown
  BY <1>8 DEF Shutdown, CompletedIsWritten, ReportsAreThere
<1>9. CASE Kill
  BY <1>9 DEF Kill, Unused, CompletedIsWritten, ReportsAreThere
<1>10. CASE UNCHANGED vars
  BY <1>10 DEF vars, CompletedIsWritten, ReportsAreThere
<1>. QED
  BY <1>1, <1>2, <1>3, <1>4, <1>6, <1>7, <1>8, <1>9, <1>10, RunnerWorks
     DEF Next, WorkerStep

LEMMA ReportsInit == Init => ReportsInv
BY TypeInit DEF Init, ReportsInv, CompletedIsWritten, ReportsAreThere, Unused

(* Every download on offer, and every file of a job recorded as completed, *)
(* is on disk, whatever write failed and whenever the process was killed.  *)
THEOREM OfferedReportsExist == Spec => []ReportsAreThere
<1>1. ReportsInv => ReportsAreThere
  BY DEF ReportsInv
<1>. QED
  BY <1>1, ReportsInit, ReportsStep, PTL DEF Spec


-----------------------------------------------------------------------------
(* A job is at one place of the pool.                                      *)

LEMMA PoolInit == Init => PoolInv
BY DEF Init, PoolInv, MirrorNotAhead, EnteringIsQueued, QueueIsQueued,
   WorkersHoldOne, Unused

LEMMA PoolSubmit ==
  ASSUME TypeOK, PoolInv, NEW j \in Job, SaveRecord(j) \/ Enqueue(j)
  PROVE  PoolInv'
<1>. USE DEF PoolInv
<1>1. CASE SaveRecord(j)
  <2>1. PICK persisted \in Persisted :
          /\ Update(j, Queued, persisted)
          /\ entering' = IF persisted THEN entering \cup {j} ELSE entering
    BY <1>1 DEF SaveRecord
  <2>2. /\ jobs[j].status = "unused"
        /\ jobs' = [jobs EXCEPT ![j] = Queued]
        /\ job_json' \in {job_json, [job_json EXCEPT ![j] = Queued]}
        /\ UNCHANGED <<queue, worker, at>>
    BY <1>1, <2>1 DEF SaveRecord, Update
  <2>3. Queued.status = "queued"
    BY DEF Queued, Unused
  <2>4. /\ j \notin entering
        /\ \A i \in 1 .. Len(queue) : queue[i] \in Job /\ queue[i] # j
        /\ \A w \in Worker : worker[w] # j
    <3>1. \A w \in Worker : worker[w] = j => StageOf(j)
      BY WebConstants DEF WorkersHoldOne
    <3>. QED
      BY <2>2, <3>1 DEF EnteringIsQueued, QueueIsQueued, StageOf, Stage, TypeOK
  <2>5. MirrorNotAhead'
    BY <2>2, <2>3 DEF MirrorNotAhead, TypeOK
  <2>6. EnteringIsQueued'
    BY <2>1, <2>2, <2>3, <2>4 DEF EnteringIsQueued, TypeOK
  <2>7. QueueIsQueued'
    BY <2>2, <2>4 DEF QueueIsQueued, TypeOK
  <2>8. WorkersHoldOne'
    BY <2>2, <2>4 DEF WorkersHoldOne, StageOf, Stage, TypeOK
  <2>. QED
    BY <2>5, <2>6, <2>7, <2>8
<1>2. CASE Enqueue(j)
  <2>1. /\ j \in entering /\ entering' = entering \ {j}
        /\ queue' = Append(queue, j)
        /\ UNCHANGED <<jobs, job_json, worker, at>>
    BY <1>2 DEF Enqueue
  <2>2. /\ Len(queue') = Len(queue) + 1
        /\ queue'[Len(queue) + 1] = j
        /\ \A i \in 1 .. Len(queue) : queue'[i] = queue[i]
    BY <2>1 DEF TypeOK
  <2>3. MirrorNotAhead'
    BY <2>1 DEF MirrorNotAhead
  <2>4. EnteringIsQueued'
    BY <2>1, <2>2 DEF EnteringIsQueued, TypeOK
  <2>5. QueueIsQueued'
    <3>1. /\ jobs[j].status = "queued"
          /\ \A i \in 1 .. Len(queue) : queue[i] # j
          /\ \A w \in Worker : worker[w] # j
      BY <2>1 DEF EnteringIsQueued
    <3>2. \A i \in 1 .. Len(queue') : i \in 1 .. Len(queue) \/ i = Len(queue) + 1
      BY <2>2 DEF TypeOK
    <3>. QED
      BY <2>1, <2>2, <3>1, <3>2 DEF QueueIsQueued
  <2>6. WorkersHoldOne'
    BY <2>1 DEF WorkersHoldOne, StageOf, Stage
  <2>. QED
    BY <2>3, <2>4, <2>5, <2>6
<1>. QED
  BY <1>1, <1>2

LEMMA PoolTake ==
  ASSUME TypeOK, PoolInv, NEW w \in Worker, Take(w)
  PROVE  PoolInv'
<1>. USE DEF PoolInv
<1>. DEFINE j == Head(queue)
<1>1. /\ queue # <<>> /\ queue' = Tail(queue) /\ worker[w] = NoJob
      /\ worker' = [worker EXCEPT ![w] = j]
      /\ at' = [at EXCEPT ![j] = "start"]
      /\ UNCHANGED <<jobs, job_json, entering>>
  BY DEF Take
<1>2. /\ 1 \in 1 .. Len(queue) /\ j = queue[1] /\ j \in Job
      /\ Len(queue') = Len(queue) - 1
      /\ \A i \in 1 .. Len(queue') : i + 1 \in 1 .. Len(queue) /\ queue'[i] = queue[i + 1]
  BY <1>1 DEF TypeOK
<1>3. /\ jobs[j].status = "queued"
      /\ \A v \in Worker : worker[v] # j
      /\ \A i \in 1 .. Len(queue) : queue[i] = j => i = 1
      /\ j \notin entering
  BY <1>2 DEF QueueIsQueued, EnteringIsQueued
<1>4. MirrorNotAhead'
  BY <1>1 DEF MirrorNotAhead
<1>5. EnteringIsQueued'
  BY <1>1, <1>2, <1>3 DEF EnteringIsQueued, TypeOK
<1>6. QueueIsQueued'
  <2>1. \A i \in 1 .. Len(queue') : queue'[i] # j
    <3>1. \A i \in 1 .. Len(queue') : i + 1 # 1
      OBVIOUS
    <3>. QED
      BY <1>2, <1>3, <3>1
  <2>2. \A i, k \in 1 .. Len(queue') : queue'[i] = queue'[k] => i = k
    <3>1. \A i, k \in 1 .. Len(queue') : i + 1 = k + 1 => i = k
      OBVIOUS
    <3>. QED
      BY <1>2, <3>1 DEF QueueIsQueued
  <2>3. \A i \in 1 .. Len(queue') :
          /\ jobs[queue'[i]].status = "queued"
          /\ \A v \in Worker : worker[v] # queue'[i]
    BY <1>2 DEF QueueIsQueued
  <2>. QED
    BY <1>1, <2>1, <2>2, <2>3 DEF QueueIsQueued, TypeOK
<1>7. WorkersHoldOne'
  <2>1. \A v \in Worker : worker'[v] = IF v = w THEN j ELSE worker[v]
    BY <1>1 DEF TypeOK
  <2>2. Stage(at'[j], jobs'[j], job_json'[j])
    BY <1>1, <1>2, <1>3 DEF Stage, TypeOK
  <2>3. ASSUME NEW v \in Worker, worker'[v] # NoJob
        PROVE  Stage(at'[worker'[v]], jobs'[worker'[v]], job_json'[worker'[v]])
    <3>1. CASE v = w
      BY <2>1, <2>2, <3>1
    <3>2. CASE v # w
      <4>1. worker'[v] = worker[v] /\ worker[v] # j /\ StageOf(worker[v])
        BY <1>3, <2>1, <2>3, <3>2 DEF WorkersHoldOne
      <4>2. at'[worker[v]] = at[worker[v]]
        BY <1>1, <4>1, <2>3 DEF TypeOK
      <4>. QED
        BY <1>1, <4>1, <4>2 DEF StageOf
    <3>. QED
      BY <3>1, <3>2
  <2>4. \A v, u \in Worker : worker'[v] # NoJob /\ worker'[v] = worker'[u] => v = u
    BY <1>3, <2>1 DEF WorkersHoldOne
  <2>. QED
    BY <2>3, <2>4 DEF WorkersHoldOne, StageOf
<1>. QED
  BY <1>4, <1>5, <1>6, <1>7


(* A worker's step on the job it holds, which it keeps or lets go.         *)
LEMMA PoolWork ==
  ASSUME TypeOK, PoolInv, NEW w \in Worker, worker[w] \in Job,
         UNCHANGED <<entering, queue>>,
         \A k \in Job \ {worker[w]} :
           jobs'[k] = jobs[k] /\ job_json'[k] = job_json[k] /\ at'[k] = at[k],
         jobs'[worker[w]].status = "running" => job_json'[worker[w]].status # "completed",
         jobs'[worker[w]].status \notin {"unused", "queued"},
         \/ Release(w)
         \/ /\ worker' = worker
            /\ Stage(at'[worker[w]], jobs'[worker[w]], job_json'[worker[w]])
  PROVE  PoolInv'
<1>. USE DEF PoolInv
<1>. DEFINE j == worker[w]
<1>1. /\ j \notin entering
      /\ \A i \in 1 .. Len(queue) : queue[i] \in Job \ {j}
  BY DEF EnteringIsQueued, QueueIsQueued, TypeOK
<1>2. \A v \in Worker : worker'[v] = worker[v] \/ worker'[v] = NoJob
  BY DEF Release, TypeOK
<1>3. MirrorNotAhead'
  BY DEF MirrorNotAhead
<1>4. EnteringIsQueued'
  <2>1. \A k \in entering : k \in Job \ {j}
    BY <1>1 DEF TypeOK
  <2>. QED
    BY <1>2, <2>1, WebConstants DEF EnteringIsQueued
<1>5. QueueIsQueued'
  BY <1>1, <1>2, WebConstants DEF QueueIsQueued
<1>6. WorkersHoldOne'
  <2>1. ASSUME NEW v \in Worker, worker'[v] # NoJob
        PROVE  Stage(at'[worker'[v]], jobs'[worker'[v]], job_json'[worker'[v]])
    <3>1. worker'[v] = worker[v] /\ StageOf(worker[v]) /\ worker[v] \in Job
      BY <1>2, <2>1 DEF WorkersHoldOne, TypeOK
    <3>2. CASE worker[v] # j
      BY <3>1, <3>2 DEF StageOf
    <3>3. CASE worker[v] = j
      <4>1. v = w
        BY <3>3, <2>1, <3>1 DEF WorkersHoldOne
      <4>2. ~Release(w)
        BY <2>1, <4>1 DEF Release, TypeOK
      <4>. QED
        BY <3>1, <3>3, <4>2
    <3>. QED
      BY <3>2, <3>3
  <2>2. \A v, u \in Worker : worker'[v] # NoJob /\ worker'[v] = worker'[u] => v = u
    BY <1>2 DEF WorkersHoldOne
  <2>. QED
    BY <2>1, <2>2 DEF WorkersHoldOne, StageOf
<1>. QED
  BY <1>3, <1>4, <1>5, <1>6

(* The status a worker finds.                                              *)
LEMMA HeldStage ==
  ASSUME TypeOK, PoolInv, NEW w \in Worker, worker[w] # NoJob
  PROVE  /\ StageOf(worker[w])
         /\ at[worker[w]] = "start" => jobs[worker[w]].status = "queued"
         /\ at[worker[w]] \in RunnerSteps => jobs[worker[w]].status = "running"
         /\ at[worker[w]] = "failing" =>
              \/ jobs[worker[w]].status = "running"
              \/ jobs[worker[w]].status = "completed" /\ job_json[worker[w]].status # "completed"
BY DEF PoolInv, WorkersHoldOne, StageOf, Stage, RunnerSteps

LEMMA PoolStep == TypeOK /\ PoolInv /\ [Next]_vars => PoolInv'
<1>. SUFFICES ASSUME TypeOK, PoolInv, [Next]_vars PROVE PoolInv'
  OBVIOUS
<1>1. ASSUME NEW w \in Worker, Working(w) PROVE PoolInv'
  <2>1. /\ worker[w] \in Job /\ at[worker[w]] \in RunnerSteps
        /\ jobs[worker[w]].status = "running"
        /\ job_json[worker[w]].status # "completed"
    BY <1>1, HeldStage, WebConstants DEF Working, PoolInv, MirrorNotAhead
  <2>2. UNCHANGED <<entering, queue, worker>>
    BY <1>1 DEF Working, pool
  <2>3. Stage(at'[worker[w]], jobs'[worker[w]], job_json'[worker[w]])
    BY <1>1, <2>1 DEF Working, Stage
  <2>. QED
    BY <1>1, <2>1, <2>2, <2>3, PoolWork DEF Working
<1>2. ASSUME NEW w \in Worker, Start(w) PROVE PoolInv'
  <2>. DEFINE record == [jobs[worker[w]] EXCEPT !.status = "running", !.progress = 1]
  <2>1. worker[w] \in Job /\ UNCHANGED <<entering, queue>>
    BY <1>2, HeldType DEF Start
  <2>2. PICK persisted \in Persisted :
          /\ Update(worker[w], record, persisted)
          /\ at' = [at EXCEPT ![worker[w]] = IF persisted THEN "begin" ELSE "idle"]
          /\ IF persisted THEN UNCHANGED worker ELSE Release(w)
    BY <1>2 DEF Start
  <2>3. record.status = "running"
    BY <2>1 DEF TypeOK, Record
  <2>4. jobs[worker[w]].status = "queued" /\ job_json[worker[w]].status # "completed"
    BY <1>2, <2>1, HeldStage DEF Start, PoolInv, MirrorNotAhead
  <2>5. /\ jobs'[worker[w]] = record /\ job_json'[worker[w]] \in {record, job_json[worker[w]]}
        /\ \A k \in Job \ {worker[w]} :
             jobs'[k] = jobs[k] /\ job_json'[k] = job_json[k] /\ at'[k] = at[k]
    BY <2>1, <2>2 DEF Update, TypeOK
  <2>6. \/ Release(w)
        \/ worker' = worker /\ Stage(at'[worker[w]], jobs'[worker[w]], job_json'[worker[w]])
    <3>1. "begin" \in RunnerSteps
      BY DEF RunnerSteps
    <3>. QED
      BY <2>1, <2>2, <2>3, <2>5, <3>1 DEF Stage, TypeOK
  <2>. HIDE DEF record
  <2>. QED
    BY <2>1, <2>3, <2>4, <2>5, <2>6, PoolWork
<1>3. ASSUME NEW w \in Worker, Complete(w) PROVE PoolInv'
  <2>. DEFINE record == [status |-> "completed", progress |-> 100,
                         downloads |-> ArtifactSet(request[worker[w]])]
  <2>1. worker[w] \in Job /\ UNCHANGED <<entering, queue>>
    BY <1>3, HeldType DEF Complete
  <2>2. PICK persisted \in Persisted :
          /\ Update(worker[w], record, persisted)
          /\ at' = [at EXCEPT ![worker[w]] = IF persisted THEN "idle" ELSE "failing"]
          /\ IF persisted THEN Release(w) ELSE UNCHANGED worker
    BY <1>3 DEF Complete
  <2>3. record.status = "completed"
    OBVIOUS
  <2>4. jobs[worker[w]].status = "running" /\ job_json[worker[w]].status # "completed"
    BY <1>3, <2>1, HeldStage DEF Complete, PoolInv, MirrorNotAhead, RunnerSteps
  <2>. HIDE DEF record
  <2>5. /\ jobs'[worker[w]] = record
        /\ ~persisted => job_json' = job_json
        /\ \A k \in Job \ {worker[w]} :
             jobs'[k] = jobs[k] /\ job_json'[k] = job_json[k] /\ at'[k] = at[k]
    BY <2>1, <2>2 DEF Update, TypeOK
  <2>6. \/ Release(w)
        \/ worker' = worker /\ Stage(at'[worker[w]], jobs'[worker[w]], job_json'[worker[w]])
    BY <2>1, <2>2, <2>3, <2>4, <2>5 DEF Stage, TypeOK
  <2>. QED
    BY <2>1, <2>3, <2>5, <2>6, PoolWork
<1>4. ASSUME NEW w \in Worker, Fail(w) PROVE PoolInv'
  <2>. DEFINE record == [jobs[worker[w]] EXCEPT !.status = "failed", !.progress = 100]
  <2>1. worker[w] \in Job /\ UNCHANGED <<entering, queue>> /\ Release(w)
    BY <1>4, HeldType DEF Fail
  <2>2. PICK persisted \in Persisted : Update(worker[w], record, persisted)
    BY <1>4 DEF Fail
  <2>3. record.status = "failed"
    BY <2>1 DEF TypeOK, Record
  <2>5. /\ jobs'[worker[w]] = record
        /\ \A k \in Job \ {worker[w]} :
             jobs'[k] = jobs[k] /\ job_json'[k] = job_json[k] /\ at'[k] = at[k]
    BY <1>4, <2>1, <2>2 DEF Fail, Update, TypeOK
  <2>. HIDE DEF record
  <2>. QED
    BY <2>1, <2>3, <2>5, PoolWork
<1>5. CASE Shutdown
  BY <1>5 DEF Shutdown, PoolInv, MirrorNotAhead, EnteringIsQueued, QueueIsQueued,
     WorkersHoldOne, StageOf, Stage
<1>6. CASE Kill
  <2>1. /\ MirrorNotAhead'
        /\ entering' = {} /\ Len(queue') = 0
        /\ \A w \in Worker : worker'[w] = NoJob
    BY <1>6 DEF Kill, Unused, PoolInv, MirrorNotAhead, TypeOK
  <2>. QED
    BY <2>1 DEF PoolInv, EnteringIsQueued, QueueIsQueued, WorkersHoldOne
<1>7. CASE UNCHANGED vars
  BY <1>7 DEF vars, PoolInv, MirrorNotAhead, EnteringIsQueued, QueueIsQueued,
     WorkersHoldOne, StageOf, Stage
<1>. QED
  BY <1>1, <1>2, <1>3, <1>4, <1>5, <1>6, <1>7, PoolSubmit, PoolTake, RunnerWorks
     DEF Next, WorkerStep


(* A worker's steps other than Take touch one record, of a job that is not *)
(* settled, unless it was completed without being recorded so.             *)
LEMMA OneRecord ==
  ASSUME TypeOK, PoolInv, NEW w \in Worker, Start(w) \/ Complete(w) \/ Fail(w) \/ Working(w)
  PROVE  /\ worker[w] \in Job
         /\ \A k \in Job \ {worker[w]} : jobs'[k] = jobs[k]
         /\ jobs[worker[w]].status \in Settled =>
              /\ jobs[worker[w]].status = "completed"
              /\ job_json[worker[w]].status # "completed"
              /\ jobs'[worker[w]].status = "failed"
<1>1. worker[w] \in Job
  BY HeldType DEF Start, Complete, Fail, Working
<1>2. \A k \in Job \ {worker[w]} : jobs'[k] = jobs[k]
  BY <1>1 DEF Start, Complete, Fail, Working, Update, TypeOK
<1>3. CASE Start(w) \/ Complete(w) \/ Working(w)
  <2>1. jobs[worker[w]].status \in {"queued", "running"}
    BY <1>1, <1>3, HeldStage, WebConstants DEF Start, Complete, Working, RunnerSteps
  <2>. QED
    BY <1>1, <1>2, <2>1 DEF Settled
<1>4. CASE Fail(w)
  <2>1. \/ jobs[worker[w]].status = "running"
        \/ jobs[worker[w]].status = "completed" /\ job_json[worker[w]].status # "completed"
    BY <1>1, <1>4, HeldStage DEF Fail
  <2>2. jobs'[worker[w]] = [jobs[worker[w]] EXCEPT !.status = "failed", !.progress = 100]
    BY <1>1, <1>4 DEF Fail, Update, TypeOK
  <2>3. jobs'[worker[w]].status = "failed"
    BY <1>1, <2>2 DEF TypeOK, Record
  <2>. QED
    BY <1>1, <1>2, <2>1, <2>3 DEF Settled
<1>. QED
  BY <1>3, <1>4

(* A settled job stays as it is, but for a completion that could not be    *)
(* recorded and for a kill.                                                *)
THEOREM SettledJobsStay == Spec => SettledStays
<1>. DEFINE Stays == \A j \in Job : jobs[j].status \in Settled =>
       \/ jobs'[j] = jobs[j]
       \/ jobs'[j].status = "lost" /\ kills' > kills
       \/ /\ jobs[j].status = "completed" /\ jobs'[j].status = "failed"
          /\ job_json[j].status # "completed"
<1>1. TypeOK /\ PoolInv /\ [Next]_vars => Stays
  <2>. SUFFICES ASSUME TypeOK, PoolInv, [Next]_vars PROVE Stays
    OBVIOUS
  <2>1. ASSUME NEW w \in Worker, Start(w) \/ Complete(w) \/ Fail(w) \/ Working(w)
        PROVE  Stays
    BY <2>1, OneRecord
  <2>2. ASSUME NEW j \in Job, SaveRecord(j) PROVE Stays
    <3>1. jobs[j].status = "unused" /\ \A k \in Job \ {j} : jobs'[k] = jobs[k]
      BY <2>2 DEF SaveRecord, Update, TypeOK
    <3>. QED
      BY <3>1 DEF Settled
  <2>3. CASE Kill
    <3>1. ASSUME NEW j \in Job, jobs[j].status \in Settled
          PROVE  jobs'[j].status = "lost" /\ kills' > kills
      BY <2>3, <3>1 DEF Kill, Unused, Settled, TypeOK
    <3>. QED
      BY <3>1
  <2>4. ASSUME UNCHANGED jobs PROVE Stays
    BY <2>4
  <2>5. \/ UNCHANGED jobs
        \/ Kill
        \/ \E j \in Job : SaveRecord(j)
        \/ \E w \in Worker : Start(w) \/ Complete(w) \/ Fail(w) \/ Working(w)
    BY RunnerWorks DEF Next, WorkerStep, Enqueue, Take, Shutdown, vars
  <2>. QED
    BY <2>1, <2>2, <2>3, <2>4, <2>5
<1>2. TypeOK /\ PoolInv /\ [Next]_vars => TypeOK' /\ PoolInv'
  BY TypeStep, PoolStep
<1>3. TypeOK /\ PoolInv /\ [Next]_vars =>
        [\A j \in Job : jobs[j].status \in Settled =>
           \/ jobs'[j] = jobs[j]
           \/ jobs'[j].status = "lost" /\ kills' > kills
           \/ /\ jobs[j].status = "completed" /\ jobs'[j].status = "failed"
              /\ job_json[j].status # "completed"]_vars
  BY <1>1
<1>. QED
  BY <1>2, <1>3, TypeInit, PoolInit, PTL DEF Spec, SettledStays

-----------------------------------------------------------------------------
(* Without a failed write no job is shown under way that nobody holds.     *)

LiveInv == TypeOK /\ PoolInv /\ LiveJobsAreHeld

(* What LiveJobsAreHeld asks of one job.                                   *)
Live(j) ==
  /\ jobs[j].status = "running" => \E w \in Worker : worker[w] = j
  /\ jobs[j].status = "queued" =>
       \/ j \in entering
       \/ \E i \in 1 .. Len(queue) : queue[i] = j
       \/ \E w \in Worker : worker[w] = j /\ at[j] = "start"

LEMMA LiveStep == LiveInv /\ [Next]_vars => LiveInv'
<1>. SUFFICES ASSUME LiveInv, [Next]_vars PROVE LiveInv'
  OBVIOUS
<1>0. TypeOK /\ PoolInv /\ TypeOK' /\ PoolInv'
  BY TypeStep, PoolStep DEF LiveInv
<1>. SUFFICES ASSUME faults' = 0, NEW j \in Job PROVE Live(j)'
  BY <1>0 DEF LiveInv, LiveJobsAreHeld, Live
<1>1. faults = 0 => Live(j)
  BY DEF LiveInv, LiveJobsAreHeld, Live
<1>2. ASSUME NEW k \in Job, NEW record, NEW persisted \in BOOLEAN, Update(k, record, persisted)
      PROVE  /\ persisted /\ faults = 0
             /\ jobs'[k] = record
             /\ k # j => jobs'[j] = jobs[j]
  BY <1>0, <1>2 DEF Update, TypeOK
<1>3. \A persisted \in Persisted : persisted \in BOOLEAN
  BY DEF Persisted
<1>4. ASSUME NEW k \in Job, SaveRecord(k) PROVE Live(j)'
  <2>1. PICK persisted \in Persisted :
          /\ Update(k, Queued, persisted)
          /\ entering' = IF persisted THEN entering \cup {k} ELSE entering
    BY <1>4 DEF SaveRecord
  <2>2. persisted /\ faults = 0 /\ jobs'[k] = Queued /\ (k # j => jobs'[j] = jobs[j])
    BY <1>2, <1>3, <2>1
  <2>3. Queued.status = "queued"
    BY DEF Queued, Unused
  <2>4. entering' = entering \cup {k} /\ UNCHANGED <<queue, worker, at>>
    BY <1>4, <2>1, <2>2 DEF SaveRecord
  <2>. QED
    BY <1>1, <2>2, <2>3, <2>4 DEF Live
<1>5. ASSUME NEW k \in Job, Enqueue(k) PROVE Live(j)'
  <2>1. /\ entering' = entering \ {k} /\ queue' = Append(queue, k)
        /\ UNCHANGED <<jobs, worker, at, faults>>
    BY <1>5 DEF Enqueue
  <2>2. /\ Len(queue) + 1 \in 1 .. Len(queue') /\ queue'[Len(queue) + 1] = k
        /\ \A i \in 1 .. Len(queue) : i \in 1 .. Len(queue') /\ queue'[i] = queue[i]
    BY <1>0, <2>1 DEF TypeOK
  <2>. QED
    BY <1>1, <2>1, <2>2 DEF Live
<1>6. ASSUME NEW w \in Worker, Take(w) PROVE Live(j)'
  <2>1. /\ queue # <<>> /\ queue' = Tail(queue) /\ worker[w] = NoJob
        /\ worker' = [worker EXCEPT ![w] = Head(queue)]
        /\ at' = [at EXCEPT ![Head(queue)] = "start"]
        /\ UNCHANGED <<jobs, entering, faults>>
    BY <1>6 DEF Take
  <2>2. /\ Head(queue) = queue[1] /\ Head(queue) \in Job
        /\ \A i \in 1 .. Len(queue) :
             i # 1 => i - 1 \in 1 .. Len(queue') /\ queue'[i - 1] = queue[i]
    <3>1. /\ Head(queue) = queue[1] /\ Head(queue) \in Job
          /\ Len(queue') = Len(queue) - 1
          /\ \A i \in 1 .. Len(queue') : queue'[i] = queue[i + 1]
      BY <1>0, <2>1 DEF TypeOK
    <3>2. \A i \in 1 .. Len(queue) : i # 1 => i - 1 \in 1 .. Len(queue') /\ (i - 1) + 1 = i
      BY <1>0, <3>1 DEF TypeOK
    <3>. QED
      BY <3>1, <3>2
  <2>3. /\ worker'[w] = Head(queue)
        /\ \A v \in Worker : worker[v] = j => worker'[v] = j
    BY <1>0, <2>1, WebConstants DEF TypeOK
  <2>4. at'[Head(queue)] = "start" /\ (j # Head(queue) => at'[j] = at[j])
    BY <1>0, <2>1, <2>2 DEF TypeOK
  <2>. QED
    BY <1>1, <2>1, <2>2, <2>3, <2>4 DEF Live
<1>7. ASSUME NEW w \in Worker, Working(w) PROVE Live(j)'
  <2>1. /\ faults = 0 /\ UNCHANGED <<entering, queue, worker>>
        /\ jobs'[j].status = jobs[j].status
        /\ j # worker[w] => at'[j] = at[j]
        /\ worker[w] \in Job
    BY <1>0, <1>7 DEF Working, pool, TypeOK
  <2>2. jobs[worker[w]].status = "running"
    BY <1>0, <1>7, HeldStage, WebConstants DEF Working
  <2>. QED
    BY <1>1, <2>1, <2>2 DEF Live
<1>8. ASSUME NEW w \in Worker, Start(w) \/ Complete(w) \/ Fail(w) PROVE Live(j)'
  <2>1. worker[w] \in Job /\ UNCHANGED <<entering, queue>>
    BY <1>0, <1>8, HeldType DEF Start, Complete, Fail
  <2>3. faults = 0 /\ (worker[w] # j => jobs'[j] = jobs[j])
    <3>1. ASSUME NEW record, NEW persisted \in Persisted,
                 Update(worker[w], record, persisted)
          PROVE  faults = 0 /\ (worker[w] # j => jobs'[j] = jobs[j])
      BY <1>2, <1>3, <2>1, <3>1
    <3>. QED
      BY <1>8, <3>1 DEF Start, Complete, Fail
  <2>4. CASE j # worker[w]
    <3>1. \A v \in Worker : worker[v] = j => worker'[v] = j
      BY <1>0, <1>8, <2>4 DEF Start, Complete, Fail, Release, TypeOK
    <3>2. at'[j] = at[j]
      BY <1>0, <1>8, <2>1, <2>4 DEF Start, Complete, Fail, TypeOK
    <3>. QED
      BY <1>1, <2>1, <2>3, <2>4, <3>1, <3>2 DEF Live
  <2>5. CASE j = worker[w] /\ Start(w)
    <3>1. PICK written \in Persisted :
            /\ Update(j, [jobs[j] EXCEPT !.status = "running", !.progress = 1], written)
            /\ IF written THEN UNCHANGED worker ELSE Release(w)
      BY <2>5 DEF Start
    <3>2. written /\ jobs'[j] = [jobs[j] EXCEPT !.status = "running", !.progress = 1]
      BY <1>2, <1>3, <3>1
    <3>3. jobs'[j].status = "running"
      BY <1>0, <3>2 DEF TypeOK, Record
    <3>. QED
      BY <2>5, <3>1, <3>2, <3>3 DEF Live
  <2>6. CASE j = worker[w] /\ (Complete(w) \/ Fail(w))
    <3>1. jobs'[j].status \in {"completed", "failed"}
      <4>1. CASE Complete(w)
        BY <1>0, <2>6, <4>1 DEF Complete, Update, TypeOK
      <4>2. CASE Fail(w)
        <5>1. jobs'[j] = [jobs[j] EXCEPT !.status = "failed", !.progress = 100]
          BY <1>0, <2>6, <4>2 DEF Fail, Update, TypeOK
        <5>. QED
          BY <1>0, <5>1 DEF TypeOK, Record
      <4>. QED
        BY <2>6, <4>1, <4>2
    <3>. QED
      BY <3>1 DEF Live
  <2>. QED
    BY <1>8, <2>4, <2>5, <2>6
<1>9. CASE Kill
  <2>1. jobs'[j].status \in {"unused", "lost"}
    BY <1>9 DEF Kill, Unused
  <2>. QED
    BY <2>1 DEF Live
<1>10. CASE UNCHANGED <<jobs, entering, queue, worker, at, faults>>
  BY <1>1, <1>10 DEF Live
<1>. QED
  BY <1>4, <1>5, <1>6, <1>7, <1>8, <1>9, <1>10, RunnerWorks, <1>0
     DEF Next, WorkerStep, Shutdown, vars

(* As long as job.json can be written, every job shown as queued or        *)
(* running is on its way to a worker or on one.                            *)
THEOREM LiveJobsHeld == Spec => []LiveJobsAreHeld
<1>1. Init => LiveInv
  BY TypeInit, PoolInit DEF Init, LiveInv, LiveJobsAreHeld, Unused
<1>2. LiveInv => LiveJobsAreHeld
  BY DEF LiveInv
<1>. QED
  BY <1>1, <1>2, LiveStep, PTL DEF Spec

-----------------------------------------------------------------------------
(* What was never asked is reported.  The active cases are numbered; those *)
(* with a number below start have been asked.  When the loop ends without  *)
(* an error start has passed them all.                                     *)

ActiveIn(r) == {i \in 1 .. Len(r.cases) : r.cases[i].questions # {}}

Number(r, k) == Cardinality({n \in ActiveIn(r) : n < k})

Fresh(r) == r.cases = <<>> /\ r.start = 0

(* What the assessment of a case tells of the calls of the batch.          *)
Told(r, case, merged) ==
  LET unasked == {q \in case.questions : <<case.puid, q>> \notin r.asked}
  IN /\ unasked \subseteq merged.unanswered
     /\ unasked # {} => merged.error
     /\ case.questions # {} /\ (\A q \in Question : <<case.puid, q>> \notin r.asked)
          => merged.status = "error_deterministic_retained"
     /\ merged.status = "error_deterministic_retained"
          => merged.unanswered = case.questions

Covered(place, r) ==
  /\ r.answers \subseteq r.asked
  /\ place \in {"start", "begin", "resolve", "query"} => Fresh(r)
  /\ place \in {"assess", "synthesize"} => r.start = 0
  /\ place \in {"fill", "ask"} =>
       \A k \in ActiveIn(r) :
         Number(r, k) < r.start => Pairs(r.cases[k]) \subseteq r.asked
  /\ place = "merge" =>
       r.failed_error \/ \A k \in ActiveIn(r) : Pairs(r.cases[k]) \subseteq r.asked
  /\ place \in {"report", "write"} =>
       \A i \in 1 .. Len(r.cases) : Told(r, r.cases[i], r.merged[i])

AskedInv ==
  \A j \in Job :
    /\ Covered(at[j], run[j])
    /\ (\A w \in Worker : worker[w] # j) => Fresh(run[j])

LEMMA ActiveFinite ==
  ASSUME NEW r \in Run
  PROVE  /\ IsFiniteSet(ActiveIn(r))
         /\ \A k \in ActiveIn(r) :
              /\ Number(r, k) \in Nat
              /\ Number(r, k) < Cardinality(ActiveIn(r))
<1>1. Len(r.cases) \in Nat
  BY DEF Run
<1>2. IsFiniteSet(1 .. Len(r.cases))
  BY <1>1, FS_Interval
<1>3. IsFiniteSet(ActiveIn(r))
  BY <1>2, FS_Subset DEF ActiveIn
<1>4. ASSUME NEW k \in ActiveIn(r)
      PROVE  Number(r, k) \in Nat /\ Number(r, k) < Cardinality(ActiveIn(r))
  <2>. DEFINE S == ActiveIn(r)
              T == {n \in S : n < k}
  <2>1. k \in Nat
    BY <1>1 DEF ActiveIn
  <2>2. T \subseteq S \ {k}
    BY <2>1
  <2>3. IsFiniteSet(S \ {k}) /\ Cardinality(S \ {k}) = Cardinality(S) - 1
    BY <1>3, <1>4, FS_RemoveElement
  <2>4. IsFiniteSet(T) /\ Cardinality(T) <= Cardinality(S \ {k})
    BY <2>2, <2>3, FS_Subset
  <2>5. Cardinality(S) \in Nat /\ Cardinality(T) \in Nat
    BY <1>3, <2>4, FS_CardinalityType
  <2>. QED
    BY <2>3, <2>4, <2>5 DEF Number
<1>. QED
  BY <1>3, <1>4

(* Merging tells what it has to once every active case has been asked or   *)
(* an error is known.                                                      *)
LEMMA MergeTells ==
  ASSUME NEW r \in Run, NEW i \in 1 .. Len(r.cases), Covered("merge", r)
  PROVE  Told(r, r.cases[i], MergedCase(r, r.cases[i]))
<1>. DEFINE case == r.cases[i]
            answered == {pair \in r.answers : pair[1] = case.puid}
            unasked == {q \in case.questions : <<case.puid, q>> \notin r.asked}
            merged == MergedCase(r, case)
<1>1. case \in Case /\ r.answers \subseteq r.asked /\ r.asked \subseteq Puid \X Question
  BY DEF Run, Covered
<1>2. case.questions \subseteq Question
  BY <1>1, WebConstants DEF Case
<1>3. /\ merged.unanswered = {q \in case.questions : <<case.puid, q>> \notin answered}
      /\ merged.status = IF r.failed_error /\ answered = {}
                         THEN "error_deterministic_retained" ELSE "ok"
      /\ merged.error = r.failed_error
  BY DEF MergedCase
<1>. HIDE DEF case, merged
<1>4. unasked \subseteq merged.unanswered
  BY <1>1, <1>3
<1>5. unasked # {} => r.failed_error
  <2>. SUFFICES ASSUME NEW q \in unasked, ~ r.failed_error PROVE FALSE
    OBVIOUS
  <2>1. i \in ActiveIn(r)
    BY DEF ActiveIn, case
  <2>2. Pairs(case) \subseteq r.asked
    BY <2>1 DEF Covered, case
  <2>. QED
    BY <2>2 DEF Pairs
<1>6. (\A q \in Question : <<case.puid, q>> \notin r.asked) => answered = {}
  BY <1>1
<1>7. case.questions # {} /\ (\A q \in Question : <<case.puid, q>> \notin r.asked)
        => unasked # {}
  BY <1>2
<1>8. merged.status = "error_deterministic_retained" => answered = {}
  BY <1>3
<1>9. merged.status = "error_deterministic_retained" => merged.unanswered = case.questions
  BY <1>3, <1>8
<1>10. case.questions # {} /\ (\A q \in Question : <<case.puid, q>> \notin r.asked)
         => merged.status = "error_deterministic_retained"
  BY <1>3, <1>5, <1>6, <1>7
<1>. QED
  BY <1>3, <1>4, <1>5, <1>9, <1>10 DEF Told, case, merged

LEMMA FreshCovered ==
  ASSUME NEW r \in Run, Fresh(r), r.answers \subseteq r.asked, NEW place
  PROVE  Covered(place, r)
<1>1. ActiveIn(r) = {} /\ 1 .. Len(r.cases) = {}
  BY DEF Fresh, ActiveIn
<1>. QED
  BY <1>1 DEF Covered, Fresh

LEMMA NewCovered == Fresh(NewRun) /\ \A place : Covered(place, NewRun)
BY NewRunType, FreshCovered DEF NewRun, Fresh

LEMMA AskedInit == Init => AskedInv
BY NewCovered DEF Init, AskedInv

(* The circuit leaves questions and answers alone.                         *)
LEMMA GuardedKeeps ==
  ASSUME NEW r \in Run, NEW g \in GuardedCall(r)
  PROVE  /\ g \in Run /\ g.cases = r.cases /\ g.start = r.start
         /\ g.asked = r.asked /\ g.answers = r.answers
<1>1. CASE r.rate_limited
  BY <1>1 DEF GuardedCall
<1>2. CASE ~r.rate_limited
  <2>1. PICK limited \in BOOLEAN : g = [r EXCEPT !.rate_limited = limited]
    BY <1>2 DEF GuardedCall
  <2>. QED
    BY <2>1, GuardedType DEF Run
<1>. QED
  BY <1>1, <1>2

(* A chunk that was asked extends what was asked to the next number.       *)
LEMMA ChunkCovers ==
  ASSUME NEW j, run[j] \in Run, Covered("ask", run[j]),
         NEW k \in ActiveIn(run[j]), Number(run[j], k) < run[j].start + BatchSize
  PROVE  Pairs(run[j].cases[k]) \subseteq run[j].asked \cup Asked(j)
<1>1. Number(run[j], k) \in Nat /\ run[j].start \in Nat /\ BatchSize \in Nat
  BY ActiveFinite, WebConstants DEF Run
<1>2. CASE Number(run[j], k) < run[j].start
  BY <1>2 DEF Covered
<1>3. CASE Number(run[j], k) \in run[j].start .. run[j].start + BatchSize - 1
  <2>1. k \in Chunk(j)
    BY <1>3 DEF Chunk, ActiveCases, ActiveIn, Number
  <2>. QED
    BY <2>1 DEF Asked
<1>. QED
  BY <1>1, <1>2, <1>3

LEMMA ReportGoes ==
  ASSUME TypeOK, NEW j \in Job, NEW progress, NEW next, Report(j, progress, next)
  PROVE  at'[j] \in {next, "failing"}
BY DEF Report, TypeOK

(* The steps of a batch.                                                   *)
LEMMA CoveredBatch ==
  ASSUME TypeOK, NEW w \in Worker, NEW j \in Job, worker[w] = j,
         Covered(at[j], run[j]), BatchStep(w)
  PROVE  Covered(at'[j], run'[j])
<1>0. run[j] \in Run /\ run \in [Job -> Run]
  BY DEF TypeOK
<1>1. CASE BeginBatch(w)
  BY <1>1, ReportGoes DEF BeginBatch, Covered, Fresh
<1>2. CASE AssessFormat(w)
  <2>1. at[j] = "assess" /\ at'[j] \in {"assess", "synthesize", "failing"}
    BY <1>2, ReportGoes DEF AssessFormat
  <2>2. /\ run'[j].start = run[j].start /\ run'[j].asked = run[j].asked
        /\ run'[j].answers = run[j].answers
    <3>1. CASE UNCHANGED run
      BY <3>1
    <3>2. CASE run' = [run EXCEPT ![j].index = run[j].index + 1]
      BY <1>0, <3>2 DEF Run
    <3>3. ASSUME NEW c \in Case,
                 run' = [run EXCEPT ![j].index = run[j].index + 1,
                                    ![j].cases = Append(@, c)]
          PROVE  /\ run'[j].start = run[j].start /\ run'[j].asked = run[j].asked
                 /\ run'[j].answers = run[j].answers
      <4>1. run'[j] = [run[j] EXCEPT !.index = run[j].index + 1,
                                     !.cases = Append(run[j].cases, c)]
        BY <1>0, <3>3
      <4>. QED
        BY <1>0, <4>1 DEF Run
    <3>. QED
      BY <1>2, <3>1, <3>2, <3>3 DEF AssessFormat
  <2>. QED
    BY <2>1, <2>2 DEF Covered
<1>3. CASE SynthesizeFormat(w)
  <2>1. at[j] = "synthesize" /\ at'[j] \in {"assess", "failing"}
    BY <1>3, ReportGoes DEF SynthesizeFormat
  <2>2. PICK r \in GuardedCall(run[j]) :
          run' = [run EXCEPT ![j] = [r EXCEPT !.index = run[j].index + 1]]
    BY <1>3 DEF SynthesizeFormat
  <2>3. /\ run'[j].start = run[j].start /\ run'[j].asked = run[j].asked
        /\ run'[j].answers = run[j].answers
    <3>1. run'[j] = [r EXCEPT !.index = run[j].index + 1]
      BY <1>0, <2>2
    <3>2. /\ r \in Run /\ r.start = run[j].start
          /\ r.asked = run[j].asked /\ r.answers = run[j].answers
      BY <1>0, <2>2, GuardedKeeps
    <3>. QED
      BY <3>1, <3>2 DEF Run
  <2>. QED
    BY <2>1, <2>3 DEF Covered
<1>4. CASE EndAssessments(w)
  <2>1. at[j] = "assess" /\ run' = run
    BY <1>4 DEF EndAssessments
  <2>2. CASE run[j].cases # <<>>
    <3>1. at'[j] \in {"fill", "failing"}
      BY <1>4, <2>2, ReportGoes DEF EndAssessments
    <3>2. \A k \in ActiveIn(run[j]) : Number(run[j], k) \in Nat
      BY <1>0, ActiveFinite
    <3>. QED
      BY <2>1, <3>1, <3>2 DEF Covered
  <2>3. CASE run[j].cases = <<>>
    BY <1>0, <2>1, <2>3, FreshCovered DEF Covered, Fresh
  <2>. QED
    BY <2>2, <2>3
<1>5. CASE BeginChunk(w)
  <2>1. at[j] = "fill" /\ run' = run
    BY <1>5 DEF BeginChunk
  <2>2. CASE run[j].start < Cardinality(ActiveCases(j))
    <3>1. at'[j] \in {"ask", "failing"}
      BY <1>5, <2>2, ReportGoes DEF BeginChunk
    <3>. QED
      BY <2>1, <3>1 DEF Covered
  <2>3. CASE ~(run[j].start < Cardinality(ActiveCases(j)))
    <3>1. at'[j] = "merge"
      BY <1>5, <2>3 DEF BeginChunk, TypeOK
    <3>2. ActiveCases(j) = ActiveIn(run[j])
      BY DEF ActiveCases, ActiveIn
    <3>3. Cardinality(ActiveIn(run[j])) \in Nat /\ run[j].start \in Nat
      BY <1>0, ActiveFinite, FS_CardinalityType DEF Run
    <3>4. \A k \in ActiveIn(run[j]) : Number(run[j], k) < run[j].start
      BY <1>0, <2>3, <3>2, <3>3, ActiveFinite
    <3>. QED
      BY <2>1, <3>1, <3>4 DEF Covered
  <2>. QED
    BY <2>2, <2>3
<1>6. CASE AskProvider(w)
  <2>0. at[j] = "ask" /\ at \in [Job -> Place]
    BY <1>6 DEF AskProvider, TypeOK, Place
  <2>1. PICK r \in GuardedCall(run[j]) :
       \/ /\ run' = [run EXCEPT ![j] = [r EXCEPT !.failed_error = TRUE]]
          /\ at' = [at EXCEPT ![j] = "merge"]
       \/ /\ run' = [run EXCEPT ![j] = [r EXCEPT !.cause = "ai"]]
          /\ at' = [at EXCEPT ![j] = "failing"]
       \/ /\ \E accepted \in SUBSET Answerable(j) :
               run' = [run EXCEPT ![j] = [r EXCEPT !.start = @ + BatchSize,
                                                   !.asked = @ \cup Asked(j),
                                                   !.answers = @ \cup accepted]]
          /\ at' = [at EXCEPT ![j] = "fill"]
    BY <1>6 DEF AskProvider
  <2>2. /\ r \in Run /\ r.cases = run[j].cases /\ r.start = run[j].start
        /\ r.asked = run[j].asked /\ r.answers = run[j].answers
    BY <1>0, GuardedKeeps
  <2>3. ASSUME run' = [run EXCEPT ![j] = [r EXCEPT !.failed_error = TRUE]],
               at' = [at EXCEPT ![j] = "merge"]
        PROVE  Covered(at'[j], run'[j])
    <3>1. run'[j] = [r EXCEPT !.failed_error = TRUE] /\ at'[j] = "merge"
      BY <1>0, <2>0, <2>3
    <3>2. /\ run'[j].failed_error
          /\ run'[j].answers = run[j].answers /\ run'[j].asked = run[j].asked
      BY <2>2, <3>1 DEF Run
    <3>. QED
      BY <3>1, <3>2 DEF Covered
  <2>4. ASSUME run' = [run EXCEPT ![j] = [r EXCEPT !.cause = "ai"]],
               at' = [at EXCEPT ![j] = "failing"]
        PROVE  Covered(at'[j], run'[j])
    <3>1. run'[j] = [r EXCEPT !.cause = "ai"] /\ at'[j] = "failing"
      BY <1>0, <2>0, <2>4
    <3>2. run'[j].answers = run[j].answers /\ run'[j].asked = run[j].asked
      BY <2>2, <3>1 DEF Run
    <3>. QED
      BY <3>1, <3>2 DEF Covered
  <2>5. ASSUME NEW accepted \in SUBSET Answerable(j),
               run' = [run EXCEPT ![j] = [r EXCEPT !.start = @ + BatchSize,
                                                   !.asked = @ \cup Asked(j),
                                                   !.answers = @ \cup accepted]],
               at' = [at EXCEPT ![j] = "fill"]
        PROVE  Covered(at'[j], run'[j])
    <3>1. at'[j] = "fill"
          /\ run'[j] = [r EXCEPT !.start = @ + BatchSize, !.asked = @ \cup Asked(j),
                                 !.answers = @ \cup accepted]
      BY <1>0, <2>0, <2>5
    <3>2. /\ run'[j].cases = run[j].cases
          /\ run'[j].start = run[j].start + BatchSize
          /\ run'[j].asked = run[j].asked \cup Asked(j)
          /\ run'[j].answers = run[j].answers \cup accepted
      BY <2>2, <3>1 DEF Run
    <3>3. ActiveIn(run'[j]) = ActiveIn(run[j])
      BY <3>2 DEF ActiveIn
    <3>4. \A k \in ActiveIn(run[j]) : Number(run'[j], k) = Number(run[j], k)
      BY <3>3 DEF Number
    <3>5. \A k \in ActiveIn(run[j]) : Number(run[j], k) < run[j].start + BatchSize
            => Pairs(run[j].cases[k]) \subseteq run[j].asked \cup Asked(j)
      BY <1>0, <2>0, ChunkCovers
    <3>6. run'[j].answers \subseteq run'[j].asked
      BY <1>0, <3>2, AskedType DEF Covered
    <3>. QED
      BY <3>1, <3>2, <3>3, <3>4, <3>5, <3>6 DEF Covered
  <2>. QED
    BY <2>1, <2>3, <2>4, <2>5
<1>7. CASE MergeCases(w)
  <2>. DEFINE merged == [i \in 1 .. Len(run[j].cases) |->
                           MergedCase(run[j], run[j].cases[i])]
  <2>1. at[j] = "merge" /\ at'[j] \in {"report", "failing"}
    BY <1>7, ReportGoes DEF MergeCases
  <2>2. run' = [run EXCEPT ![j].merged = merged]
    BY <1>7 DEF MergeCases
  <2>3. \A i \in 1 .. Len(run[j].cases) : Told(run[j], run[j].cases[i], merged[i])
    BY <1>0, <2>1, MergeTells
  <2>. HIDE DEF merged
  <2>4. run'[j] = [run[j] EXCEPT !.merged = merged]
    BY <1>0, <2>2
  <2>5. /\ run'[j].cases = run[j].cases /\ run'[j].asked = run[j].asked
        /\ run'[j].answers = run[j].answers /\ run'[j].merged = merged
    BY <1>0, <2>4 DEF Run
  <2>6. \A i \in 1 .. Len(run'[j].cases) :
          Told(run'[j], run'[j].cases[i], run'[j].merged[i])
    BY <2>3, <2>5 DEF Told
  <2>. QED
    BY <2>1, <2>5, <2>6 DEF Covered
<1>8. CASE BuildReport(w)
  <2>1. at[j] = "report" /\ at'[j] \in {"write", "failing"} /\ run' = run
    BY <1>8, ReportGoes DEF BuildReport
  <2>. QED
    BY <2>1 DEF Covered
<1>. QED
  BY <1>1, <1>2, <1>3, <1>4, <1>5, <1>6, <1>7, <1>8 DEF BatchStep

LEMMA AskedStep == TypeOK /\ PoolInv /\ AskedInv /\ [Next]_vars => AskedInv'
<1>. SUFFICES ASSUME TypeOK, PoolInv, AskedInv, [Next]_vars, NEW k \in Job
              PROVE  /\ Covered(at'[k], run'[k])
                     /\ (\A w \in Worker : worker'[w] # k) => Fresh(run'[k])
  BY DEF AskedInv
<1>0. /\ Covered(at[k], run[k]) /\ run[k] \in Run
      /\ (\A w \in Worker : worker[w] # k) => Fresh(run[k])
  BY DEF AskedInv, TypeOK
<1>. DEFINE Goal == /\ Covered(at'[k], run'[k])
                    /\ (\A w \in Worker : worker'[w] # k) => Fresh(run'[k])
<1>1. CASE UNCHANGED <<at, run, worker>>
  BY <1>0, <1>1
<1>2. ASSUME NEW w \in Worker, Take(w) PROVE Goal
  <2>1. /\ queue # <<>> /\ worker[w] = NoJob /\ run' = run
        /\ worker' = [worker EXCEPT ![w] = Head(queue)]
        /\ at' = [at EXCEPT ![Head(queue)] = "start"]
    BY <1>2 DEF Take
  <2>2. Head(queue) = queue[1] /\ 1 \in 1 .. Len(queue)
    BY <2>1 DEF TypeOK
  <2>3. \A v \in Worker : worker[v] # Head(queue)
    BY <2>2 DEF PoolInv, QueueIsQueued
  <2>4. Covered(at'[k], run'[k])
    <3>1. CASE k = Head(queue)
      BY <1>0, <2>1, <2>3, <3>1, FreshCovered DEF Covered
    <3>2. CASE k # Head(queue)
      BY <1>0, <2>1, <3>2 DEF TypeOK
    <3>. QED
      BY <3>1, <3>2
  <2>5. (\A v \in Worker : worker'[v] # k) => \A v \in Worker : worker[v] # k
    BY <2>1, WebConstants DEF TypeOK
  <2>. QED
    BY <1>0, <2>1, <2>4, <2>5
<1>3. ASSUME NEW w \in Worker, Start(w) PROVE Goal
  <2>1. worker[w] \in Job /\ at[worker[w]] = "start" /\ run' = run
    BY <1>3, HeldType DEF Start
  <2>2. CASE k = worker[w]
    BY <1>0, <2>1, <2>2, FreshCovered DEF Covered
  <2>3. CASE k # worker[w]
    <3>1. at'[k] = at[k] /\ \A v \in Worker : worker[v] = k => worker'[v] = k
      BY <1>3, <2>1, <2>3 DEF Start, Release, TypeOK
    <3>. QED
      BY <1>0, <2>1, <3>1
  <2>. QED
    BY <2>2, <2>3
<1>4. ASSUME NEW w \in Worker, Complete(w) \/ Fail(w) PROVE Goal
  <2>1. /\ worker[w] \in Job
        /\ run' = [run EXCEPT ![worker[w]] = [NewRun EXCEPT !.cause = run[worker[w]].cause]]
    BY <1>4, HeldType DEF Complete, Fail, Forgotten
  <2>2. CASE k = worker[w]
    <3>1. run'[k] = [NewRun EXCEPT !.cause = run[k].cause]
      BY <2>1, <2>2 DEF TypeOK
    <3>2. /\ run'[k].cases = <<>> /\ run'[k].start = 0
          /\ run'[k].answers \subseteq run'[k].asked
      BY <3>1 DEF NewRun
    <3>3. run'[k] \in Run
      BY TypeStep DEF TypeOK
    <3>. QED
      BY <3>2, <3>3, FreshCovered DEF Fresh
  <2>3. CASE k # worker[w]
    <3>1. /\ at'[k] = at[k] /\ run'[k] = run[k]
          /\ \A v \in Worker : worker[v] = k => worker'[v] = k
      BY <1>4, <2>1, <2>3 DEF Complete, Fail, Release, TypeOK
    <3>. QED
      BY <1>0, <3>1
  <2>. QED
    BY <2>2, <2>3
<1>5. ASSUME NEW w \in Worker,
             HumanStep(w) \/ BatchStep(w) \/ WriteArtifact(w) \/ Raise(w)
      PROVE  Goal
  <2>1. Working(w)
    BY <1>5, RunnerWorks
  <2>2. /\ worker[w] \in Job /\ worker' = worker
        /\ k # worker[w] => at'[k] = at[k]
    BY <2>1 DEF Working, pool
  <2>3. CASE k # worker[w]
    <3>1. run'[k] = run[k]
      <4>1. CASE HumanStep(w) \/ WriteArtifact(w)
        BY <4>1 DEF HumanStep, WriteArtifact
      <4>2. CASE Raise(w)
        BY <2>3, <4>2 DEF Raise, TypeOK
      <4>3. CASE BatchStep(w)
        BY <2>3, <4>3 DEF BatchStep, BeginBatch, AssessFormat, SynthesizeFormat,
           EndAssessments, BeginChunk, AskProvider, MergeCases, BuildReport, TypeOK
      <4>. QED
        BY <1>5, <4>1, <4>2, <4>3
    <3>. QED
      BY <1>0, <2>2, <2>3, <3>1
  <2>4. CASE k = worker[w]
    <3>1. Covered(at'[k], run'[k])
      <4>1. CASE HumanStep(w)
        <5>1. at[k] \in {"begin", "resolve", "query"} /\ run' = run
          BY <2>4, <4>1 DEF HumanStep
        <5>. QED
          BY <1>0, <5>1, FreshCovered DEF Covered
      <4>2. CASE WriteArtifact(w)
        BY <1>0, <4>2 DEF WriteArtifact
      <4>3. CASE Raise(w)
        <5>1. at'[k] = "failing" /\ run' = [run EXCEPT ![k].cause = "error"]
          BY <2>4, <4>3 DEF Raise, TypeOK
        <5>2. run'[k] = [run[k] EXCEPT !.cause = "error"]
          BY <5>1 DEF TypeOK
        <5>3. run'[k].answers = run[k].answers /\ run'[k].asked = run[k].asked
          BY <1>0, <5>2 DEF Run
        <5>. QED
          BY <1>0, <5>1, <5>3 DEF Covered
      <4>4. CASE BatchStep(w)
        BY <1>0, <2>4, <4>4, CoveredBatch
      <4>. QED
        BY <1>5, <4>1, <4>2, <4>3, <4>4
    <3>. QED
      BY <2>2, <2>4, <3>1
  <2>. QED
    BY <2>3, <2>4
<1>6. CASE Kill
  BY <1>6, NewCovered DEF Kill
<1>7. ASSUME NEW j \in Job, SaveRecord(j) \/ Enqueue(j) PROVE UNCHANGED <<at, run, worker>>
  BY <1>7 DEF SaveRecord, Enqueue
<1>8. ASSUME Shutdown PROVE UNCHANGED <<at, run, worker>>
  BY <1>8 DEF Shutdown
<1>. QED
  BY <1>1, <1>2, <1>3, <1>4, <1>5, <1>6, <1>7, <1>8 DEF Next, WorkerStep, vars

(* The report tells every question that was in no call the provider        *)
(* answered, and marks the formats all of whose questions were: for any    *)
(* batch and chunk size, wherever the provider fails.                      *)
THEOREM UnaskedReported == Spec => []UnaskedIsReported
<1>1. Init => TypeOK /\ PoolInv /\ AskedInv
  BY TypeInit, PoolInit, AskedInit
<1>2. TypeOK /\ PoolInv /\ AskedInv /\ [Next]_vars => (TypeOK /\ PoolInv /\ AskedInv)'
  BY TypeStep, PoolStep, AskedStep
<1>3. AskedInv => UnaskedIsReported
  BY DEF AskedInv, Covered, Told, UnaskedIsReported
<1>. QED
  BY <1>1, <1>2, <1>3, PTL DEF Spec

=============================================================================
