------------------------------ MODULE WebJobs ------------------------------
(***************************************************************************)
(* The background jobs of the web application: JobManager with its thread  *)
(* pool, and the two runners it executes, the human risk question and the  *)
(* batch report.                                                           *)
(*                                                                         *)
(* Status is held in memory and mirrored to job.json under one lock;       *)
(* report files are written by the runner; downloads are offered from      *)
(* memory.  A write of job.json may fail, a runner may raise anywhere, the *)
(* AI provider may fail, be rate limited or answer what does not validate, *)
(* and the process may be stopped or killed.                               *)
(*                                                                         *)
(* A step of a worker is what it does up to and including its next call    *)
(* of update.  Texts of messages and errors are left out, so that repeated *)
(* reports of one progress value are one.  A job id is used once (uuid4).  *)
(*                                                                         *)
(* A definition named Wrong... is the one that follows it with a slip in   *)
(* it, paired in PROJECT.json with the property it breaks.                 *)
(***************************************************************************)
EXTENDS Integers, Sequences, FiniteSets

CONSTANTS
  Job,          \* job ids
  Worker,       \* threads of the pool
  NoJob,        \* what an idle worker holds
  Request,      \* what may be asked for, see RequestType
  Puid,         \* PUIDs formats resolve to
  Question,     \* questions of the framework
  Gaps,         \* sets of them a format may leave for the AI
  BatchSize,    \* max_puids_per_call
  MaxFault,     \* bound: failing writes of job.json
  MaxKill       \* bound: kills of the process

RequestType == [kind : {"human"}, ai_mode : {"off"}, total : {1}]
          \cup [kind : {"batch"}, ai_mode : {"off", "synthesize", "fill-gaps"},
                total : Nat \ {0}]

ASSUME WebConstants ==
  /\ NoJob \notin Job
  /\ Request \subseteq RequestType
  /\ Gaps \subseteq SUBSET Question
  /\ BatchSize \in Nat \ {0}
  /\ MaxFault \in Nat
  /\ MaxKill \in Nat

VARIABLES
  jobs,       \* _jobs: the record of every job in memory
  job_json,   \* its mirror on disk
  files,      \* report files on disk
  request,    \* what was asked for
  entering,   \* jobs recorded by submit but not yet handed to the executor
  queue,      \* work queue of the executor
  worker,     \* the job each worker executes
  at,         \* where the execution of a job is
  run,        \* local state of a runner
  server,     \* is the application up, or was it shut down?
  faults,     \* failed writes so far
  kills       \* kills so far

vars == <<jobs, job_json, files, request, entering, queue, worker, at, run,
          server, faults, kills>>

pool == <<request, entering, queue, worker, server, kills>>

-----------------------------------------------------------------------------
(* Records, report files and the memory of a runner.                       *)

Artifact == {"json", "csv", "html", "text", "zip"}

Artifacts(r) == IF r.kind = "human" THEN <<"json", "text", "zip">>
                                    ELSE <<"json", "csv", "html", "zip">>

ArtifactSet(r) == {Artifacts(r)[i] : i \in 1 .. Len(Artifacts(r))}

Unused == [status |-> "unused", progress |-> 0, downloads |-> {}]
Queued == [Unused EXCEPT !.status = "queued"]

Settled == {"completed", "failed"}

(* A case is a resolved format of a batch: its PUID and its unresolved     *)
(* questions with evidence.                                                *)
Case == [puid : Puid, questions : Gaps]

(* What the batch puts into the assessment of a case: the questions counted *)
(* in unanswered_by_batch, the status and whether an error is attached.    *)
Merged == [unanswered : SUBSET Question,
           status : {"ok", "error_deterministic_retained"}, error : BOOLEAN]

NewRun == [index |-> 1,          \* format the batch is at
           cases |-> <<>>,       \* fill_gap_candidates
           start |-> 0,          \* active cases already sent
           rate_limited |-> FALSE,
           failed_error |-> FALSE,
           asked |-> {},         \* (PUID, question) in the calls answered
           answers |-> {},       \* (PUID, question) with an accepted answer
           merged |-> <<>>,      \* the assessments, case by case
           cause |-> "none"]     \* what an exception came from

(* The indices of the cases that have questions for the provider.          *)
ActiveCases(j) ==
  {i \in 1 .. Len(run[j].cases) : run[j].cases[i].questions # {}}

Least(a, b) == IF a < b THEN a ELSE b
Greatest(a, b) == IF a < b THEN b ELSE a

(* The progress a batch reports for its index-th format, in whole percent. *)
SynthesisProgress(i, total) == 5 + (72 * (100 * i - 45)) \div (100 * total)

AssessmentProgress(i, total) == 5 + (72 * i) \div total

(* run_batch_web_job keeps its runner below the values it reports itself.  *)
Reported(value) == Least(94, Greatest(5, value))

-----------------------------------------------------------------------------
Init ==
  /\ jobs = [j \in Job |-> Unused]
  /\ job_json = [j \in Job |-> Unused]
  /\ files = [j \in Job |-> {}]
  /\ request \in [Job -> Request]
  /\ entering = {}
  /\ queue = <<>>
  /\ worker = [w \in Worker |-> NoJob]
  /\ at = [j \in Job |-> "idle"]
  /\ run = [j \in Job |-> NewRun]
  /\ server = "up"
  /\ faults = 0
  /\ kills = 0

(* What a write of job.json may come to.                                   *)
Persisted == IF faults < MaxFault THEN BOOLEAN ELSE {TRUE}

(* JobManager.update, under the lock: the record first, then its mirror.   *)
Update(j, record, persisted) ==
  /\ jobs' = [jobs EXCEPT ![j] = record]
  /\ job_json' = IF persisted THEN [job_json EXCEPT ![j] = record] ELSE job_json
  /\ faults' = IF persisted THEN faults ELSE faults + 1

(* A runner reports progress; if that raises, so does the runner.          *)
Report(j, progress, next) ==
  \E persisted \in Persisted :
    /\ Update(j, [jobs[j] EXCEPT !.progress = Greatest(0, Least(100, progress))],
              persisted)
    /\ at' = [at EXCEPT ![j] = IF persisted THEN next ELSE "failing"]

-----------------------------------------------------------------------------
(* submit, in a request handler.                                           *)

SaveRecord(j) ==
  /\ server = "up"
  /\ jobs[j].status = "unused"
  /\ \E persisted \in Persisted :
       /\ Update(j, Queued, persisted)
       /\ entering' = IF persisted THEN entering \cup {j} ELSE entering
  /\ UNCHANGED <<files, request, queue, worker, at, run, server, kills>>

Enqueue(j) ==
  /\ j \in entering
  /\ entering' = entering \ {j}
  /\ queue' = Append(queue, j)
  /\ UNCHANGED <<jobs, job_json, files, request, worker, at, run, server,
                 faults, kills>>

-----------------------------------------------------------------------------
(* _run, in a worker thread.                                               *)

(* Leaves the job in the queue. *)
WrongTake(w) ==
  /\ worker[w] = NoJob
  /\ queue # <<>>
  /\ worker' = [worker EXCEPT ![w] = Head(queue)]
  /\ at' = [at EXCEPT ![Head(queue)] = "start"]
  /\ UNCHANGED <<jobs, job_json, files, request, entering, queue, run, server,
                 faults, kills>>

Take(w) ==
  /\ worker[w] = NoJob
  /\ queue # <<>>
  /\ worker' = [worker EXCEPT ![w] = Head(queue)]
  /\ at' = [at EXCEPT ![Head(queue)] = "start"]
  /\ queue' = Tail(queue)
  /\ UNCHANGED <<jobs, job_json, files, request, entering, run, server,
                 faults, kills>>

Release(w) == worker' = [worker EXCEPT ![w] = NoJob]

(* The memory of a runner is gone when it ends; why it failed is kept.     *)
Forgotten(j) == run' = [run EXCEPT ![j] = [NewRun EXCEPT !.cause = run[j].cause]]

(* The update is outside the try block: an exception ends the execution.   *)
Start(w) ==
  LET j == worker[w] IN
  /\ j # NoJob /\ at[j] = "start"
  /\ \E persisted \in Persisted :
       /\ Update(j, [jobs[j] EXCEPT !.status = "running", !.progress = 1], persisted)
       /\ at' = [at EXCEPT ![j] = IF persisted THEN "begin" ELSE "idle"]
       /\ IF persisted THEN UNCHANGED worker ELSE Release(w)
  /\ UNCHANGED <<files, request, entering, queue, run, server, kills>>

(* Completes with the files still to be written. *)
WrongComplete(w) ==
  LET j == worker[w] IN
  /\ j # NoJob /\ at[j] = "write"
  /\ \E persisted \in Persisted :
       /\ Update(j, [status |-> "completed", progress |-> 100,
                     downloads |-> ArtifactSet(request[j])], persisted)
       /\ at' = [at EXCEPT ![j] = IF persisted THEN "idle" ELSE "failing"]
       /\ IF persisted THEN Release(w) ELSE UNCHANGED worker
  /\ Forgotten(j)
  /\ UNCHANGED <<files, request, entering, queue, server, kills>>

(* The runner returned its downloads.                                      *)
Complete(w) ==
  LET j == worker[w] IN
  /\ j # NoJob /\ at[j] = "write"
  /\ files[j] = ArtifactSet(request[j])
  /\ \E persisted \in Persisted :
       /\ Update(j, [status |-> "completed", progress |-> 100,
                     downloads |-> ArtifactSet(request[j])], persisted)
       /\ at' = [at EXCEPT ![j] = IF persisted THEN "idle" ELSE "failing"]
       /\ IF persisted THEN Release(w) ELSE UNCHANGED worker
  /\ Forgotten(j)
  /\ UNCHANGED <<files, request, entering, queue, server, kills>>

(* Leaves the status to whoever looks at the error. *)
WrongFail(w) ==
  LET j == worker[w] IN
  /\ j # NoJob /\ at[j] = "failing"
  /\ \E persisted \in Persisted : Update(j, [jobs[j] EXCEPT !.progress = 100], persisted)
  /\ at' = [at EXCEPT ![j] = "idle"]
  /\ Release(w)
  /\ Forgotten(j)
  /\ UNCHANGED <<files, request, entering, queue, server, kills>>

(* The runner, or the update to "completed", raised.                       *)
Fail(w) ==
  LET j == worker[w] IN
  /\ j # NoJob /\ at[j] = "failing"
  /\ \E persisted \in Persisted :
       Update(j, [jobs[j] EXCEPT !.status = "failed", !.progress = 100], persisted)
  /\ at' = [at EXCEPT ![j] = "idle"]
  /\ Release(w)
  /\ Forgotten(j)
  /\ UNCHANGED <<files, request, entering, queue, server, kills>>

RunnerSteps == {"begin", "resolve", "query", "assess", "synthesize", "fill",
                "ask", "merge", "report", "write"}

(* Reading the registry, the framework or the configuration, resolving or  *)
(* rendering fails, or a report file cannot be written.                    *)
Raise(w) ==
  LET j == worker[w] IN
  /\ j # NoJob /\ at[j] \in RunnerSteps
  /\ at' = [at EXCEPT ![j] = "failing"]
  /\ run' = [run EXCEPT ![j].cause = "error"]
  /\ UNCHANGED <<jobs, job_json, files, pool, faults>>

-----------------------------------------------------------------------------
(* run_human_web_job                                                       *)

HumanStep(w) ==
  LET j == worker[w] IN
  /\ j # NoJob /\ request[j].kind = "human"
  /\ \/ at[j] = "begin"   /\ Report(j, 8, "resolve")
     \/ at[j] = "resolve" /\ Report(j, 20, "query")
     \/ at[j] = "query"   /\ Report(j, 88, "write")
  /\ UNCHANGED <<files, pool, run>>

-----------------------------------------------------------------------------
(* run_batch_web_job and run_batch_assessment                              *)

BeginBatch(w) ==
  LET j == worker[w] IN
  /\ j # NoJob /\ at[j] = "begin" /\ request[j].kind = "batch"
  /\ Report(j, 5, "assess")
  /\ UNCHANGED <<files, pool, run>>

(* One format: unresolved, or resolved with or without a PUID.  With       *)
(* synthesis the AI is asked before the format counts as assessed.         *)
AssessFormat(w) ==
  LET j == worker[w]
      i == run[j].index
      total == request[j].total
  IN
  /\ j # NoJob /\ at[j] = "assess" /\ i <= total
  /\ \/ /\ request[j].ai_mode = "synthesize"
        /\ Report(j, Reported(SynthesisProgress(i, total)), "synthesize")
        /\ UNCHANGED run
     \/ /\ Report(j, Reported(AssessmentProgress(i, total)), "assess")
        /\ run' = [run EXCEPT ![j].index = i + 1]
     \/ /\ request[j].ai_mode = "fill-gaps"
        /\ Report(j, Reported(AssessmentProgress(i, total)), "assess")
        /\ \E c \in Case :
             run' = [run EXCEPT ![j].index = i + 1, ![j].cases = Append(@, c)]
  /\ UNCHANGED <<files, pool>>

(* The circuit of _RateLimitCircuitProvider: what a call may leave behind. *)
GuardedCall(r) ==
  IF r.rate_limited THEN {r}
  ELSE {[r EXCEPT !.rate_limited = limited] : limited \in BOOLEAN}

(* _apply_ai_risk_assessment keeps the governed result whatever happens.   *)
SynthesizeFormat(w) ==
  LET j == worker[w]
      i == run[j].index
  IN
  /\ j # NoJob /\ at[j] = "synthesize"
  /\ Report(j, Reported(AssessmentProgress(i, request[j].total)), "assess")
  /\ \E r \in GuardedCall(run[j]) : run' = [run EXCEPT ![j] = [r EXCEPT !.index = i + 1]]
  /\ UNCHANGED <<files, pool>>

EndAssessments(w) ==
  LET j == worker[w] IN
  /\ j # NoJob /\ at[j] = "assess" /\ run[j].index > request[j].total
  /\ IF run[j].cases # <<>> THEN Report(j, 80, "fill") ELSE Report(j, 94, "report")
  /\ UNCHANGED <<files, pool, run>>

(* The cases of the call at hand: BatchSize active ones from start on.     *)
Chunk(j) ==
  {k \in ActiveCases(j) : Cardinality({n \in ActiveCases(j) : n < k})
                            \in run[j].start .. run[j].start + BatchSize - 1}

Pairs(case) == {case.puid} \X case.questions

(* What the call asks.                                                     *)
Asked(j) == UNION {Pairs(run[j].cases[i]) : i \in Chunk(j)}

(* Of these, _validate_answers accepts only questions of the last case of  *)
(* a PUID.                                                                 *)
Answerable(j) ==
  UNION {Pairs(run[j].cases[i]) : i \in
           {k \in Chunk(j) : \A n \in Chunk(j) :
              run[j].cases[n].puid = run[j].cases[k].puid => n <= k}}

BeginChunk(w) ==
  LET j == worker[w] IN
  /\ j # NoJob /\ at[j] = "fill"
  /\ IF run[j].start < Cardinality(ActiveCases(j)) THEN Report(j, 86, "ask")
     ELSE /\ at' = [at EXCEPT ![j] = "merge"]
          /\ UNCHANGED <<jobs, job_json, faults>>
  /\ UNCHANGED <<files, pool, run>>

(* Goes on behind the first case of the next chunk. *)
WrongAskProvider(w) ==
  LET j == worker[w] IN
  /\ j # NoJob /\ at[j] = "ask"
  /\ \E r \in GuardedCall(run[j]) :
       /\ ~r.rate_limited
       /\ \E accepted \in SUBSET Answerable(j) :
            run' = [run EXCEPT ![j] = [r EXCEPT !.start = @ + BatchSize + 1,
                                                !.asked = @ \cup Asked(j),
                                                !.answers = @ \cup accepted]]
       /\ at' = [at EXCEPT ![j] = "fill"]
  /\ UNCHANGED <<jobs, job_json, files, pool, faults>>

(* The provider fails, answers with something that is no list of answers,  *)
(* or answers some of the questions acceptably.  The second raises outside *)
(* the try block of apply_batched_fill_gaps.                               *)
AskProvider(w) ==
  LET j == worker[w] IN
  /\ j # NoJob /\ at[j] = "ask"
  /\ \E r \in GuardedCall(run[j]) :
       \/ /\ run' = [run EXCEPT ![j] = [r EXCEPT !.failed_error = TRUE]]
          /\ at' = [at EXCEPT ![j] = "merge"]
       \/ /\ ~r.rate_limited
          /\ run' = [run EXCEPT ![j] = [r EXCEPT !.cause = "ai"]]
          /\ at' = [at EXCEPT ![j] = "failing"]
       \/ /\ ~r.rate_limited
          /\ \E accepted \in SUBSET Answerable(j) :
               run' = [run EXCEPT ![j] = [r EXCEPT !.start = @ + BatchSize,
                                                   !.asked = @ \cup Asked(j),
                                                   !.answers = @ \cup accepted]]
          /\ at' = [at EXCEPT ![j] = "fill"]
  /\ UNCHANGED <<jobs, job_json, files, pool, faults>>

MergedCase(r, case) ==
  LET answered == {pair \in r.answers : pair[1] = case.puid}
  IN [unanswered |-> {q \in case.questions : <<case.puid, q>> \notin answered},
      status |-> IF r.failed_error /\ answered = {}
                 THEN "error_deterministic_retained" ELSE "ok",
      error |-> r.failed_error]

(* Every case gets its answers; after an error all are told so, and those  *)
(* of a PUID without any answer are marked as kept deterministic.          *)
MergeCases(w) ==
  LET j == worker[w] IN
  /\ j # NoJob /\ at[j] = "merge"
  /\ run' = [run EXCEPT ![j].merged =
       [i \in 1 .. Len(run[j].cases) |-> MergedCase(run[j], run[j].cases[i])]]
  /\ Report(j, 94, "report")
  /\ UNCHANGED <<files, pool>>

BuildReport(w) ==
  LET j == worker[w] IN
  /\ j # NoJob /\ at[j] = "report"
  /\ Report(j, 96, "write")
  /\ UNCHANGED <<files, pool, run>>

(* write_report_artifacts, _write_human_artifacts: one file after another. *)
WriteArtifact(w) ==
  LET j == worker[w] IN
  /\ j # NoJob /\ at[j] = "write"
  /\ \E i \in 1 .. Len(Artifacts(request[j])) :
       /\ Artifacts(request[j])[i] \notin files[j]
       /\ \A k \in 1 .. i - 1 : Artifacts(request[j])[k] \in files[j]
       /\ files' = [files EXCEPT ![j] = @ \cup {Artifacts(request[j])[i]}]
  /\ UNCHANGED <<jobs, job_json, pool, at, run, faults>>

-----------------------------------------------------------------------------
(* The executor throws its queue away. *)
WrongShutdown ==
  /\ server = "up" /\ entering = {}
  /\ server' = "stopping"
  /\ queue' = <<>>
  /\ UNCHANGED <<jobs, job_json, files, request, entering, worker, at, run,
                 faults, kills>>

(* The server has finished its requests when its lifespan ends; shutdown   *)
(* neither waits for the executor nor cancels what is queued.              *)
Shutdown ==
  /\ server = "up" /\ entering = {}
  /\ server' = "stopping"
  /\ UNCHANGED <<jobs, job_json, files, request, entering, queue, worker, at,
                 run, faults, kills>>

(* The process is killed and started again: what is in memory is lost.     *)
Kill ==
  /\ kills < MaxKill
  /\ kills' = kills + 1
  /\ jobs' = [j \in Job |-> IF jobs[j].status = "unused" THEN Unused
                            ELSE [Unused EXCEPT !.status = "lost"]]
  /\ entering' = {}
  /\ queue' = <<>>
  /\ worker' = [w \in Worker |-> NoJob]
  /\ at' = [j \in Job |-> "idle"]
  /\ run' = [j \in Job |-> NewRun]
  /\ server' = "up"
  /\ UNCHANGED <<job_json, files, request, faults>>

BatchStep(w) ==
  \/ BeginBatch(w)
  \/ AssessFormat(w)
  \/ SynthesizeFormat(w)
  \/ EndAssessments(w)
  \/ BeginChunk(w)
  \/ AskProvider(w)
  \/ MergeCases(w)
  \/ BuildReport(w)

WorkerStep(w) ==
  \/ Take(w)
  \/ Start(w)
  \/ HumanStep(w)
  \/ BatchStep(w)
  \/ WriteArtifact(w)
  \/ Complete(w)
  \/ Raise(w)
  \/ Fail(w)

Next ==
  \/ \E j \in Job : SaveRecord(j) \/ Enqueue(j)
  \/ \E w \in Worker : WorkerStep(w)
  \/ Shutdown
  \/ Kill

Spec == Init /\ [][Next]_vars

(* Request handlers and worker threads are scheduled; every call a worker  *)
(* makes returns or times out.  Nothing makes anyone submit a job.         *)
Fairness ==
  /\ \A j \in Job : WF_vars(Enqueue(j))
  /\ \A w \in Worker : WF_vars(WorkerStep(w))

FairSpec == Spec /\ Fairness

-----------------------------------------------------------------------------
(* Properties.                                                             *)

Record == [status : {"unused", "queued", "running", "completed", "failed", "lost"},
           progress : 0 .. 100, downloads : SUBSET Artifact]

Run == [index : Nat, cases : Seq(Case), start : Nat,
        rate_limited : BOOLEAN, failed_error : BOOLEAN,
        asked : SUBSET (Puid \X Question), answers : SUBSET (Puid \X Question),
        merged : Seq(Merged),
        cause : {"none", "error", "ai"}]

TypeOK ==
  /\ jobs \in [Job -> Record]
  /\ job_json \in [Job -> Record]
  /\ files \in [Job -> SUBSET Artifact]
  /\ request \in [Job -> Request]
  /\ entering \subseteq Job
  /\ queue \in Seq(Job)
  /\ worker \in [Worker -> Job \cup {NoJob}]
  /\ at \in [Job -> RunnerSteps \cup {"idle", "start", "failing"}]
  /\ run \in [Job -> Run]
  /\ server \in {"up", "stopping"}
  /\ faults \in 0 .. MaxFault
  /\ kills \in 0 .. MaxKill

(* Whatever offers a report can serve it: every download of a job, and     *)
(* every file of a job whose job.json says completed, is on disk, also     *)
(* after failed writes and kills.                                          *)
ReportsAreThere ==
  \A j \in Job :
    /\ jobs[j].downloads \subseteq files[j]
    /\ job_json[j].status = "completed" => files[j] = ArtifactSet(request[j])

(* Unless a write of job.json failed, a job is shown as queued or running  *)
(* only while it is on its way to a worker or on one.                      *)
LiveJobsAreHeld ==
  faults = 0 =>
    \A j \in Job :
      /\ jobs[j].status = "running" => \E w \in Worker : worker[w] = j
      /\ jobs[j].status = "queued" =>
           \/ j \in entering
           \/ \E i \in 1 .. Len(queue) : queue[i] = j
           \/ \E w \in Worker : worker[w] = j /\ at[j] = "start"

(* A settled job stays as it is.  A completed one may turn failed, when    *)
(* its completion could not be written, and a kill loses it.               *)
SettledStays ==
  [][\A j \in Job : jobs[j].status \in Settled =>
       \/ jobs'[j] = jobs[j]
       \/ jobs'[j].status = "lost" /\ kills' > kills
       \/ /\ jobs[j].status = "completed" /\ jobs'[j].status = "failed"
          /\ job_json[j].status # "completed"]_vars

(* Whatever the provider did, the report of a batch tells what was never   *)
(* put to it with success.  A question of a format that was in no call the *)
(* provider answered is counted as unanswered, and the error is attached   *)
(* to the format; and a format none of whose questions was in such a call  *)
(* is marked as kept deterministic.  A format so marked has no answer of   *)
(* the provider.  (A call answered with an empty or rejected list is       *)
(* answered: its formats keep the status ok, and their counts tell.)       *)
UnaskedIsReported ==
  \A j \in Job : at[j] \in {"report", "write"} =>
    \A i \in 1 .. Len(run[j].cases) :
      LET case == run[j].cases[i]
          merged == run[j].merged[i]
          unasked == {q \in case.questions : <<case.puid, q>> \notin run[j].asked}
      IN /\ unasked \subseteq merged.unanswered
         /\ unasked # {} => merged.error
         /\ case.questions # {} /\ (\A q \in Question : <<case.puid, q>> \notin run[j].asked)
              => merged.status = "error_deterministic_retained"
         /\ merged.status = "error_deterministic_retained"
              => merged.unanswered = case.questions

(* A job that was handed to the pool settles, unless a write fails or the  *)
(* process is killed, also when the application is shut down meanwhile.    *)
JobSettles ==
  \A j \in Job :
    j \in entering ~> jobs[j].status \in Settled \cup {"lost"} \/ faults > 0

(* The documentation: if AI fails, governed results remain available.      *)
GovernedResultSurvives ==
  \A j \in Job : jobs[j].status = "failed" => run[j].cause # "ai"

=============================================================================
