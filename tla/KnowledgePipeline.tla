------------------------- MODULE KnowledgePipeline -------------------------
(***************************************************************************)
(* From an uploaded version to a published one: the administrator's        *)
(* requests, the services that create a job in PostgreSQL and then put it  *)
(* on the Redis queue, and the two worker programs, each a sequence of     *)
(* separate transactions (KnowledgeStore) with calls to the quality and    *)
(* embedding providers in between.  Any of these programs can stop between *)
(* two of its transactions.                                                *)
(***************************************************************************)
EXTENDS KnowledgeStore

CONSTANTS
  Requests,   \* administrator requests to process or index, in progress at once
  Workers,    \* jobs the worker runs at once (WorkerSettings.max_jobs)
  MaxLosses   \* bound on hard kills, expired messages and failures of fail_job

ASSUME MaxLossesAssumption == MaxLosses \in Nat
ASSUME NoneJobAssumption == None \notin Jobs

VARIABLES
  queue,      \* ids of the jobs with a message waiting in the ARQ queue
  request,    \* request handlers after their create_job has committed
  run,        \* the worker's running tasks
  losses      \* how many of the faults bounded by MaxLosses have happened

vars == <<storeVars, queue, request, run, losses>>
processVars == <<queue, request, run, losses>>

RequestSteps == {"idle", "enqueue", "enqueue_failed"}
\* Where a task is: the name of the stage it set last, or what it saved since.
IngestionSteps == {"reading", "cleaning", "chunking", "saving"}
IndexingSteps == {"rule_check", "llm_quality_check", "judged", "embedding",
                  "saving_embeddings", "embedded"}
RunSteps == {"idle", "failing"} \cup IngestionSteps \cup IndexingSteps

IdleRequest == [pc |-> "idle", job |-> None]
IdleRun == [pc |-> "idle", job |-> None, enabled |-> {}, checked |-> {}]

TypeOK ==
  /\ StoreTypeOK
  /\ queue \subseteq Jobs
  /\ request \in [Requests -> [pc : RequestSteps, job : Jobs \cup {None}]]
  /\ run \in [Workers -> [pc : RunSteps, job : Jobs \cup {None},
                          enabled : SUBSET Chunks, checked : SUBSET Chunks]]
  /\ losses \in 0..MaxLosses

Init ==
  /\ StoreInit
  /\ queue = {}
  /\ request = [r \in Requests |-> IdleRequest]
  /\ run = [w \in Workers |-> IdleRun]
  /\ losses = 0

-----------------------------------------------------------------------------
(* The administrator's own transactions.                                   *)

AdminStep ==
  /\ AdminTransaction
  /\ UNCHANGED processVars

-----------------------------------------------------------------------------
(* IngestionService.create_job and IndexingService.create_job.             *)

\* The repository creates the job; the handler goes on to enqueue it.
RequestNewJob(r, j, v) ==
  /\ request[r].pc = "idle"
  /\ CreateIngestionJob(j, v) \/ CreateIndexingJob(j, v)
  /\ request' = [request EXCEPT ![r] = [pc |-> "enqueue", job |-> j]]
  /\ UNCHANGED <<queue, run, losses>>

\* Mutant of RequestPendingJob: reports the pending job and leaves it at that.
RequestPendingJobReported(r, j, v) ==
  /\ request[r].pc = "idle"
  /\ \E t \in JobTypes : FindsActiveJob(j, v, t)
  /\ job[j].status = "pending"
  /\ UNCHANGED vars

\* The version's job is still pending: its message may be missing, enqueue
\* it again.  (A processing job is only reported: no step.)
RequestPendingJob(r, j, v) ==
  /\ request[r].pc = "idle"
  /\ \E t \in JobTypes : FindsActiveJob(j, v, t)
  /\ job[j].status = "pending"
  /\ request' = [request EXCEPT ![r] = [pc |-> "enqueue", job |-> j]]
  /\ UNCHANGED <<storeVars, queue, run, losses>>

\* ARQ drops an enqueue with the _job_id of a message it holds, waiting or
\* being run.
InQueue(j) == queue \cup ({j} \ {run[w].job : w \in Workers})

Enqueue(r) ==
  /\ request[r].pc = "enqueue"
  /\ queue' = InQueue(request[r].job)
  /\ request' = [request EXCEPT ![r] = IdleRequest]
  /\ UNCHANGED <<storeVars, run, losses>>

\* QueueUnavailableError or TimeoutError: the message may be there all the same.
EnqueueFails(r) ==
  /\ request[r].pc = "enqueue"
  /\ queue' \in {queue, InQueue(request[r].job)}
  /\ request' = [request EXCEPT ![r].pc = "enqueue_failed"]
  /\ UNCHANGED <<storeVars, run, losses>>

\* Mutant of MarkEnqueueFailed: fails the job and leaves its version behind.
MarkEnqueueFailedJobOnly(r) ==
  /\ request[r].pc = "enqueue_failed"
  /\ job' = [job EXCEPT ![request[r].job].status = "failed"]
  /\ request' = [request EXCEPT ![r] = IdleRequest]
  /\ UNCHANGED <<documentVars, vstatus, chunkVars, queue, run, losses>>

MarkEnqueueFailed(r) ==
  /\ request[r].pc = "enqueue_failed"
  /\ FailJob(request[r].job)
  /\ request' = [request EXCEPT ![r] = IdleRequest]
  /\ UNCHANGED <<queue, run, losses>>

\* The API process stops, the create_job timeout strikes after the commit, or
\* mark_enqueue_failed fails and the failure is swallowed.
AbandonRequest(r) ==
  /\ request[r].pc # "idle"
  /\ request' = [request EXCEPT ![r] = IdleRequest]
  /\ UNCHANGED <<storeVars, queue, run, losses>>

-----------------------------------------------------------------------------
(* The worker: process_document_version_job, index_knowledge_version_job.  *)

Goto(w, step) == run' = [run EXCEPT ![w].pc = step]
Finish(w) == run' = [run EXCEPT ![w] = IdleRun]

\* The task takes a message.  begin_job hands it the chunks as they are now;
\* a job that has ended, or was deleted, is not begun.
Take(w, j) ==
  /\ run[w].pc = "idle"
  /\ j \in queue
  /\ queue' = queue \ {j}
  /\ IF Active(j)
     THEN LET v == job[j].version IN
          /\ BeginJob(j)
          /\ run' = [run EXCEPT ![w] =
                       [pc |-> FirstStage(job[j].type), job |-> j, enabled |-> Enabled(v),
                        checked |-> {c \in Chunks : auto[v][c] # "unchecked"}]]
     ELSE UNCHANGED <<storeVars, run>>
  /\ UNCHANGED <<request, losses>>

NextStage(w, t, from, to, stage) ==
  /\ run[w].pc = from
  /\ SetStage(run[w].job, t, stage)
  /\ Goto(w, to)
  /\ UNCHANGED <<queue, request, losses>>

SetIngestionStage(w) ==
  \/ NextStage(w, "document_processing", "reading", "cleaning", "cleaning")
  \/ NextStage(w, "document_processing", "cleaning", "chunking", "chunking")
  \/ NextStage(w, "document_processing", "chunking", "saving", "saving")

\* IngestionWorker ends the same way whether complete_job wrote or refused.
SaveChunks(w) ==
  /\ run[w].pc = "saving"
  /\ \/ CompleteIngestion(run[w].job)
     \/ ~Processing(run[w].job, "document_processing") /\ UNCHANGED storeVars
  /\ Finish(w)
  /\ UNCHANGED <<queue, request, losses>>

SetIndexingStage(w) ==
  \/ NextStage(w, "knowledge_indexing", "rule_check", "llm_quality_check", "llm_quality_check")
  \/ /\ run[w].enabled # {}
     /\ NextStage(w, "knowledge_indexing", "judged", "embedding", "embedding")
  \/ /\ run[w].pc = "judged"          \* _NoEnabledChunksError
     /\ run[w].enabled = {}
     /\ Goto(w, "failing")
     /\ UNCHANGED <<storeVars, queue, request, losses>>
  \/ NextStage(w, "knowledge_indexing", "embedding", "saving_embeddings", "saving")

HardBlocked(c) == RuleOf[c] \in {"hard_block", "exact_duplicate"}
IsIndexable(c, indexable) == RuleOf[c] # "contact" /\ ~HardBlocked(c) /\ c \in indexable

\* What the worker makes of the provider's decisions: a blocked chunk is
\* switched off, an unchecked one follows the decision, and one checked in an
\* earlier pass keeps the switch it has.
QualityUpdate(w, indexable) ==
  [c \in Chunks |-> IF HardBlocked(c) THEN RuleOf[c]
                    ELSE IF c \in run[w].checked THEN "keep"
                    ELSE IF IsIndexable(c, indexable) THEN "on" ELSE "quality"]

EffectiveEnabled(w, indexable) ==
  {c \in Chunks : CASE QualityUpdate(w, indexable)[c] = "keep" -> c \in run[w].enabled
                    [] OTHER -> QualityUpdate(w, indexable)[c] = "on"}

SaveQuality(w) ==
  /\ run[w].pc = "llm_quality_check"
  /\ \E indexable \in SUBSET Chunks :
        \/ /\ SaveQualityResults(run[w].job,
                 [c \in Chunks |-> IF IsIndexable(c, indexable) THEN "yes" ELSE "no"],
                 QualityUpdate(w, indexable))
           /\ run' = [run EXCEPT ![w].pc = "judged",
                                 ![w].enabled = EffectiveEnabled(w, indexable)]
        \/ /\ ~Processing(run[w].job, "knowledge_indexing")
           /\ Goto(w, "failing")
           /\ UNCHANGED storeVars
  /\ UNCHANGED <<queue, request, losses>>

SaveVectors(w) ==
  /\ run[w].pc = "saving_embeddings"
  /\ \/ SaveEmbeddings(run[w].job, run[w].enabled) /\ Goto(w, "embedded")
     \/ /\ \/ ~Processing(run[w].job, "knowledge_indexing")
           \/ ~(run[w].enabled \subseteq Enabled(job[run[w].job].version))
        /\ Goto(w, "failing")
        /\ UNCHANGED storeVars
  /\ UNCHANGED <<queue, request, losses>>

CompleteIndex(w) ==
  /\ run[w].pc = "embedded"
  /\ \/ CompleteIndexing(run[w].job) /\ Finish(w)
     \/ /\ \/ ~Processing(run[w].job, "knowledge_indexing")
           \/ ~FullyEmbedded(job[run[w].job].version)
        /\ Goto(w, "failing")
        /\ UNCHANGED storeVars
  /\ UNCHANGED <<queue, request, losses>>

\* A provider, the database or the data makes the task raise, or ARQ cancels
\* it (timeout, shutdown): the except clauses run fail_job next.
TaskFails(w) ==
  /\ run[w].pc \notin {"idle", "failing"}
  /\ Goto(w, "failing")
  /\ UNCHANGED <<storeVars, queue, request, losses>>

\* Mutant of RecordFailure: the task ends without fail_job.
RecordFailureSilently(w) ==
  /\ run[w].pc = "failing"
  /\ Finish(w)
  /\ UNCHANGED <<storeVars, queue, request, losses>>

RecordFailure(w) ==
  /\ run[w].pc = "failing"
  /\ FailJob(run[w].job)
  /\ Finish(w)
  /\ UNCHANGED <<queue, request, losses>>

\* Killed, cancelled inside begin_job, or fail_job itself fails: nothing is
\* recorded, and ARQ (max_tries=1) does not run the message again.
LoseTask(w) ==
  /\ run[w].pc # "idle"
  /\ losses < MaxLosses
  /\ losses' = losses + 1
  /\ Finish(w)
  /\ UNCHANGED <<storeVars, queue, request>>

\* _expires, or a Redis restart.
LoseMessage(j) ==
  /\ j \in queue
  /\ losses < MaxLosses
  /\ losses' = losses + 1
  /\ queue' = queue \ {j}
  /\ UNCHANGED <<storeVars, request, run>>

RequestStep(r) == Enqueue(r) \/ EnqueueFails(r) \/ MarkEnqueueFailed(r)
RunStep(w) ==
  \/ \E j \in Jobs : Take(w, j)
  \/ SetIngestionStage(w)
  \/ SaveChunks(w)
  \/ SetIndexingStage(w)
  \/ SaveQuality(w)
  \/ SaveVectors(w)
  \/ CompleteIndex(w)
  \/ RecordFailure(w)

Next ==
  \/ AdminStep
  \/ \E r \in Requests :
        \/ \E j \in Jobs, v \in Versions : RequestNewJob(r, j, v) \/ RequestPendingJob(r, j, v)
        \/ RequestStep(r)
        \/ AbandonRequest(r)
  \/ \E w \in Workers : RunStep(w) \/ TaskFails(w) \/ LoseTask(w)
  \/ \E j \in Jobs : LoseMessage(j)

Spec == Init /\ [][Next]_vars

\* The programs' own steps are taken: a handler goes on with its request, and a
\* task always ends, for ARQ cancels it after job_timeout and every provider
\* call has a timeout.  Nobody has to ask for anything, and no call has to
\* succeed: TaskFails, AbandonRequest and the losses may happen instead.
FairSpec ==
  /\ Spec
  /\ \A r \in Requests : WF_vars(RequestStep(r))
  /\ \A w \in Workers : WF_vars(RunStep(w))

\* The administrator keeps asking for a version whose job is pending, and a
\* request that keeps reaching the enqueue is not abandoned or refused for ever.
RetryingSpec ==
  /\ FairSpec
  /\ WF_vars(\E r \in Requests, j \in Jobs, v \in Versions : RequestPendingJob(r, j, v))
  /\ \A r \in Requests : SF_vars(Enqueue(r))

-----------------------------------------------------------------------------
(* Safety.                                                                 *)

\* The chunks a task read in begin_job are still the version's chunks when it
\* acts on them, however long the providers took: while its job is processing,
\* what it holds enabled is what the table holds enabled.  (The task does not
\* lock the rows in between.)
IndexingSteady ==
  \A w \in Workers :
    /\ run[w].pc \in IndexingSteps
    /\ Processing(run[w].job, "knowledge_indexing")
    => run[w].enabled = Enabled(job[run[w].job].version)

\* Once a quality pass has seen a hard-blocked chunk, neither a later pass nor an
\* administrator's edit ever switches it on again, so no version that can be
\* published contains it.
HardBlockedStaysOff ==
  \A v \in Versions, c \in Chunks :
    RuleOf[c] = "hard_block" /\ auto[v][c] # "unchecked" => switch[v][c] = "hard_block"

\* A job is left processing with no task working on it only when a task was
\* lost: cancellations, provider failures and repeated requests always end in a
\* recorded failure or a completed job.
OrphansOnlyByLoss ==
  \A j \in Jobs :
    job[j].status = "processing" => losses > 0 \/ \E w \in Workers : run[w].job = j

-----------------------------------------------------------------------------
(* Action properties.                                                      *)

\* What an administrator has disabled is not switched on by the worker (the
\* lifecycle patch plan forbids restoring "administrator" switches automatically):
\* only an administrator's own step, which moves no task, may do so.
AdministratorChoiceStays ==
  [][\A v \in Versions, c \in Chunks :
        switch[v][c] = "administrator" /\ switch'[v][c] = "on" => UNCHANGED run]_vars

-----------------------------------------------------------------------------
(* Liveness.                                                               *)

\* A job whose message is in the queue ends (completed or failed, or deleted
\* with its version) unless a task or message is lost.
QueuedJobsEnd == \A j \in Jobs : j \in queue ~> ~Active(j) \/ losses > 0

\* "A repeated process request re-enqueues an existing pending Job": under an
\* administrator who keeps asking no job stays pending for ever, whatever
\* message was lost or handler crashed between the commit and the enqueue.
PendingJobsRecover == \A j \in Jobs : job[j].status = "pending" ~> job[j].status # "pending"
=============================================================================
