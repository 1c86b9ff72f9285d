---------------------- MODULE KnowledgePipelineProofs ----------------------
(***************************************************************************)
(* The services and the worker only ever run the repositories' own         *)
(* transactions, so whatever KnowledgeStore promises holds of them; and    *)
(* what that gives for the tasks that hold data between two transactions.  *)
(***************************************************************************)
EXTENDS KnowledgePipeline, KnowledgeStoreProofs

Requesting == [pc : RequestSteps, job : Jobs \cup {None}]
Running == [pc : RunSteps, job : Jobs \cup {None}, enabled : SUBSET Chunks, checked : SUBSET Chunks]

\* The processes' variables have their types, and a process that is not idle
\* works for a job.
ProcessOK ==
  /\ queue \subseteq Jobs
  /\ request \in [Requests -> Requesting]
  /\ run \in [Workers -> Running]
  /\ losses \in 0..MaxLosses
  /\ \A r \in Requests : request[r].pc # "idle" => request[r].job \in Jobs
  /\ \A w \in Workers : run[w].pc # "idle" <=> run[w].job # None

LEMMA IdleTypes == IdleRequest \in Requesting /\ IdleRun \in Running
BY DEF IdleRequest, IdleRun, Requesting, Running, RequestSteps, RunSteps

\* A handler's step: its record is replaced, possibly with a message enqueued.
LEMMA ProcessRequest ==
  ASSUME ProcessOK, NEW r \in Requests, NEW x \in Requesting, x.pc # "idle" => x.job \in Jobs,
         request' = [request EXCEPT ![r] = x], queue' \subseteq Jobs, UNCHANGED <<run, losses>>
  PROVE  ProcessOK'
<1>1. request' \in [Requests -> Requesting]
  BY DEF ProcessOK
<1>2. \A q \in Requests : request'[q].pc # "idle" => request'[q].job \in Jobs
  BY DEF ProcessOK
<1> QED BY <1>1, <1>2 DEF ProcessOK

\* A task's step: its record is replaced, and no message is enqueued.
LEMMA ProcessRun ==
  ASSUME ProcessOK, NEW w \in Workers, run' \in [Workers -> Running],
         run'[w].pc # "idle" <=> run'[w].job # None,
         \A u \in Workers : u # w => run'[u] = run[u],
         queue' \subseteq queue, UNCHANGED request, losses' \in 0..MaxLosses
  PROVE  ProcessOK'
<1>1. \A u \in Workers : run'[u].pc # "idle" <=> run'[u].job # None
  BY DEF ProcessOK
<1> QED BY <1>1 DEF ProcessOK

LEMMA GotoTypes ==
  ASSUME ProcessOK, NEW w \in Workers, NEW step \in RunSteps, Goto(w, step)
  PROVE  /\ run' \in [Workers -> Running]
         /\ run'[w].pc = step /\ run'[w].job = run[w].job
         /\ run'[w].enabled = run[w].enabled
         /\ \A u \in Workers : u # w => run'[u] = run[u]
<1>1. run \in [Workers -> Running]
  BY DEF ProcessOK
<1> QED BY <1>1 DEF Goto, Running

LEMMA ProcessGoto ==
  ASSUME ProcessOK, NEW w \in Workers, run[w].pc # "idle", NEW step \in RunSteps, step # "idle",
         Goto(w, step), UNCHANGED <<queue, request, losses>>
  PROVE  ProcessOK'
<1>1. losses' \in 0..MaxLosses /\ run[w].job # None
  BY DEF ProcessOK
<1> QED BY <1>1, GotoTypes, ProcessRun

LEMMA FinishTypes ==
  ASSUME ProcessOK, NEW w \in Workers, Finish(w)
  PROVE  /\ run' \in [Workers -> Running]
         /\ run'[w] = IdleRun
         /\ \A u \in Workers : u # w => run'[u] = run[u]
BY IdleTypes DEF Finish, ProcessOK

LEMMA ProcessFinish ==
  ASSUME ProcessOK, NEW w \in Workers, Finish(w), UNCHANGED <<queue, request>>,
         losses' \in 0..MaxLosses
  PROVE  ProcessOK'
BY FinishTypes, ProcessRun DEF IdleRun

\* Where a task is: its steps and their stages.
LEMMA StepSets ==
  /\ \A s \in IngestionSteps \cup IndexingSteps : s \in RunSteps /\ s # "idle" /\ s # "failing"
  /\ "failing" \in RunSteps
  /\ IngestionSteps \cap IndexingSteps = {}
  /\ \A t : FirstStage(t) \in IngestionSteps \cup IndexingSteps
BY DEF IngestionSteps, IndexingSteps, RunSteps, FirstStage

\* The steps of a task after Take, by what they do to it: it goes on or it ends.
LEMMA TaskStep ==
  ASSUME NEW w \in Workers,
         \/ SetIngestionStage(w) \/ SaveChunks(w) \/ SetIndexingStage(w) \/ SaveQuality(w)
         \/ SaveVectors(w) \/ CompleteIndex(w) \/ RecordFailure(w) \/ TaskFails(w)
  PROVE  /\ run[w].pc # "idle"
         /\ UNCHANGED <<queue, request, losses>>
         /\ \/ Finish(w)
            \/ Goto(w, "failing")
            \/ /\ run[w].pc \in IngestionSteps
               /\ \E step \in IngestionSteps : Goto(w, step)
            \/ /\ run[w].pc \in IndexingSteps
               /\ \E step \in IndexingSteps : Goto(w, step)
            \/ SaveQuality(w)
<1>1. CASE SetIngestionStage(w)
  BY <1>1 DEF SetIngestionStage, NextStage, IngestionSteps
<1>2. CASE SetIndexingStage(w)
  BY <1>2 DEF SetIndexingStage, NextStage, IndexingSteps
<1>3. CASE SaveChunks(w) \/ SaveQuality(w) \/ CompleteIndex(w) \/ RecordFailure(w) \/ TaskFails(w)
  BY <1>3 DEF SaveChunks, SaveQuality, CompleteIndex, RecordFailure, TaskFails
<1>4. CASE SaveVectors(w)
  BY <1>4 DEF SaveVectors, IndexingSteps
<1> QED BY <1>1, <1>2, <1>3, <1>4

\* What save_quality_results leaves in the task.
LEMMA SaveQualityTypes ==
  ASSUME ProcessOK, NEW w \in Workers, SaveQuality(w)
  PROVE  /\ run' \in [Workers -> Running]
         /\ run'[w].job = run[w].job
         /\ run'[w].pc \in {"judged", "failing"}
         /\ \A u \in Workers : u # w => run'[u] = run[u]
<1>1. PICK indexable \in SUBSET Chunks :
        \/ run' = [run EXCEPT ![w].pc = "judged", ![w].enabled = EffectiveEnabled(w, indexable)]
        \/ Goto(w, "failing")
  BY DEF SaveQuality
<1>2. EffectiveEnabled(w, indexable) \in SUBSET Chunks
  BY DEF EffectiveEnabled
<1>3. CASE Goto(w, "failing")
  BY <1>3, StepSets, GotoTypes
<1>4. CASE run' = [run EXCEPT ![w].pc = "judged", ![w].enabled = EffectiveEnabled(w, indexable)]
  <2>1. "judged" \in RunSteps /\ run \in [Workers -> Running]
    BY DEF RunSteps, IndexingSteps, ProcessOK
  <2> DEFINE e == EffectiveEnabled(w, indexable)
  <2>2. run' = [run EXCEPT ![w].pc = "judged", ![w].enabled = e] /\ e \in SUBSET Chunks
    BY <1>2, <1>4
  <2> HIDE DEF e
  <2> QED BY <2>1, <2>2 DEF Running
<1> QED BY <1>1, <1>3, <1>4

LEMMA TakeTypes ==
  ASSUME ProcessOK, NEW w \in Workers, NEW j \in Jobs, Take(w, j)
  PROVE  /\ run' \in [Workers -> Running]
         /\ queue' = queue \ {j}
         /\ \A u \in Workers : u # w => run'[u] = run[u]
         /\ \/ ~Active(j) /\ run' = run /\ UNCHANGED storeVars
            \/ /\ Active(j) /\ BeginJob(j)
               /\ run'[w].job = j /\ run'[w].pc = FirstStage(job[j].type)
               /\ run'[w].enabled = Enabled(job[j].version)
<1>1. CASE ~Active(j)
  BY <1>1 DEF Take, ProcessOK
<1>2. CASE Active(j)
  <2> DEFINE v == job[j].version
             x == [pc |-> FirstStage(job[j].type), job |-> j, enabled |-> Enabled(v),
                   checked |-> {c \in Chunks : auto[v][c] # "unchecked"}]
  <2>1. x \in Running
    BY StepSets DEF Running, Enabled
  <2>2. run' = [run EXCEPT ![w] = x]
    BY <1>2 DEF Take
  <2>3. run'[w] = x /\ run' \in [Workers -> Running] /\ \A u \in Workers : u # w => run'[u] = run[u]
    BY <2>1, <2>2 DEF ProcessOK
  <2> QED BY <1>2, <2>3 DEF Take
<1> QED BY <1>1, <1>2

\* The processes' variables keep their types.
THEOREM ProcessInvariant == Spec => []ProcessOK
<1>1. Init => ProcessOK
  BY IdleTypes, MaxLossesAssumption DEF Init, ProcessOK, IdleRequest, IdleRun
<1>2. ProcessOK /\ [Next]_vars => ProcessOK'
  <2> SUFFICES ASSUME ProcessOK, [Next]_vars PROVE ProcessOK'
    OBVIOUS
  <2>1. CASE AdminStep
    BY <2>1 DEF AdminStep, processVars, ProcessOK
  <2>2. ASSUME NEW r \in Requests, NEW j \in Jobs, NEW v \in Versions,
               RequestNewJob(r, j, v) \/ RequestPendingJob(r, j, v)
        PROVE  ProcessOK'
    <3>1. [pc |-> "enqueue", job |-> j] \in Requesting
      BY DEF Requesting, RequestSteps
    <3> QED BY <2>2, <3>1, ProcessRequest DEF RequestNewJob, RequestPendingJob, ProcessOK
  <2>3. ASSUME NEW r \in Requests, RequestStep(r) \/ AbandonRequest(r) PROVE ProcessOK'
    <3>1. IdleRequest \in Requesting /\ IdleRequest.pc = "idle"
      BY IdleTypes DEF IdleRequest
    <3>2. CASE Enqueue(r)
      BY <3>1, <3>2, ProcessRequest DEF Enqueue, InQueue, ProcessOK
    <3>3. CASE MarkEnqueueFailed(r) \/ AbandonRequest(r)
      BY <3>1, <3>3, ProcessRequest DEF MarkEnqueueFailed, AbandonRequest, ProcessOK
    <3>4. CASE EnqueueFails(r)
      <4>1. queue' \subseteq Jobs /\ request[r].job \in Jobs
        BY <3>4 DEF EnqueueFails, InQueue, ProcessOK
      <4>2. request' \in [Requests -> Requesting]
        BY <3>4 DEF EnqueueFails, ProcessOK, Requesting, RequestSteps
      <4>3. \A q \in Requests : request'[q].pc # "idle" => request'[q].job \in Jobs
        BY <3>4, <4>1 DEF EnqueueFails, ProcessOK, Requesting
      <4> QED BY <3>4, <4>1, <4>2, <4>3 DEF EnqueueFails, ProcessOK
    <3> QED BY <2>3, <3>2, <3>3, <3>4 DEF RequestStep
  <2>4. ASSUME NEW w \in Workers, NEW j \in Jobs, Take(w, j) PROVE ProcessOK'
    <3>1. run'[w].pc # "idle" <=> run'[w].job # None
      BY <2>4, TakeTypes, StepSets, NoneJobAssumption DEF ProcessOK
    <3> QED BY <2>4, <3>1, TakeTypes, ProcessRun DEF Take, ProcessOK
  <2>5. ASSUME NEW w \in Workers, RunStep(w) \/ TaskFails(w) PROVE ProcessOK'
    <3>1. CASE \E j \in Jobs : Take(w, j)
      BY <2>4, <3>1
    <3>2. CASE SaveQuality(w)
      <4>1. run[w].pc # "idle" /\ run[w].job # None /\ losses' \in 0..MaxLosses
        BY <3>2 DEF SaveQuality, ProcessOK
      <4> QED BY <3>2, <4>1, SaveQualityTypes, ProcessRun DEF SaveQuality
    <3>3. CASE \/ SetIngestionStage(w) \/ SaveChunks(w) \/ SetIndexingStage(w)
               \/ SaveVectors(w) \/ CompleteIndex(w) \/ RecordFailure(w) \/ TaskFails(w)
      <4>1. losses' \in 0..MaxLosses
        BY <3>3, TaskStep DEF ProcessOK
      <4> QED BY <3>2, <3>3, <4>1, TaskStep, StepSets, ProcessGoto, ProcessFinish
    <3> QED BY <2>5, <3>1, <3>2, <3>3 DEF RunStep
  <2>6. ASSUME NEW w \in Workers, LoseTask(w) PROVE ProcessOK'
    BY <2>6, ProcessFinish, MaxLossesAssumption DEF LoseTask, ProcessOK
  <2>7. ASSUME NEW j \in Jobs, LoseMessage(j) PROVE ProcessOK'
    BY <2>7, MaxLossesAssumption DEF LoseMessage, ProcessOK
  <2>8. CASE UNCHANGED vars
    BY <2>8 DEF vars, ProcessOK
  <2> QED BY <2>1, <2>2, <2>3, <2>5, <2>6, <2>7, <2>8 DEF Next
<1> QED BY <1>1, <1>2, PTL DEF Spec

-----------------------------------------------------------------------------
(* The pipeline implements the store: every step of a handler or a task is *)
(* one transaction of a repository, or leaves the tables alone.            *)

LEMMA TaskTransactions ==
  ASSUME ProcessOK, NEW w \in Workers, RunStep(w)
  PROVE  \/ UNCHANGED storeVars
         \/ \E j \in Jobs : Take(w, j)
         \/ run[w].job \in Jobs /\ JobTransaction(run[w].job)
<1>2. ASSUME ~\E j \in Jobs : Take(w, j) PROVE run[w].job \in Jobs
  <2>1. run[w].pc # "idle" /\ run[w] \in Running
    BY <1>2, TaskStep DEF RunStep, ProcessOK
  <2> QED BY <2>1 DEF ProcessOK, Running
<1>3. ASSUME ~\E j \in Jobs : Take(w, j)
      PROVE  UNCHANGED storeVars \/ JobTransaction(run[w].job)
  <2> DEFINE j == run[w].job
  <2>1. ASSUME NEW t \in JobTypes, NEW from, NEW to, NEW g \in LaterStages(t),
               NextStage(w, t, from, to, g)
        PROVE  JobTransaction(j)
    BY <2>1 DEF NextStage, JobTransaction
  <2>2. CASE SetIngestionStage(w)
    <3>1. /\ "document_processing" \in JobTypes
          /\ {"cleaning", "chunking", "saving"} \subseteq LaterStages("document_processing")
      BY DEF JobTypes, LaterStages
    <3> QED BY <2>1, <2>2, <3>1 DEF SetIngestionStage
  <2>3. CASE SetIndexingStage(w)
    <3>1. /\ "knowledge_indexing" \in JobTypes
          /\ {"llm_quality_check", "embedding", "saving"} \subseteq LaterStages("knowledge_indexing")
      BY DEF JobTypes, LaterStages
    <3> QED BY <2>1, <2>3, <3>1 DEF SetIndexingStage, storeVars
  <2>4. CASE SaveChunks(w)
    BY <2>4 DEF SaveChunks, JobTransaction
  <2>5. CASE SaveQuality(w)
    <3>1. PICK indexable \in SUBSET Chunks :
            \/ SaveQualityResults(j, [c \in Chunks |-> IF IsIndexable(c, indexable) THEN "yes" ELSE "no"],
                                  QualityUpdate(w, indexable))
            \/ UNCHANGED storeVars
      BY <2>5 DEF SaveQuality
    <3>2. [c \in Chunks |-> IF IsIndexable(c, indexable) THEN "yes" ELSE "no"] \in [Chunks -> {"yes", "no"}]
      OBVIOUS
    <3>3. QualityUpdate(w, indexable) \in [Chunks -> Updates]
      BY DEF QualityUpdate, HardBlocked, Updates
    <3> QED BY <3>1, <3>2, <3>3 DEF JobTransaction
  <2>6. CASE SaveVectors(w)
    <3>1. run[w].enabled \in SUBSET Chunks
      BY DEF ProcessOK, Running
    <3> QED BY <2>6, <3>1 DEF SaveVectors, JobTransaction
  <2>7. CASE CompleteIndex(w)
    BY <2>7 DEF CompleteIndex, JobTransaction
  <2>8. CASE RecordFailure(w)
    BY <2>8 DEF RecordFailure, JobTransaction
  <2> QED BY <1>3, <2>2, <2>3, <2>4, <2>5, <2>6, <2>7, <2>8 DEF RunStep
<1> QED BY <1>2, <1>3

LEMMA PipelineStep == ProcessOK /\ [Next]_vars => [StoreNext]_storeVars
<1> SUFFICES ASSUME ProcessOK, [Next]_vars PROVE [StoreNext]_storeVars
  OBVIOUS
<1>1. CASE AdminStep
  BY <1>1 DEF AdminStep, StoreNext
<1>2. ASSUME NEW r \in Requests, NEW j \in Jobs, NEW v \in Versions,
             RequestNewJob(r, j, v) \/ RequestPendingJob(r, j, v)
      PROVE  [StoreNext]_storeVars
  BY <1>2 DEF RequestNewJob, RequestPendingJob, JobTransaction, StoreNext
<1>3. ASSUME NEW r \in Requests, RequestStep(r) \/ AbandonRequest(r) PROVE [StoreNext]_storeVars
  <2>1. CASE MarkEnqueueFailed(r)
    <3>1. request[r].job \in Jobs
      BY <2>1 DEF MarkEnqueueFailed, ProcessOK
    <3> QED BY <2>1, <3>1 DEF MarkEnqueueFailed, JobTransaction, StoreNext
  <2> QED BY <1>3, <2>1 DEF RequestStep, Enqueue, EnqueueFails, AbandonRequest
<1>4. ASSUME NEW w \in Workers, RunStep(w) PROVE [StoreNext]_storeVars
  BY <1>4, TaskTransactions DEF StoreNext, Take, JobTransaction
<1>5. ASSUME NEW w \in Workers, TaskFails(w) \/ LoseTask(w) PROVE [StoreNext]_storeVars
  BY <1>5 DEF TaskFails, LoseTask
<1>6. ASSUME NEW j \in Jobs, LoseMessage(j) PROVE [StoreNext]_storeVars
  BY <1>6 DEF LoseMessage
<1>7. CASE UNCHANGED vars
  BY <1>7 DEF vars
<1> QED BY <1>1, <1>2, <1>3, <1>4, <1>5, <1>6, <1>7 DEF Next

\* Handlers and tasks keep to the transactions, with crashes, losses and retries
\* wherever they may happen.
THEOREM StoreImplemented == Spec => StoreSpec
<1>1. Init => StoreInit
  BY DEF Init
<1> QED BY <1>1, PipelineStep, ProcessInvariant, PTL DEF Spec, StoreSpec

\* The types, of the tables and of the processes.
THEOREM PipelineTypeCorrect == Spec => []TypeOK
<1>1. StoreTypeOK /\ ProcessOK => TypeOK
  BY DEF TypeOK, ProcessOK, Requesting, Running
<1> QED BY <1>1, StoreImplemented, StoreTypeCorrect, ProcessInvariant, PTL

-----------------------------------------------------------------------------
(* What the transactions do to a job that has been begun.                  *)

Begun(j) == job[j].status \notin {"none", "pending"}
Same(j) == /\ Begun(j) => Begun(j)' /\ job'[j].type = job[j].type /\ job'[j].version = job[j].version
           /\ job'[j].status = "processing" => job[j].status = "processing"

LEMMA AdminJobs ==
  ASSUME StoreTypeOK, AdminTransaction, NEW j \in Jobs
  PROVE  Same(j)
<1>1. ASSUME NEW vs \in SUBSET Versions, DeleteVersions(vs) PROVE Same(j)
  BY <1>1 DEF DeleteVersions, Same, Begun, StoreTypeOK, JobRows
<1>2. ASSUME NEW v \in Versions, DeleteVersion(v) PROVE Same(j)
  BY <1>1, <1>2, {v} \in SUBSET Versions DEF DeleteVersion
<1>3. ASSUME NEW d \in Documents, DeleteDocument(d) PROVE Same(j)
  BY <1>1, <1>3, VersionsOf(d) \in SUBSET Versions DEF DeleteDocument, VersionsOf
<1>4. CASE job' = job
  BY <1>4 DEF Same, Begun
<1> HIDE DEF Same
<1> QED BY <1>2, <1>3, <1>4
        DEF AdminTransaction, CreateDocument, CreateVersion, PublishVersion, SetChunkEnabled,
            UnpublishDocument

LEMMA TransactionJobs ==
  ASSUME StoreTypeOK, NEW i \in Jobs, JobTransaction(i), Begun(i) \/ ~BeginJob(i), NEW j \in Jobs
  PROVE  Same(j) /\ (j # i => job'[j] = job[j])
<1>1. CASE \E v \in Versions : CreateIngestionJob(i, v) \/ CreateIndexingJob(i, v)
  BY <1>1 DEF CreateIngestionJob, CreateIndexingJob, NewJob, StoreTypeOK, Same, Begun
<1>2. CASE BeginJob(i)
  BY <1>2 DEF BeginJob, StoreTypeOK, Same, Begun, JobRows, Active, ActiveStatuses
<1>3. CASE \E t \in JobTypes : \E g \in LaterStages(t) : SetStage(i, t, g)
  BY <1>3 DEF SetStage, StoreTypeOK, Same, Begun, JobRows
<1>4. CASE CompleteIngestion(i) \/ CompleteIndexing(i)
  BY <1>4 DEF CompleteIngestion, CompleteIndexing, EndJob, StoreTypeOK, Same, Begun, JobRows
<1>5. CASE FailJob(i)
  <2>1. CASE ~Active(i)
    BY <1>5, <2>1 DEF FailJob, Same, Begun
  <2>2. CASE Active(i)
    BY <1>5, <2>2 DEF FailJob, StoreTypeOK, Same, Begun, JobRows
  <2> QED BY <2>1, <2>2
<1>6. CASE job' = job
  BY <1>6 DEF Same, Begun
<1> QED BY <1>1, <1>2, <1>3, <1>4, <1>5, <1>6
        DEF JobTransaction, SaveQualityResults, SaveEmbeddings

\* No transaction of the administrator, and none of another job, switches a chunk
\* of a version whose indexing job is being processed.
LEMMA ChunksUnderJob ==
  ASSUME StoreTypeOK, StoreInv, NEW j \in Jobs, Processing(j, "knowledge_indexing"),
         Processing(j, "knowledge_indexing")',
         AdminTransaction \/ \E i \in Jobs : i # j /\ JobTransaction(i)
  PROVE  switch'[job[j].version] = switch[job[j].version]
<1> DEFINE v == job[j].version
<1>1. /\ v \in Versions /\ vstatus[v] = "indexing" /\ Active(j) /\ j \in ActiveJobs(v)
      /\ \A i \in Jobs : i # j /\ Active(i) => job[i].version # v
  BY DEF StoreInv, JobsInv, ActiveJobsHaveVersion, JobVersionAgreement, OneActiveJob, Processing,
         Active, ActiveStatuses, ActiveJobs, WorkingStatus
<1>2. CASE AdminTransaction
  <2>1. ASSUME NEW w \in Versions, NEW c \in Chunks, NEW enable \in BOOLEAN,
               SetChunkEnabled(w, c, enable)
        PROVE  switch'[v] = switch[v]
    BY <1>1, <2>1 DEF SetChunkEnabled, EditableStatuses, StoreTypeOK
  <2>2. ASSUME NEW vs \in SUBSET Versions, DeleteVersions(vs), \A w \in vs : ActiveJobs(w) = {}
        PROVE  switch'[v] = switch[v]
    BY <1>1, <2>2 DEF DeleteVersions
  <2>3. ASSUME NEW w \in Versions, DeleteVersion(w) PROVE switch'[v] = switch[v]
    BY <2>2, <2>3, {w} \in SUBSET Versions DEF DeleteVersion
  <2>4. ASSUME NEW d \in Documents, DeleteDocument(d) PROVE switch'[v] = switch[v]
    BY <2>2, <2>4, VersionsOf(d) \in SUBSET Versions DEF DeleteDocument, VersionsOf
  <2>5. ASSUME NEW w \in Versions, CreateDocument(w) \/ CreateVersion(w) \/ PublishVersion(w)
        PROVE  switch'[v] = switch[v]
    BY <2>5 DEF CreateDocument, CreateVersion, PublishVersion, chunkVars
  <2>6. ASSUME NEW d \in Documents, UnpublishDocument(d) PROVE switch'[v] = switch[v]
    BY <2>6 DEF UnpublishDocument, chunkVars
  <2> QED BY <1>2, <2>1, <2>3, <2>4, <2>5, <2>6 DEF AdminTransaction
<1>3. ASSUME NEW i \in Jobs, i # j, JobTransaction(i) PROVE switch'[v] = switch[v]
  <2>1. \A t \in JobTypes : Processing(i, t) => job[i].version # v
    BY <1>1, <1>3 DEF Processing, Active, ActiveStatuses
  <2>2. CASE CompleteIngestion(i)
    BY <1>1, <2>1, <2>2 DEF CompleteIngestion, JobTypes, StoreTypeOK
  <2>3. ASSUME NEW newAuto \in [Chunks -> {"yes", "no"}], NEW update \in [Chunks -> Updates],
               SaveQualityResults(i, newAuto, update)
        PROVE  switch'[v] = switch[v]
    BY <1>1, <2>1, <2>3 DEF SaveQualityResults, JobTypes, StoreTypeOK
  <2>4. CASE switch' = switch
    BY <2>4
  <2> HIDE DEF v
  <2> QED BY <1>3, <2>2, <2>3, <2>4
          DEF JobTransaction, CreateIngestionJob, CreateIndexingJob, BeginJob, SetStage,
              SaveEmbeddings, CompleteIndexing, FailJob, chunkVars
<1> QED BY <1>2, <1>3

-----------------------------------------------------------------------------
(* The tasks and their jobs.                                               *)

\* No two tasks run one job, a job that is being run has no message waiting and
\* was begun, and a task goes through the steps of its job's type.
TasksInv ==
  \A w \in Workers : run[w].pc # "idle" =>
    /\ Begun(run[w].job) /\ run[w].job \notin queue
    /\ \A u \in Workers : run[u].job = run[w].job => u = w
    /\ run[w].pc \in IngestionSteps => job[run[w].job].type = "document_processing"
    /\ run[w].pc \in IndexingSteps => job[run[w].job].type = "knowledge_indexing"

LEMMA TaskJob == ASSUME ProcessOK, NEW w \in Workers, run[w].pc # "idle" PROVE run[w].job \in Jobs
BY DEF ProcessOK, Running

\* A pipeline step leaves a job that is being processed as it is, ends it, or
\* works on it; only Take makes a job processing.
LEMMA StepJobs ==
  ASSUME StoreTypeOK, ProcessOK, TasksInv, [Next]_vars, NEW j \in Jobs
  PROVE  Same(j) \/ \E w \in Workers : Take(w, j)
<1>1. CASE job' = job
  BY <1>1 DEF Same, Begun
<1>2. CASE AdminStep
  BY <1>2, AdminJobs DEF AdminStep
<1>3. ASSUME NEW i \in Jobs, JobTransaction(i), Begun(i) \/ ~BeginJob(i) PROVE Same(j)
  BY <1>3, TransactionJobs
<1>4. ASSUME NEW r \in Requests, NEW i \in Jobs, NEW v \in Versions, RequestNewJob(r, i, v)
      PROVE  Same(j)
  <2>1. ~BeginJob(i)
    BY <1>4 DEF RequestNewJob, CreateIngestionJob, CreateIndexingJob, NewJob, BeginJob, Active,
                ActiveStatuses
  <2> QED BY <1>3, <1>4, <2>1 DEF RequestNewJob, JobTransaction
<1>5. ASSUME NEW r \in Requests, MarkEnqueueFailed(r) PROVE Same(j)
  <2> DEFINE i == request[r].job
  <2>1. i \in Jobs /\ FailJob(i)
    BY <1>5 DEF MarkEnqueueFailed, ProcessOK
  <2>2. CASE Active(i)
    <3>1. job'[i].status = "failed"
      BY <2>1, <2>2 DEF FailJob, StoreTypeOK, JobRows
    <3>2. ~BeginJob(i)
      BY <2>1, <3>1 DEF BeginJob, StoreTypeOK, JobRows
    <3> QED BY <1>3, <2>1, <3>2 DEF JobTransaction
  <2>3. CASE ~Active(i)
    BY <2>1, <2>3 DEF FailJob, Same, Begun
  <2> QED BY <2>2, <2>3
<1>6. ASSUME NEW w \in Workers, RunStep(w) PROVE Same(j) \/ Take(w, j)
  <2>1. CASE run[w].job \in Jobs /\ JobTransaction(run[w].job) /\ run[w].pc # "idle"
    BY <1>3, <2>1 DEF TasksInv
  <2>2. ASSUME NEW i \in Jobs, Take(w, i), i # j PROVE Same(j)
    <3>1. CASE BeginJob(i)
      BY <2>2, <3>1 DEF BeginJob, Same, Begun, StoreTypeOK
    <3>2. CASE job' = job
      BY <3>2 DEF Same, Begun
    <3> QED BY <2>2, <3>1, <3>2, TakeTypes DEF storeVars
  <2>3. run[w].pc # "idle" \/ \E i \in Jobs : Take(w, i)
    BY <1>6, TaskStep DEF RunStep
  <2>4. CASE job' = job
    BY <2>4 DEF Same, Begun
  <2> QED BY <1>6, <2>1, <2>2, <2>3, <2>4, TaskTransactions DEF storeVars
<1>7. ASSUME NEW r \in Requests,
             \/ \E i \in Jobs, v \in Versions : RequestPendingJob(r, i, v)
             \/ Enqueue(r) \/ EnqueueFails(r) \/ AbandonRequest(r)
      PROVE  job' = job
  BY <1>7 DEF RequestPendingJob, Enqueue, EnqueueFails, AbandonRequest, storeVars
<1>8. ASSUME NEW w \in Workers, TaskFails(w) \/ LoseTask(w) PROVE job' = job
  BY <1>8 DEF TaskFails, LoseTask, storeVars
<1>9. ASSUME NEW i \in Jobs, LoseMessage(i) PROVE job' = job
  BY <1>9 DEF LoseMessage, storeVars
<1>10. ASSUME UNCHANGED vars PROVE job' = job
  BY <1>10 DEF vars, storeVars
<1> QED BY <1>1, <1>2, <1>4, <1>5, <1>6, <1>7, <1>8, <1>9, <1>10 DEF Next, RequestStep

\* A job that a task is running stays begun, of its type and of its version.
LEMMA RunningJobs ==
  ASSUME StoreTypeOK, ProcessOK, TasksInv, [Next]_vars, NEW w \in Workers, run[w].pc # "idle"
  PROVE  Same(run[w].job)
BY StepJobs, TaskJob DEF Take, TasksInv

\* What a step may do to the tasks: one task takes a message, goes on or ends, or
\* a handler enqueues a job that no task is running.
TasksSteady == \A u \in Workers : run'[u] = run[u]
MovesOn(w) == /\ run[w].pc # "idle" /\ queue' = queue
              /\ \A u \in Workers : u # w => run'[u] = run[u]
              /\ \/ run'[w].pc = "idle"
                 \/ /\ run'[w].job = run[w].job
                    /\ \/ run'[w].pc = "failing"
                       \/ run[w].pc \in IngestionSteps /\ run'[w].pc \in IngestionSteps
                       \/ run[w].pc \in IndexingSteps /\ run'[w].pc \in IndexingSteps

LEMMA TasksMove ==
  ASSUME ProcessOK, [Next]_vars
  PROVE  \/ TasksSteady /\ \A w \in Workers : run[w].job \notin queue' \ queue
         \/ \E w \in Workers : MovesOn(w)
         \/ \E w \in Workers, j \in Jobs : Take(w, j)
<1>1. ASSUME NEW w \in Workers,
             \/ SetIngestionStage(w) \/ SaveChunks(w) \/ SetIndexingStage(w) \/ SaveQuality(w)
             \/ SaveVectors(w) \/ CompleteIndex(w) \/ RecordFailure(w) \/ TaskFails(w)
      PROVE  MovesOn(w)
  <2>1. run[w].pc # "idle" /\ queue' = queue
    BY <1>1, TaskStep
  <2>2. CASE Finish(w)
    BY <2>1, <2>2, FinishTypes DEF MovesOn, IdleRun
  <2>3. CASE Goto(w, "failing")
    BY <2>1, <2>3, StepSets, GotoTypes DEF MovesOn
  <2>4. ASSUME NEW step \in IngestionSteps, Goto(w, step), run[w].pc \in IngestionSteps
        PROVE  MovesOn(w)
    BY <2>1, <2>4, StepSets, GotoTypes DEF MovesOn
  <2>5. ASSUME NEW step \in IndexingSteps, Goto(w, step), run[w].pc \in IndexingSteps
        PROVE  MovesOn(w)
    BY <2>1, <2>5, StepSets, GotoTypes DEF MovesOn
  <2>6. CASE SaveQuality(w)
    <3>1. run[w].pc \in IndexingSteps /\ "judged" \in IndexingSteps
      BY <2>6 DEF SaveQuality, IndexingSteps
    <3> QED BY <2>1, <2>6, <3>1, SaveQualityTypes DEF MovesOn
  <2> QED BY <1>1, <2>2, <2>3, <2>4, <2>5, <2>6, TaskStep
<1>2. ASSUME NEW w \in Workers, LoseTask(w) PROVE MovesOn(w)
  BY <1>2, FinishTypes DEF LoseTask, MovesOn, IdleRun
<1>3. ASSUME NEW r \in Requests,
             \/ \E j \in Jobs, v \in Versions : RequestNewJob(r, j, v) \/ RequestPendingJob(r, j, v)
             \/ RequestStep(r) \/ AbandonRequest(r)
      PROVE  TasksSteady /\ \A w \in Workers : run[w].job \notin queue' \ queue
  BY <1>3 DEF RequestNewJob, RequestPendingJob, RequestStep, Enqueue, EnqueueFails, InQueue,
              MarkEnqueueFailed, AbandonRequest, TasksSteady
<1>4. CASE AdminStep \/ (\E j \in Jobs : LoseMessage(j)) \/ UNCHANGED vars
  BY <1>4 DEF AdminStep, processVars, LoseMessage, vars, TasksSteady
<1> QED BY <1>1, <1>2, <1>3, <1>4 DEF Next, RunStep

LEMMA TasksStep ==
  ASSUME StoreTypeOK, ProcessOK, ProcessOK', TasksInv, [Next]_vars
  PROVE  TasksInv'
<1>1. CASE TasksSteady /\ \A w \in Workers : run[w].job \notin queue' \ queue
  BY <1>1, RunningJobs DEF TasksSteady, TasksInv, Same
<1>2. ASSUME NEW w \in Workers, MovesOn(w) PROVE TasksInv'
  <2>1. \A u \in Workers : run'[u].pc # "idle" => run[u].pc # "idle" /\ run'[u].job = run[u].job
    BY <1>2 DEF MovesOn, ProcessOK, Running
  <2>2. \A u \in Workers : run'[u].pc # "idle" => Same(run[u].job) /\ run'[u].job # None
    BY <2>1, RunningJobs DEF ProcessOK
  <2>3. ASSUME NEW u \in Workers, NEW x \in Workers, run'[u].pc # "idle", run'[x].job = run'[u].job
        PROVE  x = u
    BY <2>1, <2>2, <2>3 DEF TasksInv, ProcessOK
  <2>4. ASSUME NEW u \in Workers, run'[u].pc # "idle"
        PROVE  /\ run'[u].pc \in IngestionSteps => run[u].pc \in IngestionSteps
               /\ run'[u].pc \in IndexingSteps => run[u].pc \in IndexingSteps
    BY <1>2, <2>4, StepSets DEF MovesOn
  <2>5. \A u \in Workers : run'[u].pc # "idle" => run'[u].job \notin queue'
    BY <1>2, <2>1 DEF MovesOn, TasksInv
  <2> QED BY <2>1, <2>2, <2>3, <2>4, <2>5 DEF TasksInv, Same
<1>3. ASSUME NEW w \in Workers, NEW j \in Jobs, Take(w, j) PROVE TasksInv'
  <2>1. CASE ~Active(j)
    <3>1. run' = run /\ UNCHANGED storeVars /\ queue' \subseteq queue
      BY <1>3, <2>1 DEF Take
    <3> QED BY <3>1 DEF TasksInv, Begun, storeVars
  <2>2. CASE Active(j)
    <3>1. run[w].pc = "idle" /\ j \in queue /\ queue' = queue \ {j} /\ BeginJob(j)
      BY <1>3, <2>2 DEF Take
    <3>2. /\ run'[w].job = j /\ run'[w].pc = FirstStage(job[j].type)
          /\ \A u \in Workers : u # w => run'[u] = run[u]
      BY <1>3, <2>2, TakeTypes
    <3>3. Begun(j)' /\ job'[j].type = job[j].type /\ job[j].type \in JobTypes
      BY <3>1 DEF BeginJob, StoreTypeOK, JobRows, Begun
    <3>4. ASSUME NEW u \in Workers, u # w, run[u].pc # "idle"
          PROVE  /\ Begun(run[u].job)' /\ job'[run[u].job].type = job[run[u].job].type
                 /\ run[u].job # j
      BY <3>1, <3>4, RunningJobs DEF TasksInv, Same
    <3>5. /\ FirstStage(job[j].type) \in IngestionSteps => job[j].type = "document_processing"
          /\ FirstStage(job[j].type) \in IndexingSteps => job[j].type = "knowledge_indexing"
      BY <3>3 DEF FirstStage, IngestionSteps, IndexingSteps, JobTypes
    <3>6. \A u \in Workers : u # w => run[u].job # j
      BY <3>4, NoneJobAssumption DEF ProcessOK
    <3>7. ASSUME NEW u \in Workers, u # w, run'[u].pc # "idle"
          PROVE  /\ Begun(run[u].job)' /\ run'[u].job \notin queue'
                 /\ \A x \in Workers : run'[x].job = run'[u].job => x = u
                 /\ run'[u].pc \in IngestionSteps => job'[run'[u].job].type = "document_processing"
                 /\ run'[u].pc \in IndexingSteps => job'[run'[u].job].type = "knowledge_indexing"
      BY <3>1, <3>2, <3>4, <3>7 DEF TasksInv
    <3>8. /\ Begun(run[w].job)' /\ run'[w].job \notin queue'
          /\ \A x \in Workers : run'[x].job = run'[w].job => x = w
          /\ run'[w].pc \in IngestionSteps => job'[run'[w].job].type = "document_processing"
          /\ run'[w].pc \in IndexingSteps => job'[run'[w].job].type = "knowledge_indexing"
      BY <3>1, <3>2, <3>3, <3>5, <3>6
    <3> QED BY <3>7, <3>8 DEF TasksInv
  <2> QED BY <2>1, <2>2
<1> QED BY <1>1, <1>2, <1>3, TasksMove

LEMMA TasksInvariant == Spec => []TasksInv
<1>1. Init => TasksInv
  BY DEF Init, IdleRun, TasksInv
<1>2. StoreTypeOK /\ ProcessOK /\ ProcessOK' /\ TasksInv /\ [Next]_vars => TasksInv'
  BY TasksStep
<1> QED BY <1>1, <1>2, StoreImplemented, StoreTypeCorrect, ProcessInvariant, PTL DEF Spec

-----------------------------------------------------------------------------
(* OrphansOnlyByLoss.                                                      *)

\* A task that ends, and was not lost, leaves its job ended.
LEMMA TaskEndsJob ==
  ASSUME StoreTypeOK, ProcessOK, TasksInv, NEW w \in Workers, run'[w].pc = "idle",
         \/ SetIngestionStage(w) \/ SaveChunks(w) \/ SetIndexingStage(w) \/ SaveQuality(w)
         \/ SaveVectors(w) \/ CompleteIndex(w) \/ RecordFailure(w) \/ TaskFails(w)
  PROVE  job'[run[w].job].status # "processing"
<1> DEFINE j == run[w].job
<1>1. j \in Jobs /\ job[j] \in JobRows
  BY TaskStep, TaskJob DEF StoreTypeOK
<1>2. \A step \in IngestionSteps \cup IndexingSteps \cup {"failing"} : ~Goto(w, step)
  BY StepSets, GotoTypes
<1>3. CASE SaveChunks(w)
  <2>1. CASE CompleteIngestion(j)
    BY <1>1, <2>1 DEF CompleteIngestion, EndJob, StoreTypeOK, JobRows
  <2>2. CASE ~Processing(j, "document_processing") /\ UNCHANGED storeVars
    <3>1. job[j].type = "document_processing"
      BY <1>3 DEF SaveChunks, TasksInv, IngestionSteps
    <3> QED BY <2>2, <3>1 DEF Processing, storeVars
  <2> QED BY <1>3, <2>1, <2>2 DEF SaveChunks
<1>4. CASE CompleteIndex(w)
  <2>1. CompleteIndexing(j)
    BY <1>2, <1>4 DEF CompleteIndex
  <2> QED BY <1>1, <2>1 DEF CompleteIndexing, EndJob, StoreTypeOK, JobRows
<1>5. CASE RecordFailure(w)
  <2>1. FailJob(j)
    BY <1>5 DEF RecordFailure
  <2> QED BY <1>1, <2>1 DEF FailJob, Active, ActiveStatuses, StoreTypeOK, JobRows
<1>6. CASE SetIngestionStage(w) \/ SetIndexingStage(w)
  BY <1>2, <1>6 DEF SetIngestionStage, SetIndexingStage, NextStage, IngestionSteps, IndexingSteps
<1>7. CASE SaveQuality(w)
  BY <1>7, SaveQualityTypes
<1>8. CASE SaveVectors(w) \/ TaskFails(w)
  BY <1>2, <1>8 DEF SaveVectors, TaskFails, IndexingSteps
<1> QED BY <1>3, <1>4, <1>5, <1>6, <1>7, <1>8

\* A task changes by a step of its own.
LEMMA OneTaskMoves ==
  ASSUME ProcessOK, [Next]_vars, NEW w \in Workers, run'[w] # run[w]
  PROVE  RunStep(w) \/ TaskFails(w) \/ LoseTask(w)
<1>1. ASSUME NEW u \in Workers, RunStep(u) \/ TaskFails(u) \/ LoseTask(u), u # w PROVE FALSE
  <2>1. CASE \E j \in Jobs : Take(u, j)
    BY <1>1, <2>1, TakeTypes
  <2>2. CASE LoseTask(u)
    BY <1>1, <2>2, FinishTypes DEF LoseTask
  <2>3. CASE \/ SetIngestionStage(u) \/ SaveChunks(u) \/ SetIndexingStage(u) \/ SaveQuality(u)
             \/ SaveVectors(u) \/ CompleteIndex(u) \/ RecordFailure(u) \/ TaskFails(u)
    BY <1>1, <2>3, TaskStep, StepSets, FinishTypes, GotoTypes, SaveQualityTypes
  <2> QED BY <1>1, <2>1, <2>2, <2>3 DEF RunStep
<1>2. ASSUME NEW r \in Requests,
             \/ \E j \in Jobs, v \in Versions : RequestNewJob(r, j, v) \/ RequestPendingJob(r, j, v)
             \/ RequestStep(r) \/ AbandonRequest(r)
      PROVE  FALSE
  BY <1>2 DEF RequestNewJob, RequestPendingJob, RequestStep, Enqueue, EnqueueFails,
              MarkEnqueueFailed, AbandonRequest
<1>3. CASE AdminStep \/ (\E j \in Jobs : LoseMessage(j)) \/ UNCHANGED vars
  BY <1>3 DEF AdminStep, processVars, LoseMessage, vars
<1> QED BY <1>1, <1>2, <1>3 DEF Next

LEMMA OrphansStep ==
  ASSUME StoreTypeOK, ProcessOK, ProcessOK', TasksInv, OrphansOnlyByLoss, [Next]_vars
  PROVE  OrphansOnlyByLoss'
<1> SUFFICES ASSUME NEW j \in Jobs, job'[j].status = "processing", losses' = 0
             PROVE  \E w \in Workers : run'[w].job = j
  BY MaxLossesAssumption DEF OrphansOnlyByLoss, ProcessOK
<1>1. CASE \E w \in Workers : Take(w, j)
  <2>1. PICK w \in Workers : Take(w, j)
    BY <1>1
  <2>2. CASE Active(j)
    BY <2>1, <2>2, TakeTypes
  <2>3. CASE ~Active(j)
    BY <2>1, <2>3 DEF Take, Active, ActiveStatuses, storeVars
  <2> QED BY <2>2, <2>3
<1>2. CASE Same(j)
  <2>1. job[j].status = "processing" /\ losses = 0
    <3>1. losses = 0
      <4>1. losses' = losses \/ losses' = losses + 1
        BY DEF Next, AdminStep, processVars, RequestNewJob, RequestPendingJob, RequestStep,
               Enqueue, EnqueueFails, MarkEnqueueFailed, AbandonRequest, RunStep, Take,
               SetIngestionStage, NextStage, SaveChunks, SetIndexingStage, SaveQuality,
               SaveVectors, CompleteIndex, RecordFailure, TaskFails, LoseTask, LoseMessage, vars
      <4> QED BY <4>1, MaxLossesAssumption DEF ProcessOK
    <3> QED BY <1>2, <3>1 DEF Same
  <2>2. PICK w \in Workers : run[w].job = j
    BY <2>1 DEF OrphansOnlyByLoss
  <2>3. run[w].pc # "idle"
    BY <2>2, NoneJobAssumption DEF ProcessOK
  <2>4. CASE TasksSteady
    BY <2>2, <2>4 DEF TasksSteady
  <2>5. ASSUME NEW u \in Workers, MovesOn(u) PROVE run'[w].job = j
    <3>1. CASE run'[w].pc # "idle"
      BY <2>2, <2>5, <3>1 DEF MovesOn
    <3>2. CASE run'[w].pc = "idle"
      <4>1. run'[w] # run[w]
        BY <2>3, <3>2
      <4>2. ~LoseTask(w)
        BY <2>1 DEF LoseTask
      <4>3. \/ SetIngestionStage(w) \/ SaveChunks(w) \/ SetIndexingStage(w) \/ SaveQuality(w)
            \/ SaveVectors(w) \/ CompleteIndex(w) \/ RecordFailure(w) \/ TaskFails(w)
        BY <2>3, <4>1, <4>2, OneTaskMoves DEF RunStep, Take
      <4> QED BY <2>2, <3>2, <4>3, TaskEndsJob
    <3> QED BY <3>1, <3>2
  <2>6. ASSUME NEW u \in Workers, NEW i \in Jobs, Take(u, i) PROVE run'[w].job = j
    BY <2>2, <2>3, <2>6, TakeTypes DEF Take
  <2> QED BY <2>4, <2>5, <2>6, TasksMove
<1> QED BY <1>1, <1>2, StepJobs

\* While no task was killed and no message dropped, every job that is processing
\* has a task working on it.
THEOREM NoOrphans == Spec => []OrphansOnlyByLoss
<1>1. Init => OrphansOnlyByLoss
  BY DEF Init, StoreInit, NoJob, OrphansOnlyByLoss
<1>2. StoreTypeOK /\ ProcessOK /\ ProcessOK' /\ TasksInv /\ OrphansOnlyByLoss /\ [Next]_vars
      => OrphansOnlyByLoss'
  BY OrphansStep
<1> QED BY <1>1, <1>2, StoreImplemented, StoreTypeCorrect, ProcessInvariant, TasksInvariant, PTL
        DEF Spec

-----------------------------------------------------------------------------
(* IndexingSteady.                                                         *)

Steady(w) ==
  run[w].pc \in IndexingSteps /\ Processing(run[w].job, "knowledge_indexing")
    => run[w].enabled = Enabled(job[run[w].job].version)

LEMMA SteadyTake ==
  ASSUME StoreTypeOK, ProcessOK, NEW w \in Workers, Steady(w), NEW j \in Jobs, Take(w, j)
  PROVE  Steady(w)'
<1>1. CASE ~Active(j)
  <2>1. run' = run /\ UNCHANGED storeVars
    BY <1>1, TakeTypes DEF Take
  <2> QED BY <2>1 DEF Steady, Processing, Enabled, storeVars
<1>2. CASE Active(j)
  <2>1. run'[w].job = j /\ run'[w].enabled = Enabled(job[j].version) /\ BeginJob(j)
    BY <1>2, TakeTypes
  <2>2. job'[j].version = job[j].version /\ switch' = switch
    BY <2>1 DEF BeginJob, chunkVars, StoreTypeOK, JobRows
  <2> QED BY <2>1, <2>2 DEF Steady, Enabled
<1> QED BY <1>1, <1>2

\* Where the worker's switches come from: what the quality pass writes to the
\* version is what the task goes on with.
LEMMA SteadyQuality ==
  ASSUME StoreTypeOK, StoreInv, ProcessOK, NEW w \in Workers, Steady(w), SaveQuality(w)
  PROVE  Steady(w)'
<1> DEFINE j == run[w].job
           v == job[j].version
<1>1. run[w].pc \in IndexingSteps
  BY DEF SaveQuality, IndexingSteps
<1>2. PICK indexable \in SUBSET Chunks :
        \/ /\ SaveQualityResults(j,
                [c \in Chunks |-> IF IsIndexable(c, indexable) THEN "yes" ELSE "no"],
                QualityUpdate(w, indexable))
           /\ run' = [run EXCEPT ![w].pc = "judged",
                                 ![w].enabled = EffectiveEnabled(w, indexable)]
        \/ Goto(w, "failing")
  BY DEF SaveQuality
<1>3. CASE Goto(w, "failing")
  <2>1. run'[w].pc = "failing"
    BY <1>3, StepSets, GotoTypes
  <2> QED BY <2>1, StepSets DEF Steady
<1>4. CASE /\ SaveQualityResults(j,
                [c \in Chunks |-> IF IsIndexable(c, indexable) THEN "yes" ELSE "no"],
                QualityUpdate(w, indexable))
           /\ run' = [run EXCEPT ![w].pc = "judged",
                                 ![w].enabled = EffectiveEnabled(w, indexable)]
  <2> DEFINE update == QualityUpdate(w, indexable)
  <2>1. /\ Processing(j, "knowledge_indexing") /\ job' = job
        /\ switch' = [switch EXCEPT ![v] =
              [c \in Chunks |-> IF update[c] = "keep" THEN switch[v][c] ELSE update[c]]]
    BY <1>4 DEF SaveQualityResults
  <2>2. v \in Versions => switch'[v] =
              [c \in Chunks |-> IF update[c] = "keep" THEN switch[v][c] ELSE update[c]]
    BY <2>1 DEF StoreTypeOK
  <2>3. v \in Versions
    <3>1. j \in Jobs /\ Active(j)
      BY <1>1, <2>1, StepSets, TaskJob DEF Processing, Active, ActiveStatuses
    <3> QED BY <3>1 DEF StoreInv, JobsInv, ActiveJobsHaveVersion
  <2>4. run[w].enabled = Enabled(v)
    BY <1>1, <2>1 DEF Steady
  <2>5. {c \in Chunks : switch'[v][c] = "on"}
          = {c \in Chunks : IF update[c] = "keep" THEN switch[v][c] = "on"
                                                ELSE update[c] = "on"}
    BY <2>2, <2>3
  <2>6. EffectiveEnabled(w, indexable)
          = {c \in Chunks : IF update[c] = "keep" THEN switch[v][c] = "on"
                                                ELSE update[c] = "on"}
    BY <2>4 DEF EffectiveEnabled, Enabled
  <2>7. run'[w].enabled = EffectiveEnabled(w, indexable) /\ run'[w].job = j
    BY <1>4 DEF ProcessOK, Running
  <2> QED BY <2>1, <2>5, <2>6, <2>7 DEF Steady, Enabled
<1> QED BY <1>2, <1>3, <1>4

LEMMA SteadyOwnStep ==
  ASSUME StoreTypeOK, StoreInv, ProcessOK, NEW w \in Workers, Steady(w),
         RunStep(w) \/ TaskFails(w)
  PROVE  Steady(w)'
<1> DEFINE j == run[w].job
<1>1. CASE (\E i \in Jobs : Take(w, i)) \/ SaveQuality(w)
  BY <1>1, SteadyTake, SteadyQuality
<1>2. CASE Finish(w) \/ Goto(w, "failing")
  <2>1. run'[w].pc \in {"idle", "failing"}
    BY <1>2, StepSets, FinishTypes, GotoTypes DEF IdleRun
  <2> QED BY <2>1, StepSets DEF Steady
<1>3. CASE SetIngestionStage(w)
  <2>1. PICK step \in IngestionSteps : Goto(w, step)
    BY <1>3 DEF SetIngestionStage, NextStage, IngestionSteps
  <2> QED BY <2>1, StepSets, GotoTypes DEF Steady
<1>4. CASE SetIndexingStage(w) /\ ~Goto(w, "failing")
  <2>1. PICK g : SetStage(j, "knowledge_indexing", g)
    BY <1>4 DEF SetIndexingStage, NextStage
  <2>2. PICK step \in IndexingSteps : run[w].pc \in IndexingSteps /\ Goto(w, step)
    BY <1>4 DEF SetIndexingStage, NextStage, IndexingSteps
  <2>3. run'[w].enabled = run[w].enabled /\ run'[w].job = j /\ j \in Jobs
    BY <2>2, StepSets, GotoTypes, TaskJob
  <2>4. /\ job'[j].version = job[j].version /\ switch' = switch
        /\ Processing(j, "knowledge_indexing")' => Processing(j, "knowledge_indexing")
    BY <2>1, <2>3 DEF SetStage, chunkVars, Processing, StoreTypeOK, JobRows
  <2> QED BY <2>2, <2>3, <2>4 DEF Steady, Enabled, Processing
<1>5. CASE SaveEmbeddings(j, run[w].enabled) /\ Goto(w, "embedded") /\ SaveVectors(w)
  <2>1. run[w].pc \in IndexingSteps /\ "embedded" \in IndexingSteps
    BY <1>5 DEF SaveVectors, IndexingSteps
  <2>2. run'[w].enabled = run[w].enabled /\ run'[w].job = j
    BY <1>5, <2>1, StepSets, GotoTypes
  <2> QED BY <1>5, <2>1, <2>2 DEF SaveEmbeddings, Steady, Enabled, Processing
<1> QED BY <1>1, <1>2, <1>3, <1>4, <1>5
        DEF RunStep, SaveChunks, SaveVectors, CompleteIndex, RecordFailure, TaskFails

\* The other programs do not touch what the task holds.
LEMMA SteadyOtherSteps ==
  ASSUME StoreTypeOK, StoreInv, ProcessOK, TasksInv, [Next]_vars, NEW w \in Workers, Steady(w),
         run'[w] = run[w], ~RunStep(w)
  PROVE  Steady(w)'
<1> DEFINE j == run[w].job
<1> SUFFICES ASSUME run[w].pc \in IndexingSteps, Processing(j, "knowledge_indexing")'
             PROVE  /\ Processing(j, "knowledge_indexing")
                    /\ job'[j].version = job[j].version
                    /\ switch'[job[j].version] = switch[job[j].version]
  BY DEF Steady, Enabled, Processing
<1>1. j \in Jobs /\ run[w].pc # "idle"
  BY StepSets, TaskJob
<1>2. Same(j)
  BY <1>1, RunningJobs
<1>3. Processing(j, "knowledge_indexing") /\ job'[j].version = job[j].version
  BY <1>1, <1>2 DEF Same, TasksInv, Processing
<1>4. ASSUME AdminTransaction \/ \E i \in Jobs : i # j /\ JobTransaction(i)
      PROVE  switch'[job[j].version] = switch[job[j].version]
  BY <1>1, <1>3, <1>4, ChunksUnderJob
<1>5. CASE AdminStep
  BY <1>3, <1>4, <1>5 DEF AdminStep
<1>6. ASSUME NEW r \in Requests, NEW i \in Jobs, NEW v \in Versions, RequestNewJob(r, i, v)
      PROVE  UNCHANGED switch
  BY <1>6 DEF RequestNewJob, CreateIngestionJob, CreateIndexingJob, chunkVars
<1>7. ASSUME NEW r \in Requests,
             \/ \E i \in Jobs, v \in Versions : RequestPendingJob(r, i, v)
             \/ RequestStep(r) \/ AbandonRequest(r)
      PROVE  UNCHANGED switch
  BY <1>7 DEF RequestPendingJob, RequestStep, Enqueue, EnqueueFails, MarkEnqueueFailed, FailJob,
              AbandonRequest, storeVars, chunkVars
<1>8. ASSUME NEW u \in Workers, RunStep(u)
      PROVE  \/ UNCHANGED switch
             \/ \E i \in Jobs : i # j /\ JobTransaction(i)
  <2>1. CASE UNCHANGED storeVars \/ \E i \in Jobs : Take(u, i)
    BY <2>1 DEF storeVars, Take, BeginJob, chunkVars
  <2>2. CASE run[u].job \in Jobs /\ JobTransaction(run[u].job)
    <3>1. u # w
      BY <1>8
    <3>2. run[u].job # j
      BY <1>1, <3>1 DEF TasksInv
    <3> QED BY <2>2, <3>2
  <2> QED BY <1>8, <2>1, <2>2, TaskTransactions
<1>9. ASSUME \/ \E u \in Workers : TaskFails(u) \/ LoseTask(u)
             \/ \E i \in Jobs : LoseMessage(i)
             \/ UNCHANGED vars
      PROVE  UNCHANGED switch
  BY <1>9 DEF TaskFails, LoseTask, LoseMessage, vars, storeVars
<1> QED BY <1>3, <1>4, <1>5, <1>6, <1>7, <1>8, <1>9 DEF Next

LEMMA SteadyStep ==
  ASSUME StoreTypeOK, StoreInv, ProcessOK, TasksInv, IndexingSteady, [Next]_vars
  PROVE  IndexingSteady'
<1>1. ASSUME NEW w \in Workers PROVE Steady(w)'
  <2>1. Steady(w)
    BY <1>1 DEF IndexingSteady, Steady
  <2>2. CASE RunStep(w) \/ TaskFails(w)
    BY <2>1, <2>2, SteadyOwnStep
  <2>3. CASE LoseTask(w)
    BY <2>3, FinishTypes, StepSets DEF LoseTask, Steady, IdleRun
  <2> QED BY <2>1, <2>2, <2>3, OneTaskMoves, SteadyOtherSteps
<1> QED BY <1>1 DEF IndexingSteady, Steady

\* What a task holds enabled while the providers answer stays what the table
\* holds enabled, as long as its job is processing.
THEOREM TasksHoldCurrentChunks == Spec => []IndexingSteady
<1>1. Init => IndexingSteady
  BY StepSets DEF Init, IdleRun, IndexingSteady
<1>2. StoreTypeOK /\ StoreInv /\ ProcessOK /\ TasksInv /\ IndexingSteady /\ [Next]_vars
      => IndexingSteady'
  BY SteadyStep
<1> QED BY <1>1, <1>2, StoreImplemented, StoreTypeCorrect, StoreInvariant, ProcessInvariant,
           TasksInvariant, PTL DEF Spec

-----------------------------------------------------------------------------
(* HardBlockedStaysOff.                                                    *)

LEMMA HardBlockedSteady ==
  ASSUME HardBlockedStaysOff, UNCHANGED <<switch, auto>>
  PROVE  HardBlockedStaysOff'
BY DEF HardBlockedStaysOff

LEMMA HardBlockedAdmin ==
  ASSUME StoreTypeOK, HardBlockedStaysOff, AdminTransaction
  PROVE  HardBlockedStaysOff'
<1>1. ASSUME NEW v \in Versions, NEW c \in Chunks, NEW enable \in BOOLEAN, SetChunkEnabled(v, c, enable)
      PROVE  HardBlockedStaysOff'
  BY <1>1 DEF SetChunkEnabled, HardBlockedStaysOff, StoreTypeOK
<1>2. ASSUME NEW vs \in SUBSET Versions, DeleteVersions(vs) PROVE HardBlockedStaysOff'
  BY <1>2 DEF DeleteVersions, HardBlockedStaysOff
<1>3. ASSUME NEW v \in Versions, DeleteVersion(v) PROVE HardBlockedStaysOff'
  BY <1>2, <1>3, {v} \in SUBSET Versions DEF DeleteVersion
<1>4. ASSUME NEW d \in Documents, DeleteDocument(d) PROVE HardBlockedStaysOff'
  BY <1>2, <1>4, VersionsOf(d) \in SUBSET Versions DEF DeleteDocument, VersionsOf
<1>5. ASSUME NEW v \in Versions, CreateDocument(v) \/ CreateVersion(v) \/ PublishVersion(v)
      PROVE  UNCHANGED <<switch, auto>>
  BY <1>5 DEF CreateDocument, CreateVersion, PublishVersion, chunkVars
<1>6. ASSUME NEW d \in Documents, UnpublishDocument(d) PROVE UNCHANGED <<switch, auto>>
  BY <1>6 DEF UnpublishDocument, chunkVars
<1> QED BY <1>1, <1>3, <1>4, <1>5, <1>6, HardBlockedSteady DEF AdminTransaction

\* The quality pass writes the rules' verdict over whatever switch there is.
LEMMA HardBlockedQuality ==
  ASSUME StoreTypeOK, HardBlockedStaysOff, NEW w \in Workers, SaveQuality(w)
  PROVE  HardBlockedStaysOff'
<1> DEFINE j == run[w].job
           v == job[j].version
<1>1. CASE UNCHANGED storeVars
  BY <1>1, HardBlockedSteady DEF storeVars
<1>2. ASSUME NEW newAuto, NEW indexable,
             SaveQualityResults(j, newAuto, QualityUpdate(w, indexable))
      PROVE  HardBlockedStaysOff'
  <2> DEFINE update == QualityUpdate(w, indexable)
  <2>1. \A c \in Chunks : RuleOf[c] = "hard_block" => update[c] = "hard_block"
    BY DEF QualityUpdate, HardBlocked
  <2>2. /\ switch' = [switch EXCEPT ![v] =
              [c \in Chunks |-> IF update[c] = "keep" THEN switch[v][c] ELSE update[c]]]
        /\ auto' = [auto EXCEPT ![v] = newAuto]
    BY <1>2 DEF SaveQualityResults
  <2> HIDE DEF update
  <2> QED BY <2>1, <2>2 DEF HardBlockedStaysOff, StoreTypeOK
<1> QED BY <1>1, <1>2 DEF SaveQuality

LEMMA HardBlockedStep ==
  ASSUME StoreTypeOK, ProcessOK, HardBlockedStaysOff, [Next]_vars
  PROVE  HardBlockedStaysOff'
<1>1. CASE AdminStep
  BY <1>1, HardBlockedAdmin DEF AdminStep
<1>2. ASSUME NEW r \in Requests,
             \/ \E j \in Jobs, v \in Versions : RequestNewJob(r, j, v) \/ RequestPendingJob(r, j, v)
             \/ RequestStep(r) \/ AbandonRequest(r)
      PROVE  UNCHANGED <<switch, auto>>
  BY <1>2 DEF RequestNewJob, CreateIngestionJob, CreateIndexingJob, RequestPendingJob, RequestStep,
              Enqueue, EnqueueFails, MarkEnqueueFailed, FailJob, AbandonRequest, storeVars, chunkVars
<1>3. ASSUME NEW w \in Workers, SaveChunks(w) PROVE HardBlockedStaysOff'
  <2>1. CASE CompleteIngestion(run[w].job)
    BY <2>1 DEF CompleteIngestion, HardBlockedStaysOff, StoreTypeOK
  <2>2. CASE UNCHANGED storeVars
    BY <2>2, HardBlockedSteady DEF storeVars
  <2> QED BY <1>3, <2>1, <2>2 DEF SaveChunks
<1>4. ASSUME NEW w \in Workers,
             \/ \E j \in Jobs : Take(w, j)
             \/ SetIngestionStage(w) \/ SetIndexingStage(w) \/ SaveVectors(w) \/ CompleteIndex(w)
             \/ RecordFailure(w) \/ TaskFails(w) \/ LoseTask(w)
      PROVE  UNCHANGED <<switch, auto>>
  BY <1>4 DEF Take, BeginJob, SetIngestionStage, SetIndexingStage, NextStage, SetStage, SaveVectors,
              SaveEmbeddings, CompleteIndex, CompleteIndexing, RecordFailure, FailJob, TaskFails,
              LoseTask, storeVars, chunkVars
<1>5. CASE (\E j \in Jobs : LoseMessage(j)) \/ UNCHANGED vars
  BY <1>5, HardBlockedSteady DEF LoseMessage, vars, storeVars
<1> QED BY <1>1, <1>2, <1>3, <1>4, <1>5, HardBlockedQuality, HardBlockedSteady DEF Next, RunStep

\* A chunk the rules block is never switched on again once a pass has seen it.
THEOREM HardBlocksHold == Spec => []HardBlockedStaysOff
<1>1. Init => HardBlockedStaysOff
  BY DEF Init, StoreInit, HardBlockedStaysOff
<1>2. StoreTypeOK /\ ProcessOK /\ HardBlockedStaysOff /\ [Next]_vars => HardBlockedStaysOff'
  BY HardBlockedStep
<1> QED BY <1>1, <1>2, StoreImplemented, StoreTypeCorrect, ProcessInvariant, PTL DEF Spec

-----------------------------------------------------------------------------
(* What the store promises, with the handlers and tasks around it.         *)

\* Whatever requests, tasks, crashes, losses and retries are under way, the readers of
\* published knowledge see versions come and go as VersionLifecycle says.
THEOREM PipelineLifecycle == Spec => LifecycleSpec
<1> QED BY StoreImplemented, LifecycleImplemented, PTL

\* The tables agree with each other, whatever is under way.
THEOREM PipelineTables ==
  Spec => [](JobVersionAgreement /\ OneActiveJob /\ CurrentIsPublished /\ ReadyIsEmbedded)
<1> QED BY StoreImplemented, JobsAgree, NoSecondActiveJob, PointersAgree, ReadyEmbedded, PTL

\* No task, however late, rewrites a job that has ended or chunks that are ready to be
\* published, or moves a version against its diagram.
THEOREM PipelineSteps == Spec => EndedJobsStay /\ ReadyChunksStay /\ VersionDiagram
<1> QED BY StoreImplemented, EndedJobsFinal, ReadyChunksFinal, DiagramKept, PTL

Readers == INSTANCE VersionLifecycleProofs WITH life <- [v \in Versions |-> LifeOf[vstatus[v]]]

\* What was taken offline, replaced or deleted is never published again, whatever tasks
\* are still at work on it.
THEOREM PipelineNeverBack == Spec => Readers!OverIsOver
<1>1. DocumentOf \in [Versions -> Documents] /\ None \notin Versions
  BY DocumentOfAssumption, NoneAssumption
<1>2. Readers!Spec => Readers!OverIsOver
  BY <1>1, Readers!NeverBack
<1>3. LifecycleSpec => Readers!Spec
  <2>1. Lifecycle!Init => Readers!Init
    BY DEF Lifecycle!Init, Readers!Init
  <2>2. [Lifecycle!Next]_(Lifecycle!vars) => [Readers!Next]_(Readers!vars)
    BY DEF Lifecycle!Next, Readers!Next, Lifecycle!vars, Readers!vars,
           Lifecycle!Create, Readers!Create, Lifecycle!Prepare, Readers!Prepare,
           Lifecycle!Reopen, Readers!Reopen, Lifecycle!Publish, Readers!Publish,
           Lifecycle!Withdraw, Readers!Withdraw, Lifecycle!RemoveVersion, Readers!RemoveVersion,
           Lifecycle!RemoveDocument, Readers!RemoveDocument, Lifecycle!Move, Readers!Move
  <2> QED BY <2>1, <2>2, PTL DEF LifecycleSpec, Lifecycle!Spec, Readers!Spec
<1> QED BY <1>2, <1>3, PipelineLifecycle, PTL
=============================================================================
