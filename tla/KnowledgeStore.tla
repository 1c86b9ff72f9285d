--------------------------- MODULE KnowledgeStore ---------------------------
(***************************************************************************)
(* The PostgreSQL tables behind the knowledge base and the transactions    *)
(* the repositories run on them (src/app/repositories).  Every repository  *)
(* method locks the rows it decides on (SELECT ... FOR UPDATE) and commits *)
(* once, so each is one atomic action.  The services and the worker that   *)
(* call these transactions are in KnowledgePipeline.                       *)
(*                                                                         *)
(* Rows are keyed by UUIDs that are drawn once and never drawn again: a    *)
(* row goes from "none" to a live status and, when deleted, to "deleted".  *)
(***************************************************************************)
EXTENDS Integers, FiniteSets

CONSTANTS
  Documents,         \* knowledge_documents ids
  Versions,          \* document_versions ids
  Chunks,            \* positions in the list of chunks a version is split into
  Jobs,              \* ingestion_jobs ids
  DocumentOf,        \* the document a version id is created in
  ContentOf,         \* the content (hash) a version id is created with
  RuleOf,            \* what the deterministic rules say of the chunk at a position
  MaxVersionNumber,  \* bound on version_number
  None               \* SQL NULL

RuleResults == {"clean", "contact", "hard_block", "exact_duplicate"}

ASSUME DocumentOfAssumption == DocumentOf \in [Versions -> Documents]
ASSUME RuleOfAssumption == RuleOf \in [Chunks -> RuleResults]
ASSUME NumberAssumption == MaxVersionNumber \in Nat
ASSUME ChunksAssumption == Chunks # {}
ASSUME NoneAssumption == None \notin Versions

VARIABLES
  docState,   \* knowledge_documents: which rows exist
  current,    \* knowledge_documents.current_published_version_id
  vstatus,    \* document_versions.status
  number,     \* document_versions.version_number
  switch,     \* document_chunks.enabled and disabled_reason
  auto,       \* document_chunks.auto_indexable
  embedded,   \* chunks with an embedding of the active identity and their hash
  job         \* ingestion_jobs rows

storeVars == <<docState, current, vstatus, number, switch, auto, embedded, job>>
documentVars == <<docState, current, number>>
chunkVars == <<switch, auto, embedded>>

DocStates == {"none", "live", "deleted"}
VersionStatuses == {"draft", "processing", "ready_for_review", "indexing",
                    "indexing_failed", "ready_to_publish", "published", "superseded"}
\* "on" is enabled with a NULL reason; the others are the disabled reasons
\* (the table's check constraint admits nothing else).
Switches == {"absent", "on", "hard_block", "exact_duplicate", "quality", "administrator"}
AutoIndexable == {"unchecked", "yes", "no"}
JobTypes == {"document_processing", "knowledge_indexing"}
JobStatuses == {"none", "pending", "processing", "completed", "failed", "deleted"}
Stages == {"reading", "cleaning", "chunking", "saving",
           "rule_check", "llm_quality_check", "embedding"}

JobRows == [status : JobStatuses, type : JobTypes, version : Versions \cup {None},
            stage : Stages]

NoJob == [status |-> "none", type |-> "document_processing", version |-> None,
          stage |-> "reading"]

StoreTypeOK ==
  /\ docState \in [Documents -> DocStates]
  /\ current \in [Documents -> Versions \cup {None}]
  /\ vstatus \in [Versions -> VersionStatuses \cup {"none", "deleted"}]
  /\ number \in [Versions -> Nat]
  /\ switch \in [Versions -> [Chunks -> Switches]]
  /\ auto \in [Versions -> [Chunks -> AutoIndexable]]
  /\ embedded \in [Versions -> SUBSET Chunks]
  /\ job \in [Jobs -> JobRows]

StoreInit ==
  /\ docState = [d \in Documents |-> "none"]
  /\ current = [d \in Documents |-> None]
  /\ vstatus = [v \in Versions |-> "none"]
  /\ number = [v \in Versions |-> 0]
  /\ switch = [v \in Versions |-> [c \in Chunks |-> "absent"]]
  /\ auto = [v \in Versions |-> [c \in Chunks |-> "unchecked"]]
  /\ embedded = [v \in Versions |-> {}]
  /\ job = [j \in Jobs |-> NoJob]

VersionExists(v) == vstatus[v] \in VersionStatuses
VersionsOf(d) == {v \in Versions : DocumentOf[v] = d /\ VersionExists(v)}
Enabled(v) == {c \in Chunks : switch[v][c] = "on"}

ActiveStatuses == {"pending", "processing"}
Active(j) == job[j].status \in ActiveStatuses
ActiveJobs(v) == {j \in Jobs : Active(j) /\ job[j].version = v}
ActiveJobsOfType(v, t) == {j \in ActiveJobs(v) : job[j].type = t}
\* The check a worker transaction starts with: its job is still being processed.
Processing(j, t) == job[j].status = "processing" /\ job[j].type = t

SetVersion(v, s) == vstatus' = [vstatus EXCEPT ![v] = s]
NewJob(j, v, t, s) ==
  /\ job[j].status = "none"
  /\ job' = [job EXCEPT ![j] = [status |-> "pending", type |-> t, version |-> v, stage |-> s]]

-----------------------------------------------------------------------------
(* Documents and versions: repositories/knowledge_document.py.             *)

\* A document is created together with its version 1, a draft.
CreateDocument(v) ==
  LET d == DocumentOf[v] IN
  /\ docState[d] = "none"
  /\ vstatus[v] = "none"
  /\ docState' = [docState EXCEPT ![d] = "live"]
  /\ number' = [number EXCEPT ![v] = 1]
  /\ SetVersion(v, "draft")
  /\ UNCHANGED <<current, switch, auto, embedded, job>>

\* Mutant of NextNumber: counts the versions that are left.
NextNumberByCount(d, n) == n = Cardinality(VersionsOf(d)) + 1

\* n is one more than the largest version number of the document, 0 when it
\* has no version left.
NextNumber(d, n) ==
  /\ \A w \in VersionsOf(d) : number[w] < n
  /\ n = 1 \/ \E w \in VersionsOf(d) : number[w] = n - 1

CreateVersion(v) ==
  LET d == DocumentOf[v] IN
  /\ docState[d] = "live"
  /\ vstatus[v] = "none"
  /\ \A w \in VersionsOf(d) : ContentOf[w] # ContentOf[v]
  /\ \E n \in 1..MaxVersionNumber :
        /\ NextNumber(d, n)
        /\ number' = [number EXCEPT ![v] = n]
  /\ SetVersion(v, "draft")
  /\ UNCHANGED <<docState, current, switch, auto, embedded, job>>

-----------------------------------------------------------------------------
(* Jobs: repositories/ingestion.py and repositories/indexing.py.           *)

\* Mutants: a repeated request creates another job; any version that has been
\* indexed once can be indexed again.
CreateIngestionJobAgain(j, v) ==
  /\ vstatus[v] \in {"draft", "processing"}
  /\ NewJob(j, v, "document_processing", "reading")
  /\ SetVersion(v, "processing")
  /\ UNCHANGED <<documentVars, chunkVars>>

CreateIndexingJobAnyTime(j, v) ==
  /\ ActiveJobsOfType(v, "knowledge_indexing") = {}
  /\ vstatus[v] \in {"ready_for_review", "indexing_failed", "superseded"}
  /\ NewJob(j, v, "knowledge_indexing", "rule_check")
  /\ SetVersion(v, "indexing")
  /\ UNCHANGED <<documentVars, chunkVars>>

\* create_job of each repository, when it does create one.  The partial
\* unique index uq_ingestion_jobs_active_version is not a guard here:
\* OneActiveJob shows that the repositories never run into it.
CreateIngestionJob(j, v) ==
  /\ vstatus[v] = "draft"
  /\ ActiveJobsOfType(v, "document_processing") = {}
  /\ NewJob(j, v, "document_processing", "reading")
  /\ SetVersion(v, "processing")
  /\ UNCHANGED <<documentVars, chunkVars>>

CreateIndexingJob(j, v) ==
  /\ ActiveJobsOfType(v, "knowledge_indexing") = {}
  /\ vstatus[v] \in {"ready_for_review", "indexing_failed"}
  /\ NewJob(j, v, "knowledge_indexing", "rule_check")
  /\ SetVersion(v, "indexing")
  /\ UNCHANGED <<documentVars, chunkVars>>

\* create_job, when it hands back the version's active job instead.
FindsActiveJob(j, v, t) ==
  /\ j \in ActiveJobsOfType(v, t)
  /\ t = "document_processing" => vstatus[v] \in {"draft", "processing"}

\* Mutant of FirstStage: a stage the table's check constraint rejects.
FirstStageQueued(t) == "queued"

WorkingStatus(t) == IF t = "document_processing" THEN "processing" ELSE "indexing"
FirstStage(t) == IF t = "document_processing" THEN "reading" ELSE "rule_check"
FailedStatus(t) == IF t = "document_processing" THEN "draft" ELSE "indexing_failed"

BeginJob(j) ==
  /\ Active(j)
  /\ job' = [job EXCEPT ![j].status = "processing", ![j].stage = FirstStage(job[j].type)]
  /\ SetVersion(job[j].version, WorkingStatus(job[j].type))
  /\ UNCHANGED <<documentVars, chunkVars>>

LaterStages(t) == IF t = "document_processing" THEN {"cleaning", "chunking", "saving"}
                                               ELSE {"llm_quality_check", "embedding", "saving"}

\* Mutant of SetStage: does not look at the job's status.
SetStageAlways(j, t, s) ==
  /\ job' = [job EXCEPT ![j].stage = s]
  /\ UNCHANGED <<documentVars, vstatus, chunkVars>>

\* set_stage: returns FALSE, which no worker looks at, unless processing.
SetStage(j, t, s) ==
  /\ job' = IF Processing(j, t) THEN [job EXCEPT ![j].stage = s] ELSE job
  /\ UNCHANGED <<documentVars, vstatus, chunkVars>>

\* Mutant of FailJob: fails a job that has already ended.
FailJobUnguarded(j) ==
  /\ job' = [job EXCEPT ![j].status = "failed"]
  /\ SetVersion(job[j].version, FailedStatus(job[j].type))
  /\ UNCHANGED <<documentVars, chunkVars>>

\* fail_job, mark_enqueue_failed: nothing happens to a job that has ended.
FailJob(j) ==
  /\ IF Active(j)
     THEN /\ job' = [job EXCEPT ![j].status = "failed"]
          /\ SetVersion(job[j].version, FailedStatus(job[j].type))
     ELSE UNCHANGED <<job, vstatus>>
  /\ UNCHANGED <<documentVars, chunkVars>>

EndJob(j) == job' = [job EXCEPT ![j].status = "completed", ![j].stage = "saving"]

\* Ingestion complete_job: the version's chunks are replaced by new rows.
CompleteIngestion(j) ==
  LET v == job[j].version IN
  /\ Processing(j, "document_processing")
  /\ switch' = [switch EXCEPT ![v] = [c \in Chunks |-> "on"]]
  /\ auto' = [auto EXCEPT ![v] = [c \in Chunks |-> "unchecked"]]
  /\ embedded' = [embedded EXCEPT ![v] = {}]
  /\ EndJob(j)
  /\ SetVersion(v, "ready_for_review")
  /\ UNCHANGED documentVars

\* What an indexing pass may do to a chunk's switch.
Updates == {"keep", "on", "hard_block", "exact_duplicate", "quality"}

\* Mutant of SaveQualityResults: does not look at the job's status.
SaveQualityResultsAlways(j, newAuto, update) ==
  LET v == job[j].version IN
  /\ auto' = [auto EXCEPT ![v] = newAuto]
  /\ switch' = [switch EXCEPT ![v] =
                  [c \in Chunks |-> IF update[c] = "keep" THEN switch[v][c] ELSE update[c]]]
  /\ UNCHANGED <<documentVars, vstatus, embedded, job>>

\* save_quality_results: update[c] is "keep" where the worker's verdict leaves
\* enabled alone (enabled=None in the code).
SaveQualityResults(j, newAuto, update) ==
  LET v == job[j].version IN
  /\ Processing(j, "knowledge_indexing")
  /\ auto' = [auto EXCEPT ![v] = newAuto]
  /\ switch' = [switch EXCEPT ![v] =
                  [c \in Chunks |-> IF update[c] = "keep" THEN switch[v][c] ELSE update[c]]]
  /\ UNCHANGED <<documentVars, vstatus, embedded, job>>

\* save_embeddings: ValueError when one of the chunks is disabled by now.
SaveEmbeddings(j, cs) ==
  LET v == job[j].version IN
  /\ Processing(j, "knowledge_indexing")
  /\ cs \subseteq Enabled(v)
  /\ embedded' = [embedded EXCEPT ![v] = @ \cup cs]
  /\ UNCHANGED <<documentVars, vstatus, switch, auto, job>>

\* At least one enabled chunk, and every enabled chunk has its embedding.
FullyEmbedded(v) == Enabled(v) # {} /\ Enabled(v) \subseteq embedded[v]

\* Indexing complete_job.
CompleteIndexing(j) ==
  /\ Processing(j, "knowledge_indexing")
  /\ FullyEmbedded(job[j].version)
  /\ EndJob(j)
  /\ SetVersion(job[j].version, "ready_to_publish")
  /\ UNCHANGED <<documentVars, chunkVars>>

-----------------------------------------------------------------------------
(* Review and publication: repositories/publication.py.                    *)

\* Mutant of EditableStatuses: chunks stay editable while they are indexed.
EditableWhileIndexing == {"ready_for_review", "indexing_failed", "ready_to_publish", "indexing"}

EditableStatuses == {"ready_for_review", "indexing_failed", "ready_to_publish"}

\* Mutants of SetChunkEnabled: enables hard-blocked chunks; leaves the version
\* ready to publish.
SetChunkEnabledUnprotected(v, c, enable) ==
  /\ vstatus[v] \in EditableStatuses
  /\ switch[v][c] # "absent"
  /\ (switch[v][c] = "on") # enable
  /\ switch' = [switch EXCEPT ![v][c] = IF enable THEN "on" ELSE "administrator"]
  /\ SetVersion(v, "ready_for_review")
  /\ UNCHANGED <<documentVars, auto, embedded, job>>

SetChunkEnabledInPlace(v, c, enable) ==
  /\ vstatus[v] \in EditableStatuses
  /\ switch[v][c] # "absent"
  /\ ~(enable /\ switch[v][c] = "hard_block")
  /\ (switch[v][c] = "on") # enable
  /\ switch' = [switch EXCEPT ![v][c] = IF enable THEN "on" ELSE "administrator"]
  /\ UNCHANGED <<documentVars, vstatus, auto, embedded, job>>

SetChunkEnabled(v, c, enable) ==
  /\ vstatus[v] \in EditableStatuses
  /\ switch[v][c] # "absent"
  /\ ~(enable /\ switch[v][c] = "hard_block")
  /\ (switch[v][c] = "on") # enable
  /\ switch' = [switch EXCEPT ![v][c] = IF enable THEN "on" ELSE "administrator"]
  /\ SetVersion(v, "ready_for_review")
  /\ UNCHANGED <<documentVars, auto, embedded, job>>

\* Mutant of PublishVersion: forgets the version it replaces.
PublishVersionBeside(v) ==
  /\ vstatus[v] = "ready_to_publish"
  /\ FullyEmbedded(v)
  /\ SetVersion(v, "published")
  /\ current' = [current EXCEPT ![DocumentOf[v]] = v]
  /\ UNCHANGED <<docState, number, chunkVars, job>>

PublishVersion(v) ==
  LET d == DocumentOf[v]
      old == current[d] IN
  /\ vstatus[v] = "ready_to_publish"
  /\ FullyEmbedded(v)
  /\ vstatus' = [w \in Versions |-> IF w = v THEN "published"
                                    ELSE IF w = old THEN "superseded" ELSE vstatus[w]]
  /\ current' = [current EXCEPT ![d] = v]
  /\ UNCHANGED <<docState, number, chunkVars, job>>

UnpublishDocument(d) ==
  /\ docState[d] = "live"
  /\ current[d] # None
  /\ SetVersion(current[d], "superseded")
  /\ current' = [current EXCEPT ![d] = None]
  /\ UNCHANGED <<docState, number, chunkVars, job>>

-----------------------------------------------------------------------------
(* Deletion: repositories/knowledge_lifecycle.py.  The foreign keys        *)
(* cascade from a version to its chunks, embeddings and jobs.              *)

DeletableStatuses == {"draft", "indexing_failed", "ready_to_publish", "superseded"}

DeleteVersions(vs) ==
  /\ vstatus' = [v \in Versions |-> IF v \in vs THEN "deleted" ELSE vstatus[v]]
  /\ number' = [v \in Versions |-> IF v \in vs THEN 0 ELSE number[v]]
  /\ switch' = [v \in Versions |-> IF v \in vs THEN [c \in Chunks |-> "absent"] ELSE switch[v]]
  /\ auto' = [v \in Versions |-> IF v \in vs THEN [c \in Chunks |-> "unchecked"] ELSE auto[v]]
  /\ embedded' = [v \in Versions |-> IF v \in vs THEN {} ELSE embedded[v]]
  /\ job' = [j \in Jobs |-> IF job[j].version \in vs
                            THEN [job[j] EXCEPT !.status = "deleted"] ELSE job[j]]

DeleteVersion(v) ==
  /\ vstatus[v] \in DeletableStatuses
  /\ current[DocumentOf[v]] # v
  /\ ActiveJobs(v) = {}
  /\ DeleteVersions({v})
  /\ UNCHANGED <<docState, current>>

DeleteDocument(d) ==
  /\ docState[d] = "live"
  /\ \A v \in VersionsOf(d) : ActiveJobs(v) = {}
  /\ docState' = [docState EXCEPT ![d] = "deleted"]
  /\ current' = [current EXCEPT ![d] = None]
  /\ DeleteVersions(VersionsOf(d))

-----------------------------------------------------------------------------
(* Any caller may run any transaction with any arguments at any time: what *)
(* the tables promise whatever the services and the worker do.             *)

AdminTransaction ==
  \/ \E v \in Versions : \/ CreateDocument(v)
                         \/ CreateVersion(v)
                         \/ PublishVersion(v)
                         \/ DeleteVersion(v)
                         \/ \E c \in Chunks, enable \in BOOLEAN : SetChunkEnabled(v, c, enable)
  \/ \E d \in Documents : UnpublishDocument(d) \/ DeleteDocument(d)

JobTransaction(j) ==
  \/ \E v \in Versions : CreateIngestionJob(j, v) \/ CreateIndexingJob(j, v)
  \/ BeginJob(j)
  \/ \E t \in JobTypes : \E s \in LaterStages(t) : SetStage(j, t, s)
  \/ CompleteIngestion(j)
  \/ \E newAuto \in [Chunks -> {"yes", "no"}], update \in [Chunks -> Updates] :
        SaveQualityResults(j, newAuto, update)
  \/ \E cs \in SUBSET Chunks : SaveEmbeddings(j, cs)
  \/ CompleteIndexing(j)
  \/ FailJob(j)

StoreNext == AdminTransaction \/ \E j \in Jobs : JobTransaction(j)

StoreSpec == StoreInit /\ [][StoreNext]_storeVars

-----------------------------------------------------------------------------
(* Safety.                                                                 *)

\* A version says "processing" or "indexing" exactly while one job of that type
\* is pending or processing for it: whatever the order in which a repeated
\* request, a late mark_enqueue_failed, a worker's fail_job and a new job's
\* creation reach the database, no version is left in a working status without
\* a job, nor editable, publishable or deletable under a job.
JobVersionAgreement ==
  /\ \A j \in Jobs : Active(j) => vstatus[job[j].version] = WorkingStatus(job[j].type)
  /\ \A v \in Versions, t \in JobTypes :
        vstatus[v] = WorkingStatus(t) => ActiveJobsOfType(v, t) # {}

\* At most one active job per version, of either type: the unique index
\* uq_ingestion_jobs_active_version is never hit by the repositories' checks.
OneActiveJob ==
  \A i, j \in Jobs : Active(i) /\ Active(j) /\ job[i].version = job[j].version => i = j

\* A document's pointer and its versions' statuses agree: the current version
\* is a version of that document and published, and no other version is.
CurrentIsPublished ==
  /\ \A d \in Documents : current[d] # None =>
        /\ docState[d] = "live"
        /\ DocumentOf[current[d]] = d
        /\ vstatus[current[d]] = "published"
  /\ \A v \in Versions : vstatus[v] = "published" => current[DocumentOf[v]] = v

\* What is ready to publish has an enabled chunk and an embedding for every
\* enabled chunk, whatever edits and failed jobs came before, so under one
\* embedding identity publish_version never raises PublicationIntegrityError.
\* (What deduplication does to published chunks afterwards is not modelled here.)
ReadyIsEmbedded ==
  \A v \in Versions : vstatus[v] = "ready_to_publish" => FullyEmbedded(v)

\* Version numbers and contents are unique among a document's versions, also
\* after deletions made numbers available again.
VersionsDistinct ==
  \A v, w \in Versions :
    /\ v # w
    /\ VersionExists(v) /\ VersionExists(w)
    /\ DocumentOf[v] = DocumentOf[w]
    => number[v] # number[w] /\ ContentOf[v] # ContentOf[w]

-----------------------------------------------------------------------------
(* Action properties.                                                      *)

\* What readers of published versions rely on: every transaction is a step of
\* VersionLifecycle or changes nothing there.
LifeOf == [none |-> "unborn", draft |-> "hidden", processing |-> "hidden",
           ready_for_review |-> "hidden", indexing |-> "hidden", indexing_failed |-> "hidden",
           ready_to_publish |-> "ready", published |-> "published", superseded |-> "retired",
           deleted |-> "gone"]
Lifecycle == INSTANCE VersionLifecycle WITH life <- [v \in Versions |-> LifeOf[vstatus[v]]]
LifecycleSpec == Lifecycle!Spec

\* A job that has ended stays as it is, stage included, until it is deleted with
\* its version: a worker that is still running it writes nothing any more.
EndedJobsStay ==
  [][\A j \in Jobs : job[j].status \in {"completed", "failed"} =>
        job'[j] = job[j] \/ job'[j].status = "deleted"]_storeVars

\* The chunks and embeddings of a version that is ready to publish are the ones
\* its indexing job left: only an edit that sends it back to review changes them,
\* and a late worker of an earlier, failed job of that version does not reach
\* them between the administrator's look and the publication.
ReadyChunksStay ==
  [][\A v \in Versions :
        vstatus[v] = "ready_to_publish" =>
          \/ <<switch[v], embedded[v]>>' = <<switch[v], embedded[v]>>
          \/ vstatus'[v] \in {"deleted", "ready_for_review"}]_storeVars

\* The steps of a version's life, one by one.
VersionSteps ==
  { <<"none", "draft">>, <<"draft", "processing">>, <<"processing", "draft">>,
    <<"processing", "ready_for_review">>, <<"ready_for_review", "indexing">>,
    <<"indexing", "indexing_failed">>, <<"indexing_failed", "indexing">>,
    <<"indexing_failed", "ready_for_review">>, <<"indexing", "ready_to_publish">>,
    <<"ready_to_publish", "ready_for_review">>, <<"ready_to_publish", "published">>,
    <<"published", "superseded">> }

\* No interleaving moves a version along any other edge: nothing leaves
\* "superseded", nothing is published that was not indexed since its last edit,
\* and no version is deleted while it is worked on.
VersionDiagram ==
  [][\A v \in Versions :
        vstatus'[v] # vstatus[v] =>
          \/ vstatus'[v] = "deleted" /\ vstatus[v] \notin {"processing", "indexing"}
          \/ <<vstatus[v], vstatus'[v]>> \in VersionSteps]_storeVars
=============================================================================
