------------------------ MODULE KnowledgeStoreProofs ------------------------
(***************************************************************************)
(* What the tables promise for every number of documents, versions, chunks *)
(* and jobs, whoever calls the transactions and in whatever order.         *)
(***************************************************************************)
EXTENDS KnowledgeStore, TLAPS

\* A job that is pending or processing is a job of a version.
ActiveJobsHaveVersion == \A j \in Jobs : Active(j) => job[j].version \in Versions

\* A document row exists for every version row (the foreign key).
VersionsHaveDocument ==
  \A v \in Versions : VersionExists(v) => docState[DocumentOf[v]] = "live"

-----------------------------------------------------------------------------
(* Types.                                                                  *)

LEMMA StatusSets ==
  /\ "draft" \in VersionStatuses
  /\ "ready_for_review" \in VersionStatuses
  /\ "ready_to_publish" \in VersionStatuses
  /\ "published" \in VersionStatuses
  /\ "superseded" \in VersionStatuses
  /\ \A t \in JobTypes : /\ WorkingStatus(t) \in VersionStatuses
                         /\ FailedStatus(t) \in VersionStatuses
                         /\ FirstStage(t) \in Stages
                         /\ LaterStages(t) \subseteq Stages
BY DEF VersionStatuses, JobTypes, WorkingStatus, FailedStatus, FirstStage, LaterStages, Stages

\* Rows and their columns stay in their types when a transaction updates them.
LEMMA JobRowUpdates ==
  ASSUME NEW r \in JobRows
  PROVE  /\ \A s \in JobStatuses : [r EXCEPT !.status = s] \in JobRows
         /\ \A g \in Stages : [r EXCEPT !.stage = g] \in JobRows
         /\ \A s \in JobStatuses, g \in Stages :
               [r EXCEPT !.status = s, !.stage = g] \in JobRows
BY DEF JobRows

LEMMA DeleteVersionsTypes ==
  ASSUME StoreTypeOK, NEW vs \in SUBSET Versions, DeleteVersions(vs)
  PROVE  /\ vstatus' \in [Versions -> VersionStatuses \cup {"none", "deleted"}]
         /\ number' \in [Versions -> Nat]
         /\ switch' \in [Versions -> [Chunks -> Switches]]
         /\ auto' \in [Versions -> [Chunks -> AutoIndexable]]
         /\ embedded' \in [Versions -> SUBSET Chunks]
         /\ job' \in [Jobs -> JobRows]
<1>1. \A j \in Jobs : job[j] \in JobRows /\ [job[j] EXCEPT !.status = "deleted"] \in JobRows
  BY DEF StoreTypeOK, JobRows, JobStatuses
<1>2. job' \in [Jobs -> JobRows]
  BY <1>1 DEF DeleteVersions
<1>3. [c \in Chunks |-> "absent"] \in [Chunks -> Switches]
  BY DEF Switches
<1>4. [c \in Chunks |-> "unchecked"] \in [Chunks -> AutoIndexable]
  BY DEF AutoIndexable
<1> QED BY <1>2, <1>3, <1>4 DEF DeleteVersions, StoreTypeOK

\* Every transaction keeps the columns in their types.
THEOREM StoreTypeCorrect == StoreSpec => []StoreTypeOK
<1>1. StoreInit => StoreTypeOK
  <2> SUFFICES ASSUME StoreInit PROVE StoreTypeOK
    OBVIOUS
  <2>1. NoJob \in JobRows
    BY DEF NoJob, JobRows, JobStatuses, JobTypes, Stages
  <2> QED BY <2>1 DEF StoreInit, StoreTypeOK, DocStates, Switches, AutoIndexable
<1>2. StoreTypeOK /\ [StoreNext]_storeVars => StoreTypeOK'
  <2> SUFFICES ASSUME StoreTypeOK, [StoreNext]_storeVars PROVE StoreTypeOK'
    OBVIOUS
  <2> USE DEF StoreTypeOK, SetVersion, documentVars, chunkVars
  <2>1. ASSUME NEW v \in Versions, CreateDocument(v) PROVE StoreTypeOK'
    BY <2>1, StatusSets, DocumentOfAssumption DEF CreateDocument, DocStates
  <2>2. ASSUME NEW v \in Versions, CreateVersion(v) PROVE StoreTypeOK'
    <3>1. PICK n \in 1..MaxVersionNumber : number' = [number EXCEPT ![v] = n]
      BY <2>2 DEF CreateVersion
    <3>2. n \in Nat
      BY NumberAssumption
    <3> QED BY <2>2, <3>1, <3>2, StatusSets DEF CreateVersion
  <2>3. ASSUME NEW v \in Versions, PublishVersion(v) PROVE StoreTypeOK'
    BY <2>3, StatusSets, DocumentOfAssumption DEF PublishVersion
  <2>4. ASSUME NEW v \in Versions, DeleteVersion(v) PROVE StoreTypeOK'
    <3>1. DeleteVersions({v})
      BY <2>4 DEF DeleteVersion
    <3>2. {v} \in SUBSET Versions
      OBVIOUS
    <3> HIDE DEF StoreTypeOK
    <3>3. /\ vstatus' \in [Versions -> VersionStatuses \cup {"none", "deleted"}]
          /\ number' \in [Versions -> Nat]
          /\ switch' \in [Versions -> [Chunks -> Switches]]
          /\ auto' \in [Versions -> [Chunks -> AutoIndexable]]
          /\ embedded' \in [Versions -> SUBSET Chunks]
          /\ job' \in [Jobs -> JobRows]
      BY <3>1, <3>2, DeleteVersionsTypes
    <3> QED BY <2>4, <3>3 DEF DeleteVersion, StoreTypeOK
  <2>5. ASSUME NEW v \in Versions, NEW c \in Chunks, NEW enable \in BOOLEAN,
               SetChunkEnabled(v, c, enable)
        PROVE  StoreTypeOK'
    BY <2>5, StatusSets DEF SetChunkEnabled, Switches
  <2>6. ASSUME NEW d \in Documents, UnpublishDocument(d) PROVE StoreTypeOK'
    BY <2>6, StatusSets DEF UnpublishDocument
  <2>7. ASSUME NEW d \in Documents, DeleteDocument(d) PROVE StoreTypeOK'
    <3>1. DeleteVersions(VersionsOf(d)) /\ VersionsOf(d) \in SUBSET Versions
      BY <2>7 DEF DeleteDocument, VersionsOf
    <3> HIDE DEF StoreTypeOK
    <3>2. /\ vstatus' \in [Versions -> VersionStatuses \cup {"none", "deleted"}]
          /\ number' \in [Versions -> Nat]
          /\ switch' \in [Versions -> [Chunks -> Switches]]
          /\ auto' \in [Versions -> [Chunks -> AutoIndexable]]
          /\ embedded' \in [Versions -> SUBSET Chunks]
          /\ job' \in [Jobs -> JobRows]
      BY <3>1, DeleteVersionsTypes
    <3> QED BY <2>7, <3>2 DEF DeleteDocument, StoreTypeOK, DocStates
  <2>8. ASSUME NEW j \in Jobs, JobTransaction(j) PROVE StoreTypeOK'
    <3>0. job[j] \in JobRows
      OBVIOUS
    <3> USE DEF JobRows, JobStatuses
    <3>1. ASSUME NEW v \in Versions, CreateIngestionJob(j, v) PROVE StoreTypeOK'
      BY <3>1, StatusSets
      DEF CreateIngestionJob, NewJob, JobTypes, Stages, VersionStatuses
    <3>2. ASSUME NEW v \in Versions, CreateIndexingJob(j, v) PROVE StoreTypeOK'
      BY <3>2, StatusSets
      DEF CreateIndexingJob, NewJob, JobTypes, Stages, VersionStatuses
    <3>3. CASE BeginJob(j)
      BY <3>3, <3>0, StatusSets DEF BeginJob
    <3>4. ASSUME NEW t \in JobTypes, NEW s \in LaterStages(t), SetStage(j, t, s)
          PROVE  StoreTypeOK'
      BY <3>4, <3>0, StatusSets DEF SetStage
    <3>5. CASE CompleteIngestion(j)
      BY <3>5, <3>0, StatusSets
      DEF CompleteIngestion, EndJob, Switches, AutoIndexable, Stages
    <3>6. ASSUME NEW newAuto \in [Chunks -> {"yes", "no"}],
                 NEW update \in [Chunks -> Updates],
                 SaveQualityResults(j, newAuto, update)
          PROVE  StoreTypeOK'
      <4> DEFINE v == job[j].version
                 new == [c \in Chunks |-> IF update[c] = "keep" THEN switch[v][c] ELSE update[c]]
      <4>1. newAuto \in [Chunks -> AutoIndexable]
        BY DEF AutoIndexable
      <4>2. v \in Versions => new \in [Chunks -> Switches]
        BY DEF Updates, Switches
      <4>3. /\ auto' = [auto EXCEPT ![v] = newAuto]
            /\ switch' = [switch EXCEPT ![v] = new]
        BY <3>6 DEF SaveQualityResults
      <4> HIDE DEF v, new
      <4>4. auto' \in [Versions -> [Chunks -> AutoIndexable]]
        BY <4>1, <4>3
      <4>5. switch' \in [Versions -> [Chunks -> Switches]]
        BY <4>2, <4>3
      <4> QED BY <3>6, <4>4, <4>5 DEF SaveQualityResults
    <3>7. ASSUME NEW cs \in SUBSET Chunks, SaveEmbeddings(j, cs) PROVE StoreTypeOK'
      BY <3>7 DEF SaveEmbeddings
    <3>8. CASE CompleteIndexing(j)
      BY <3>8, <3>0, StatusSets DEF CompleteIndexing, EndJob, Stages
    <3>9. CASE FailJob(j)
      <4>1. CASE ~Active(j)
        BY <3>9, <4>1 DEF FailJob
      <4>2. CASE Active(j)
        <5>1. job' = [job EXCEPT ![j] = [job[j] EXCEPT !.status = "failed"]]
          BY <3>9, <4>2 DEF FailJob
        <5>2. FailedStatus(job[j].type) \in VersionStatuses
          BY <3>0, StatusSets
        <5> QED BY <3>9, <4>2, <5>1, <5>2, <3>0 DEF FailJob
      <4> QED BY <4>1, <4>2
    <3> QED BY <2>8, <3>1, <3>2, <3>3, <3>4, <3>5, <3>6, <3>7, <3>8, <3>9 DEF JobTransaction
  <2>9. CASE UNCHANGED storeVars
    BY <2>9 DEF storeVars
  <2> QED BY <2>1, <2>2, <2>3, <2>4, <2>5, <2>6, <2>7, <2>8, <2>9
          DEF StoreNext, AdminTransaction
<1> QED BY <1>1, <1>2, PTL DEF StoreSpec

-----------------------------------------------------------------------------
(* The inductive invariant.  Jobs and versions, pointers and versions, and  *)
(* chunks and versions depend on each other: that a version being published *)
(* has no active job needs JobVersionAgreement, that the version it         *)
(* replaces has none needs CurrentIsPublished as well, and that its chunks  *)
(* are embedded needs both.                                                 *)

JobsInv == ActiveJobsHaveVersion /\ JobVersionAgreement /\ OneActiveJob
PointersInv == VersionsHaveDocument /\ CurrentIsPublished
StoreInv == JobsInv /\ PointersInv /\ ReadyIsEmbedded

Working(s) == s \in {"processing", "indexing"}
Ready(s) == s = "ready_to_publish"

LEMMA WorkingStatuses ==
  /\ \A t \in JobTypes : Working(WorkingStatus(t)) /\ ~Working(FailedStatus(t))
  /\ \A s \in {"processing", "indexing"} : \E t \in JobTypes : s = WorkingStatus(t)
  /\ \A t, u \in JobTypes : WorkingStatus(t) = WorkingStatus(u) => t = u
BY DEF Working, WorkingStatus, FailedStatus, JobTypes

\* What holds of a version without an active job.
LEMMA IdleVersions ==
  ASSUME StoreTypeOK, JobsInv, NEW v \in Versions, ~Working(vstatus[v])
  PROVE  \A j \in Jobs : Active(j) => job[j].version # v
BY WorkingStatuses DEF StoreTypeOK, JobRows, JobsInv, JobVersionAgreement

\* A step that leaves the jobs alone and moves versions neither into nor out of
\* a working status.
LEMMA JobsInvSteady ==
  ASSUME StoreTypeOK, JobsInv, job' = job,
         \A v \in Versions : vstatus'[v] # vstatus[v] => ~Working(vstatus[v]) /\ ~Working(vstatus'[v])
  PROVE  JobsInv'
<1>1. ActiveJobsHaveVersion' /\ OneActiveJob'
  BY DEF JobsInv, ActiveJobsHaveVersion, OneActiveJob, Active
<1>2. \A j \in Jobs : Active(j)' => vstatus'[job'[j].version] = WorkingStatus(job'[j].type)
  BY WorkingStatuses
  DEF JobsInv, ActiveJobsHaveVersion, JobVersionAgreement, Active, StoreTypeOK, JobRows
<1>3. \A v \in Versions, t \in JobTypes :
         vstatus'[v] = WorkingStatus(t) => ActiveJobsOfType(v, t)' # {}
  <2>1. SUFFICES ASSUME NEW v \in Versions, NEW t \in JobTypes, vstatus'[v] = WorkingStatus(t)
                 PROVE  ActiveJobsOfType(v, t)' # {}
    OBVIOUS
  <2>2. vstatus[v] = WorkingStatus(t)
    BY <2>1, WorkingStatuses
  <2>3. ActiveJobsOfType(v, t) # {}
    BY <2>2 DEF JobsInv, JobVersionAgreement
  <2> QED BY <2>3 DEF ActiveJobsOfType, ActiveJobs, Active
<1> QED BY <1>1, <1>2, <1>3 DEF JobsInv, JobVersionAgreement

\* A job is created for a version that is not being worked on.
LEMMA JobsInvNewJob ==
  ASSUME StoreTypeOK, JobsInv, NEW j \in Jobs, NEW v \in Versions, NEW t \in JobTypes,
         NEW g \in Stages, NewJob(j, v, t, g), SetVersion(v, WorkingStatus(t)),
         ~Working(vstatus[v])
  PROVE  JobsInv'
<1>1. /\ job'[j] = [status |-> "pending", type |-> t, version |-> v, stage |-> g]
      /\ \A i \in Jobs : i # j => job'[i] = job[i]
      /\ ~Active(j)
  BY DEF NewJob, StoreTypeOK, Active, ActiveStatuses
<1>2. /\ vstatus'[v] = WorkingStatus(t)
      /\ \A w \in Versions : w # v => vstatus'[w] = vstatus[w]
  BY DEF SetVersion, StoreTypeOK
<1>3. \A i \in Jobs : Active(i)' <=> i = j \/ Active(i)
  BY <1>1 DEF Active, ActiveStatuses
<1>4. \A i \in Jobs : Active(i) => job[i].version # v /\ job'[i] = job[i]
  BY <1>1, IdleVersions
<1>5. ActiveJobsHaveVersion' /\ OneActiveJob'
  BY <1>1, <1>3, <1>4 DEF JobsInv, ActiveJobsHaveVersion, OneActiveJob
<1>6. \A i \in Jobs : Active(i)' => vstatus'[job'[i].version] = WorkingStatus(job'[i].type)
  BY <1>1, <1>2, <1>3, <1>4 DEF JobsInv, ActiveJobsHaveVersion, JobVersionAgreement
<1>7. ASSUME NEW w \in Versions, NEW u \in JobTypes, vstatus'[w] = WorkingStatus(u)
      PROVE  ActiveJobsOfType(w, u)' # {}
  <2>1. CASE w = v
    BY <1>1, <1>2, <1>3, <1>7, <2>1, WorkingStatuses DEF ActiveJobsOfType, ActiveJobs
  <2>2. CASE w # v
    <3>1. PICK i \in Jobs : Active(i) /\ job[i].version = w /\ job[i].type = u
      BY <1>2, <1>7, <2>2 DEF JobsInv, JobVersionAgreement, ActiveJobsOfType, ActiveJobs
    <3> QED BY <1>3, <1>4, <3>1 DEF ActiveJobsOfType, ActiveJobs
  <2> QED BY <2>1, <2>2
<1> QED BY <1>5, <1>6, <1>7 DEF JobsInv, JobVersionAgreement

\* An active job ends and its version leaves the working status with it.
LEMMA JobsInvEndJob ==
  ASSUME StoreTypeOK, JobsInv, NEW j \in Jobs, Active(j), NEW s, SetVersion(job[j].version, s),
         ~Working(s), job' \in [Jobs -> JobRows], job'[j].status \notin ActiveStatuses,
         \A i \in Jobs : i # j => job'[i] = job[i]
  PROVE  JobsInv'
<1> DEFINE v == job[j].version
<1>1. /\ v \in Versions
      /\ vstatus'[v] = s
      /\ \A w \in Versions : w # v => vstatus'[w] = vstatus[w]
  BY DEF SetVersion, StoreTypeOK, JobsInv, ActiveJobsHaveVersion
<1>2. \A i \in Jobs : Active(i)' <=> i # j /\ Active(i)
  BY DEF Active
<1>3. \A i \in Jobs : i # j /\ Active(i) => job[i].version # v /\ job'[i] = job[i]
  BY DEF JobsInv, OneActiveJob
<1>4. ActiveJobsHaveVersion' /\ OneActiveJob'
  BY <1>2, <1>3 DEF JobsInv, ActiveJobsHaveVersion, OneActiveJob
<1>5. \A i \in Jobs : Active(i)' => vstatus'[job'[i].version] = WorkingStatus(job'[i].type)
  BY <1>1, <1>2, <1>3 DEF JobsInv, ActiveJobsHaveVersion, JobVersionAgreement
<1>6. ASSUME NEW w \in Versions, NEW u \in JobTypes, vstatus'[w] = WorkingStatus(u)
      PROVE  ActiveJobsOfType(w, u)' # {}
  <2>1. w # v
    BY <1>1, <1>6, WorkingStatuses
  <2>2. PICK i \in Jobs : Active(i) /\ job[i].version = w /\ job[i].type = u
    BY <1>1, <1>6, <2>1 DEF JobsInv, JobVersionAgreement, ActiveJobsOfType, ActiveJobs
  <2> QED BY <1>2, <1>3, <2>1, <2>2 DEF ActiveJobsOfType, ActiveJobs
<1> QED BY <1>4, <1>5, <1>6 DEF JobsInv, JobVersionAgreement

\* Jobs move on without changing hands, and the versions stay.
LEMMA JobsInvProgress ==
  ASSUME StoreTypeOK, JobsInv, vstatus' = vstatus,
         \A i \in Jobs : /\ Active(i)' <=> Active(i)
                         /\ job'[i].version = job[i].version
                         /\ job'[i].type = job[i].type
  PROVE  JobsInv'
<1>1. ActiveJobsHaveVersion' /\ OneActiveJob'
  BY DEF JobsInv, ActiveJobsHaveVersion, OneActiveJob
<1>2. \A v \in Versions, t \in JobTypes : ActiveJobsOfType(v, t)' = ActiveJobsOfType(v, t)
  BY DEF ActiveJobsOfType, ActiveJobs
<1> QED BY <1>1, <1>2 DEF JobsInv, JobVersionAgreement

\* Versions without an active job are deleted, with their jobs.
LEMMA JobsInvDelete ==
  ASSUME StoreTypeOK, JobsInv, NEW vs \in SUBSET Versions, DeleteVersions(vs),
         \A v \in vs : ActiveJobs(v) = {}
  PROVE  JobsInv'
<1>1. \A i \in Jobs : Active(i)' <=> Active(i)
  BY DEF DeleteVersions, ActiveJobs, Active, ActiveStatuses, StoreTypeOK, JobRows
<1>2. \A i \in Jobs : Active(i) => job'[i] = job[i] /\ job[i].version \notin vs
  BY DEF DeleteVersions, ActiveJobs
<1>3. /\ \A v \in Versions \ vs : vstatus'[v] = vstatus[v]
      /\ \A v \in vs : ~Working(vstatus'[v])
  BY DEF DeleteVersions, Working
<1>4. ActiveJobsHaveVersion' /\ OneActiveJob'
  BY <1>1, <1>2 DEF JobsInv, ActiveJobsHaveVersion, OneActiveJob
<1>5. \A i \in Jobs : Active(i)' => vstatus'[job'[i].version] = WorkingStatus(job'[i].type)
  BY <1>1, <1>2, <1>3 DEF JobsInv, ActiveJobsHaveVersion, JobVersionAgreement
<1>6. ASSUME NEW w \in Versions, NEW u \in JobTypes, vstatus'[w] = WorkingStatus(u)
      PROVE  ActiveJobsOfType(w, u)' # {}
  <2>1. w \notin vs
    BY <1>3, <1>6, WorkingStatuses
  <2>2. PICK i \in Jobs : Active(i) /\ job[i].version = w /\ job[i].type = u
    BY <1>3, <1>6, <2>1 DEF JobsInv, JobVersionAgreement, ActiveJobsOfType, ActiveJobs
  <2> QED BY <1>1, <1>2, <2>2 DEF ActiveJobsOfType, ActiveJobs
<1> QED BY <1>4, <1>5, <1>6 DEF JobsInv, JobVersionAgreement

\* A step that leaves documents and pointers alone and neither creates, deletes,
\* publishes nor replaces a version.
LEMMA PointersInvSteady ==
  ASSUME StoreTypeOK, PointersInv, docState' = docState, current' = current,
         \A v \in Versions : vstatus'[v] # vstatus[v] =>
            VersionExists(v) /\ vstatus[v] # "published" /\ vstatus'[v] # "published"
  PROVE  PointersInv'
<1>1. VersionsHaveDocument'
  BY DEF PointersInv, VersionsHaveDocument, VersionExists
<1>2. \A d \in Documents : current'[d] # None =>
        docState'[d] = "live" /\ DocumentOf[current'[d]] = d /\ vstatus'[current'[d]] = "published"
  BY DEF PointersInv, CurrentIsPublished, StoreTypeOK
<1>3. \A v \in Versions : vstatus'[v] = "published" => current'[DocumentOf[v]] = v
  BY DEF PointersInv, CurrentIsPublished
<1> QED BY <1>1, <1>2, <1>3 DEF PointersInv, CurrentIsPublished

\* Only one version changes, and it is neither missing nor published before or
\* after.
LEMMA PointersInvOne ==
  ASSUME StoreTypeOK, PointersInv, docState' = docState, current' = current,
         NEW v \in Versions, NEW s, SetVersion(v, s), VersionExists(v),
         vstatus[v] # "published", s # "published"
  PROVE  PointersInv'
BY PointersInvSteady DEF SetVersion, StoreTypeOK

\* A draft is created in a document that has just been created or was live.
LEMMA PointersInvDraft ==
  ASSUME StoreTypeOK, PointersInv, NEW v \in Versions, vstatus[v] = "none",
         SetVersion(v, "draft"), current' = current,
         docState' \in [Documents -> DocStates], docState'[DocumentOf[v]] = "live",
         \A d \in Documents : docState[d] = "live" => docState'[d] = "live"
  PROVE  PointersInv'
<1>1. vstatus'[v] = "draft" /\ \A w \in Versions : w # v => vstatus'[w] = vstatus[w]
  BY DEF SetVersion, StoreTypeOK
<1>2. VersionsHaveDocument'
  BY <1>1, DocumentOfAssumption DEF PointersInv, VersionsHaveDocument, VersionExists
<1>3. CurrentIsPublished'
  BY <1>1 DEF PointersInv, CurrentIsPublished, StoreTypeOK
<1> QED BY <1>2, <1>3 DEF PointersInv

LEMMA PointersInvPublish ==
  ASSUME StoreTypeOK, PointersInv, NEW v \in Versions, PublishVersion(v)
  PROVE  PointersInv'
<1> DEFINE d == DocumentOf[v]
           old == current[d]
<1>1. /\ d \in Documents
      /\ docState[d] = "live"
      /\ docState' = docState
  BY DocumentOfAssumption
  DEF PublishVersion, PointersInv, VersionsHaveDocument, VersionExists, VersionStatuses
<1>2. /\ vstatus'[v] = "published"
      /\ \A w \in Versions : w # v /\ w # old => vstatus'[w] = vstatus[w]
      /\ \A w \in Versions : w # v /\ w = old => vstatus'[w] = "superseded"
      /\ current'[d] = v
      /\ \A e \in Documents : e # d => current'[e] = current[e]
  BY <1>1 DEF PublishVersion, StoreTypeOK
<1>3. \A w \in Versions : vstatus[w] = "published" => current[DocumentOf[w]] = w
  BY DEF PointersInv, CurrentIsPublished
<1>4. \A e \in Documents : current[e] # None =>
        current[e] \in Versions /\ docState[e] = "live" /\ DocumentOf[current[e]] = e
        /\ vstatus[current[e]] = "published"
  BY DEF PointersInv, CurrentIsPublished, StoreTypeOK
<1>5. old \in Versions => vstatus[old] = "published"
  BY <1>1, <1>4, NoneAssumption
<1>6. VersionsHaveDocument'
  BY <1>1, <1>2, <1>5 DEF PointersInv, VersionsHaveDocument, VersionExists, VersionStatuses
<1>7. \A w \in Versions : vstatus'[w] = "published" => current'[DocumentOf[w]] = w
  <2>1. SUFFICES ASSUME NEW w \in Versions, vstatus'[w] = "published", w # v
                 PROVE  current'[DocumentOf[w]] = w
    BY <1>2
  <2>2. w # old /\ vstatus[w] = "published"
    BY <1>2, <2>1
  <2>3. current[DocumentOf[w]] = w /\ DocumentOf[w] \in Documents
    BY <1>3, <2>2, DocumentOfAssumption
  <2>4. DocumentOf[w] # d
    BY <2>2, <2>3
  <2> QED BY <1>2, <2>3, <2>4
<1>8. \A e \in Documents : current'[e] # None =>
        docState'[e] = "live" /\ DocumentOf[current'[e]] = e /\ vstatus'[current'[e]] = "published"
  <2>1. SUFFICES ASSUME NEW e \in Documents, current'[e] # None, e # d
                 PROVE  /\ docState'[e] = "live"
                        /\ DocumentOf[current'[e]] = e
                        /\ vstatus'[current'[e]] = "published"
    BY <1>1, <1>2
  <2>2. current'[e] = current[e] /\ current[e] \in Versions /\ DocumentOf[current[e]] = e
    BY <1>2, <1>4, <2>1
  <2>3. current[e] # v /\ current[e] # old
    BY <1>1, <1>4, <1>5, <2>1, <2>2, NoneAssumption
  <2> QED BY <1>1, <1>2, <1>4, <2>2, <2>3, <2>1
<1> QED BY <1>6, <1>7, <1>8 DEF PointersInv, CurrentIsPublished

LEMMA PointersInvUnpublish ==
  ASSUME StoreTypeOK, PointersInv, NEW d \in Documents, UnpublishDocument(d)
  PROVE  PointersInv'
<1>1. /\ current[d] \in Versions
      /\ DocumentOf[current[d]] = d
      /\ vstatus[current[d]] = "published"
      /\ docState' = docState
  BY DEF UnpublishDocument, PointersInv, CurrentIsPublished, StoreTypeOK
<1>2. /\ vstatus'[current[d]] = "superseded"
      /\ \A w \in Versions : w # current[d] => vstatus'[w] = vstatus[w]
      /\ current'[d] = None
      /\ \A e \in Documents : e # d => current'[e] = current[e]
  BY <1>1 DEF UnpublishDocument, SetVersion, StoreTypeOK
<1>3. VersionsHaveDocument'
  BY <1>1, <1>2 DEF PointersInv, VersionsHaveDocument, VersionExists, VersionStatuses
<1>4. \A w \in Versions : vstatus'[w] = "published" => current'[DocumentOf[w]] = w
  BY <1>1, <1>2, DocumentOfAssumption DEF PointersInv, CurrentIsPublished
<1>5. \A e \in Documents : current'[e] # None =>
        docState'[e] = "live" /\ DocumentOf[current'[e]] = e /\ vstatus'[current'[e]] = "published"
  BY <1>1, <1>2 DEF PointersInv, CurrentIsPublished, StoreTypeOK
<1> QED BY <1>3, <1>4, <1>5 DEF PointersInv, CurrentIsPublished

\* vs are deleted and no pointer that stays points to one of them.
LEMMA PointersInvDelete ==
  ASSUME StoreTypeOK, PointersInv, NEW vs \in SUBSET Versions, DeleteVersions(vs),
         \A d \in Documents : \/ /\ docState'[d] = docState[d]
                                 /\ current'[d] = current[d]
                                 /\ current[d] \notin vs
                              \/ current'[d] = None /\ VersionsOf(d) \subseteq vs
  PROVE  PointersInv'
<1>1. /\ \A v \in vs : vstatus'[v] = "deleted"
      /\ \A v \in Versions \ vs : vstatus'[v] = vstatus[v]
  BY DEF DeleteVersions
<1>2. \A v \in Versions : vstatus'[v] # "deleted" /\ VersionExists(v) =>
        v \notin vs /\ v \in VersionsOf(DocumentOf[v])
  BY <1>1 DEF VersionsOf
<1>3. \A v \in Versions : VersionExists(v)' =>
        /\ VersionExists(v) /\ v \notin vs /\ DocumentOf[v] \in Documents
        /\ docState'[DocumentOf[v]] = docState[DocumentOf[v]]
        /\ current'[DocumentOf[v]] = current[DocumentOf[v]]
  BY <1>1, <1>2, DocumentOfAssumption DEF VersionExists, VersionStatuses
<1>4. VersionsHaveDocument'
  BY <1>3 DEF PointersInv, VersionsHaveDocument
<1>5. \A v \in Versions : vstatus'[v] = "published" => current'[DocumentOf[v]] = v
  BY <1>1, <1>3 DEF PointersInv, CurrentIsPublished, VersionExists, VersionStatuses
<1>6. \A d \in Documents : current'[d] # None =>
        docState'[d] = "live" /\ DocumentOf[current'[d]] = d /\ vstatus'[current'[d]] = "published"
  BY <1>1 DEF PointersInv, CurrentIsPublished, StoreTypeOK
<1> QED BY <1>4, <1>5, <1>6 DEF PointersInv, CurrentIsPublished

\* Versions become ready only when they are fully embedded, and the chunks of
\* ready ones stay.
LEMMA EmbeddedSteady ==
  ASSUME ReadyIsEmbedded,
         \A v \in Versions : Ready(vstatus'[v]) =>
            \/ FullyEmbedded(v) /\ switch'[v] = switch[v] /\ embedded'[v] = embedded[v]
            \/ Ready(vstatus[v]) /\ switch'[v] = switch[v] /\ embedded'[v] = embedded[v]
  PROVE  ReadyIsEmbedded'
<1>1. SUFFICES ASSUME NEW v \in Versions, Ready(vstatus'[v]) PROVE FullyEmbedded(v)'
  BY DEF ReadyIsEmbedded, Ready
<1>2. FullyEmbedded(v) /\ switch'[v] = switch[v] /\ embedded'[v] = embedded[v]
  BY <1>1 DEF ReadyIsEmbedded, Ready
<1> QED BY <1>2 DEF FullyEmbedded, Enabled

-----------------------------------------------------------------------------
(* Every transaction preserves the invariant.                              *)

LEMMA StoreInvInit == StoreInit => StoreInv
<1> SUFFICES ASSUME StoreInit PROVE StoreInv
  OBVIOUS
<1>1. \A j \in Jobs : ~Active(j)
  BY DEF StoreInit, NoJob, Active, ActiveStatuses
<1>2. \A v \in Versions : vstatus[v] = "none"
  BY DEF StoreInit
<1>3. JobsInv
  BY <1>1, <1>2, WorkingStatuses
  DEF JobsInv, ActiveJobsHaveVersion, JobVersionAgreement, OneActiveJob, Working
<1>4. PointersInv
  BY <1>2 DEF StoreInit, PointersInv, VersionsHaveDocument, VersionExists, VersionStatuses,
              CurrentIsPublished
<1> QED BY <1>2, <1>3, <1>4 DEF StoreInv, ReadyIsEmbedded

LEMMA AdminInv ==
  ASSUME StoreTypeOK, StoreTypeOK', StoreInv, AdminTransaction
  PROVE  StoreInv'
<1> USE DEF StoreInv
<1>1. ASSUME NEW v \in Versions, CreateDocument(v) PROVE StoreInv'
  <2>1. /\ vstatus[v] = "none" /\ vstatus'[v] = "draft"
        /\ \A w \in Versions : w # v => vstatus'[w] = vstatus[w]
    BY <1>1 DEF CreateDocument, SetVersion, StoreTypeOK
  <2>2. JobsInv'
    BY <1>1, <2>1, JobsInvSteady DEF CreateDocument, Working
  <2>3. PointersInv'
    <3>1. docState'[DocumentOf[v]] = "live" /\ SetVersion(v, "draft") /\ current' = current
      BY <1>1, DocumentOfAssumption DEF CreateDocument, StoreTypeOK
    <3>2. \A d \in Documents : docState[d] = "live" => docState'[d] = "live"
      BY <1>1 DEF CreateDocument, StoreTypeOK
    <3> QED BY <2>1, <3>1, <3>2, PointersInvDraft DEF StoreTypeOK
  <2>4. ReadyIsEmbedded'
    BY <1>1, <2>1, EmbeddedSteady DEF CreateDocument, Ready
  <2> QED BY <2>2, <2>3, <2>4
<1>2. ASSUME NEW v \in Versions, CreateVersion(v) PROVE StoreInv'
  <2>1. /\ vstatus[v] = "none" /\ vstatus'[v] = "draft"
        /\ \A w \in Versions : w # v => vstatus'[w] = vstatus[w]
    BY <1>2 DEF CreateVersion, SetVersion, StoreTypeOK
  <2>2. JobsInv'
    BY <1>2, <2>1, JobsInvSteady DEF CreateVersion, Working
  <2>3. PointersInv'
    <3>1. /\ docState' = docState /\ docState[DocumentOf[v]] = "live"
          /\ SetVersion(v, "draft") /\ current' = current
      BY <1>2 DEF CreateVersion
    <3> QED BY <2>1, <3>1, PointersInvDraft DEF StoreTypeOK
  <2>4. ReadyIsEmbedded'
    BY <1>2, <2>1, EmbeddedSteady DEF CreateVersion, Ready
  <2> QED BY <2>2, <2>3, <2>4
<1>3. ASSUME NEW v \in Versions, PublishVersion(v) PROVE StoreInv'
  <2> DEFINE old == current[DocumentOf[v]]
  <2>1. /\ vstatus[v] = "ready_to_publish" /\ FullyEmbedded(v) /\ vstatus'[v] = "published"
        /\ \A w \in Versions : w # v /\ w # old => vstatus'[w] = vstatus[w]
        /\ \A w \in Versions : w # v /\ w = old => vstatus'[w] = "superseded"
        /\ job' = job /\ switch' = switch /\ embedded' = embedded
    BY <1>3 DEF PublishVersion, chunkVars
  <2>2. old \in Versions => vstatus[old] = "published"
    BY NoneAssumption, DocumentOfAssumption DEF PointersInv, CurrentIsPublished
  <2>3. JobsInv'
    BY <2>1, <2>2, JobsInvSteady DEF Working
  <2>4. PointersInv'
    BY <1>3, PointersInvPublish
  <2>5. ReadyIsEmbedded'
    BY <2>1, <2>2, EmbeddedSteady DEF Ready
  <2> QED BY <2>3, <2>4, <2>5
<1>4. ASSUME NEW v \in Versions, DeleteVersion(v) PROVE StoreInv'
  <2>1. /\ DeleteVersions({v}) /\ docState' = docState /\ current' = current
        /\ ActiveJobs(v) = {} /\ current[DocumentOf[v]] # v
    BY <1>4 DEF DeleteVersion
  <2>2. JobsInv'
    BY <2>1, JobsInvDelete, {v} \in SUBSET Versions
  <2>3. \A d \in Documents : current[d] \notin {v}
    BY <2>1, NoneAssumption DEF PointersInv, CurrentIsPublished, StoreTypeOK
  <2>4. PointersInv'
    BY <2>1, <2>3, PointersInvDelete, {v} \in SUBSET Versions
  <2>5. ReadyIsEmbedded'
    BY <2>1, EmbeddedSteady DEF DeleteVersions, Ready
  <2> QED BY <2>2, <2>4, <2>5
<1>5. ASSUME NEW v \in Versions, NEW c \in Chunks, NEW enable \in BOOLEAN,
             SetChunkEnabled(v, c, enable)
      PROVE  StoreInv'
  <2>1. /\ vstatus[v] \in EditableStatuses
        /\ SetVersion(v, "ready_for_review")
        /\ vstatus'[v] = "ready_for_review"
        /\ \A w \in Versions : w # v => vstatus'[w] = vstatus[w] /\ switch'[w] = switch[w]
        /\ job' = job /\ embedded' = embedded /\ docState' = docState /\ current' = current
    BY <1>5 DEF SetChunkEnabled, SetVersion, documentVars, StoreTypeOK
  <2>2. JobsInv'
    BY <2>1, JobsInvSteady DEF EditableStatuses, Working
  <2>3. PointersInv'
    BY <2>1, PointersInvOne DEF EditableStatuses, VersionExists, VersionStatuses
  <2>4. ReadyIsEmbedded'
    BY <2>1, EmbeddedSteady DEF Ready
  <2> QED BY <2>2, <2>3, <2>4
<1>6. ASSUME NEW d \in Documents, UnpublishDocument(d) PROVE StoreInv'
  <2>1. current[d] \in Versions /\ vstatus[current[d]] = "published"
    BY <1>6 DEF UnpublishDocument, PointersInv, CurrentIsPublished, StoreTypeOK
  <2>2. /\ vstatus'[current[d]] = "superseded"
        /\ \A w \in Versions : w # current[d] => vstatus'[w] = vstatus[w]
        /\ job' = job /\ switch' = switch /\ embedded' = embedded
    BY <1>6, <2>1 DEF UnpublishDocument, SetVersion, chunkVars, StoreTypeOK
  <2>3. JobsInv'
    BY <2>1, <2>2, JobsInvSteady DEF Working
  <2>4. PointersInv'
    BY <1>6, PointersInvUnpublish
  <2>5. ReadyIsEmbedded'
    BY <2>1, <2>2, EmbeddedSteady DEF Ready
  <2> QED BY <2>3, <2>4, <2>5
<1>7. ASSUME NEW d \in Documents, DeleteDocument(d) PROVE StoreInv'
  <2> DEFINE vs == VersionsOf(d)
  <2>1. /\ DeleteVersions(vs) /\ vs \in SUBSET Versions
        /\ \A v \in vs : ActiveJobs(v) = {}
    BY <1>7 DEF DeleteDocument, VersionsOf
  <2>2. /\ current'[d] = None
        /\ \A e \in Documents : e # d => current'[e] = current[e] /\ docState'[e] = docState[e]
    BY <1>7 DEF DeleteDocument, StoreTypeOK
  <2>3. JobsInv'
    BY <2>1, JobsInvDelete
  <2>4. \A e \in Documents : e # d => current[e] \notin vs
    BY NoneAssumption DEF PointersInv, CurrentIsPublished, VersionsOf
  <2>5. PointersInv'
    BY <2>1, <2>2, <2>4, PointersInvDelete
  <2>6. ReadyIsEmbedded'
    BY <2>1, EmbeddedSteady DEF DeleteVersions, Ready
  <2> QED BY <2>3, <2>5, <2>6
<1> QED BY <1>1, <1>2, <1>3, <1>4, <1>5, <1>6, <1>7 DEF AdminTransaction

\* What a transaction that ends job j shows of the rows it leaves alone.
LEMMA EndingStep ==
  ASSUME StoreTypeOK, StoreTypeOK', StoreInv, NEW j \in Jobs, Active(j), NEW s,
         SetVersion(job[j].version, s), ~Working(s), s # "published", Ready(s) => FullyEmbedded(job[j].version),
         UNCHANGED documentVars, job'[j].status \notin ActiveStatuses,
         \A i \in Jobs : i # j => job'[i] = job[i],
         \/ UNCHANGED chunkVars
         \/ ~Ready(s) /\ \A w \in Versions : w # job[j].version =>
                            switch'[w] = switch[w] /\ embedded'[w] = embedded[w]
  PROVE  StoreInv'
<1> DEFINE v == job[j].version
<1>1. /\ v \in Versions /\ vstatus[v] = WorkingStatus(job[j].type) /\ job[j].type \in JobTypes
      /\ vstatus'[v] = s
      /\ \A w \in Versions : w # v => vstatus'[w] = vstatus[w]
  BY DEF StoreInv, JobsInv, ActiveJobsHaveVersion, JobVersionAgreement, SetVersion, StoreTypeOK, JobRows
<1>2. JobsInv'
  BY JobsInvEndJob DEF StoreInv, StoreTypeOK
<1>3. VersionExists(v) /\ vstatus[v] # "published"
  BY <1>1, WorkingStatuses DEF VersionExists, VersionStatuses, Working
<1>4. PointersInv'
  BY <1>1, <1>3, PointersInvOne DEF StoreInv, documentVars
<1>5. ReadyIsEmbedded'
  BY <1>1, EmbeddedSteady DEF StoreInv, chunkVars
<1> QED BY <1>2, <1>4, <1>5 DEF StoreInv

LEMMA JobInv ==
  ASSUME StoreTypeOK, StoreTypeOK', StoreInv, NEW j \in Jobs, JobTransaction(j)
  PROVE  StoreInv'
<1>0. /\ job[j] \in JobRows
      /\ \A t \in JobTypes : Processing(j, t) =>
            /\ Active(j) /\ job[j].version \in Versions
            /\ vstatus[job[j].version] = WorkingStatus(t)
            /\ ~Ready(vstatus[job[j].version])
  BY DEF StoreTypeOK, StoreInv, JobsInv, ActiveJobsHaveVersion, JobVersionAgreement, Processing,
         Active, ActiveStatuses, Ready, WorkingStatus, JobTypes
<1>1. ASSUME NEW v \in Versions, NEW t \in JobTypes, NEW g \in Stages, NewJob(j, v, t, g),
             SetVersion(v, WorkingStatus(t)), VersionExists(v), ~Working(vstatus[v]),
             vstatus[v] # "published", UNCHANGED <<documentVars, chunkVars>>
      PROVE  StoreInv'
  <2>1. JobsInv'
    BY <1>1, JobsInvNewJob DEF StoreInv
  <2>2. WorkingStatus(t) # "published" /\ ~Ready(WorkingStatus(t))
    BY DEF WorkingStatus, Ready
  <2>3. PointersInv'
    BY <1>1, <2>2, PointersInvOne DEF StoreInv, documentVars
  <2>4. ReadyIsEmbedded'
    BY <1>1, <2>2, EmbeddedSteady DEF StoreInv, chunkVars, SetVersion, StoreTypeOK
  <2> QED BY <2>1, <2>3, <2>4 DEF StoreInv
<1>2. ASSUME NEW v \in Versions, CreateIngestionJob(j, v) PROVE StoreInv'
  <2>1. /\ NewJob(j, v, "document_processing", "reading")
        /\ SetVersion(v, WorkingStatus("document_processing"))
        /\ "document_processing" \in JobTypes /\ "reading" \in Stages
        /\ VersionExists(v) /\ ~Working(vstatus[v]) /\ vstatus[v] # "published"
    BY <1>2 DEF CreateIngestionJob, WorkingStatus, JobTypes, Stages, VersionExists, VersionStatuses, Working
  <2> QED BY <1>1, <1>2, <2>1 DEF CreateIngestionJob
<1>3. ASSUME NEW v \in Versions, CreateIndexingJob(j, v) PROVE StoreInv'
  <2>1. /\ NewJob(j, v, "knowledge_indexing", "rule_check")
        /\ SetVersion(v, WorkingStatus("knowledge_indexing"))
        /\ "knowledge_indexing" \in JobTypes /\ "rule_check" \in Stages
        /\ VersionExists(v) /\ ~Working(vstatus[v]) /\ vstatus[v] # "published"
    BY <1>3 DEF CreateIndexingJob, WorkingStatus, JobTypes, Stages, VersionExists, VersionStatuses, Working
  <2> QED BY <1>1, <1>3, <2>1 DEF CreateIndexingJob
\* The job moves on and the version stays as it is.
<1>4. ASSUME vstatus' = vstatus, UNCHANGED documentVars,
             \A i \in Jobs : /\ Active(i)' <=> Active(i)
                             /\ job'[i].version = job[i].version
                             /\ job'[i].type = job[i].type,
             \A w \in Versions : Ready(vstatus[w]) =>
                switch'[w] = switch[w] /\ embedded'[w] = embedded[w]
      PROVE  StoreInv'
  <2>1. JobsInv'
    BY <1>4, JobsInvProgress DEF StoreInv
  <2>2. PointersInv'
    BY <1>4, PointersInvSteady DEF StoreInv, documentVars
  <2>3. ReadyIsEmbedded'
    BY <1>4, EmbeddedSteady DEF StoreInv
  <2> QED BY <2>1, <2>2, <2>3 DEF StoreInv
<1>5. CASE BeginJob(j)
  <2>1. Active(j) /\ job[j].version \in Versions
        /\ vstatus[job[j].version] = WorkingStatus(job[j].type)
    BY <1>5 DEF BeginJob, StoreInv, JobsInv, ActiveJobsHaveVersion, JobVersionAgreement
  <2>2. vstatus' = vstatus
    BY <1>5, <2>1 DEF BeginJob, SetVersion, StoreTypeOK
  <2>3. \A i \in Jobs : /\ Active(i)' <=> Active(i)
                        /\ job'[i].version = job[i].version
                        /\ job'[i].type = job[i].type
    BY <1>5, <2>1, <1>0 DEF BeginJob, Active, ActiveStatuses, StoreTypeOK, JobRows
  <2> QED BY <1>4, <1>5, <2>2, <2>3 DEF BeginJob, chunkVars
<1>6. ASSUME NEW t \in JobTypes, NEW g \in LaterStages(t), SetStage(j, t, g) PROVE StoreInv'
  <2>1. \A i \in Jobs : /\ Active(i)' <=> Active(i)
                        /\ job'[i].version = job[i].version
                        /\ job'[i].type = job[i].type
    BY <1>6, <1>0 DEF SetStage, Active, StoreTypeOK, JobRows
  <2> QED BY <1>4, <1>6, <2>1 DEF SetStage, chunkVars
<1>7. CASE CompleteIngestion(j)
  <2>1. /\ Active(j) /\ job'[j].status \notin ActiveStatuses
        /\ \A i \in Jobs : i # j => job'[i] = job[i]
    BY <1>7, <1>0
    DEF CompleteIngestion, EndJob, Active, ActiveStatuses, StoreTypeOK, JobRows, Processing
  <2>2. SetVersion(job[j].version, "ready_for_review") /\ UNCHANGED documentVars
    BY <1>7 DEF CompleteIngestion
  <2>3. \A w \in Versions : w # job[j].version => switch'[w] = switch[w] /\ embedded'[w] = embedded[w]
    BY <1>7 DEF CompleteIngestion, StoreTypeOK
  <2> QED BY <2>1, <2>2, <2>3, EndingStep DEF Working, Ready
<1>8. ASSUME NEW newAuto \in [Chunks -> {"yes", "no"}], NEW update \in [Chunks -> Updates],
             SaveQualityResults(j, newAuto, update)
      PROVE  StoreInv'
  <2>1. /\ job' = job /\ vstatus' = vstatus /\ embedded' = embedded /\ UNCHANGED documentVars
        /\ ~Ready(vstatus[job[j].version])
        /\ \A w \in Versions : w # job[j].version => switch'[w] = switch[w]
    BY <1>8, <1>0 DEF SaveQualityResults, StoreTypeOK, JobTypes
  <2> QED BY <1>4, <2>1 DEF Active
<1>9. ASSUME NEW cs \in SUBSET Chunks, SaveEmbeddings(j, cs) PROVE StoreInv'
  <2>1. /\ job' = job /\ vstatus' = vstatus /\ switch' = switch /\ UNCHANGED documentVars
        /\ ~Ready(vstatus[job[j].version])
        /\ \A w \in Versions : w # job[j].version => embedded'[w] = embedded[w]
    BY <1>9, <1>0 DEF SaveEmbeddings, StoreTypeOK, JobTypes
  <2> QED BY <1>4, <2>1 DEF Active
<1>10. CASE CompleteIndexing(j)
  <2>1. /\ Active(j) /\ job'[j].status \notin ActiveStatuses
        /\ \A i \in Jobs : i # j => job'[i] = job[i]
    BY <1>10, <1>0
    DEF CompleteIndexing, EndJob, Active, ActiveStatuses, StoreTypeOK, JobRows, Processing
  <2>2. /\ SetVersion(job[j].version, "ready_to_publish") /\ UNCHANGED <<documentVars, chunkVars>>
        /\ FullyEmbedded(job[j].version)
    BY <1>10 DEF CompleteIndexing
  <2> QED BY <2>1, <2>2, EndingStep DEF Working
<1>11. CASE FailJob(j)
  <2>1. CASE ~Active(j)
    <3>1. UNCHANGED <<documentVars, chunkVars, vstatus, job>>
      BY <1>11, <2>1 DEF FailJob
    <3> QED BY <1>4, <3>1 DEF chunkVars, Active
  <2>2. CASE Active(j)
    <3>1. /\ job'[j].status \notin ActiveStatuses
          /\ \A i \in Jobs : i # j => job'[i] = job[i]
      BY <1>11, <2>2, <1>0 DEF FailJob, ActiveStatuses, StoreTypeOK, JobRows
    <3>2. SetVersion(job[j].version, FailedStatus(job[j].type)) /\ UNCHANGED <<documentVars, chunkVars>>
      BY <1>11, <2>2 DEF FailJob
    <3>3. LET s == FailedStatus(job[j].type) IN ~Working(s) /\ s # "published" /\ ~Ready(s)
      BY <1>0 DEF FailedStatus, Working, Ready
    <3> QED BY <2>2, <3>1, <3>2, <3>3, EndingStep
  <2> QED BY <2>1, <2>2
<1> QED BY <1>2, <1>3, <1>5, <1>6, <1>7, <1>8, <1>9, <1>10, <1>11 DEF JobTransaction

-----------------------------------------------------------------------------
(* The theorems.                                                           *)

LEMMA StoreInvStep == StoreTypeOK /\ StoreTypeOK' /\ StoreInv /\ [StoreNext]_storeVars => StoreInv'
<1> SUFFICES ASSUME StoreTypeOK, StoreTypeOK', StoreInv, [StoreNext]_storeVars PROVE StoreInv'
  OBVIOUS
<1>1. CASE AdminTransaction
  BY <1>1, AdminInv
<1>2. ASSUME NEW j \in Jobs, JobTransaction(j) PROVE StoreInv'
  BY <1>2, JobInv
<1>3. CASE UNCHANGED storeVars
  <2>1. JobsInv'
    BY <1>3, JobsInvSteady DEF StoreInv, storeVars
  <2>2. PointersInv'
    BY <1>3, PointersInvSteady DEF StoreInv, storeVars
  <2>3. ReadyIsEmbedded'
    BY <1>3, EmbeddedSteady DEF StoreInv, storeVars
  <2> QED BY <2>1, <2>2, <2>3 DEF StoreInv
<1> QED BY <1>1, <1>2, <1>3 DEF StoreNext

\* The inductive invariant holds whatever the callers do.
THEOREM StoreInvariant == StoreSpec => []StoreInv
<1> QED BY StoreTypeCorrect, StoreInvInit, StoreInvStep, PTL DEF StoreSpec

\* A working version has its active job and an active job its working version.
THEOREM JobsAgree == StoreSpec => []JobVersionAgreement
<1>1. StoreInv => JobVersionAgreement
  BY DEF StoreInv, JobsInv
<1> QED BY <1>1, StoreInvariant, PTL

\* The unique index on active jobs is never violated.
THEOREM NoSecondActiveJob == StoreSpec => []OneActiveJob
<1>1. StoreInv => OneActiveJob
  BY DEF StoreInv, JobsInv
<1> QED BY <1>1, StoreInvariant, PTL

\* Pointers and published versions agree.
THEOREM PointersAgree == StoreSpec => []CurrentIsPublished
<1>1. StoreInv => CurrentIsPublished
  BY DEF StoreInv, PointersInv
<1> QED BY <1>1, StoreInvariant, PTL

\* Whatever is ready to publish can be retrieved: its enabled chunks are embedded.
THEOREM ReadyEmbedded == StoreSpec => []ReadyIsEmbedded
<1>1. StoreInv => ReadyIsEmbedded
  BY DEF StoreInv
<1> QED BY <1>1, StoreInvariant, PTL

-----------------------------------------------------------------------------
(* Action properties, from the same invariant.                             *)

\* The rows of ended jobs and of versions ready to publish are out of reach: a
\* worker's transaction needs its job processing, hence its version working.
LEMMA OutOfReach ==
  ASSUME StoreTypeOK, StoreInv, [StoreNext]_storeVars
  PROVE  /\ \A j \in Jobs : job[j].status \in {"completed", "failed"} =>
               job'[j] = job[j] \/ job'[j].status = "deleted"
         /\ \A v \in Versions : vstatus[v] = "ready_to_publish" =>
               \/ <<switch[v], embedded[v]>>' = <<switch[v], embedded[v]>>
               \/ vstatus'[v] \in {"deleted", "ready_for_review"}
<1> DEFINE JobsStay == \A j \in Jobs : job[j].status \in {"completed", "failed"} =>
                          job'[j] = job[j] \/ job'[j].status = "deleted"
           ChunksStay == \A v \in Versions : vstatus[v] = "ready_to_publish" =>
                            \/ <<switch[v], embedded[v]>>' = <<switch[v], embedded[v]>>
                            \/ vstatus'[v] \in {"deleted", "ready_for_review"}
<1>1. ASSUME AdminTransaction PROVE JobsStay /\ ChunksStay
  <2>1. ASSUME NEW v \in Versions, CreateDocument(v) \/ CreateVersion(v) \/ PublishVersion(v)
        PROVE  JobsStay /\ ChunksStay
    BY <2>1 DEF CreateDocument, CreateVersion, PublishVersion, chunkVars
  <2>2. ASSUME NEW d \in Documents, UnpublishDocument(d) PROVE JobsStay /\ ChunksStay
    BY <2>2 DEF UnpublishDocument, chunkVars
  <2>3. ASSUME NEW v \in Versions, NEW c \in Chunks, NEW enable \in BOOLEAN,
               SetChunkEnabled(v, c, enable)
        PROVE  JobsStay /\ ChunksStay
    BY <2>3 DEF SetChunkEnabled, SetVersion, StoreTypeOK
  <2>4. ASSUME NEW vs \in SUBSET Versions, DeleteVersions(vs) PROVE JobsStay /\ ChunksStay
    <3>1. ASSUME NEW j \in Jobs PROVE job'[j] = job[j] \/ job'[j].status = "deleted"
      <4>1. job'[j] = job[j] \/ job'[j] = [job[j] EXCEPT !.status = "deleted"]
        BY <2>4 DEF DeleteVersions
      <4>2. [job[j] EXCEPT !.status = "deleted"].status = "deleted"
        BY DEF StoreTypeOK, JobRows
      <4> QED BY <4>1, <4>2
    <3>2. ChunksStay
      BY <2>4 DEF DeleteVersions
    <3> QED BY <3>1, <3>2
  <2>5. ASSUME NEW v \in Versions, DeleteVersion(v) PROVE JobsStay /\ ChunksStay
    BY <2>4, <2>5, {v} \in SUBSET Versions DEF DeleteVersion
  <2>6. ASSUME NEW d \in Documents, DeleteDocument(d) PROVE JobsStay /\ ChunksStay
    BY <2>4, <2>6, VersionsOf(d) \in SUBSET Versions DEF DeleteDocument, VersionsOf
  <2> HIDE DEF JobsStay, ChunksStay
  <2> QED BY <1>1, <2>1, <2>2, <2>3, <2>5, <2>6 DEF AdminTransaction
<1>2. ASSUME NEW j \in Jobs, JobTransaction(j) PROVE JobsStay /\ ChunksStay
  <2>1. /\ \A i \in Jobs : i # j => job'[i] = job[i]
        /\ job'[j] # job[j] => job[j].status \notin {"completed", "failed"}
    <3>1. CASE \E v \in Versions : CreateIngestionJob(j, v) \/ CreateIndexingJob(j, v)
      BY <3>1 DEF CreateIngestionJob, CreateIndexingJob, NewJob, StoreTypeOK
    <3>2. CASE BeginJob(j) \/ FailJob(j)
      BY <3>2 DEF BeginJob, FailJob, Active, ActiveStatuses, StoreTypeOK
    <3>3. CASE \E t \in JobTypes : \E g \in LaterStages(t) : SetStage(j, t, g)
      BY <3>3 DEF SetStage, Processing, StoreTypeOK
    <3>4. CASE CompleteIngestion(j) \/ CompleteIndexing(j)
      BY <3>4 DEF CompleteIngestion, CompleteIndexing, EndJob, Processing, StoreTypeOK
    <3>5. CASE job' = job
      BY <3>5
    <3> QED BY <1>2, <3>1, <3>2, <3>3, <3>4, <3>5
            DEF JobTransaction, SaveQualityResults, SaveEmbeddings
  <2>2. \A t \in JobTypes : Processing(j, t) => vstatus[job[j].version] # "ready_to_publish"
    BY WorkingStatuses
    DEF StoreInv, JobsInv, JobVersionAgreement, Processing, Active, ActiveStatuses, Working
  <2>3. \A v \in Versions : vstatus[v] = "ready_to_publish" =>
           <<switch[v], embedded[v]>>' = <<switch[v], embedded[v]>>
    <3>1. CASE UNCHANGED chunkVars
      BY <3>1 DEF chunkVars
    <3>2. CASE CompleteIngestion(j)
      BY <3>2, <2>2 DEF CompleteIngestion, StoreTypeOK, JobTypes
    <3>3. ASSUME NEW newAuto \in [Chunks -> {"yes", "no"}], NEW update \in [Chunks -> Updates],
                 SaveQualityResults(j, newAuto, update)
          PROVE  \A v \in Versions : vstatus[v] = "ready_to_publish" =>
                    <<switch[v], embedded[v]>>' = <<switch[v], embedded[v]>>
      BY <3>3, <2>2 DEF SaveQualityResults, StoreTypeOK, JobTypes
    <3>4. ASSUME NEW cs \in SUBSET Chunks, SaveEmbeddings(j, cs)
          PROVE  \A v \in Versions : vstatus[v] = "ready_to_publish" =>
                    <<switch[v], embedded[v]>>' = <<switch[v], embedded[v]>>
      BY <3>4, <2>2 DEF SaveEmbeddings, StoreTypeOK, JobTypes
    <3> QED BY <1>2, <3>1, <3>2, <3>3, <3>4
            DEF JobTransaction, CreateIngestionJob, CreateIndexingJob, BeginJob, SetStage,
                CompleteIndexing, FailJob
  <2> QED BY <2>1, <2>3
<1>3. CASE UNCHANGED storeVars
  BY <1>3 DEF storeVars
<1> QED BY <1>1, <1>2, <1>3 DEF StoreNext

\* A job that has ended is never written again.
THEOREM EndedJobsFinal == StoreSpec => EndedJobsStay
<1> DEFINE A == \A j \in Jobs : job[j].status \in {"completed", "failed"} =>
                   job'[j] = job[j] \/ job'[j].status = "deleted"
<1>1. StoreTypeOK /\ StoreInv /\ [StoreNext]_storeVars => [A]_storeVars
  BY OutOfReach
<1> QED BY <1>1, StoreTypeCorrect, StoreInvariant, PTL DEF StoreSpec, EndedJobsStay

\* What is ready to publish stays as it was indexed.
THEOREM ReadyChunksFinal == StoreSpec => ReadyChunksStay
<1> DEFINE A == \A v \in Versions : vstatus[v] = "ready_to_publish" =>
                   \/ <<switch[v], embedded[v]>>' = <<switch[v], embedded[v]>>
                   \/ vstatus'[v] \in {"deleted", "ready_for_review"}
<1>1. StoreTypeOK /\ StoreInv /\ [StoreNext]_storeVars => [A]_storeVars
  BY OutOfReach
<1> QED BY <1>1, StoreTypeCorrect, StoreInvariant, PTL DEF StoreSpec, ReadyChunksStay

\* Every transaction moves versions along the edges of the diagram only: the
\* transactions that take a version from its job read the status off the job, so
\* this too needs the agreement of jobs and versions.
LEMMA VersionStep ==
  ASSUME StoreTypeOK, StoreInv, [StoreNext]_storeVars, NEW v \in Versions, vstatus'[v] # vstatus[v]
  PROVE  \/ vstatus'[v] = "deleted" /\ vstatus[v] \notin {"processing", "indexing"}
         \/ <<vstatus[v], vstatus'[v]>> \in VersionSteps
<1> DEFINE Edge == \/ vstatus'[v] = "deleted" /\ vstatus[v] \notin {"processing", "indexing"}
                   \/ <<vstatus[v], vstatus'[v]>> \in VersionSteps
<1>1. ASSUME NEW w \in Versions, CreateDocument(w) \/ CreateVersion(w) PROVE Edge
  BY <1>1 DEF CreateDocument, CreateVersion, SetVersion, StoreTypeOK, VersionSteps
<1>2. ASSUME NEW w \in Versions, PublishVersion(w) PROVE Edge
  <2>1. v # w => v = current[DocumentOf[w]] /\ vstatus[v] = "published"
                 /\ vstatus'[v] = "superseded"
    BY <1>2, DocumentOfAssumption, NoneAssumption
    DEF PublishVersion, StoreInv, PointersInv, CurrentIsPublished
  <2>2. v = w => vstatus[v] = "ready_to_publish" /\ vstatus'[v] = "published"
    BY <1>2 DEF PublishVersion
  <2> QED BY <2>1, <2>2 DEF VersionSteps
<1>3. ASSUME NEW w \in Versions, NEW c \in Chunks, NEW enable \in BOOLEAN,
             SetChunkEnabled(w, c, enable)
      PROVE  Edge
  BY <1>3 DEF SetChunkEnabled, EditableStatuses, SetVersion, StoreTypeOK, VersionSteps
<1>4. ASSUME NEW d \in Documents, UnpublishDocument(d) PROVE Edge
  BY <1>4 DEF UnpublishDocument, SetVersion, StoreTypeOK, StoreInv, PointersInv,
              CurrentIsPublished, VersionSteps
<1>5. ASSUME NEW vs \in SUBSET Versions, DeleteVersions(vs), \A w \in vs : ActiveJobs(w) = {}
      PROVE  Edge
  <2>1. v \in vs /\ vstatus'[v] = "deleted"
    BY <1>5 DEF DeleteVersions
  <2>2. vstatus[v] \notin {"processing", "indexing"}
    BY <1>5, <2>1, WorkingStatuses DEF StoreInv, JobsInv, JobVersionAgreement, ActiveJobsOfType
  <2> QED BY <2>1, <2>2
<1>6. ASSUME NEW w \in Versions, DeleteVersion(w) PROVE Edge
  BY <1>5, <1>6, {w} \in SUBSET Versions DEF DeleteVersion
<1>7. ASSUME NEW d \in Documents, DeleteDocument(d) PROVE Edge
  BY <1>5, <1>7, VersionsOf(d) \in SUBSET Versions DEF DeleteDocument, VersionsOf
<1>8. ASSUME NEW j \in Jobs, JobTransaction(j) PROVE Edge
  <2>1. /\ job[j].type \in JobTypes
        /\ Active(j) => /\ vstatus[job[j].version] = WorkingStatus(job[j].type)
                        /\ job[j].version \in Versions
    BY DEF StoreTypeOK, JobRows, StoreInv, JobsInv, JobVersionAgreement, ActiveJobsHaveVersion
  <2>2. \A t \in JobTypes : Processing(j, t) => Active(j) /\ job[j].type = t
    BY DEF Processing, Active, ActiveStatuses
  <2>3. CASE \E w \in Versions : CreateIngestionJob(j, w) \/ CreateIndexingJob(j, w)
    BY <2>3 DEF CreateIngestionJob, CreateIndexingJob, SetVersion, StoreTypeOK, VersionSteps
  <2>4. CASE BeginJob(j)
    BY <2>4, <2>1 DEF BeginJob, SetVersion, StoreTypeOK
  <2>5. CASE CompleteIngestion(j)
    BY <2>5, <2>1, <2>2 DEF CompleteIngestion, SetVersion, StoreTypeOK, WorkingStatus, JobTypes,
                           VersionSteps
  <2>6. CASE CompleteIndexing(j)
    BY <2>6, <2>1, <2>2 DEF CompleteIndexing, SetVersion, StoreTypeOK, WorkingStatus, JobTypes,
                           VersionSteps
  <2>7. CASE FailJob(j)
    BY <2>7, <2>1 DEF FailJob, SetVersion, StoreTypeOK, WorkingStatus, FailedStatus, JobTypes,
                      VersionSteps
  <2>8. CASE vstatus' = vstatus
    BY <2>8
  <2> QED BY <1>8, <2>3, <2>4, <2>5, <2>6, <2>7, <2>8
          DEF JobTransaction, SetStage, SaveQualityResults, SaveEmbeddings
<1>9. CASE UNCHANGED storeVars
  BY <1>9 DEF storeVars
<1>10. ASSUME AdminTransaction PROVE Edge
  <2> HIDE DEF Edge
  <2> QED BY <1>1, <1>2, <1>3, <1>4, <1>6, <1>7, <1>10 DEF AdminTransaction
<1> QED BY <1>8, <1>9, <1>10 DEF StoreNext

\* Versions move along the diagram only.
THEOREM DiagramKept == StoreSpec => VersionDiagram
<1> DEFINE A == \A v \in Versions :
                  vstatus'[v] # vstatus[v] =>
                    \/ vstatus'[v] = "deleted" /\ vstatus[v] \notin {"processing", "indexing"}
                    \/ <<vstatus[v], vstatus'[v]>> \in VersionSteps
<1>1. StoreTypeOK /\ StoreInv /\ [StoreNext]_storeVars => [A]_storeVars
  BY VersionStep
<1> QED BY <1>1, StoreTypeCorrect, StoreInvariant, PTL DEF StoreSpec, VersionDiagram

-----------------------------------------------------------------------------
(* Refinement: what readers see of the store is VersionLifecycle.          *)

\* The lives that the statuses stand for, and what a step that sets one status does
\* to them.
LEMMA LifeTypes ==
  /\ DOMAIN LifeOf = VersionStatuses \cup {"none", "deleted"}
  /\ LifeOf["none"] = "unborn" /\ LifeOf["ready_to_publish"] = "ready"
  /\ LifeOf["published"] = "published" /\ LifeOf["superseded"] = "retired"
  /\ LifeOf["deleted"] = "gone"
  /\ \A s \in {"draft", "processing", "ready_for_review", "indexing", "indexing_failed"} :
        LifeOf[s] = "hidden"
BY DEF LifeOf, VersionStatuses

LEMMA LifeMove ==
  ASSUME StoreTypeOK, NEW v \in Versions, NEW s, SetVersion(v, s)
  PROVE  Lifecycle!Move(v, LifeOf[s])
BY DEF SetVersion, StoreTypeOK, Lifecycle!Move

\* A version that is set to another hidden status is not seen to move.
LEMMA LifeSteady ==
  ASSUME StoreTypeOK, NEW v \in Versions, NEW s, SetVersion(v, s), current' = current,
         LifeOf[vstatus[v]] = LifeOf[s]
  PROVE  UNCHANGED Lifecycle!vars
BY DEF SetVersion, StoreTypeOK, Lifecycle!vars

LEMMA LifeDeletes ==
  ASSUME StoreTypeOK, NEW vs \in SUBSET Versions, DeleteVersions(vs)
  PROVE  [v \in Versions |-> LifeOf[vstatus[v]]]'
           = [v \in Versions |-> IF v \in vs THEN "gone" ELSE LifeOf[vstatus[v]]]
BY LifeTypes DEF DeleteVersions

\* Every transaction is a step of the lifecycle or changes nothing there.
LEMMA LifeStep ==
  ASSUME StoreTypeOK, StoreInv, [StoreNext]_storeVars
  PROVE  [Lifecycle!Next]_(Lifecycle!vars)
<1> DEFINE Goal == [Lifecycle!Next]_(Lifecycle!vars)
           L == [v \in Versions |-> LifeOf[vstatus[v]]]
<1>0. \A v \in Versions : L[v] = LifeOf[vstatus[v]]
  OBVIOUS
<1>1. ASSUME NEW v \in Versions, CreateDocument(v) \/ CreateVersion(v) PROVE Goal
  <2>1. /\ vstatus[v] = "none" /\ SetVersion(v, "draft") /\ current' = current
        /\ LifeOf["draft"] = "hidden"
    BY <1>1, LifeTypes DEF CreateDocument, CreateVersion
  <2>2. Lifecycle!Create(v)
    BY <2>1, LifeMove, LifeTypes DEF Lifecycle!Create
  <2> QED BY <2>2 DEF Lifecycle!Next
<1>2. ASSUME NEW v \in Versions, PublishVersion(v) PROVE Goal
  <2>1. Lifecycle!Publish(v)
    BY <1>2, LifeTypes, DocumentOfAssumption DEF PublishVersion, Lifecycle!Publish
  <2> QED BY <2>1 DEF Lifecycle!Next
<1>3. ASSUME NEW v \in Versions, NEW c \in Chunks, NEW enable \in BOOLEAN,
             SetChunkEnabled(v, c, enable)
      PROVE  Goal
  <2>1. /\ SetVersion(v, "ready_for_review") /\ current' = current
        /\ vstatus[v] \in EditableStatuses /\ LifeOf["ready_for_review"] = "hidden"
    BY <1>3, LifeTypes DEF SetChunkEnabled, documentVars
  <2>2. CASE vstatus[v] = "ready_to_publish"
    <3>1. Lifecycle!Reopen(v)
      BY <2>1, <2>2, LifeMove, LifeTypes DEF Lifecycle!Reopen
    <3> QED BY <3>1 DEF Lifecycle!Next
  <2>3. CASE vstatus[v] # "ready_to_publish"
    BY <2>1, <2>3, LifeSteady, LifeTypes DEF EditableStatuses
  <2> QED BY <2>2, <2>3
<1>4. ASSUME NEW d \in Documents, UnpublishDocument(d) PROVE Goal
  <2>1. /\ current[d] \in Versions /\ SetVersion(current[d], "superseded")
        /\ current[d] # None /\ current' = [current EXCEPT ![d] = None]
    BY <1>4 DEF UnpublishDocument, StoreTypeOK
  <2>2. Lifecycle!Withdraw(d)
    BY <2>1, LifeMove, LifeTypes DEF Lifecycle!Withdraw
  <2> QED BY <2>2 DEF Lifecycle!Next
<1>5. ASSUME NEW v \in Versions, DeleteVersion(v) PROVE Goal
  <2>1. /\ vstatus[v] \in DeletableStatuses /\ current[DocumentOf[v]] # v
        /\ {v} \in SUBSET Versions /\ DeleteVersions({v}) /\ current' = current
    BY <1>5 DEF DeleteVersion
  <2>2. L' = [w \in Versions |-> IF w \in {v} THEN "gone" ELSE LifeOf[vstatus[w]]]
    BY <2>1, LifeDeletes
  <2>3. Lifecycle!Move(v, "gone")
    BY <2>2 DEF Lifecycle!Move
  <2>4. L[v] \in {"hidden", "ready", "retired"}
    BY <2>1, LifeTypes DEF DeletableStatuses
  <2>5. Lifecycle!RemoveVersion(v)
    BY <2>1, <2>3, <2>4 DEF Lifecycle!RemoveVersion
  <2> QED BY <2>5 DEF Lifecycle!Next
<1>6. ASSUME NEW d \in Documents, DeleteDocument(d) PROVE Goal
  <2>1. /\ current' = [current EXCEPT ![d] = None]
        /\ VersionsOf(d) \in SUBSET Versions /\ DeleteVersions(VersionsOf(d))
    BY <1>6 DEF DeleteDocument, VersionsOf
  <2>2. L' = [v \in Versions |-> IF v \in VersionsOf(d) THEN "gone" ELSE LifeOf[vstatus[v]]]
    BY <2>1, LifeDeletes
  <2>3. \A v \in Versions :
          (IF v \in VersionsOf(d) THEN "gone" ELSE LifeOf[vstatus[v]])
             = (IF DocumentOf[v] = d /\ L[v] # "unborn" THEN "gone" ELSE L[v])
    <3> TAKE v \in Versions
    <3>1. CASE VersionExists(v)
      <4>1. LifeOf[vstatus[v]] # "unborn"
        BY <3>1, LifeTypes DEF VersionExists, VersionStatuses
      <4> QED BY <3>1, <4>1 DEF VersionsOf
    <3>2. CASE ~VersionExists(v)
      <4>1. vstatus[v] \in {"none", "deleted"}
        BY <3>2 DEF VersionExists, StoreTypeOK
      <4> QED BY <3>2, <4>1, LifeTypes DEF VersionsOf
    <3> QED BY <3>1, <3>2
  <2>4. Lifecycle!RemoveDocument(d)
    BY <2>1, <2>2, <2>3 DEF Lifecycle!RemoveDocument
  <2> QED BY <2>4 DEF Lifecycle!Next
<1>7. ASSUME NEW j \in Jobs, JobTransaction(j) PROVE Goal
  <2> DEFINE v == job[j].version
  <2>1. /\ job[j].type \in JobTypes
        /\ Active(j) => /\ vstatus[v] = WorkingStatus(job[j].type)
                        /\ v \in Versions
    BY DEF StoreTypeOK, JobRows, StoreInv, JobsInv, JobVersionAgreement, ActiveJobsHaveVersion
  <2>2. \A t \in JobTypes : Processing(j, t) => Active(j) /\ job[j].type = t
    BY DEF Processing, Active, ActiveStatuses
  <2>3. \A t \in JobTypes : LifeOf[WorkingStatus(t)] = "hidden" /\ LifeOf[FailedStatus(t)] = "hidden"
    BY LifeTypes DEF WorkingStatus, FailedStatus, JobTypes
  <2>4. ASSUME NEW w \in Versions, CreateIngestionJob(j, w) \/ CreateIndexingJob(j, w) PROVE Goal
    <3>1. /\ current' = current /\ LifeOf[vstatus[w]] = "hidden"
          /\ \E s \in {"processing", "indexing"} : SetVersion(w, s) /\ LifeOf[s] = "hidden"
      BY <2>4, LifeTypes DEF CreateIngestionJob, CreateIndexingJob, documentVars
    <3> QED BY <3>1, LifeSteady
  <2>5. CASE BeginJob(j)
    <3>1. Active(j) /\ SetVersion(v, WorkingStatus(job[j].type)) /\ current' = current
      BY <2>5 DEF BeginJob, documentVars
    <3> QED BY <3>1, <2>1, <2>3, LifeSteady
  <2>6. CASE CompleteIngestion(j)
    <3>1. /\ Active(j) /\ SetVersion(v, "ready_for_review") /\ current' = current
          /\ LifeOf["ready_for_review"] = "hidden"
      BY <2>6, <2>2, LifeTypes DEF CompleteIngestion, documentVars, JobTypes
    <3> QED BY <3>1, <2>1, <2>3, LifeSteady
  <2>7. CASE CompleteIndexing(j)
    <3>1. /\ Active(j) /\ current' = current
          /\ vstatus' = [vstatus EXCEPT ![v] = "ready_to_publish"]
      BY <2>7, <2>2 DEF CompleteIndexing, documentVars, JobTypes, SetVersion
    <3>2. PICK w \in Versions : w = v
      BY <3>1, <2>1
    <3>3. SetVersion(w, "ready_to_publish") /\ LifeOf[vstatus[w]] = "hidden"
      BY <3>1, <3>2, <2>1, <2>3 DEF SetVersion
    <3>4. Lifecycle!Prepare(w)
      BY <3>1, <3>3, LifeMove, LifeTypes DEF Lifecycle!Prepare
    <3> QED BY <3>4 DEF Lifecycle!Next
  <2>8. CASE FailJob(j) /\ Active(j)
    <3>1. SetVersion(v, FailedStatus(job[j].type)) /\ current' = current
      BY <2>8 DEF FailJob, documentVars
    <3> QED BY <3>1, <2>8, <2>1, <2>3, LifeSteady
  <2>9. CASE vstatus' = vstatus /\ current' = current
    BY <2>9 DEF Lifecycle!vars
  <2> HIDE DEF Goal
  <2> QED BY <1>7, <2>4, <2>5, <2>6, <2>7, <2>8, <2>9
          DEF JobTransaction, SetStage, SaveQualityResults, SaveEmbeddings, FailJob, documentVars
<1>8. CASE UNCHANGED storeVars
  BY <1>8 DEF storeVars, Lifecycle!vars
<1>9. ASSUME AdminTransaction PROVE Goal
  <2> HIDE DEF Goal
  <2> QED BY <1>1, <1>2, <1>3, <1>4, <1>5, <1>6, <1>9 DEF AdminTransaction
<1> QED BY <1>7, <1>8, <1>9 DEF StoreNext

\* The store implements the lifecycle that readers of published versions rely on.
THEOREM LifecycleImplemented == StoreSpec => LifecycleSpec
<1>1. StoreInit => Lifecycle!Init
  BY LifeTypes DEF StoreInit, Lifecycle!Init
<1>2. StoreTypeOK /\ StoreInv /\ [StoreNext]_storeVars => [Lifecycle!Next]_(Lifecycle!vars)
  BY LifeStep
<1> QED BY <1>1, <1>2, StoreTypeCorrect, StoreInvariant, PTL
        DEF StoreSpec, LifecycleSpec, Lifecycle!Spec

-----------------------------------------------------------------------------
(* Version numbers.                                                        *)

\* A new version's number is above those of all versions of its document.
LEMMA NewVersionDistinct ==
  ASSUME StoreTypeOK, VersionsDistinct, NEW v \in Versions, NEW n \in Nat,
         ~VersionExists(v), SetVersion(v, "draft"), number' = [number EXCEPT ![v] = n],
         \A w \in VersionsOf(DocumentOf[v]) : number[w] < n /\ ContentOf[w] # ContentOf[v]
  PROVE  VersionsDistinct'
<1>1. /\ number'[v] = n
      /\ \A w \in Versions : w # v =>
            /\ number'[w] = number[w] /\ number[w] \in Nat
            /\ VersionExists(w)' <=> VersionExists(w)
  BY DEF StoreTypeOK, SetVersion, VersionExists
<1>2. \A w \in Versions : w # v /\ VersionExists(w) /\ DocumentOf[w] = DocumentOf[v] =>
         number[w] < n /\ ContentOf[w] # ContentOf[v]
  BY DEF VersionsOf
<1>3. ASSUME NEW u \in Versions, NEW w \in Versions, u # w, VersionExists(u)', VersionExists(w)',
             DocumentOf[u] = DocumentOf[w]
      PROVE  number'[u] # number'[w] /\ ContentOf[u] # ContentOf[w]
  <2>1. CASE u = v
    BY <1>1, <1>2, <1>3, <2>1
  <2>2. CASE w = v
    BY <1>1, <1>2, <1>3, <2>2
  <2>3. CASE u # v /\ w # v
    BY <1>1, <1>3, <2>3 DEF VersionsDistinct
  <2> QED BY <2>1, <2>2, <2>3
<1> QED BY <1>3 DEF VersionsDistinct

\* A step that creates no version and renumbers none of those that stay.
LEMMA DistinctSteady ==
  ASSUME VersionsDistinct,
         \A v \in Versions : VersionExists(v)' => VersionExists(v) /\ number'[v] = number[v]
  PROVE  VersionsDistinct'
BY DEF VersionsDistinct

\* Numbers and contents stay unique, whatever is deleted in between.
THEOREM NumbersDistinct == StoreSpec => []VersionsDistinct
<1>1. StoreInit => VersionsDistinct
  BY DEF StoreInit, VersionsDistinct, VersionExists, VersionStatuses
<1>2. StoreTypeOK /\ StoreInv /\ VersionsDistinct /\ [StoreNext]_storeVars => VersionsDistinct'
  <2> SUFFICES ASSUME StoreTypeOK, StoreInv, VersionsDistinct, [StoreNext]_storeVars
               PROVE  VersionsDistinct'
    OBVIOUS
  <2>1. ASSUME NEW v \in Versions, CreateDocument(v) PROVE VersionsDistinct'
    <3>1. VersionsOf(DocumentOf[v]) = {}
      BY <2>1 DEF CreateDocument, StoreInv, PointersInv, VersionsHaveDocument, VersionsOf
    <3>2. ~VersionExists(v)
      BY <2>1 DEF CreateDocument, VersionExists, VersionStatuses
    <3>3. SetVersion(v, "draft") /\ number' = [number EXCEPT ![v] = 1] /\ 1 \in Nat
      BY <2>1 DEF CreateDocument
    <3> QED BY <3>1, <3>2, <3>3, NewVersionDistinct
  <2>2. ASSUME NEW v \in Versions, CreateVersion(v) PROVE VersionsDistinct'
    <3>1. PICK n \in 1..MaxVersionNumber :
             NextNumber(DocumentOf[v], n) /\ number' = [number EXCEPT ![v] = n]
      BY <2>2 DEF CreateVersion
    <3>2. n \in Nat
      BY NumberAssumption
    <3>3. ~VersionExists(v) /\ SetVersion(v, "draft")
      BY <2>2 DEF CreateVersion, VersionExists, VersionStatuses
    <3>4. \A w \in VersionsOf(DocumentOf[v]) : number[w] < n /\ ContentOf[w] # ContentOf[v]
      BY <2>2, <3>1 DEF CreateVersion, NextNumber
    <3> QED BY <3>1, <3>2, <3>3, <3>4, NewVersionDistinct
  <2>3. ASSUME NEW vs \in SUBSET Versions, DeleteVersions(vs) PROVE VersionsDistinct'
    BY <2>3, DistinctSteady DEF DeleteVersions, VersionExists, VersionStatuses
  <2>4. ASSUME number' = number,
               \A v \in Versions : vstatus'[v] # vstatus[v] => vstatus[v] # "none"
        PROVE  VersionsDistinct'
    <3>1. \A v \in Versions : vstatus'[v] # vstatus[v] /\ VersionExists(v)' => VersionExists(v)
      BY <2>4, VersionStep DEF VersionSteps, VersionExists, VersionStatuses
    <3> QED BY <2>4, <3>1, DistinctSteady DEF VersionExists
  <2>5. ASSUME NEW v \in Versions, PublishVersion(v) PROVE VersionsDistinct'
    BY <2>4, <2>5, DocumentOfAssumption, NoneAssumption
    DEF PublishVersion, StoreInv, PointersInv, CurrentIsPublished
  <2>6. ASSUME NEW v \in Versions, NEW c \in Chunks, NEW enable \in BOOLEAN,
               SetChunkEnabled(v, c, enable)
        PROVE  VersionsDistinct'
    BY <2>4, <2>6 DEF SetChunkEnabled, EditableStatuses, SetVersion, documentVars, StoreTypeOK
  <2>7. ASSUME NEW d \in Documents, UnpublishDocument(d) PROVE VersionsDistinct'
    BY <2>4, <2>7 DEF UnpublishDocument, SetVersion, StoreTypeOK, StoreInv, PointersInv,
                      CurrentIsPublished
  <2>8. ASSUME NEW j \in Jobs, JobTransaction(j) PROVE VersionsDistinct'
    <3>1. number' = number
      BY <2>8 DEF JobTransaction, CreateIngestionJob, CreateIndexingJob, BeginJob, SetStage,
                  CompleteIngestion, SaveQualityResults, SaveEmbeddings, CompleteIndexing, FailJob,
                  documentVars
    <3>2. \A t \in JobTypes : Processing(j, t) => Active(j)
      BY DEF Processing, Active, ActiveStatuses
    <3>3. Active(j) => vstatus[job[j].version] # "none"
      BY DEF StoreInv, JobsInv, JobVersionAgreement, WorkingStatus
    <3>4. \A v \in Versions : vstatus'[v] # vstatus[v] => vstatus[v] # "none"
      <4>1. CASE \E w \in Versions : CreateIngestionJob(j, w) \/ CreateIndexingJob(j, w)
        BY <4>1 DEF CreateIngestionJob, CreateIndexingJob, SetVersion, StoreTypeOK
      <4>2. CASE BeginJob(j) \/ CompleteIngestion(j) \/ CompleteIndexing(j) \/ FailJob(j)
        BY <4>2, <3>2, <3>3
        DEF BeginJob, CompleteIngestion, CompleteIndexing, FailJob, SetVersion, StoreTypeOK,
            JobTypes
      <4>3. CASE vstatus' = vstatus
        BY <4>3
      <4> QED BY <2>8, <4>1, <4>2, <4>3
              DEF JobTransaction, SetStage, SaveQualityResults, SaveEmbeddings
    <3> QED BY <2>4, <3>1, <3>4
  <2>9. ASSUME NEW v \in Versions, DeleteVersion(v) PROVE VersionsDistinct'
    BY <2>3, <2>9, {v} \in SUBSET Versions DEF DeleteVersion
  <2>10. ASSUME NEW d \in Documents, DeleteDocument(d) PROVE VersionsDistinct'
    BY <2>3, <2>10, VersionsOf(d) \in SUBSET Versions DEF DeleteDocument, VersionsOf
  <2>11. CASE UNCHANGED storeVars
    BY <2>11, DistinctSteady DEF storeVars, VersionExists
  <2>12. ASSUME AdminTransaction PROVE VersionsDistinct'
    BY <2>1, <2>2, <2>5, <2>6, <2>7, <2>9, <2>10, <2>12 DEF AdminTransaction
  <2> QED BY <2>8, <2>11, <2>12 DEF StoreNext
<1> QED BY <1>1, <1>2, StoreTypeCorrect, StoreInvariant, PTL DEF StoreSpec
=============================================================================
