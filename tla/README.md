# ResumeGraph: specifications, model checks and proofs

ResumeGraph answers recruiters' questions about one person from a knowledge
base that administrators curate.  This directory specifies that system in TLA+ -
the knowledge base from upload to publication and its deduplication, the
administrators and the recruiters' access, the conversations and the agents that
answer - checks it with TLC on small instances and proves its safety properties
with TLAPS for instances of any size.

The reference for every definition is the Python source under `src/app`; the
documents are quoted only where the code is compared with what they say.

| Module | What it is |
|---|---|
| `VersionLifecycle.tla` | what a reader of published knowledge may rely on: the abstract specification of the next two |
| `KnowledgeStore.tla` | the PostgreSQL tables of the knowledge base and the repositories' transactions |
| `Deduplication.tla` | the rebuilds that follow publication, withdrawal and deletion |
| `KnowledgePipeline.tla` | the request handlers, the ARQ queue and the workers that run the store's transactions, with failures between them |
| `LeasedTurns.tla` | what the clients of a conversation may rely on: the abstract specification of the next |
| `InterviewConversation.tla` | one conversation: the handlers that answer its questions, and the keys in Redis and the quota they share |
| `Administrators.tla` | accounts, sessions and failure limiters, and the requests that use them |
| `AccessControl.tla` | extends `Administrators` with projects, access grants, the public demo and the recruiters' requests |
| `AgentGraph.tla` | one run of the agent graph, or of the single-question service, over published chunks |
| `*Proofs.tla` | theorems: `VersionLifecycleProofs`, `KnowledgeStoreProofs`, `KnowledgePipelineProofs`, `DeduplicationProofs`, `InterviewConversationProofs`, `AccessControlProofs`, `AgentGraphProofs` |
| `MC*.tla`, `*.cfg` | TLC instances |
| `PROJECT.json` | which source lines each definition models, the runs, the mutants that show what each property detects, hazards, findings, theorems |

## 1. Inventory

An HTTP API (FastAPI, `app/api`, `app/services`), a worker (ARQ, `app/worker.py`),
PostgreSQL with pgvector (`app/repositories`, `app/models`), Redis
(`app/infrastructure`: the job queue, sessions, limiters, short-term
conversations) and three providers reached by HTTP: embeddings, the quality
judge and the chat model.

### Knowledge base

| Component | State | Operations | What makes it correct |
|---|---|---|---|
| Documents and versions `repositories/knowledge_document.py` | `knowledge_documents`, `document_versions` | create a document with its version 1; create a version; rename | numbers and contents of a document's versions are distinct, also after deletions |
| Jobs `repositories/ingestion.py`, `repositories/indexing.py` | `ingestion_jobs`, `document_chunks`, `chunk_embeddings` | create, begin, set stage, save chunks / quality / embeddings, complete, fail | version status and active jobs agree; one active job per version; a job that ended stays as it is |
| Job requests and queue `services/ingestion.py`, `services/indexing.py`, `infrastructure/job_queue.py` | the ARQ queue in Redis | commit a job, enqueue it, compensate when that fails, enqueue a pending job again | a failed enqueue and a repeated request never part a job from its version; a stranded job can be recovered |
| Workers `services/ingestion_worker.py`, `services/indexing_worker.py`, `worker.py` | local: the chunks read at the start | a sequence of transactions with provider calls in between | what the task read is still true when it writes; every way out is recorded |
| Review and publication `repositories/publication.py`, `services/publication.py` | chunk switches, version status, the document's current version | switch a chunk; publish; unpublish | what is published was fully indexed since its last edit; pointer and status agree |
| Deletion `repositories/knowledge_lifecycle.py` | all of the above, by cascade | delete a version, a document | nothing is deleted under a job; no pointer dangles |
| Deduplication `repositories/deduplication.py`, `services/deduplication.py` | switches and embeddings of published chunks; local: a snapshot and a plan | load, plan, embed, apply if nothing was published since, else retry | of equal published chunks exactly the earliest can be found, and no content disappears on the way |

They interact through the tables and the queue only.  The hard part is that a
handler, a task or a rebuild is *many* transactions: between any two of them the
process may stop, be cancelled, or find that others have failed its job, edited
the version, published another one or deleted the document.

### Access and administration

| Component | State | Operations | What makes it correct |
|---|---|---|---|
| Administrators `repositories/admin_user.py`, `services/admin_auth.py`, `services/admin_user_management.py`, `infrastructure/admin_session.py` | `admin_users`; sessions in Redis | log in, authenticate a request, create, delete, log out | one is always left; sessions of a deleted one are useless |
| Failure limiter `infrastructure/failure_limiter.py` | counters in Redis with a time to live | is limited, record, clear | failures stay bounded although check and count are apart |
| Grants and recruiter sessions `repositories/access_grant.py`, `services/access_grant.py`, `infrastructure/recruiter_session.py` | `access_grants`, `grant_projects`; sessions in Redis | create, revoke, exchange a token, admit, authenticate, charge | the quota is never exceeded; no session outlives its grant in effect |
| Projects `repositories/project.py` | `projects` | create, rename, delete | not deleted while a grant or a document names them |
| Public demo `services/public_demo.py` | one configuration row | configure, open a session | a demo session is worth what its grant is worth |

Every call of a handler is a statement or a Redis command of its own; what was
read in one may be gone in the next.

### Interview

| Component | State | Operations | What makes it correct |
|---|---|---|---|
| Conversations `services/interview_workflow.py`, `infrastructure/interview_conversation.py` | in Redis, with times to live: the conversation and its recent turns, a lock, a record per request id | ask, create, delete | a request id is charged and answered once; one turn at a time while locks live |
| Agent graph `agent/*.py` | route, evidence, draft, verification, counters | route, search, draft, verify, repair, finalize | it ends within its budgets and publishes only what was verified |
| Retrieval `repositories/retrieval.py`, `services/retrieval.py` | none | search, revalidate | only published, enabled, embedded chunks that the grant covers |
| Single question `services/interview.py` | none | retrieve, answer, check the citations | an answer cites only what can still be found |

### Not state machines

Text cleaning and chunking, the deterministic rules, configuration, wiring,
health probes, schemas, migrations and the React pages hold no state the
components above do not own (section 8).  `PROJECT.json` lists them with their
reasons, and the hazards of all components at their lines.

## 2. How the modules are composed

`KnowledgePipeline` extends `KnowledgeStore` and shows that handlers and workers
only ever take the store's steps.  `Deduplication` takes the versions where
indexing leaves them (`ready_to_publish`) and has publication again, with what
follows it; the store leaves that out.  Both implement `VersionLifecycle`, which
is where they meet: `current` is the same variable, and `life` maps the
statuses of the store, and those of `Deduplication`, to hidden, ready,
published, retired and gone.  `AgentGraph` reads the result - chunks that are
published, enabled and embedded - as a set that the administrators change under
it.  `AccessControl` extends `Administrators`; whoever manages projects, grants
and the demo was authenticated by it.  `InterviewConversation` has the charge to
the grant's quota that `AccessControl` shows for several sessions, and a run of
`AgentGraph` as one step that may end either way.  It implements
`LeasedTurns`, in which there is no lock and no Redis, only calls that take turns on
a lease: `Serving` maps each handler past `BeginRequest` to its question, to how far
it is (`PhaseOf`) and to whether its lock has expired.

## 3. Modules and code

### KnowledgeStore

One variable per column that a decision reads.  Ids are drawn once: a row goes
from `"none"` to a live status and, deleted, to `"deleted"`, so "any id not yet
used" is what `uuid4()` may return.

| Variable | Code |
|---|---|
| `docState`, `current` | `knowledge_documents` and its `current_published_version_id` |
| `vstatus`, `number` | `document_versions.status`, `.version_number` |
| `switch` | `document_chunks.enabled` with `disabled_reason`, one value: the check constraint couples the two |
| `auto` | `document_chunks.auto_indexable` (`unchecked` is NULL) |
| `embedded` | chunks that have a `chunk_embeddings` row of the active identity and of their content hash |
| `job` | `ingestion_jobs`: status, type, version, stage |

Every repository method opens one session, locks the rows it decides on with
`SELECT ... FOR UPDATE` and commits once, so it is one action named after it
(`CreateVersion`, `BeginJob`, `CompleteIngestion`, `SaveQualityResults`,
`PublishVersion`, `DeleteDocument`, ...).  What the method checks before it
writes is the action's guard; a method that finds nothing to do, or raises,
changes nothing.  `FailJob` stands for `fail_job` and `mark_enqueue_failed`,
which both do nothing to a job that has ended.

Two things are deliberately *not* guards.  The partial unique index on active
jobs is left out, so that `OneActiveJob` shows that the repositories' own checks
suffice.  And `StoreSpec` lets any caller run any transaction at any time, so
that what it promises does not depend on the services being well behaved.

Abstractions: contents are values of `ContentOf`; the rules' verdict on a chunk
is `RuleOf`, a constant, because `quality/rules.py` is a function of the text
(`exact_duplicate` stands for a chunk equal to an earlier one of its version);
there is one embedding identity; a new ingestion writes the same positions.

### KnowledgePipeline

| Variable | Code |
|---|---|
| `queue` | messages in the ARQ queue, by `_job_id` |
| `request` | handlers of `create_job` between its commit and its return |
| `run` | tasks: what they do next, the job, and what `begin_job` returned (`enabled`, `checked`) |
| `losses` | number of faults bounded by `MaxLosses` |

A handler is `RequestNewJob` or `RequestPendingJob` (the commit), then `Enqueue`,
or `EnqueueFails` (an exception or a time-out: the message may be there all the
same) and `MarkEnqueueFailed`; `AbandonRequest` stops it anywhere, which also
covers the swallowed failure of `mark_enqueue_failed`.  A task is `Take`
(`begin_job`), then the stages of `IngestionWorker.run` or `IndexingWorker.run`,
one action per transaction.  `TaskFails` is any exception, or ARQ's cancellation
at `job_timeout` or shutdown, at any await; `RecordFailure` is the `fail_job` of
the except clauses.  `LoseTask` is a kill, a failing `fail_job`, or a failing
`begin_job` (outside the try block): ARQ has `max_tries=1`, so the message is
gone with the task.  `LoseMessage` is `_expires` or a Redis restart.  The
quality judge may decide anything about every chunk (`\E indexable`).

`InQueue` is external: ARQ refuses a second message with a `_job_id` it holds,
waiting or running (`keep_result=0` lets a finished one be queued again).

The rebuild of the deduplication scope that follows publication, withdrawal and
deletion is in `Deduplication`.  It rewrites switches and embeddings of *published*
versions; no property of these two modules speaks of the chunks of a published
version, with one exception, `HardBlockedStaysOff`, which a rebuild does not touch
since it only reads chunks that are enabled or `exact_duplicate`.

### VersionLifecycle and Deduplication

`VersionLifecycle` has a pointer per document and a life per version; a version is
published once and never comes back, and two are never published side by side.

| Variable of `Deduplication` | Code |
|---|---|
| `documents`, `current`, `vstatus` | the tables, of versions that have reached `ready_to_publish` |
| `switch`, `embedded` | as in `KnowledgeStore`; `off` stands for the reasons a rebuild never reads |
| `call` | requests between their commit and the end of their rebuild: the attempt, the revision, the plan |
| `settled`, `torn` | history: scopes rebuilt from candidates read after their last commit; scopes written from a snapshot whose two reads disagree |

A request commits (`PublishVersion`, `UnpublishDocument`, `DeleteVersion`,
`DeleteDocument`: the repositories' transactions) and `RebuildScope` begins
`_rebuild`: `ReadRevision` and `ReadCandidates` are the two statements of
`load_scope`, `EmbedTexts` the provider's call when no equal chunk has an
embedding, `ApplyScope` the transaction that compares the revision and writes,
`ApplyConflict` its refusal, with `max_snapshot_retries`.  `RebuildFails` is a
dependency that fails or the one timeout over all of it, between any two steps:
the publication stays committed.  Chunks are numbered in the order
`(created_at, id)`, in which the code picks the canonical one.  For a technical
document the service has no scope to rebuild and answers "unavailable" after the
commit; the request ends in the same step.

### InterviewConversation

| Variable | Code |
|---|---|
| `conversation` | `interview_conversation:<id>`: missing, live, deleted or past its `expires_at`, and `recent_turns` |
| `lock` | `interview_conversation_lock:<id>`: the handler whose token it holds, which may be one that has lost or left it |
| `record` | `interview_request:<id>:<request id>`: missing, pending, completed, failed |
| `used`, `revoked` | the grant: `request_count`, and `revoked_at` or the end of its validity |
| `handler` | calls of `ask`: the next call they make, their request, the turns they read at the start, and (history) whether their lock has expired since they took it: `late` |
| `charged`, `expired` | history: charges per request id; ids that had a pending record expire |

A handler makes one call to Redis or PostgreSQL per action, named for the call:
`Load` (`read_owned`), `LookUp`, `AcquireLock`, `LookUpAgain`, `BeginRequest`,
`ConsumeQuota`, `RunGraph`, `SaveTurn`, `CompleteRequest`, `ReleaseLock`;
`WithdrawRequest` is `delete_request` when the quota is exhausted, `FailRequest`
the `fail_request` of both except clauses.  Each has a partner that fails: by an
error of the dependency or a cancellation, before *or after* the call took
effect, and goes on where the except and finally clauses send it - to
`FailRequest` for the errors that are named, to `ReleaseLock` for the others
(`ConversationWorkflowUnavailableError` of `_consume_quota`, and anything
unexpected raised by the graph).  `GiveUp` covers the calls before the try
block: a lock whose acquisition was cancelled belongs to nobody.  `Stop` is the
end of the process, or a failing `release_turn_lock`.

Turns are represented by their request ids.  A request id comes with its
question: one that is used with another question is refused by
`_existing_request_response` before anything is written, as are questions out of
scope, and such calls do not appear.

Time is the three actions `LockExpires`, `PendingExpires`, `ConversationExpires`.

- The turn lock lives 15 s longer than the longest run of the graph
  (`services/interview_workflow.py:197-200`) and is not renewed.  But the handler
  reads and creates the record and charges the grant before the run, and saves and
  records after it, all under the lock, and each of these calls has connect, pool
  and command timeouts of its own (3 s each by default, up to 30 s).  So
  `LockExpires` may happen at any time, also under its holder, which does not
  notice: the handler goes on, `late`, and `ReleaseLock` compares the token it has
  with that of a successor.
- A pending record lives twice the timeout of a run, and at least 60 s.  Its handler
  writes it again after the charge, the run and the save, so `PendingExpires` leaves
  the records alone of handlers between `BeginRequest` and their last write.  This is
  an assumption on the settings: the calls beside the run must take less time than
  another run.  They do by default (90 s for a run, 3 s per call).
- A completed or failed record lives as long as a conversation that is created when
  it is written, hence longer than its own conversation, whose `expires_at` no save
  moves.

A client that disconnects makes the event stream of `api/routes/interview.py`
cancel `ask`: the same failing partners.

`LeasedTurns` says what is left of all this for a client.  An id is taken only if it
has no record (`Accept`), charged once for it (`Charge`), or refused and as good as
new (`Refuse`, `Withdraw`); then it is recorded as answered or failed (`Answer`,
`RecordFailure`), or its record stays pending (`Abort`) until it is forgotten
(`Forget`) - which never happens to a question that is being served.  A call that
begins in its lease finds no other in its own; only after `Delay` - the lease has run
out - may another begin beside it, and the late one still does to its own id only what
it might have done in time.  There are no steps for a lock that is leaked or released
late, so showing that handlers implement it is showing that none of these can be seen,
and that an expired lock costs the exclusion and nothing else.

### Administrators and AccessControl

| Variable | Code |
|---|---|
| `admins`, `created` | `admin_users`; every id ever inserted |
| `sessions` | the administrators and grants that a live session in Redis names |
| `failures` | the counters of both limiters, by user name or client |
| `handler` | requests: the next call, on whose behalf, about what, and whether they began `late`, with a session whose owner was already gone |
| `project`, `documented`, `links` | `projects`; those that documents belong to; `grant_projects` |
| `over`, `used`, `demo` | grants revoked or expired; `request_count`; `public_demo_config` |

A login is `StartLogin` (the limiter's check), `LookUp` (the account is read and
the password verified against it), then `ClearFailures` and `OpenSession`, or
`RecordFailure`; an exchange is `StartExchange`, `FindGrant`, `Admit`,
`ClearAfterExchange` in the same way, the demo `StartDemo`, `LoadDemoGrant`,
`Admit`.  Each authenticated request is `ReadSession`, `Identify` and then one of
the administrators' operations, or `PresentSession`, `LoadGrant` and the charge
`ConsumeRequest`.  `GiveUp` ends a request anywhere.

The deletion of a project is the code's three statements: `LockProject`
(`FOR UPDATE`), `CheckProject` (references by grants and documents),
`DeleteProject`.  The creation of a grant reads the projects (`RequestGrant`) and
inserts later (`CreateGrant`), where the foreign keys wait for a locked project's
row and fail when it is gone: `Locked` models that PostgreSQL's key-share lock
conflicts with `FOR UPDATE`.  `create_document` waits likewise; the deletion of a
project's last document takes no lock on the project.

Abstractions: an id has a user name of its own, so a name that is used again
after a deletion is another id.  Session tokens and the clock are left out: a
session ends at any moment, and may be presented by anybody until then;
`RecruiterSessionStore`'s time to live, bounded by the grant's expiry, is
therefore not assumed - the grant is looked up again anyway.  A grant's
expiry and its revocation are both `over`.

### AgentGraph

| Variable | Code |
|---|---|
| `published`, `revoked` | what retrieval can find; the grant |
| `effective` | `effective_project_ids` |
| `node`, `count` | the node that runs; graph steps, specialist calls, repairs, verification runs |
| `selected`, `agent` | the specialists still to ask; the local state of the one that runs |
| `registry`, `draft`, `passed`, `final` | `evidence_registry`, the draft, `verification_result`, the answer |
| `current`, `standing` | what the last revalidation of this draft returned; history: what was published and granted at that moment |

`Route` is the supervisor's decision; `AskSpecialist` and `SpecialistsDone` the
loop of the specialists' node; `Search`, `FinishSearch`, `ExhaustBudget`,
`SpecialistErrs` the steps of a specialist's own loop; `Draft`, `Revalidate` and
`Judge` (the two halves of the verification), `Repair` and `Finalize` the other
nodes.  `RetrieveOnce`, `Answer`, `Cite` are `InterviewService.ask` after its
charge.  `Fail` is any exception and the run's timeout.  Whatever the models may
answer within their schemas is a choice: the order of the specialists, the
projects a tool is asked for, the handles kept, the draft, the verdict.  A
retrieval returns any `TopK` chunks or fewer of those its filters admit
(`Searchable`), since distances are data, less what repeats a content or exceeds
the context.  Retries of an invalid output are folded into the step they repeat;
texts, public events and the counters of model calls, which nothing decides on,
are left out.

## 4. What the runs check

| Run | Instance | Properties |
|---|---|---|
| `store_publication` | 1 document, 3 versions (2 of equal content), 1 chunk, 4 jobs, no failed one | `CurrentIsPublished`, `VersionsDistinct`, `LifecycleSpec` |
| `pipeline_races` | 1 version, 1 chunk, 3 jobs, 2 handlers, 2 tasks, 1 loss | `StoreSpec`, `JobVersionAgreement`, `OneActiveJob`, `EndedJobsStay`, `ReadyChunksStay`, `VersionDiagram`, `IndexingSteady`, `OrphansOnlyByLoss` |
| `pipeline_liveness` | 1 version with a clean, a hard-blocked and a contact chunk, 2 jobs, 2 handlers, 1 task, 1 loss | `TypeOK`, `ReadyIsEmbedded`, `HardBlockedStaysOff`, `QueuedJobsEnd`, `PendingJobsRecover` |
| `administrator_choice` | 1 version, 1 chunk | `AdministratorChoiceStays` is violated (section 7) |
| `conversation` | 2 handlers, 2 request ids, quota 2, 2 turns kept | `TypeOK`, `OneRunUnlessLate`, `RunIsRecorded`, `ChargedOnceUnlessExpired`, `AnsweredOnceUnlessExpired`, `OutcomesStay`, `LeasedSpec` |
| `conversation_retries` | the same | `RetriesAreFree` is violated (section 7) |
| `conversation_turns` | the same, quota 3, no lock expires under its holder | `SavesKeepTurns` is violated (section 7) |
| `deduplication` | 1 scope, 2 documents, 3 versions, 4 equal chunks and one that differs, 2 requests, 1 retry | `TypeOK`, `CanonicalWhenSettled`, `RebuildsHideNothing`, `OnlyPublishedRewritten`, `LifecycleSpec` |
| `stale_snapshot` | the same | `CanonicalWheneverSettled` is violated (section 7) |
| `access` | 2 administrators, 1 client, 1 grant, 1 project, 2 requests, limit 1, quota 2 | `TypeOK`, `AdministratorRemains`, `NobodyComesInLate`, `FailuresBounded`, `QuotaKept`, `LinksStay` |
| `agents` | 4 chunks of 3 scopes, 2 projects, 1 result per call, 2 tool calls, 2 specialists, 2 verifications, 1 repair, 7 steps | `CitationsRevalidated`, `EvidenceInScope`, `BudgetsKept`, `WorkShrinks`, `RunEnds` |
| `agent_evidence` | 6 chunks, the default budgets divided by six | `BudgetsDegrade` is violated (section 7) |

The store's type invariant is part of the pipeline's `TypeOK`; that of `AgentGraph`
is proved and not run.  In words:

- `JobVersionAgreement`: a version is `processing` or `indexing` exactly while a
  job of that type is pending or processing for it.
- `OneActiveJob`: never two active jobs of one version, of either type.
- `CurrentIsPublished`: pointers and published versions are the same relation.
- `ReadyIsEmbedded`: `publish_version` never finds a version it may publish with
  an enabled chunk that has no embedding, or with no enabled chunk.
- `EndedJobsStay`: a task whose job has been failed under it writes nothing.
- `ReadyChunksStay`: what was indexed is what is published: a late task of an earlier
  job of the version, failed since, does not reach its chunks any more.
- `VersionDiagram`: versions move only along the edges of their life.
- `VersionsDistinct`: numbers and contents stay distinct across deletions.
- `LifecycleSpec`: the store, and the commits with their rebuilds, implement
  `VersionLifecycle` under the mapping of section 2.
- `StoreSpec`: handlers and tasks implement the store's specification.
- `IndexingSteady`: the chunks a task holds enabled are the enabled ones, from
  `begin_job` on, though nothing is locked in between.
- `OrphansOnlyByLoss`: no job is left `processing` without a task but by a loss.
- `HardBlockedStaysOff`: a hard block seen by a pass survives every later pass
  and every edit.
- `OneRunUnlessLate`: of the handlers between acquiring and releasing the lock one at
  most has not seen its lock expire.  A leaked lock is nobody's, and a late handler
  does not free its successor's.
- `RunIsRecorded`: from its charge to its answer a request is recorded as pending and
  no other handler has begun it, though the lock may have expired; and an id without
  a record was never charged, unless its pending record expired.
- `ChargedOnceUnlessExpired`, `AnsweredOnceUnlessExpired`: with the same
  exception, a request id is charged once and appears once in the history.
- `OutcomesStay`: a replay of a request is told the same outcome for as long as
  the conversation lives.  Two handlers may change it: one whose own write was not
  acknowledged, to a failure; and one that the quota refused, and whose record another
  refused one, late, has marked as failed, withdraws that failure.
- `LeasedSpec`: the handlers implement `LeasedTurns` under the mapping of section 2: a
  question is charged, withdrawn, answered or failed only by a handler that serves it,
  no record expires under it, and another begins beside it only when its lock has
  expired.
- `CanonicalWhenSettled`: once a rebuild that read its chunks after a scope's last
  commit has been applied, of equal published chunks the earliest is enabled and
  embedded and the others are neither - and it stays so, whatever older rebuilds
  are applied later and whichever failed; torn snapshots excepted.
- `RebuildsHideNothing`: a content that readers could find in a scope can still be
  found after every step of every rebuild, also one with an outdated plan.
- `OnlyPublishedRewritten`: a rebuild leaves the chunks of versions alone that
  wait for publication or have left it since the rebuild read them.
- `AdministratorRemains`: once there is an administrator there always is one.
- `NobodyComesInLate`: no request that begins with a session whose account is
  deleted, or whose grant is over, is let in - also when the session was opened
  afterwards, by a login or exchange that had read the account or grant before.
- `FailuresBounded`: attempts side by side pass a limiter's maximum by less than
  the number of requests served at once.
- `QuotaKept`: the questions of all sessions of a grant stay within its maximum.
- `LinksStay`: a grant keeps the projects it was created with, and a document its
  project, against deletions that began before or after.
- `CitationsRevalidated`: every citation of a published answer was published and
  granted at some moment after the draft that cites it was written, and an answer
  that cites anything passed its verification.
- `EvidenceInScope`: whatever projects a model asks its tools for, evidence is of
  those asked for by the recruiter and granted, and of the specialist's own kind.
- `BudgetsKept`: no model's output makes a run exceed a budget - in particular the
  steps that a repair and its verification need are there when it is decided.
- `WorkShrinks`: every step of a run, whatever the models answer, makes a natural
  number smaller: what the specialists may still search, the nodes before the end, and
  three more for every repair.  So a run has a fixed number of steps at most, and one
  that has ended stays as it is.
- `QueuedJobsEnd`, `PendingJobsRecover`, `RunEnds`: section 5.

**Bounds.**  *Store and pipeline.*  `store_publication` has three versions, so that
a publication replaces another and deleting the middle one leaves a gap in the
numbers; four jobs are two ingestions and two indexings.  Its constraint `NoFailure`
leaves failed jobs to `pipeline_races`, which has two handlers and two tasks, so a
stale task, a stale message and a late `mark_enqueue_failed` can meet a new job;
`max_jobs` is 2 in the code as well.  `pipeline_liveness` has the three chunks that
the rules tell apart, so that an edit can leave an enabled chunk without embedding
and a hard block meet a second pass.  `MaxLosses` is 0 or 1: one loss is enough to
strand a job.  `MaxVersionNumber` is never reached.  `CHECK_DEADLOCK FALSE` is set
where ids run out: when the last document is deleted nothing can happen.

*Conversation.*  Two handlers are enough for every overlap of two calls; they may
be reused, so neither retries nor failures are bounded.  With a quota of two an id
can be charged a second time once its pending record has expired.  That a third
turn pushes out the first does not happen in these runs; `Recent` keeps the latest,
and the proofs hold for any number of turns.  Handlers and request ids are symmetric
in `conversation`.

*Deduplication.*  Five chunks: the oldest is the second document's, the first document
has two that are equal to it and one that differs, and a second version of the second
document has one more - so publishing moves the canonical chunk between documents,
within one and from a version to the next.  Which of two equal chunks of a version was
indexed and which was marked as its duplicate is open (`Init`): the rules go by
`chunk_index` (`quality/rules.py:153-173`), the rebuild by `(created_at, id)`, which
within a version is the order of random ids.  The chunk that differs keeps the version
publishable when its equal ones are all off.
Two requests give an older and a newer rebuild of one scope, and either can be cut
off.  A technical document and a second scope are in the proofs but not in the run:
nothing happens in the one after its commit, and scopes share no chunk.

*Access.*  Two requests are what each race needs: two deletions, a login and a
deletion, an exchange and a revocation, a grant and a project's deletion.  A limit
of one lets two failing attempts meet it.

*Agents.*  One chunk per scope and a second project with a planned document tell
apart all knowledge types and scopes; `TopK` 1 with two calls lets a specialist
find more than `OutputLimit`, two specialists more than `EvidenceLimit`.  Seven
steps are exactly those of a run with a repair, so that one step too many would be
one over the budget.

The proofs remove these bounds for every safety property they state.

Each property has a mutant in `PROJECT.json`: a plausible bug (a forgotten status
check, a chunk edited without the way back to review, a plan applied without
comparing the revision, a session believed without its owner) under which the same
run finds it violated.

## 5. Fairness and liveness

`FairSpec` of `KnowledgePipeline` has weak fairness of each handler's and each
task's own steps.  The code justifies it: a handler's calls have dependency
time-outs, a task is cancelled by ARQ at `job_timeout` (300 s) and each provider
call has its own time-out, so each always takes a next step, be it the one into the
except clause.  No call has to succeed, nobody has to make a request, and a task may
be taken by either of the workers.  `QueuedJobsEnd`: a job whose message is in
the queue is eventually not active, unless a fault of `MaxLosses` occurred.

`RetryingSpec` adds an administrator who keeps repeating the request and strong
fairness of `Enqueue`: requests that keep reaching the queue are not refused or
abandoned for ever.  That is an assumption about the environment, not the code;
`docs/status/PHASE_2_3_STATUS.md:105-109` states the claim under it, that a
repeated request closes the window between commit and enqueue.  Under it
`PendingJobsRecover`: no job stays pending for ever, whatever was lost.

`InterviewConversation` has no liveness property.  What there is to say - a leaked lock
is free again - is that Redis expires keys, since `LockExpires` is possible in every
state with a lock; no handler waits for another one.

`FairSpec` of `AgentGraph` has weak fairness of the run's own steps: every call of
a model or of the retrieval returns or times out.  `RunEnds` does not rest on
`Fail`, so not on the run's timeout: the budgets alone end the run, whatever the
models answer and the administrators do.  Its safety half, `WorkShrinks`, is proved: with a
number that every step makes smaller, a run whose steps are taken ends.

A job left `processing` by a kill does not recover: nothing in the code does
that.  This limit is documented (`README.md:594-596`,
`docs/status/PHASE_2_3_STATUS.md:284-291`); `OrphansOnlyByLoss` says that it has
no other cause.  Nor does a scope whose last rebuild failed become canonical by
itself: nothing but the next publication, withdrawal or deletion in it rebuilds it.

## 6. What is proved

Assumptions, all of them on constants and named in the modules: functions such as
`DocumentOf`, `RuleOf` or `ScopeOf` have the right type, bounds are natural numbers
(positive where the settings say so), a version is split into at least one chunk,
`None` is no id, the requests served at once and the chunks a run may find are
finitely many, and at most one repair is allowed (`agent_max_answer_repairs`, `le=1`).
All other sets are arbitrary, also infinite.

`VersionLifecycleProofs`, about the abstract specification alone and so about
whatever implements it:

- `PublishedIsVisible`: a pointer names a version exactly when that is the published
  version of its document.
- `NeverBack`: a version that was taken offline, replaced or deleted is never
  published again.

`KnowledgeStoreProofs`:

- `StoreTypeCorrect`.  The type invariant, one step per transaction.
- `StoreInvariant`: `StoreInv == JobsInv /\ PointersInv /\ ReadyIsEmbedded` is
  inductive relative to the type invariant.  The parts need one another.
  `JobVersionAgreement` alone does not say that completing one job leaves no
  other behind (that is `OneActiveJob`), nor that an active job has a version;
  `OneActiveJob` is kept only because a version whose status allows a new job has
  no active one, of either type.  That publishing leaves one published version
  needs the pointers; that an edit finds no job at work needs the jobs.  From it
  `JobsAgree`, `NoSecondActiveJob`, `PointersAgree`, `ReadyEmbedded`.
- `EndedJobsFinal`, `ReadyChunksFinal`, `DiagramKept`: action properties, from
  the invariant and a case per transaction.
- `NumbersDistinct`.
- `LifecycleImplemented`: every transaction is a step of `VersionLifecycle` or
  leaves it alone.  The invariant enters where a pointer must name the one version
  that a publication retires.

`KnowledgePipelineProofs`:

- `ProcessInvariant`, `StoreImplemented`: every step of a handler or a task is a
  step of the store or leaves it unchanged, so `Spec => StoreSpec` under the
  identity mapping, and every theorem above holds of the pipeline.  What it needs
  is that a process that is not idle works for an existing job.
- `PipelineTypeCorrect`.
- `NoOrphans`, `TasksHoldCurrentChunks`: from `TasksInv` - a task's job has been
  begun, is not in the queue, is no other task's job, and is of the type of the
  task's step.  Without it a second task could begin the same job, and the
  completion by one would orphan the other; with it only the task itself, its
  end, or a deletion that the job forbids could change the chunks it holds.
- `HardBlocksHold`.
- `PipelineLifecycle`, `PipelineTables`, `PipelineSteps`, `PipelineNeverBack`: the
  refinements composed.  Handlers and tasks implement the store, the store implements
  `VersionLifecycle`; so the store's theorems, and through `VersionLifecycleProofs`
  what readers conclude from the abstract specification, hold with all requests,
  tasks, crashes and retries under way.

`DeduplicationProofs`:

- `DedupTypeCorrect`, with `TypeInv`: a pointer names a published version of its
  document, and a request that is not idle has a scope.  `DedupLifecycle` follows
  from it.
- `PlansInv`, what a plan made earlier still says of the tables: the versions of its
  revision can not be published again (`RevisionNamesPublished`), so that an equal
  revision means that nothing was published or withdrawn since; its chunks are of its
  scope and were not switched off for another reason (`PlanStaysInScope`); unless
  torn, it splits the candidates of its revision into the first of each content and
  the rest (`PlanSplits`); one that no commit has outdated has the current revision
  (`PlanIsFresh`) and its canonical chunks are embedded, now or by its own commit
  (`PlanEmbeds`).  `PlanKeepsContent` is the part that is not obvious: a canonical
  chunk which the plan believes embedded may have lost its embedding to another
  rebuild, but only if no equal chunk of the plan can be found any more either - so
  applying the plan takes nothing from a reader.
- `RewritesPublished`, `NothingHidden`, `SettledAreCanonical`: from `PlansInv` and the
  comparison of `apply_scope`.  Two plans of one revision agree on what is canonical,
  so the order in which they are applied does not matter; that is where the
  comparison by versions only turns out to be enough - for snapshots that are not
  torn.

`InterviewConversationProofs`, for any sets of handlers and request ids, any
quota, and at least one turn kept:

- `ConversationTypeCorrect`.
- `TurnsExclusive`: from `LockHeld` - a handler past `AcquireLock` that is not late is
  the one the lock names.  It is needed because a leaked lock names a handler that is
  not there, which may come back.
- `RunsRecorded`, `ChargedOnce`: from `RecordInv`, which does *not* rest on the lock:
  two handlers may both be past `BeginRequest`.  `HandlerRecord` is what a handler
  knows of the record it created, `Uncharged` that it found the id uncharged (or
  expired before).  `Apart` is the part that is not obvious: two handlers on the same
  id are there only when the grant is over (the first was refused and withdrew the
  record without hearing so), and then neither ever answers.  It holds since a grant
  that is over stays over (`GrantStaysOver`).
- `OutcomesKept`: from `RecordInv`.  A handler that has an unfinished question has a
  pending record, so whoever writes to a record that says how its question ended is
  `FailRequest`, after a write that was not acknowledged, or the withdrawal by a
  handler whose record such a `FailRequest` of another has reached.
- `AnsweredOnceHolds`: from `HistoriesInv`, which speaks of the conversation in Redis
  *and* of every copy that a handler has read: an id is in it once, and has a record,
  and no handler has still to answer it (each unless a pending record of it has
  expired).  Of the stored conversation alone this is not inductive, since a handler
  saves its own, older copy over it.
- `LeasedImplemented`: every step of a handler is a step of a call in `LeasedTurns` or
  cannot be seen.  `CallStep` has a case for each kind of step that `HandlerSteps`
  sorts the handlers' calls into, failing or not; `LockExpiryStep` is the step of
  time that can be seen, `LeasedStep` adds the others.  It rests on `LockHeld`: a
  handler in its lease meets only handlers that are late (`OthersLate`).

`AccessControlProofs`, for any number of administrators, grants and requests:

- `AccessTypeCorrect`: with it what a request knows at each of its steps (`Typed`).
- `OneRemains`, `QuotaHeld`: the count under locks and the conditions of the UPDATE
  suffice by themselves, whatever was checked before.
- `NobodyLate`: from `EntryInv` - a session names an account that was once there,
  and a request that began late still faces its check.  It rests on two facts about
  all other steps: a deleted id does not come back, and a grant that is over stays
  over.
- `LinksHeld`: from `ProjectsInv` - a project whose deletion has passed its check is
  named by no grant.  The row's lock keeps it true while other requests insert.
- `FailuresLimited`: from `FailuresInv` - a counter and the attempts that passed its
  check and may still fail stay together below the maximum plus the requests served
  at once.

`AgentGraphProofs`, for any corpus and any budgets that the assumptions admit:

- `AgentTypeCorrect`, `ScopeKept`.
- `BudgetsHeld`: from `StepsLeft`, what the graph still needs from each node to its
  end; a repair is decided only when three more steps are left, and a second
  verification only when one is.
- `RunsShrink`: `WorkShrinks`.  The budgets are what makes `Work` a natural number
  (`WorkShape`); a specialist that is asked pays for its tool calls in advance, and a
  repair for the nodes it goes through again.
- `CitationsHeld`: from `CitationInv` - what a draft is judged by was looked up after
  it was written, and nothing is published before the end.

Every invariant and every action property of the passing runs is proved, and so are
the refinements.  Only model-checked: the three liveness properties (fairness and
`ENABLED` are beyond the prover) and the violated properties of section 7.

## 7. Findings

**A choice that is undone.**  `AdministratorChoiceStays` is what
`docs/superpowers/plans/2026-07-15-phase-2-knowledge-lifecycle-patch.md:57-58`
(automatic restoration of hard blocks and of administrators' switches is
forbidden) and `docs/status/PHASE_2_4_STATUS.md:260-261` ("protected chunks are
never accidentally re-enabled") say.  The run finds: a version is processed and
ready for review; the administrator disables a chunk; the first indexing pass
finds the chunk indexable and switches it on.  `IndexingWorker.run` protects a
chunk only when `auto_indexable` shows an earlier pass
(`services/indexing_worker.py:166`) and never looks at the reason.  After a
first pass the choice is kept.

**A retry that is charged.**  `RetriesAreFree` is `docs/PHASE4_PLAN.md:144` and
`docs/architecture/PHASE_4_ARCHITECTURE.md:172`: a retry with the same
`request_id` is not charged again.  The run finds: the quota is charged but the
repository reports that it is unavailable; `_consume_quota` turns that into
`ConversationWorkflowUnavailableError`, which the except clauses of `ask` (line
276) do not name, so the record stays pending.  Until it expires a retry is told
that the conversation is busy; after that it is a new request and is charged.
`ChargedOnceUnlessExpired` says that there is no other way.

**A turn that is lost.**  `SavesKeepTurns` is what
`docs/status/PHASE_4_STATUS.md:122` says of the conversation: it holds the latest
turns, at most eight.  The run finds: a handler reads the conversation (line
178); another, which holds the lock, saves its turn and releases the lock; the
first one takes the lock, answers, and saves the conversation it has read, with
its own turn.  The other turn, charged and answered, is gone.  In this run no lock
expires under its holder.

**A snapshot that is outdated and written.**  `CanonicalWheneverSettled` is
`docs/superpowers/specs/2026-07-15-phase-2-knowledge-lifecycle-patch-design.md:88`:
apply checks the current pointers and hashes again, so that nothing is written for
an outdated snapshot.  The run finds: a rebuild reads the revision
(`repositories/deduplication.py:174`); another version, with an older equal chunk,
is published; the rebuild reads the candidates, and its plan switches the first
version's chunk off for the new one; the new version is taken offline and its
rebuild is applied; the published versions are those of the first revision again,
so the first plan passes the comparison (line 235).  The scope then publishes no
chunk with this content.  `CanonicalWhenSettled` and `RebuildsHideNothing` say that
this - a snapshot whose two reads disagree - is the only way.

**Evidence that does not fit.**  `BudgetsDegrade` is `docs/status/PHASE_4_STATUS.md:99`
(when a budget is reached, stop calling and degrade safely to the evidence there
is).  With the default settings three specialists may make two calls each, with six
results each (`rag_top_k`): 36 pieces of evidence, of which `VerificationAgentInput`
admits 30 (`agent/schemas.py:286`).  The run finds the node whose input is refused:
the `ValidationError` is in none of the except clauses of `ask`, so the question,
charged, ends with an error and its record stays pending.  With `rag_top_k` above
ten a single specialist suffices (`SpecialistAgentOutput` admits 20).

Two more disagreements are visible in the code and have no run.  For a technical
document every publication, withdrawal and deletion commits and is then answered
"unavailable", since `_rebuild_scope` has no scope for it
(`services/publication.py:178`); `docs/PHASE4_SUMMARY.md:12` and
`docs/status/PHASE_4_STATUS.md:44-48` list these operations as supported.

And `docs/learning/PHASE_4_LEARNING.md:124-125` says that concurrent questions of one
conversation do not enter the workflow at once and exceed the quota.  The quota is kept
(`TypeOK`), but a handler whose calls around the run are slow outlives its lock
(section 3; `services/interview_workflow.py:199`), and another question then runs beside
it: the step `Delay` of `LeasedTurns`.  `OneRunUnlessLate`, `RunIsRecorded`,
`ChargedOnceUnlessExpired`, `AnsweredOnceUnlessExpired`, `OutcomesStay` and `LeasedSpec`
say that this costs no charge, answer or outcome; it may cost a turn of the history, as
above.

## 8. Not modelled, and why

- The content of texts, embeddings and model answers: no state change depends on
  more than the choices above.  So cleaning, chunking and the patterns of the
  rules, which are functions of a text, are not modelled; what the rules say of a
  chunk is a constant.
- Titles of documents, names and descriptions of projects, the demo's candidate
  name: no other state depends on them.
- Row-lock deadlocks: unpublish and delete lock document then version, publish
  and `create_job` version then document.  PostgreSQL aborts one transaction,
  which the code reports as unavailable; in the model that is a transaction that
  did not happen.
- `delete_document` holds only the document's row when it looks for active jobs.
  `create_job` locks the document's row too, so the check and a creation exclude
  each other, and jobs that exist only end.  So the deletion is one atomic action in
  the model, which cannot show this by itself.
- Several embedding identities (a change of model by configuration): complete and
  publish would compare with the new one.
- A conversation that is deleted while a question is being answered comes back
  with the answer (`SaveTurn` after `DeleteConversation` in the model).  No
  property forbids it, since nothing in the repository does.
- A demo whose grant was revoked between validation and storage keeps naming it
  until an administrator changes it; `NobodyComesInLate` says that no visitor gets
  further with it.
- Wiring, settings, error responses, schemas, migrations, the frontend: no state of
  their own.

## 9. Running

    tlc -config PipelineRaces.cfg MCKnowledgePipeline.tla
    tlc -config Deduplication.cfg MCDeduplication.tla
    tlc -config Conversation.cfg MCInterviewConversation.tla
    tlc -config Access.cfg MCAccessControl.tla
    tlc -config Agents.cfg MCAgentGraph.tla
    tlapm KnowledgeStoreProofs.tla        # and the other *Proofs.tla

Each run takes between a second and two minutes with two workers, each proof module
less than five.
