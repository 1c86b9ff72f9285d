--------------------------- MODULE Deduplication ---------------------------
(***************************************************************************)
(* What happens to the chunks of published versions.  Publishing, taking   *)
(* offline and deleting commit first (KnowledgeStore has these            *)
(* transactions in full); the service then rebuilds the scope - a          *)
(* project's documents or the profile's - so that of equal chunks the      *)
(* earliest is enabled and embedded, and the others are neither:           *)
(* DeduplicationService._rebuild, whose snapshot is read by two statements *)
(* and applied much later, if the published versions are still the same.   *)
(*                                                                         *)
(* Chunks are numbered in the order (created_at, id).                      *)
(***************************************************************************)
EXTENDS Integers, FiniteSets

CONSTANTS
  Documents,           \* knowledge_documents ids
  Versions,            \* ids of versions that reached ready_to_publish
  Chunks,              \* their chunks, by position in (created_at, id)
  Scopes,              \* the profile and the projects
  Handlers,            \* requests in progress at once
  DocumentOf,          \* the document of a version
  VersionOf,           \* the version of a chunk
  HashOf,              \* the content hash of a chunk
  ScopeOf,             \* the scope of a document; None for a technical one
  MaxSnapshotRetries,  \* max_snapshot_retries
  None                 \* SQL NULL

ASSUME ChunksAssumption == Chunks \subseteq Nat
ASSUME OwnersAssumption ==
  /\ DocumentOf \in [Versions -> Documents]
  /\ VersionOf \in [Chunks -> Versions]
  /\ ScopeOf \in [Documents -> Scopes \cup {None}]
ASSUME RetriesAssumption == MaxSnapshotRetries \in Nat
ASSUME NoneAssumption == None \notin Versions \cup Scopes

VARIABLES
  documents,  \* the documents that exist
  current,    \* knowledge_documents.current_published_version_id
  vstatus,    \* document_versions.status, from ready_to_publish on
  switch,     \* document_chunks.enabled and disabled_reason
  embedded,   \* chunks with an embedding of the active identity and their hash
  call,       \* the rebuilds that requests are running
  settled,    \* history: scopes rebuilt from candidates read after the last commit
  torn        \* history: scopes a torn snapshot was applied to

store == <<documents, current, vstatus>>
chunks == <<switch, embedded>>
history == <<settled, torn>>
vars == <<store, chunks, call, history>>

VersionStatuses == {"ready_to_publish", "published", "superseded", "deleted"}
\* "off" stands for the reasons a rebuild never reads: hard_block, quality, administrator.
Switches == {"on", "exact_duplicate", "off"}
Steps == {"idle", "load", "candidates", "embedding", "applying"}
Calls == [pc : Steps, scope : Scopes \cup {None}, attempt : 0..MaxSnapshotRetries,
          revision : SUBSET Versions, on : SUBSET Chunks, off : SUBSET Chunks,
          embed : SUBSET Chunks, torn : BOOLEAN, fresh : BOOLEAN]
IdleCall == [pc |-> "idle", scope |-> None, attempt |-> 0, revision |-> {}, on |-> {},
             off |-> {}, embed |-> {}, torn |-> FALSE, fresh |-> FALSE]

TypeOK ==
  /\ documents \subseteq Documents
  /\ current \in [Documents -> Versions \cup {None}]
  /\ vstatus \in [Versions -> VersionStatuses]
  /\ switch \in [Chunks -> Switches]
  /\ embedded \subseteq Chunks
  /\ call \in [Handlers -> Calls]
  /\ settled \subseteq Scopes
  /\ torn \subseteq Scopes

ScopeOfVersion(v) == ScopeOf[DocumentOf[v]]
ScopeOfChunk(c) == ScopeOfVersion(VersionOf[c])
ChunksOf(v) == {c \in Chunks : VersionOf[c] = v}
On(v) == {c \in ChunksOf(v) : switch[c] = "on"}

\* The chunks of a version with equal content.
Twins(c) == {b \in ChunksOf(VersionOf[c]) : HashOf[b] = HashOf[c]}

\* What indexing leaves: what is enabled is embedded; of equal chunks the rules mark all
\* but the first of the version as exact duplicates - the first by chunk_index, which
\* the order (created_at, id) does not follow - and the first may be off for another
\* reason; a content the rules block is off wherever it occurs.
Init ==
  /\ documents = Documents
  /\ current = [d \in Documents |-> None]
  /\ vstatus = [v \in Versions |-> "ready_to_publish"]
  /\ switch \in [Chunks -> Switches]
  /\ \A v \in Versions : On(v) # {}
  /\ \A c \in Chunks :
       \/ \A b \in Twins(c) : switch[b] = "off"
       \/ \E first \in Twins(c) : \A b \in Twins(c) : switch[b] = "exact_duplicate" <=> b # first
  /\ embedded = {c \in Chunks : switch[c] = "on"}
  /\ call = [h \in Handlers |-> IdleCall]
  /\ settled = Scopes
  /\ torn = {}

-----------------------------------------------------------------------------
(* The commits, each followed by the rebuild of its scope.                 *)

\* For a technical document no scope is rebuilt and the request is answered
\* "unavailable" at once, after its commit.
RebuildScope(h, d) ==
  LET s == ScopeOf[d] IN
  /\ call' = [g \in Handlers |->
       IF g = h
       THEN IF s \in Scopes THEN [IdleCall EXCEPT !.pc = "load", !.scope = s] ELSE IdleCall
       ELSE IF call[g].scope = s THEN [call[g] EXCEPT !.fresh = FALSE] ELSE call[g]]
  /\ settled' = settled \ {s}
  /\ torn' = torn

\* Mutant of PublishVersion: forgets the version it replaces.
PublishVersionBeside(h, v) ==
  /\ call[h].pc = "idle"
  /\ vstatus[v] = "ready_to_publish"
  /\ On(v) # {} /\ On(v) \subseteq embedded
  /\ vstatus' = [vstatus EXCEPT ![v] = "published"]
  /\ current' = [current EXCEPT ![DocumentOf[v]] = v]
  /\ RebuildScope(h, DocumentOf[v])
  /\ UNCHANGED <<documents, chunks>>

PublishVersion(h, v) ==
  LET d == DocumentOf[v] IN
  /\ call[h].pc = "idle"
  /\ vstatus[v] = "ready_to_publish"
  /\ On(v) # {} /\ On(v) \subseteq embedded
  /\ vstatus' = [w \in Versions |->
       IF w = v THEN "published" ELSE IF w = current[d] THEN "superseded" ELSE vstatus[w]]
  /\ current' = [current EXCEPT ![d] = v]
  /\ RebuildScope(h, d)
  /\ UNCHANGED <<documents, chunks>>

\* Also succeeds, and rebuilds, when nothing is published.
UnpublishDocument(h, d) ==
  /\ call[h].pc = "idle"
  /\ d \in documents
  /\ vstatus' = [w \in Versions |-> IF w = current[d] THEN "superseded" ELSE vstatus[w]]
  /\ current' = [current EXCEPT ![d] = None]
  /\ RebuildScope(h, d)
  /\ UNCHANGED <<documents, chunks>>

DeleteVersion(h, v) ==
  /\ call[h].pc = "idle"
  /\ vstatus[v] \in {"ready_to_publish", "superseded"}
  /\ current[DocumentOf[v]] # v
  /\ vstatus' = [vstatus EXCEPT ![v] = "deleted"]
  /\ embedded' = embedded \ ChunksOf(v)
  /\ RebuildScope(h, DocumentOf[v])
  /\ UNCHANGED <<documents, current, switch>>

DeleteDocument(h, d) ==
  /\ call[h].pc = "idle"
  /\ d \in documents
  /\ documents' = documents \ {d}
  /\ current' = [current EXCEPT ![d] = None]
  /\ vstatus' = [w \in Versions |-> IF DocumentOf[w] = d THEN "deleted" ELSE vstatus[w]]
  /\ embedded' = {c \in embedded : DocumentOf[VersionOf[c]] # d}
  /\ RebuildScope(h, d)
  /\ UNCHANGED switch

-----------------------------------------------------------------------------
(* A rebuild: load_scope, _build_plan, apply_scope.                        *)

\* The revision names each document with its published version; a version
\* belongs to one document.
Revision(s) == {v \in Versions : ScopeOfVersion(v) = s /\ current[DocumentOf[v]] = v
                                 /\ vstatus[v] = "published"}
Candidates(s) == {c \in Chunks : VersionOf[c] \in Revision(s)
                                 /\ switch[c] \in {"on", "exact_duplicate"}}
Group(C, c) == {b \in C : HashOf[b] = HashOf[c]}
Canonicals(C) == {c \in C : \A b \in Group(C, c) : c <= b}

Set(h, r) == call' = [call EXCEPT ![h] = r]

ReadRevision(h) ==
  /\ call[h].pc = "load"
  /\ Set(h, [call[h] EXCEPT !.pc = "candidates", !.revision = Revision(call[h].scope)])
  /\ UNCHANGED <<store, chunks, history>>

\* Mutant of Lacking: the embeddings of equal chunks are forgotten.
LackingEverywhere(C) == {c \in Canonicals(C) : Group(C, c) \cap embedded = {}}

\* The canonical chunks that have no embedding.
Lacking(C) == Canonicals(C) \ embedded

\* The embeddings a canonical chunk lacks are taken from an equal chunk, or from
\* the provider when none of them has one.
ReadCandidates(h) ==
  LET s == call[h].scope
      C == Candidates(s)
      asked == {c \in Lacking(C) : Group(C, c) \cap embedded = {}} IN
  /\ call[h].pc = "candidates"
  /\ Set(h, [call[h] EXCEPT !.pc = IF asked = {} THEN "applying" ELSE "embedding",
                            !.on = Canonicals(C), !.off = C \ Canonicals(C),
                            !.embed = Lacking(C),
                            !.torn = call[h].revision # Revision(s), !.fresh = TRUE])
  /\ UNCHANGED <<store, chunks, history>>

\* The chunks pass the deterministic rules again and the provider answers.
EmbedTexts(h) ==
  /\ call[h].pc = "embedding"
  /\ Set(h, [call[h] EXCEPT !.pc = "applying"])
  /\ UNCHANGED <<store, chunks, history>>

\* Mutant of StillCurrent: the published versions are not compared.
ChunksExist(h) == \A c \in call[h].on \cup call[h].off : vstatus[VersionOf[c]] # "deleted"

\* The comparison apply_scope makes under its locks: same documents with same
\* versions, and no planned chunk is gone.
StillCurrent(h) == call[h].revision = Revision(call[h].scope) /\ ChunksExist(h)

\* The commit; whether its caller hears of it in time changes no state.
ApplyScope(h) ==
  LET r == call[h] IN
  /\ r.pc = "applying"
  /\ StillCurrent(h)
  /\ switch' = [c \in Chunks |->
       IF c \in r.on THEN "on" ELSE IF c \in r.off THEN "exact_duplicate" ELSE switch[c]]
  /\ embedded' = (embedded \ r.off) \cup r.embed
  /\ settled' = IF r.fresh THEN settled \cup {r.scope} ELSE settled
  /\ torn' = IF r.torn THEN torn \cup {r.scope} ELSE torn
  /\ Set(h, IdleCall)
  /\ UNCHANGED store

\* Mutant of ApplyConflict: tries again without a bound.
ApplyConflictAgain(h) ==
  LET r == call[h] IN
  /\ r.pc = "applying"
  /\ ~StillCurrent(h)
  /\ Set(h, [IdleCall EXCEPT !.pc = "load", !.scope = r.scope, !.attempt = r.attempt + 1])
  /\ UNCHANGED <<store, chunks, history>>

\* Conflict: the snapshot is loaded again, MaxSnapshotRetries times at most.
ApplyConflict(h) ==
  LET r == call[h] IN
  /\ r.pc = "applying"
  /\ ~StillCurrent(h)
  /\ Set(h, IF r.attempt = MaxSnapshotRetries THEN IdleCall
            ELSE [IdleCall EXCEPT !.pc = "load", !.scope = r.scope, !.attempt = r.attempt + 1])
  /\ UNCHANGED <<store, chunks, history>>

\* A dependency fails or the dependency timeout, which covers the whole rebuild,
\* cuts it off: "unavailable", after the publication was committed.
RebuildFails(h) ==
  /\ call[h].pc # "idle"
  /\ Set(h, IdleCall)
  /\ UNCHANGED <<store, chunks, history>>

RebuildStep(h) ==
  \/ ReadRevision(h)
  \/ ReadCandidates(h)
  \/ EmbedTexts(h)
  \/ ApplyScope(h)
  \/ ApplyConflict(h)

Next ==
  \E h \in Handlers :
    \/ \E v \in Versions : PublishVersion(h, v) \/ DeleteVersion(h, v)
    \/ \E d \in Documents : UnpublishDocument(h, d) \/ DeleteDocument(h, d)
    \/ RebuildStep(h)
    \/ RebuildFails(h)

Spec == Init /\ [][Next]_vars

-----------------------------------------------------------------------------
(* Properties.                                                             *)

\* Publication, withdrawal and deletion, with rebuilds of older and newer
\* snapshots among them, show readers what VersionLifecycle says.
LifeOf == [ready_to_publish |-> "ready", published |-> "published",
           superseded |-> "retired", deleted |-> "gone"]
Lifecycle == INSTANCE VersionLifecycle WITH life <- [v \in Versions |-> LifeOf[vstatus[v]]]
LifecycleSpec == Lifecycle!Spec

\* Of equal chunks that a scope publishes exactly the earliest is enabled, and it
\* is embedded; the others have no embedding.
Canonical(s) ==
  \A c \in Candidates(s) :
    IF c \in Canonicals(Candidates(s))
    THEN switch[c] = "on" /\ c \in embedded
    ELSE switch[c] = "exact_duplicate" /\ c \notin embedded

\* Once a rebuild that read the chunks after the last publication, withdrawal or
\* deletion of a scope has been applied, the scope is canonical and stays so,
\* whatever older rebuilds are still applied and whichever rebuilds failed
\* before - unless the snapshot of one was torn.
CanonicalWhenSettled == \A s \in settled : s \in torn \/ Canonical(s)

\* "Apply 阶段重新校验当前发布指针和 Hash，避免对过期快照写入": the same without
\* exception.
CanonicalWheneverSettled == \A s \in settled : Canonical(s)

\* The contents that retrieval finds in a scope: chunks that are published,
\* enabled and embedded.
Findable(s) == {HashOf[c] : c \in {b \in Candidates(s) : switch[b] = "on" /\ b \in embedded}}

\* No rebuild, also one whose plan is outdated, hides a content that a reader
\* could find: a duplicate is switched off only where its canonical chunk is
\* enabled and embedded in the same commit.
RebuildsHideNothing ==
  [][\A s \in Scopes : UNCHANGED current /\ s \notin torn' => Findable(s) \subseteq Findable(s)']_vars

\* A rebuild rewrites only chunks of versions that are published when it is
\* applied: not those of versions waiting to be published, superseded or taken
\* offline since it read them.
OnlyPublishedRewritten ==
  [][\A c \in Chunks : switch'[c] # switch[c] =>
        VersionOf[c] \in Revision(ScopeOfChunk(c)) \/ ScopeOfChunk(c) \in torn']_vars
=============================================================================
