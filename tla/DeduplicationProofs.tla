------------------------ MODULE DeduplicationProofs ------------------------
(***************************************************************************)
(* What the rebuilds of published chunks promise for every number of       *)
(* documents, versions, chunks and requests at once.                       *)
(***************************************************************************)
EXTENDS Deduplication, WellFoundedInduction, TLAPS

-----------------------------------------------------------------------------
(* Types.                                                                  *)

\* A published pointer names a published version of its document.
PointersNamePublished ==
  \A d \in Documents : current[d] # None => /\ DocumentOf[current[d]] = d
                                            /\ vstatus[current[d]] = "published"

BusyCallsHaveScope == \A h \in Handlers : call[h].pc # "idle" => call[h].scope \in Scopes

TypeInv == TypeOK /\ PointersNamePublished /\ BusyCallsHaveScope

Commit(h, d) ==
  \/ \E v \in Versions : DocumentOf[v] = d /\ (PublishVersion(h, v) \/ DeleteVersion(h, v))
  \/ UnpublishDocument(h, d) \/ DeleteDocument(h, d)

\* The steps of a rebuild before its commit, and its end.
PlanStep(h) == ReadRevision(h) \/ ReadCandidates(h) \/ EmbedTexts(h) \/ ApplyConflict(h) \/ RebuildFails(h)

LEMMA StepSplit ==
  ASSUME [Next]_vars
  PROVE  \/ \E h \in Handlers, d \in Documents : Commit(h, d)
         \/ \E h \in Handlers : PlanStep(h) \/ ApplyScope(h)
         \/ UNCHANGED vars
<1>1. ASSUME NEW h \in Handlers, NEW v \in Versions, PublishVersion(h, v) \/ DeleteVersion(h, v)
      PROVE  \E d \in Documents : Commit(h, d)
  <2>1. DocumentOf[v] \in Documents
    BY OwnersAssumption
  <2> QED BY <1>1, <2>1 DEF Commit
<1> QED BY <1>1 DEF Next, RebuildStep, PlanStep, Commit

\* What a commit does to the tables, of its document only.
LEMMA CommitFacts ==
  ASSUME TypeInv, NEW h \in Handlers, NEW d \in Documents, Commit(h, d)
  PROVE  /\ RebuildScope(h, d)
         /\ switch' = switch
         /\ current' \in [Documents -> Versions \cup {None}]
         /\ vstatus' \in [Versions -> VersionStatuses]
         /\ embedded' \subseteq embedded
         /\ \A e \in Documents : e # d => current'[e] = current[e]
         /\ \A v \in Versions : DocumentOf[v] # d => vstatus'[v] = vstatus[v]
         /\ \A v \in Versions : vstatus'[v] = "ready_to_publish" => vstatus[v] = "ready_to_publish"
         /\ \A v \in Versions : /\ current'[d] = v
                                /\ current[d] # v
                                => vstatus[v] = "ready_to_publish"
         /\ \A c \in embedded \ embedded' : /\ DocumentOf[VersionOf[c]] = d
                                            /\ vstatus'[VersionOf[c]] = "deleted"
         /\ current'[d] # None => DocumentOf[current'[d]] = d /\ vstatus'[current'[d]] = "published"
         /\ documents' \subseteq Documents
<1> USE OwnersAssumption, NoneAssumption
<1>0. /\ current \in [Documents -> Versions \cup {None}] /\ vstatus \in [Versions -> VersionStatuses]
      /\ embedded \subseteq Chunks /\ documents \subseteq Documents
      /\ current[d] # None => DocumentOf[current[d]] = d /\ vstatus[current[d]] = "published"
  BY DEF TypeInv, TypeOK, PointersNamePublished
<1>1. CASE UnpublishDocument(h, d)
  <2>1. /\ RebuildScope(h, d)
        /\ switch' = switch /\ embedded' = embedded /\ documents' = documents
        /\ current' = [current EXCEPT ![d] = None]
        /\ vstatus' = [w \in Versions |-> IF w = current[d] THEN "superseded" ELSE vstatus[w]]
    BY <1>1 DEF UnpublishDocument, chunks
  <2>2. vstatus' \in [Versions -> VersionStatuses]
    BY <1>0, <2>1 DEF VersionStatuses
  <2>3. \A v \in Versions : current[d] = v => DocumentOf[v] = d
    BY <1>0
  <2>4. \A v \in Versions : /\ DocumentOf[v] # d => vstatus'[v] = vstatus[v]
                            /\ vstatus'[v] = "ready_to_publish" => vstatus[v] = "ready_to_publish"
    BY <2>1, <2>3
  <2> QED BY <1>0, <2>1, <2>2, <2>4
<1>2. CASE DeleteDocument(h, d)
  <2>1. /\ RebuildScope(h, d)
        /\ switch' = switch /\ documents' = documents \ {d}
        /\ embedded' = {c \in embedded : DocumentOf[VersionOf[c]] # d}
        /\ current' = [current EXCEPT ![d] = None]
        /\ vstatus' = [w \in Versions |-> IF DocumentOf[w] = d THEN "deleted" ELSE vstatus[w]]
    BY <1>2 DEF DeleteDocument
  <2>2. vstatus' \in [Versions -> VersionStatuses]
    BY <1>0, <2>1 DEF VersionStatuses
  <2>3. \A v \in Versions : /\ DocumentOf[v] # d => vstatus'[v] = vstatus[v]
                            /\ DocumentOf[v] = d => vstatus'[v] = "deleted"
                            /\ vstatus'[v] = "ready_to_publish" => vstatus[v] = "ready_to_publish"
    BY <2>1
  <2>4. \A c \in embedded \ embedded' : /\ DocumentOf[VersionOf[c]] = d
                                        /\ vstatus'[VersionOf[c]] = "deleted"
    BY <1>0, <2>1, <2>3
  <2> QED BY <1>0, <2>1, <2>2, <2>3, <2>4
<1>3. ASSUME NEW v \in Versions, DocumentOf[v] = d, PublishVersion(h, v)
      PROVE  /\ RebuildScope(h, d)
             /\ switch' = switch /\ embedded' = embedded /\ documents' = documents
             /\ current' = [current EXCEPT ![d] = v]
             /\ vstatus[v] = "ready_to_publish"
             /\ vstatus' = [w \in Versions |-> IF w = v THEN "published"
                              ELSE IF w = current[d] THEN "superseded" ELSE vstatus[w]]
  BY <1>3 DEF PublishVersion, chunks
<1>4. ASSUME NEW v \in Versions, DocumentOf[v] = d, DeleteVersion(h, v)
      PROVE  /\ RebuildScope(h, d)
             /\ switch' = switch /\ embedded' = embedded \ ChunksOf(v) /\ documents' = documents
             /\ current' = current /\ current[d] # v
             /\ vstatus' = [vstatus EXCEPT ![v] = "deleted"]
  BY <1>4 DEF DeleteVersion
<1>5. CASE \E v \in Versions : DocumentOf[v] = d /\ PublishVersion(h, v)
  BY <1>0, <1>3, <1>5 DEF VersionStatuses
<1>6. CASE \E v \in Versions : DocumentOf[v] = d /\ DeleteVersion(h, v)
  BY <1>0, <1>4, <1>6 DEF VersionStatuses, ChunksOf
<1> QED BY <1>1, <1>2, <1>5, <1>6 DEF Commit

LEMMA CallsTyped ==
  /\ IdleCall \in Calls
  /\ \A s \in Scopes : [IdleCall EXCEPT !.pc = "load", !.scope = s] \in Calls
  /\ \A s \in Scopes, n \in 0..MaxSnapshotRetries :
        [IdleCall EXCEPT !.pc = "load", !.scope = s, !.attempt = n] \in Calls
  /\ \A r \in Calls : [r EXCEPT !.fresh = FALSE] \in Calls /\ [r EXCEPT !.pc = "applying"] \in Calls
  /\ \A r \in Calls, V \in SUBSET Versions : [r EXCEPT !.pc = "candidates", !.revision = V] \in Calls
  /\ \A r \in Calls, pc \in Steps, A \in SUBSET Chunks, B \in SUBSET Chunks, E \in SUBSET Chunks,
        t \in BOOLEAN :
        [r EXCEPT !.pc = pc, !.on = A, !.off = B, !.embed = E, !.torn = t, !.fresh = TRUE] \in Calls
<1>1. 0 \in 0..MaxSnapshotRetries
  BY RetriesAssumption
<1>2. IdleCall \in Calls
  BY <1>1 DEF IdleCall, Calls, Steps
<1>3. \A r \in Calls : [r EXCEPT !.fresh = FALSE] \in Calls /\ [r EXCEPT !.pc = "applying"] \in Calls
  BY DEF Calls, Steps
<1>4. \A r \in Calls, V \in SUBSET Versions : [r EXCEPT !.pc = "candidates", !.revision = V] \in Calls
  BY DEF Calls, Steps
<1>5. \A r \in Calls, pc \in Steps, A \in SUBSET Chunks, B \in SUBSET Chunks, E \in SUBSET Chunks,
         t \in BOOLEAN :
         [r EXCEPT !.pc = pc, !.on = A, !.off = B, !.embed = E, !.torn = t, !.fresh = TRUE] \in Calls
  <2> SUFFICES ASSUME NEW r \in Calls, NEW pc \in Steps, NEW A \in SUBSET Chunks,
                      NEW B \in SUBSET Chunks, NEW E \in SUBSET Chunks, NEW t \in BOOLEAN
               PROVE  [r EXCEPT !.pc = pc, !.on = A, !.off = B, !.embed = E, !.torn = t,
                                !.fresh = TRUE] \in Calls
    OBVIOUS
  <2> DEFINE q == [r EXCEPT !.pc = pc, !.on = A, !.off = B]
  <2>1. q \in Calls
    BY DEF Calls
  <2>2. [q EXCEPT !.embed = E, !.torn = t, !.fresh = TRUE] \in Calls
    BY <2>1 DEF Calls
  <2>3. [r EXCEPT !.pc = pc, !.on = A, !.off = B, !.embed = E, !.torn = t, !.fresh = TRUE]
          = [q EXCEPT !.embed = E, !.torn = t, !.fresh = TRUE]
    OBVIOUS
  <2> QED BY <2>2, <2>3
<1>6. \A r \in Calls, s \in Scopes : [r EXCEPT !.pc = "load", !.scope = s] \in Calls
  BY DEF Calls, Steps
<1>7. \A r \in Calls, s \in Scopes, n \in 0..MaxSnapshotRetries :
        [r EXCEPT !.pc = "load", !.scope = s, !.attempt = n] \in Calls
  BY DEF Calls, Steps
<1> QED BY <1>2, <1>3, <1>4, <1>5, <1>6, <1>7

\* The commit of h has the shape of RebuildScope.
LEMMA RebuildScopeFacts ==
  ASSUME TypeOK, NEW h \in Handlers, NEW d \in Documents, RebuildScope(h, d)
  PROVE  /\ call' \in [Handlers -> Calls]
         /\ call'[h].pc \in {"idle", "load"}
         /\ call'[h].pc = "load" => call'[h].scope \in Scopes
         /\ \A g \in Handlers \ {h} :
               call'[g] = IF call[g].scope = ScopeOf[d] THEN [call[g] EXCEPT !.fresh = FALSE]
                                                        ELSE call[g]
         /\ settled' = settled \ {ScopeOf[d]}
         /\ torn' = torn
<1>1. call \in [Handlers -> Calls]
  BY DEF TypeOK
<1>2. /\ call' = [g \in Handlers |->
            IF g = h
            THEN IF ScopeOf[d] \in Scopes
                 THEN [IdleCall EXCEPT !.pc = "load", !.scope = ScopeOf[d]] ELSE IdleCall
            ELSE IF call[g].scope = ScopeOf[d] THEN [call[g] EXCEPT !.fresh = FALSE] ELSE call[g]]
      /\ settled' = settled \ {ScopeOf[d]}
      /\ torn' = torn
  BY DEF RebuildScope
<1>3. call' \in [Handlers -> Calls]
  BY <1>1, <1>2, CallsTyped
<1>4. /\ IdleCall.pc = "idle"
      /\ \A s \in Scopes : LET r == [IdleCall EXCEPT !.pc = "load", !.scope = s]
                           IN  r.pc = "load" /\ r.scope = s
  BY DEF IdleCall
<1>5. /\ call'[h].pc \in {"idle", "load"}
      /\ call'[h].pc = "load" => call'[h].scope \in Scopes
  BY <1>2, <1>4
<1> QED BY <1>2, <1>3, <1>5

\* The steps of a plan change the call of h and nothing else.
LEMMA PlanStepFacts ==
  ASSUME TypeOK, NEW h \in Handlers, PlanStep(h),
         call[h].pc # "idle" => call[h].scope \in Scopes
  PROVE  /\ UNCHANGED <<documents, current, vstatus, switch, embedded, settled, torn>>
         /\ call' \in [Handlers -> Calls]
         /\ \A g \in Handlers \ {h} : call'[g] = call[g]
         /\ call'[h].pc # "idle" => call'[h].scope \in Scopes
<1>0. call \in [Handlers -> Calls] /\ call[h] \in Calls /\ RetriesAssumption
  BY RetriesAssumption DEF TypeOK
<1>1. \A r \in Calls : call' = [call EXCEPT ![h] = r]
                        => /\ call' \in [Handlers -> Calls] /\ call'[h] = r
                           /\ \A g \in Handlers \ {h} : call'[g] = call[g]
  BY <1>0
<1>2. CASE ReadRevision(h)
  <2>1. PICK V \in SUBSET Versions :
          call' = [call EXCEPT ![h] = [call[h] EXCEPT !.pc = "candidates", !.revision = V]]
    BY <1>2 DEF ReadRevision, Set, Revision
  <2>2. [call[h] EXCEPT !.pc = "candidates", !.revision = V].scope = call[h].scope
    BY <1>0 DEF Calls
  <2>3. call[h].pc = "load" /\ UNCHANGED <<documents, current, vstatus, switch, embedded, settled, torn>>
    BY <1>2 DEF ReadRevision, store, chunks, history
  <2> QED BY <1>0, <1>1, <2>1, <2>2, <2>3, CallsTyped
<1>3. CASE ReadCandidates(h)
  <2> DEFINE C == Candidates(call[h].scope)
  <2>1. PICK pc \in Steps, t \in BOOLEAN :
          call' = [call EXCEPT ![h] = [call[h] EXCEPT !.pc = pc, !.on = Canonicals(C),
                     !.off = C \ Canonicals(C), !.embed = Lacking(C), !.torn = t, !.fresh = TRUE]]
    <3>1. "applying" \in Steps /\ "embedding" \in Steps
      BY DEF Steps
    <3> QED BY <1>3, <3>1 DEF ReadCandidates, Set
  <2>2. C \in SUBSET Chunks /\ Canonicals(C) \in SUBSET Chunks /\ C \ Canonicals(C) \in SUBSET Chunks
        /\ Lacking(C) \in SUBSET Chunks
    BY DEF Candidates, Canonicals, Lacking
  <2>3. PICK A \in SUBSET Chunks, B \in SUBSET Chunks, E \in SUBSET Chunks :
          call' = [call EXCEPT ![h] = [call[h] EXCEPT !.pc = pc, !.on = A,
                     !.off = B, !.embed = E, !.torn = t, !.fresh = TRUE]]
    BY <2>1, <2>2
  <2>4. [call[h] EXCEPT !.pc = pc, !.on = A, !.off = B, !.embed = E, !.torn = t,
                        !.fresh = TRUE].scope = call[h].scope
    BY <1>0 DEF Calls
  <2>5. call[h].pc = "candidates" /\ UNCHANGED <<documents, current, vstatus, switch, embedded, settled, torn>>
    BY <1>3 DEF ReadCandidates, store, chunks, history
  <2>6. [call[h] EXCEPT !.pc = pc, !.on = A, !.off = B, !.embed = E, !.torn = t, !.fresh = TRUE] \in Calls
    BY <1>0, CallsTyped
  <2> QED BY <1>0, <1>1, <2>3, <2>4, <2>5, <2>6
<1>4. CASE EmbedTexts(h)
  <2>1. [call[h] EXCEPT !.pc = "applying"].scope = call[h].scope
    BY <1>0 DEF Calls
  <2> QED BY <1>0, <1>1, <1>4, <2>1, CallsTyped DEF EmbedTexts, Set, store, chunks, history
<1>5. CASE ApplyConflict(h)
  <2>1. call[h].pc = "applying" /\ UNCHANGED <<documents, current, vstatus, switch, embedded, settled, torn>>
    BY <1>5 DEF ApplyConflict, store, chunks, history
  <2>2. call[h].attempt \in 0..MaxSnapshotRetries
    BY <1>0 DEF Calls
  <2>3. CASE call[h].attempt = MaxSnapshotRetries
    <3>1. call' = [call EXCEPT ![h] = IdleCall]
      BY <1>5, <2>3 DEF ApplyConflict, Set
    <3> QED BY <1>1, <2>1, <3>1, CallsTyped DEF IdleCall
  <2>4. CASE call[h].attempt # MaxSnapshotRetries
    <3>1. PICK n : /\ n = call[h].attempt + 1
                   /\ call' = [call EXCEPT ![h] = [IdleCall EXCEPT !.pc = "load",
                                 !.scope = call[h].scope, !.attempt = n]]
      BY <1>5, <2>4 DEF ApplyConflict, Set
    <3>2. n \in 0..MaxSnapshotRetries
      BY <2>2, <2>4, <3>1, RetriesAssumption
    <3>3. [IdleCall EXCEPT !.pc = "load", !.scope = call[h].scope, !.attempt = n].scope
            = call[h].scope
      BY DEF IdleCall
    <3>4. [IdleCall EXCEPT !.pc = "load", !.scope = call[h].scope, !.attempt = n] \in Calls
      BY <2>1, <3>2, CallsTyped
    <3> QED BY <1>1, <2>1, <3>1, <3>3, <3>4
  <2> QED BY <2>3, <2>4
<1>6. CASE RebuildFails(h)
  BY <1>0, <1>1, <1>6, CallsTyped DEF RebuildFails, Set, IdleCall, store, chunks, history
<1> QED BY <1>2, <1>3, <1>4, <1>5, <1>6 DEF PlanStep

\* The commit of a rebuild.
LEMMA ApplyScopeFacts ==
  ASSUME TypeOK, NEW h \in Handlers, ApplyScope(h)
  PROVE  /\ UNCHANGED <<documents, current, vstatus>>
         /\ call[h].pc = "applying"
         /\ StillCurrent(h)
         /\ switch' = [c \in Chunks |-> IF c \in call[h].on THEN "on"
                          ELSE IF c \in call[h].off THEN "exact_duplicate" ELSE switch[c]]
         /\ embedded' = (embedded \ call[h].off) \cup call[h].embed
         /\ settled' = IF call[h].fresh THEN settled \cup {call[h].scope} ELSE settled
         /\ torn' = IF call[h].torn THEN torn \cup {call[h].scope} ELSE torn
         /\ call' \in [Handlers -> Calls]
         /\ call'[h] = IdleCall
         /\ \A g \in Handlers \ {h} : call'[g] = call[g]
<1>1. call' = [call EXCEPT ![h] = IdleCall]
  BY DEF ApplyScope, Set
<1>2. call \in [Handlers -> Calls] /\ IdleCall \in Calls
  BY CallsTyped DEF TypeOK
<1>3. /\ call' \in [Handlers -> Calls]
      /\ call'[h] = IdleCall
      /\ \A g \in Handlers \ {h} : call'[g] = call[g]
  BY <1>1, <1>2
<1> QED BY <1>3 DEF ApplyScope, store

LEMMA TypeStep == TypeInv /\ [Next]_vars => TypeInv'
<1> SUFFICES ASSUME TypeInv, [Next]_vars PROVE TypeInv'
  OBVIOUS
<1>0. TypeOK /\ PointersNamePublished /\ BusyCallsHaveScope
  BY DEF TypeInv
<1>1. ASSUME NEW h \in Handlers, NEW d \in Documents, Commit(h, d)
      PROVE  TypeInv'
  <2>1. /\ RebuildScope(h, d)
        /\ switch' = switch
        /\ current' \in [Documents -> Versions \cup {None}]
        /\ vstatus' \in [Versions -> VersionStatuses]
        /\ embedded' \subseteq embedded
        /\ \A e \in Documents : e # d => current'[e] = current[e]
        /\ \A v \in Versions : DocumentOf[v] # d => vstatus'[v] = vstatus[v]
        /\ current'[d] # None => DocumentOf[current'[d]] = d /\ vstatus'[current'[d]] = "published"
        /\ documents' \subseteq Documents
    BY <1>1, CommitFacts
  <2>2. /\ call' \in [Handlers -> Calls]
        /\ call'[h].pc = "load" => call'[h].scope \in Scopes
        /\ call'[h].pc \in {"idle", "load"}
        /\ \A g \in Handlers \ {h} :
              call'[g] = IF call[g].scope = ScopeOf[d] THEN [call[g] EXCEPT !.fresh = FALSE]
                                                       ELSE call[g]
        /\ settled' = settled \ {ScopeOf[d]}
        /\ torn' = torn
    BY <1>0, <2>1, RebuildScopeFacts
  <2>3. TypeOK'
    BY <1>0, <2>1, <2>2 DEF TypeOK
  <2>4. PointersNamePublished'
    <3> SUFFICES ASSUME NEW e \in Documents, current'[e] # None
                 PROVE  DocumentOf[current'[e]] = e /\ vstatus'[current'[e]] = "published"
      BY DEF PointersNamePublished
    <3>1. CASE e = d
      BY <2>1, <3>1
    <3>2. CASE e # d
      <4>1. current'[e] = current[e] /\ current[e] \in Versions
        BY <1>0, <2>1, <3>2 DEF TypeOK
      <4> QED BY <1>0, <2>1, <3>2, <4>1 DEF PointersNamePublished
    <3> QED BY <3>1, <3>2
  <2>5. BusyCallsHaveScope'
    <3> SUFFICES ASSUME NEW g \in Handlers, call'[g].pc # "idle"
                 PROVE  call'[g].scope \in Scopes
      BY DEF BusyCallsHaveScope
    <3>1. CASE g = h
      BY <2>2, <3>1
    <3>2. CASE g # h
      <4>1. \A r \in Calls : /\ [r EXCEPT !.fresh = FALSE].pc = r.pc
                             /\ [r EXCEPT !.fresh = FALSE].scope = r.scope
        BY DEF Calls
      <4>2. call[g] \in Calls
        BY <1>0 DEF TypeOK
      <4>3. call'[g].pc = call[g].pc /\ call'[g].scope = call[g].scope
        BY <2>2, <3>2, <4>1, <4>2
      <4> QED BY <1>0, <4>3 DEF BusyCallsHaveScope
    <3> QED BY <3>1, <3>2
  <2> QED BY <2>3, <2>4, <2>5 DEF TypeInv
<1>2. ASSUME NEW h \in Handlers, PlanStep(h)
      PROVE  TypeInv'
  <2>1. /\ UNCHANGED <<documents, current, vstatus, switch, embedded, settled, torn>>
        /\ call' \in [Handlers -> Calls]
        /\ \A g \in Handlers \ {h} : call'[g] = call[g]
        /\ call'[h].pc # "idle" => call'[h].scope \in Scopes
    BY <1>0, <1>2, PlanStepFacts DEF BusyCallsHaveScope
  <2> QED BY <1>0, <2>1 DEF TypeInv, TypeOK, PointersNamePublished, BusyCallsHaveScope
<1>3. ASSUME NEW h \in Handlers, ApplyScope(h)
      PROVE  TypeInv'
  <2>1. /\ UNCHANGED <<documents, current, vstatus>>
        /\ call[h].pc = "applying"
        /\ switch' = [c \in Chunks |-> IF c \in call[h].on THEN "on"
                         ELSE IF c \in call[h].off THEN "exact_duplicate" ELSE switch[c]]
        /\ embedded' = (embedded \ call[h].off) \cup call[h].embed
        /\ settled' = IF call[h].fresh THEN settled \cup {call[h].scope} ELSE settled
        /\ torn' = IF call[h].torn THEN torn \cup {call[h].scope} ELSE torn
        /\ call' \in [Handlers -> Calls]
        /\ call'[h] = IdleCall
        /\ \A g \in Handlers \ {h} : call'[g] = call[g]
    BY <1>0, <1>3, ApplyScopeFacts
  <2>2. call[h].scope \in Scopes /\ call[h].embed \subseteq Chunks
    BY <1>0, <2>1 DEF BusyCallsHaveScope, TypeOK, Calls
  <2>3. switch' \in [Chunks -> Switches]
    BY <1>0, <2>1 DEF TypeOK, Switches
  <2>4. settled' \subseteq Scopes /\ torn' \subseteq Scopes /\ embedded' \subseteq Chunks
    BY <1>0, <2>1, <2>2 DEF TypeOK
  <2>5. TypeOK'
    BY <1>0, <2>1, <2>3, <2>4 DEF TypeOK
  <2>6. PointersNamePublished'
    BY <1>0, <2>1 DEF PointersNamePublished
  <2>7. BusyCallsHaveScope'
    BY <1>0, <2>1 DEF BusyCallsHaveScope, IdleCall
  <2> QED BY <2>5, <2>6, <2>7 DEF TypeInv
<1>4. CASE UNCHANGED vars
  BY <1>0, <1>4 DEF TypeInv, TypeOK, PointersNamePublished, BusyCallsHaveScope,
                    vars, store, chunks, history
<1> QED BY <1>1, <1>2, <1>3, <1>4, StepSplit

LEMMA TypeInit == Init => TypeInv
<1> SUFFICES ASSUME Init PROVE TypeInv
  OBVIOUS
<1>1. TypeOK
  BY CallsTyped DEF Init, TypeOK, VersionStatuses
<1>2. PointersNamePublished
  BY DEF Init, PointersNamePublished
<1>3. BusyCallsHaveScope
  BY DEF Init, BusyCallsHaveScope, IdleCall
<1> QED BY <1>1, <1>2, <1>3 DEF TypeInv

LEMMA TypeInvariant == Spec => []TypeInv
BY TypeInit, TypeStep, PTL DEF Spec

\* Every variable keeps its type: plans name existing versions and chunks, and a
\* rebuild is tried again no more often than settings allow.
THEOREM DedupTypeCorrect == Spec => []TypeOK
<1>1. TypeInv => TypeOK
  BY DEF TypeInv
<1> QED BY <1>1, TypeInvariant, PTL

-----------------------------------------------------------------------------
(* Refinement: what readers see is VersionLifecycle.                       *)

LEMMA LifeTypes ==
  /\ LifeOf["ready_to_publish"] = "ready" /\ LifeOf["published"] = "published"
  /\ LifeOf["superseded"] = "retired" /\ LifeOf["deleted"] = "gone"
BY DEF LifeOf

\* Every step is one of the lifecycle or changes nothing there.
LEMMA LifeStep ==
  ASSUME TypeInv, [Next]_vars
  PROVE  [Lifecycle!Next]_(Lifecycle!vars)
<1> DEFINE Goal == [Lifecycle!Next]_(Lifecycle!vars)
           L == [v \in Versions |-> LifeOf[vstatus[v]]]
<1> SUFFICES Goal
  OBVIOUS
<1>0. /\ \A v \in Versions : L[v] = LifeOf[vstatus[v]]
      /\ vstatus \in [Versions -> VersionStatuses]
      /\ current \in [Documents -> Versions \cup {None}]
      /\ TypeOK /\ PointersNamePublished
  BY DEF TypeInv, TypeOK
<1>1. ASSUME NEW h \in Handlers, NEW v \in Versions, PublishVersion(h, v) PROVE Goal
  <2>1. Lifecycle!Publish(v)
    BY <1>1, LifeTypes, OwnersAssumption DEF PublishVersion, Lifecycle!Publish
  <2> QED BY <2>1 DEF Lifecycle!Next
<1>2. ASSUME NEW h \in Handlers, NEW v \in Versions, DeleteVersion(h, v) PROVE Goal
  <2>1. /\ vstatus[v] \in {"ready_to_publish", "superseded"} /\ current[DocumentOf[v]] # v
        /\ current' = current /\ vstatus' = [vstatus EXCEPT ![v] = "deleted"]
    BY <1>2 DEF DeleteVersion
  <2>2. Lifecycle!Move(v, "gone")
    BY <1>0, <2>1, LifeTypes DEF Lifecycle!Move
  <2>3. L[v] \in {"hidden", "ready", "retired"}
    BY <2>1, LifeTypes
  <2>4. Lifecycle!RemoveVersion(v)
    BY <2>1, <2>2, <2>3 DEF Lifecycle!RemoveVersion
  <2> QED BY <2>4 DEF Lifecycle!Next
<1>3. ASSUME NEW h \in Handlers, NEW d \in Documents, UnpublishDocument(h, d) PROVE Goal
  <2>1. /\ current' = [current EXCEPT ![d] = None]
        /\ vstatus' = [w \in Versions |-> IF w = current[d] THEN "superseded" ELSE vstatus[w]]
    BY <1>3 DEF UnpublishDocument
  <2>2. CASE current[d] = None
    <3>1. vstatus' = vstatus /\ current' = current
      BY <1>0, <2>1, <2>2, NoneAssumption
    <3> QED BY <3>1 DEF Lifecycle!vars
  <2>3. CASE current[d] # None
    <3>1. Lifecycle!Move(current[d], "retired")
      BY <1>0, <2>1, LifeTypes DEF Lifecycle!Move
    <3>2. Lifecycle!Withdraw(d)
      BY <2>1, <2>3, <3>1 DEF Lifecycle!Withdraw
    <3> QED BY <3>2 DEF Lifecycle!Next
  <2> QED BY <2>2, <2>3
<1>4. ASSUME NEW h \in Handlers, NEW d \in Documents, DeleteDocument(h, d) PROVE Goal
  <2>1. /\ current' = [current EXCEPT ![d] = None]
        /\ vstatus' = [w \in Versions |-> IF DocumentOf[w] = d THEN "deleted" ELSE vstatus[w]]
    BY <1>4 DEF DeleteDocument
  <2>2. \A w \in Versions : L[w] # "unborn"
    BY <1>0 DEF LifeOf, VersionStatuses
  <2>3. L' = [w \in Versions |-> IF DocumentOf[w] = d /\ L[w] # "unborn" THEN "gone" ELSE L[w]]
    BY <1>0, <2>1, <2>2, LifeTypes
  <2>4. Lifecycle!RemoveDocument(d)
    BY <2>1, <2>3 DEF Lifecycle!RemoveDocument
  <2> QED BY <2>4 DEF Lifecycle!Next
<1>5. ASSUME NEW h \in Handlers, PlanStep(h) \/ ApplyScope(h) PROVE Goal
  <2>1. current' = current /\ vstatus' = vstatus
    BY <1>5, <1>0, PlanStepFacts, ApplyScopeFacts DEF TypeInv, BusyCallsHaveScope
  <2> QED BY <2>1 DEF Lifecycle!vars
<1>6. CASE UNCHANGED vars
  BY <1>6 DEF vars, store, Lifecycle!vars
<1>7. ASSUME NEW h \in Handlers, NEW d \in Documents, Commit(h, d) PROVE Goal
  <2> HIDE DEF Goal
  <2> QED BY <1>1, <1>2, <1>3, <1>4, <1>7 DEF Commit
<1> HIDE DEF Goal
<1> QED BY <1>5, <1>6, <1>7, StepSplit

\* Publication with its rebuilds implements the lifecycle readers rely on.
THEOREM DedupLifecycle == Spec => LifecycleSpec
<1>1. Init => Lifecycle!Init
  BY LifeTypes DEF Init, Lifecycle!Init
<1>2. TypeInv /\ [Next]_vars => [Lifecycle!Next]_(Lifecycle!vars)
  BY LifeStep
<1> QED BY <1>1, <1>2, TypeInvariant, PTL DEF Spec, LifecycleSpec, Lifecycle!Spec

-----------------------------------------------------------------------------
(* The inductive invariant: what the plan of a rebuild still says of the    *)
(* tables when others have committed since it was made.                    *)

\* The candidates that a revision offers: a rebuild never switches one off for
\* another reason than an equal chunk, so they stay.
Offered(R) == {c \in Chunks : VersionOf[c] \in R /\ switch[c] # "off"}

Planned(r) == r.pc \in {"embedding", "applying"}

\* A version named in a revision is never published again once it is offline.
RevisionNamesPublished(r) ==
  r.pc \in {"candidates", "embedding", "applying"} =>
    \A v \in r.revision : ScopeOfVersion(v) = r.scope /\ vstatus[v] # "ready_to_publish"

PlanStaysInScope(r) ==
  Planned(r) =>
    /\ \A c \in r.on \cup r.off : switch[c] # "off" /\ ScopeOfChunk(c) = r.scope
    /\ r.embed \subseteq r.on
    /\ r.on \cap r.off = {}

\* A plan that was not torn splits the candidates of its revision.
PlanSplits(r) ==
  Planned(r) /\ ~r.torn =>
    /\ r.on = Canonicals(Offered(r.revision))
    /\ r.off = Offered(r.revision) \ r.on

PlanIsFresh(r) == Planned(r) /\ ~r.torn /\ r.fresh => r.revision = Revision(r.scope)

\* A canonical chunk that the plan does not embed is embedded, or the plan has no
\* findable chunk equal to it: others have rebuilt the scope since.
PlanKeepsContent(r) ==
  Planned(r) /\ ~r.torn /\ r.scope \notin torn /\ r.revision \subseteq Revision(r.scope) =>
    \A c \in r.on \ r.embed :
      \/ c \in embedded
      \/ \A b \in Group(r.on \cup r.off, c) : b \notin embedded \/ switch[b] # "on"

PlanEmbeds(r) ==
  Planned(r) /\ ~r.torn /\ r.scope \notin torn /\ r.fresh => r.on \ r.embed \subseteq embedded

PlanInv(r) ==
  /\ RevisionNamesPublished(r)
  /\ PlanStaysInScope(r)
  /\ PlanSplits(r)
  /\ PlanIsFresh(r)
  /\ PlanKeepsContent(r)
  /\ PlanEmbeds(r)

PlansInv == \A h \in Handlers, r \in Calls : r = call[h] => PlanInv(r)

LEMMA OfferedAreCandidates ==
  ASSUME TypeOK, NEW s
  PROVE  Candidates(s) = Offered(Revision(s))
BY DEF TypeOK, Switches, Candidates, Offered

\* A call that has no plan yet satisfies the invariant; so does one whose plan
\* is found to be outdated.
LEMMA NoPlan ==
  ASSUME NEW r \in Calls, r.pc \in {"idle", "load"}
  PROVE  PlanInv(r)
BY DEF PlanInv, RevisionNamesPublished, PlanStaysInScope, PlanSplits, PlanIsFresh,
       PlanKeepsContent, PlanEmbeds, Planned

LEMMA NoPlanNext ==
  ASSUME NEW r \in Calls, r.pc \in {"idle", "load"}
  PROVE  PlanInv(r)'
BY DEF PlanInv, RevisionNamesPublished, PlanStaysInScope, PlanSplits, PlanIsFresh,
       PlanKeepsContent, PlanEmbeds, Planned

LEMMA Outdated ==
  ASSUME NEW r \in Calls, PlanInv(r)
  PROVE  LET q == [r EXCEPT !.fresh = FALSE] IN
         /\ q \in Calls /\ PlanInv(q) /\ ~q.fresh
         /\ q.scope = r.scope
<1> DEFINE q == [r EXCEPT !.fresh = FALSE]
<1>1. /\ q \in Calls /\ q.pc = r.pc /\ q.scope = r.scope /\ q.revision = r.revision
      /\ q.on = r.on /\ q.off = r.off /\ q.embed = r.embed /\ q.torn = r.torn /\ q.fresh = FALSE
  BY DEF Calls
<1> HIDE DEF q
<1>2. PlanInv(q)
  BY <1>1 DEF PlanInv, RevisionNamesPublished, PlanStaysInScope, PlanSplits, PlanIsFresh,
              PlanKeepsContent, PlanEmbeds, Planned
<1>3. q \in Calls /\ PlanInv(q) /\ ~q.fresh /\ q.scope = r.scope
  BY <1>1, <1>2
<1> QED BY <1>3 DEF q

\* A plan survives a step that leaves the tables alone.
LEMMA PlanUntouched ==
  ASSUME NEW r \in Calls, PlanInv(r),
         UNCHANGED <<documents, current, vstatus, switch, embedded, settled, torn>>
  PROVE  PlanInv(r)'
<1>1. /\ \A s : Revision(s)' = Revision(s)
      /\ \A R : Offered(R)' = Offered(R)
  BY DEF Offered, Revision
<1>2. RevisionNamesPublished(r)' /\ PlanStaysInScope(r)'
  BY DEF PlanInv, RevisionNamesPublished, PlanStaysInScope
<1>3. PlanSplits(r)' /\ PlanIsFresh(r)'
  BY <1>1 DEF PlanInv, PlanSplits, PlanIsFresh
<1>4. PlanKeepsContent(r)'
  BY <1>1 DEF PlanInv, PlanKeepsContent
<1>5. PlanEmbeds(r)'
  BY DEF PlanInv, PlanEmbeds
<1> QED BY <1>2, <1>3, <1>4, <1>5 DEF PlanInv

\* A publication, withdrawal or deletion leaves the other scopes' revisions alone,
\* and the plans of its own scope are no longer fresh.
LEMMA CommitKeepsRevisions ==
  ASSUME TypeInv, NEW h \in Handlers, NEW d \in Documents, Commit(h, d),
         NEW s \in Scopes, s # ScopeOf[d]
  PROVE  Revision(s)' = Revision(s)
<1>1. /\ \A e \in Documents : e # d => current'[e] = current[e]
      /\ \A v \in Versions : DocumentOf[v] # d => vstatus'[v] = vstatus[v]
  BY CommitFacts
<1>2. \A v \in Versions : ScopeOfVersion(v) = s => DocumentOf[v] \in Documents /\ DocumentOf[v] # d
  BY OwnersAssumption DEF ScopeOfVersion
<1> QED BY <1>1, <1>2 DEF Revision

LEMMA CommitKeepsPlans ==
  ASSUME TypeInv, NEW h \in Handlers, NEW d \in Documents, Commit(h, d),
         NEW r \in Calls, PlanInv(r), r.pc # "idle" => r.scope \in Scopes,
         r.scope = ScopeOf[d] => ~r.fresh
  PROVE  PlanInv(r)'
<1>0. CASE r.pc \in {"idle", "load"}
  BY <1>0, NoPlanNext
<1>1. CASE r.pc \in {"candidates", "embedding", "applying"}
  <2>0. r.scope \in Scopes /\ r.revision \subseteq Versions /\ r.on \subseteq Chunks
        /\ r.off \subseteq Chunks
    BY <1>1 DEF Calls
  <2>1. /\ RebuildScope(h, d)
        /\ switch' = switch
        /\ embedded' \subseteq embedded
        /\ \A e \in Documents : e # d => current'[e] = current[e]
        /\ \A v \in Versions : DocumentOf[v] # d => vstatus'[v] = vstatus[v]
        /\ \A v \in Versions : vstatus'[v] = "ready_to_publish" => vstatus[v] = "ready_to_publish"
        /\ \A v \in Versions : /\ current'[d] = v
                               /\ current[d] # v
                               => vstatus[v] = "ready_to_publish"
        /\ \A c \in embedded \ embedded' : /\ DocumentOf[VersionOf[c]] = d
                                           /\ vstatus'[VersionOf[c]] = "deleted"
    BY CommitFacts
  <2>2. torn' = torn
    BY <2>1 DEF RebuildScope
  <2>3. \A R : Offered(R)' = Offered(R)
    BY <2>1 DEF Offered
  <2>4. RevisionNamesPublished(r)'
    BY <2>0, <2>1 DEF PlanInv, RevisionNamesPublished
  <2>5. PlanStaysInScope(r)'
    BY <2>1 DEF PlanInv, PlanStaysInScope
  <2>6. PlanSplits(r)'
    BY <2>3 DEF PlanInv, PlanSplits
  <2>7. PlanIsFresh(r)'
    BY <2>0, CommitKeepsRevisions DEF PlanInv, PlanIsFresh
  <2>8. ASSUME r.revision \subseteq Revision(r.scope)'
        PROVE  r.revision \subseteq Revision(r.scope)
    <3> SUFFICES ASSUME NEW v \in r.revision PROVE v \in Revision(r.scope)
      OBVIOUS
    <3>1. v \in Versions /\ ScopeOfVersion(v) = r.scope /\ vstatus[v] # "ready_to_publish"
      BY <1>1, <2>0 DEF PlanInv, RevisionNamesPublished
    <3>2. current'[DocumentOf[v]] = v /\ DocumentOf[v] \in Documents
      BY <2>8, <3>1, OwnersAssumption DEF Revision
    <3>3. current[DocumentOf[v]] = v
      BY <2>1, <3>1, <3>2
    <3>4. vstatus[v] = "published"
      BY <3>1, <3>2, <3>3, NoneAssumption DEF TypeInv, PointersNamePublished
    <3> QED BY <3>1, <3>3, <3>4 DEF Revision
  <2>9. PlanKeepsContent(r)'
    <3> SUFFICES ASSUME Planned(r), ~r.torn, r.scope \notin torn',
                        r.revision \subseteq Revision(r.scope)',
                        NEW c \in r.on \ r.embed
                 PROVE  \/ c \in embedded'
                        \/ \A b \in Group(r.on \cup r.off, c) : b \notin embedded' \/ switch'[b] # "on"
      BY DEF PlanKeepsContent
    <3>1. \/ c \in embedded
          \/ \A b \in Group(r.on \cup r.off, c) : b \notin embedded \/ switch[b] # "on"
      BY <2>2, <2>8 DEF PlanInv, PlanKeepsContent
    <3>2. c \in embedded => c \in embedded'
      <4>1. VersionOf[c] \in r.revision
        BY <2>0 DEF PlanInv, PlanSplits, Canonicals, Offered
      <4>2. vstatus'[VersionOf[c]] = "published"
        BY <4>1 DEF Revision
      <4> QED BY <2>1, <4>2
    <3> QED BY <2>1, <3>1, <3>2
  <2>10. PlanEmbeds(r)'
    <3> SUFFICES ASSUME Planned(r), ~r.torn, r.scope \notin torn', r.fresh,
                        NEW c \in r.on \ r.embed
                 PROVE  c \in embedded'
      BY DEF PlanEmbeds
    <3>1. c \in embedded
      BY <2>2 DEF PlanInv, PlanEmbeds
    <3>2. ScopeOfChunk(c) = r.scope /\ r.scope # ScopeOf[d]
      BY DEF PlanInv, PlanStaysInScope
    <3>3. DocumentOf[VersionOf[c]] # d
      BY <3>2 DEF ScopeOfChunk, ScopeOfVersion
    <3> QED BY <2>1, <3>1, <3>3
  <2> QED BY <2>4, <2>5, <2>6, <2>7, <2>9, <2>10 DEF PlanInv
<1> QED BY <1>0, <1>1 DEF Calls, Steps

\* What an applied plan leaves of an equal chunk.
LEMMA ApplyKeepsPlans ==
  ASSUME TypeInv, PlansInv, NEW h \in Handlers, ApplyScope(h),
         NEW r \in Calls, PlanInv(r)
  PROVE  PlanInv(r)'
<1>0. CASE r.pc \in {"idle", "load"}
  BY <1>0, NoPlanNext
<1>1. CASE r.pc \in {"candidates", "embedding", "applying"}
  <2> DEFINE p == call[h]
  <2>0. /\ p \in Calls /\ PlanInv(p) /\ p.pc = "applying" /\ Planned(p)
        /\ p.on \subseteq Chunks /\ p.off \subseteq Chunks /\ p.torn \in BOOLEAN
        /\ r.on \subseteq Chunks /\ r.off \subseteq Chunks
    <3>1. p \in Calls /\ p.pc = "applying"
      BY ApplyScopeFacts DEF TypeInv, TypeOK
    <3>2. PlanInv(p)
      <4>1. PICK q \in Calls : q = p
        BY <3>1
      <4>2. PlanInv(q)
        BY <4>1 DEF PlansInv
      <4> QED BY <4>1, <4>2
    <3> QED BY <3>1, <3>2 DEF Planned, Calls
  <2>1. /\ UNCHANGED <<documents, current, vstatus>>
        /\ p.revision = Revision(p.scope)
        /\ \A c \in Chunks : switch'[c] = IF c \in p.on THEN "on"
                                          ELSE IF c \in p.off THEN "exact_duplicate" ELSE switch[c]
        /\ embedded' = (embedded \ p.off) \cup p.embed
        /\ torn' = IF p.torn THEN torn \cup {p.scope} ELSE torn
    BY ApplyScopeFacts DEF TypeInv, StillCurrent
  <2>2. /\ \A c \in p.on \cup p.off : switch[c] # "off" /\ ScopeOfChunk(c) = p.scope
        /\ p.embed \subseteq p.on /\ p.on \cap p.off = {}
    BY <2>0 DEF PlanInv, PlanStaysInScope
  <2>3. \A s : Revision(s)' = Revision(s)
    BY <2>1 DEF Revision
  <2>4. \A c \in Chunks : (switch'[c] # "off") = (switch[c] # "off")
    BY <2>1, <2>2
  <2>5. \A R : Offered(R)' = Offered(R)
    BY <2>4 DEF Offered
  <2>6. RevisionNamesPublished(r)'
    BY <2>1 DEF PlanInv, RevisionNamesPublished
  <2>7. PlanStaysInScope(r)'
    BY <2>0, <2>4 DEF PlanInv, PlanStaysInScope
  <2>8. PlanSplits(r)'
    BY <2>5 DEF PlanInv, PlanSplits
  <2>9. PlanIsFresh(r)'
    BY <2>3 DEF PlanInv, PlanIsFresh
  <2> HIDE DEF p
  <2>10. ASSUME Planned(r), p.scope # r.scope, NEW c \in r.on \cup r.off
         PROVE  /\ switch'[c] = switch[c]
                /\ (c \in embedded') = (c \in embedded)
    <3>1. ScopeOfChunk(c) = r.scope
      BY <2>10 DEF PlanInv, PlanStaysInScope
    <3>2. c \notin p.on \cup p.off
      BY <2>2, <2>10, <3>1
    <3> QED BY <2>0, <2>1, <2>2, <3>2
  <2>11. PlanKeepsContent(r)'
    <3> SUFFICES ASSUME Planned(r), ~r.torn, r.scope \notin torn',
                        r.revision \subseteq Revision(r.scope),
                        NEW c \in r.on \ r.embed
                 PROVE  \/ c \in embedded'
                        \/ \A b \in Group(r.on \cup r.off, c) : b \notin embedded' \/ switch'[b] # "on"
      BY <2>3 DEF PlanKeepsContent
    <3>1. CASE p.scope # r.scope
      <4>1. \/ c \in embedded
            \/ \A b \in Group(r.on \cup r.off, c) : b \notin embedded \/ switch[b] # "on"
        BY <2>1 DEF PlanInv, PlanKeepsContent
      <4>2. \A b \in Group(r.on \cup r.off, c) : b \in r.on \cup r.off
        BY DEF Group
      <4> QED BY <2>10, <3>1, <4>1, <4>2
    <3>2. CASE p.scope = r.scope
      <4>1. ~p.torn /\ p.scope \notin torn
        BY <2>1, <3>2
      <4>2. /\ p.on = Canonicals(Offered(p.revision)) /\ p.off = Offered(p.revision) \ p.on
            /\ r.on = Canonicals(Offered(r.revision)) /\ r.off = Offered(r.revision) \ r.on
        BY <2>0, <4>1 DEF PlanInv, PlanSplits
      <4>3. r.on \cup r.off \subseteq p.on \cup p.off
        BY <2>1, <3>2, <4>2 DEF Offered, Canonicals
      <4>4. \A b \in Group(r.on \cup r.off, c) : /\ HashOf[b] = HashOf[c] /\ c <= b
                                                 /\ b \in p.on \cup p.off /\ b \in Nat /\ c \in Nat
        <5> TAKE b \in Group(r.on \cup r.off, c)
        <5>1. b \in Offered(r.revision) /\ HashOf[b] = HashOf[c]
          BY <4>2 DEF Group, Canonicals
        <5>2. c <= b
          BY <4>2, <5>1 DEF Group, Canonicals
        <5>3. b \in p.on \cup p.off /\ b \in Chunks /\ c \in Chunks
          BY <2>0, <4>3 DEF Group
        <5> QED BY <5>1, <5>2, <5>3, ChunksAssumption
      <4>5. CASE c \in p.off
        <5>1. PICK e \in Offered(p.revision) : HashOf[e] = HashOf[c] /\ ~(c <= e) /\ e \in Nat
          BY <4>2, <4>5, ChunksAssumption DEF Canonicals, Group, Offered
        <5>2. ASSUME NEW b \in Group(r.on \cup r.off, c) PROVE b \notin p.on
          <6>1. b \in p.on => b <= e
            BY <4>2, <4>4, <5>1 DEF Canonicals, Group
          <6>2. c <= b /\ c \in Nat /\ b \in Nat
            BY <4>4
          <6> QED BY <5>1, <6>1, <6>2
        <5> QED BY <2>0, <2>1, <4>4, <5>2
      <4>6. CASE c \in p.on
        <5>1. c \in p.embed \cup embedded => c \in embedded'
          BY <2>1, <2>2, <4>6
        <5>2. ASSUME c \notin p.embed \cup embedded, NEW b \in Group(r.on \cup r.off, c)
              PROVE  b \notin embedded'
          <6>1. CASE b = c
            BY <2>1, <5>2, <6>1
          <6>2. CASE b # c
            <7>1. b \in p.on => b <= c
              BY <4>2, <4>4, <4>6 DEF Canonicals, Group
            <7>2. b \in p.off
              BY <4>4, <6>2, <7>1
            <7> QED BY <2>1, <2>2, <7>2
          <6> QED BY <6>1, <6>2
        <5> QED BY <5>1, <5>2
      <4> QED BY <4>3, <4>5, <4>6
    <3> QED BY <3>1, <3>2
  <2>12. PlanEmbeds(r)'
    <3> SUFFICES ASSUME Planned(r), ~r.torn, r.scope \notin torn', r.fresh,
                        NEW c \in r.on \ r.embed
                 PROVE  c \in embedded'
      BY DEF PlanEmbeds
    <3>1. c \in embedded
      BY <2>1 DEF PlanInv, PlanEmbeds
    <3>2. CASE p.scope # r.scope
      BY <2>10, <3>1, <3>2
    <3>3. CASE p.scope = r.scope
      <4>1. ~p.torn /\ r.revision = p.revision
        BY <2>1, <3>3 DEF PlanInv, PlanIsFresh
      <4>2. r.on = p.on
        BY <2>0, <4>1 DEF PlanInv, PlanSplits
      <4> QED BY <2>1, <2>2, <3>1, <4>2
    <3> QED BY <3>2, <3>3
  <2> QED BY <2>6, <2>7, <2>8, <2>9, <2>11, <2>12 DEF PlanInv
<1> QED BY <1>0, <1>1 DEF Calls, Steps

\* The plan that the candidates just read give.
LEMMA NewPlan ==
  ASSUME TypeInv, PlansInv, NEW h \in Handlers, ReadCandidates(h)
  PROVE  PlanInv(call'[h])
<1> DEFINE p == call[h]
           q == call'[h]
           C == Candidates(p.scope)
<1>0. call \in [Handlers -> Calls] /\ p \in Calls /\ p.pc = "candidates"
  BY DEF TypeInv, TypeOK, ReadCandidates
<1>1. PlanInv(p)
  <2>1. PICK r \in Calls : r = p
    BY <1>0
  <2>2. PlanInv(r)
    BY <2>1 DEF PlansInv
  <2> QED BY <2>1, <2>2
<1>2. /\ q.pc \in {"embedding", "applying"}
      /\ q.scope = p.scope /\ q.revision = p.revision
      /\ q.on = Canonicals(C) /\ q.off = C \ Canonicals(C) /\ q.embed = Lacking(C)
      /\ q.torn = (p.revision # Revision(p.scope))
  <2>1. PICK pc \in {"embedding", "applying"} :
          q = [p EXCEPT !.pc = pc, !.on = Canonicals(C), !.off = C \ Canonicals(C),
                        !.embed = Lacking(C), !.torn = p.revision # Revision(p.scope),
                        !.fresh = TRUE]
    BY <1>0 DEF ReadCandidates, Set
  <2> QED BY <1>0, <2>1 DEF Calls
<1>3. /\ Canonicals(C) \subseteq C
      /\ \A c \in C : /\ c \in Chunks /\ switch[c] # "off" /\ ScopeOfChunk(c) = p.scope
      /\ Lacking(C) \subseteq Canonicals(C)
      /\ \A c \in Canonicals(C) \ Lacking(C) : c \in embedded
  BY DEF Canonicals, Candidates, Lacking, Revision, ScopeOfChunk
<1>4. C = Offered(Revision(p.scope))
  BY OfferedAreCandidates DEF TypeInv
<1>5. ~q.torn => q.revision = Revision(q.scope)
  BY <1>2
<1> HIDE DEF q, C
<1>6. RevisionNamesPublished(q)
  BY <1>0, <1>1, <1>2 DEF PlanInv, RevisionNamesPublished
<1> HIDE DEF p
<1>7. PlanStaysInScope(q)
  BY <1>2, <1>3 DEF PlanStaysInScope
<1>8. PlanSplits(q)
  BY <1>2, <1>4, <1>5 DEF PlanSplits
<1>9. PlanIsFresh(q)
  BY <1>5 DEF PlanIsFresh
<1>10. PlanKeepsContent(q) /\ PlanEmbeds(q)
  BY <1>2, <1>3 DEF PlanKeepsContent, PlanEmbeds
<1> QED BY <1>6, <1>7, <1>8, <1>9, <1>10 DEF PlanInv, q

\* The other steps of a rebuild do not change what its plan says.
LEMMA OwnPlan ==
  ASSUME TypeInv, PlansInv, NEW h \in Handlers, PlanStep(h)
  PROVE  PlanInv(call'[h])
<1> DEFINE p == call[h]
           q == call'[h]
<1>0. call \in [Handlers -> Calls] /\ p \in Calls
  BY DEF TypeInv, TypeOK
<1>1. PlanInv(p)
  <2>1. PICK r \in Calls : r = p
    BY <1>0
  <2>2. PlanInv(r)
    BY <2>1 DEF PlansInv
  <2> QED BY <2>1, <2>2
<1>2. CASE ReadRevision(h)
  <2>1. q = [p EXCEPT !.pc = "candidates", !.revision = Revision(p.scope)]
    BY <1>0, <1>2 DEF ReadRevision, Set
  <2>2. q.pc = "candidates" /\ q.scope = p.scope /\ q.revision = Revision(p.scope)
    BY <1>0, <2>1 DEF Calls
  <2>3. RevisionNamesPublished(q)
    BY <2>2 DEF RevisionNamesPublished, Revision
  <2> QED BY <2>2, <2>3 DEF PlanInv, PlanStaysInScope, PlanSplits, PlanIsFresh,
                            PlanKeepsContent, PlanEmbeds, Planned
<1>3. CASE ReadCandidates(h)
  BY <1>3, NewPlan
<1>4. CASE EmbedTexts(h)
  <2>1. q = [p EXCEPT !.pc = "applying"] /\ p.pc = "embedding"
    BY <1>0, <1>4 DEF EmbedTexts, Set
  <2>2. /\ q.pc = "applying" /\ q.scope = p.scope /\ q.revision = p.revision /\ q.on = p.on
        /\ q.off = p.off /\ q.embed = p.embed /\ q.torn = p.torn /\ q.fresh = p.fresh
    BY <1>0, <2>1 DEF Calls
  <2> HIDE DEF p, q
  <2>3. PlanInv(q)
    BY <1>1, <2>1, <2>2
       DEF PlanInv, RevisionNamesPublished, PlanStaysInScope, PlanSplits, PlanIsFresh,
           PlanKeepsContent, PlanEmbeds, Planned
  <2> QED BY <2>3 DEF q
<1>5. CASE ApplyConflict(h) \/ RebuildFails(h)
  <2>1. \/ q = IdleCall
        \/ q = [IdleCall EXCEPT !.pc = "load", !.scope = p.scope, !.attempt = p.attempt + 1]
    BY <1>0, <1>5 DEF ApplyConflict, RebuildFails, Set
  <2>2. [IdleCall EXCEPT !.pc = "load", !.scope = p.scope, !.attempt = p.attempt + 1].pc = "load"
    BY DEF IdleCall
  <2>3. q.pc \in {"idle", "load"}
    <3>1. CASE q = IdleCall
      BY <3>1 DEF IdleCall
    <3>2. CASE q = [IdleCall EXCEPT !.pc = "load", !.scope = p.scope, !.attempt = p.attempt + 1]
      BY <2>2, <3>2
    <3> QED BY <2>1, <3>1, <3>2
  <2> QED BY <2>3 DEF PlanInv, RevisionNamesPublished, PlanStaysInScope, PlanSplits, PlanIsFresh,
                      PlanKeepsContent, PlanEmbeds, Planned
<1> QED BY <1>2, <1>3, <1>4, <1>5 DEF PlanStep

LEMMA PlansStep == TypeInv /\ PlansInv /\ [Next]_vars => PlansInv'
<1> SUFFICES ASSUME TypeInv, PlansInv, [Next]_vars,
                    NEW g \in Handlers, NEW r \in Calls, r = call'[g]
             PROVE  PlanInv(r)'
  BY DEF PlansInv
<1>0. /\ call \in [Handlers -> Calls] /\ call[g] \in Calls
      /\ call[g].pc # "idle" => call[g].scope \in Scopes
      /\ TypeOK /\ BusyCallsHaveScope
  BY DEF TypeInv, TypeOK, BusyCallsHaveScope
<1>1. PICK o \in Calls : o = call[g]
  BY <1>0
<1>2. PlanInv(o)
  BY <1>1 DEF PlansInv
<1>3. ASSUME NEW h \in Handlers, NEW d \in Documents, Commit(h, d)
      PROVE  PlanInv(r)'
  <2>1. RebuildScope(h, d)
    BY <1>3, CommitFacts
  <2>2. /\ call'[h].pc \in {"idle", "load"}
        /\ g # h => r = IF o.scope = ScopeOf[d] THEN [o EXCEPT !.fresh = FALSE] ELSE o
    BY <1>0, <1>1, <2>1, RebuildScopeFacts
  <2>3. CASE g = h
    BY <2>2, <2>3, NoPlanNext
  <2>4. CASE g # h /\ o.scope = ScopeOf[d]
    <3>1. r = [o EXCEPT !.fresh = FALSE]
      BY <2>2, <2>4
    <3>2. PlanInv(r) /\ ~r.fresh /\ r.scope = o.scope /\ r.pc = o.pc
      <4>1. PlanInv(r) /\ ~r.fresh /\ r.scope = o.scope
        BY <1>2, <3>1, Outdated
      <4>2. r.pc = o.pc
        BY <3>1 DEF Calls
      <4> QED BY <4>1, <4>2
    <3> QED BY <1>0, <1>1, <1>3, <3>2, CommitKeepsPlans
  <2>5. CASE g # h /\ o.scope # ScopeOf[d]
    <3>1. r = o
      BY <2>2, <2>5
    <3> QED BY <1>0, <1>1, <1>2, <1>3, <2>5, <3>1, CommitKeepsPlans
  <2> QED BY <2>3, <2>4, <2>5
<1>4. ASSUME NEW h \in Handlers, PlanStep(h)
      PROVE  PlanInv(r)'
  <2>1. /\ UNCHANGED <<documents, current, vstatus, switch, embedded, settled, torn>>
        /\ g # h => call'[g] = call[g]
    BY <1>0, <1>4, PlanStepFacts DEF BusyCallsHaveScope
  <2>2. PlanInv(r)
    BY <1>1, <1>2, <1>4, <2>1, OwnPlan
  <2> QED BY <2>1, <2>2, PlanUntouched
<1>5. ASSUME NEW h \in Handlers, ApplyScope(h)
      PROVE  PlanInv(r)'
  <2>1. call'[h] = IdleCall /\ IdleCall.pc = "idle" /\ (g # h => call'[g] = call[g])
    BY <1>0, <1>5, ApplyScopeFacts DEF IdleCall
  <2>2. CASE g = h
    BY <2>1, <2>2, NoPlanNext
  <2>3. CASE g # h
    BY <1>1, <1>2, <1>5, <2>1, <2>3, ApplyKeepsPlans
  <2> QED BY <2>2, <2>3
<1>6. CASE UNCHANGED vars
  BY <1>1, <1>2, <1>6, PlanUntouched DEF vars, store, chunks, history
<1> QED BY <1>3, <1>4, <1>5, <1>6, StepSplit

LEMMA PlansInvariant == Spec => []PlansInv
<1>1. Init => PlansInv
  <2> SUFFICES ASSUME Init, NEW h \in Handlers, NEW r \in Calls, r = call[h] PROVE PlanInv(r)
    BY DEF PlansInv
  <2>1. r.pc = "idle"
    BY DEF Init, IdleCall
  <2> QED BY <2>1, NoPlan
<1> QED BY <1>1, PlansStep, TypeInvariant, PTL DEF Spec

-----------------------------------------------------------------------------
(* What the rebuilds promise.                                              *)

\* The plan that ApplyScope(h) applies, with its invariant.
LEMMA AppliedPlan ==
  ASSUME TypeInv, PlansInv, NEW h \in Handlers, ApplyScope(h)
  PROVE  LET p == call[h] IN
         /\ p \in Calls /\ PlanInv(p) /\ Planned(p)
         /\ p.revision = Revision(p.scope)
         /\ p.scope \in Scopes
<1>1. call[h] \in Calls /\ call[h].pc = "applying" /\ StillCurrent(h)
  BY ApplyScopeFacts DEF TypeInv, TypeOK
<1>2. PICK r \in Calls : r = call[h]
  BY <1>1
<1>3. PlanInv(r)
  BY <1>2 DEF PlansInv
<1> QED BY <1>1, <1>2, <1>3 DEF Planned, StillCurrent, TypeInv, BusyCallsHaveScope

\* The chunks of another scope are left alone.
LEMMA OtherScopes ==
  ASSUME TypeInv, PlansInv, NEW h \in Handlers, ApplyScope(h),
         NEW s \in Scopes, s # call[h].scope
  PROVE  /\ Candidates(s)' = Candidates(s)
         /\ \A c \in Candidates(s) : /\ switch'[c] = switch[c]
                                     /\ (c \in embedded') = (c \in embedded)
<1>1. PICK p \in Calls : p = call[h] /\ PlanInv(p) /\ Planned(p)
  BY AppliedPlan
<1>2. /\ UNCHANGED <<documents, current, vstatus>>
      /\ \A c \in Chunks : switch'[c] = IF c \in p.on THEN "on"
                                        ELSE IF c \in p.off THEN "exact_duplicate" ELSE switch[c]
      /\ embedded' = (embedded \ p.off) \cup p.embed
  BY <1>1, ApplyScopeFacts DEF TypeInv
<1>3. /\ \A c \in p.on \cup p.off : ScopeOfChunk(c) = p.scope
      /\ p.embed \subseteq p.on
  BY <1>1 DEF PlanInv, PlanStaysInScope
<1>4. \A c \in Chunks : ScopeOfChunk(c) = s =>
         /\ switch'[c] = switch[c]
         /\ (c \in embedded') = (c \in embedded)
  BY <1>1, <1>2, <1>3
<1>5. Revision(s)' = Revision(s) /\ \A v \in Revision(s) : ScopeOfVersion(v) = s
  BY <1>2 DEF Revision
<1>6. \A c \in Chunks : VersionOf[c] \in Revision(s) => ScopeOfChunk(c) = s
  BY <1>5 DEF ScopeOfChunk
<1> QED BY <1>4, <1>5, <1>6 DEF Candidates

\* A rebuild rewrites only chunks of versions that are published when it is applied.
THEOREM RewritesPublished == Spec => OnlyPublishedRewritten
<1>1. ASSUME TypeInv, PlansInv, [Next]_vars,
             NEW c \in Chunks, switch'[c] # switch[c]
      PROVE  VersionOf[c] \in Revision(ScopeOfChunk(c)) \/ ScopeOfChunk(c) \in torn'
  <2>1. ASSUME NEW h \in Handlers, ApplyScope(h)
        PROVE  VersionOf[c] \in Revision(ScopeOfChunk(c)) \/ ScopeOfChunk(c) \in torn'
    <3>1. PICK p \in Calls : /\ p = call[h] /\ PlanInv(p) /\ Planned(p)
                             /\ p.revision = Revision(p.scope)
      BY <1>1, <2>1, AppliedPlan
    <3>2. /\ torn' = IF p.torn THEN torn \cup {p.scope} ELSE torn
          /\ c \in p.on \cup p.off
      BY <1>1, <2>1, <3>1, ApplyScopeFacts DEF TypeInv
    <3>3. ScopeOfChunk(c) = p.scope
      BY <3>1, <3>2 DEF PlanInv, PlanStaysInScope
    <3>4. ~p.torn => c \in Offered(p.revision)
      BY <3>1, <3>2 DEF PlanInv, PlanSplits, Canonicals
    <3>5. ~p.torn => VersionOf[c] \in p.revision
      BY <3>4 DEF Offered
    <3> QED BY <3>1, <3>2, <3>3, <3>5
  <2>2. ASSUME NEW h \in Handlers, NEW d \in Documents, Commit(h, d) PROVE FALSE
    BY <1>1, <2>2, CommitFacts
  <2>3. ASSUME NEW h \in Handlers, PlanStep(h) PROVE FALSE
    BY <1>1, <2>3, PlanStepFacts DEF TypeInv, BusyCallsHaveScope
  <2>4. CASE UNCHANGED vars
    BY <1>1, <2>4 DEF vars, chunks
  <2> QED BY <1>1, <2>1, <2>2, <2>3, <2>4, StepSplit
<1>2. TypeInv /\ PlansInv /\ [Next]_vars =>
        [\A c \in Chunks : switch'[c] # switch[c] =>
            VersionOf[c] \in Revision(ScopeOfChunk(c)) \/ ScopeOfChunk(c) \in torn']_vars
  BY <1>1
<1> QED BY <1>2, TypeInvariant, PlansInvariant, PTL DEF Spec, OnlyPublishedRewritten

\* A set of natural numbers has a least one; so every group of equal chunks has
\* its canonical one.
LEMMA Least ==
  ASSUME NEW T \in SUBSET Nat, T # {}
  PROVE  \E x \in T : \A y \in T : x <= y
<1>1. IsWellFoundedOn(OpToRel(<, Nat), Nat)
  BY NatLessThanWellFounded
<1>2. PICK x \in T : \A y \in T : ~(<<y, x>> \in OpToRel(<, Nat))
  BY <1>1, WFMin
<1>3. \A y \in T : ~(y < x)
  BY <1>2 DEF OpToRel
<1> QED BY <1>3

LEMMA CanonicalExists ==
  ASSUME NEW C \in SUBSET Chunks, NEW c \in C
  PROVE  \E k \in Canonicals(C) : HashOf[k] = HashOf[c]
<1>1. Group(C, c) \in SUBSET Nat /\ c \in Group(C, c)
  BY ChunksAssumption DEF Group
<1>2. PICK k \in Group(C, c) : \A b \in Group(C, c) : k <= b
  BY <1>1, Least
<1>3. k \in C /\ HashOf[k] = HashOf[c] /\ Group(C, k) = Group(C, c)
  BY <1>2 DEF Group
<1> QED BY <1>2, <1>3 DEF Canonicals

\* A rebuild, also one whose plan is outdated, hides no content that a reader
\* could find.
THEOREM NothingHidden == Spec => RebuildsHideNothing
<1>1. ASSUME TypeInv, PlansInv, [Next]_vars, NEW s \in Scopes,
             current' = current, s \notin torn',
             NEW b \in Chunks, b \in Candidates(s), switch[b] = "on", b \in embedded
      PROVE  \E k \in Chunks : /\ k \in Candidates(s)' /\ switch'[k] = "on" /\ k \in embedded'
                               /\ HashOf[k] = HashOf[b]
  <2>1. ASSUME NEW h \in Handlers, NEW d \in Documents, Commit(h, d)
        PROVE  b \in Candidates(s)' /\ switch'[b] = "on" /\ b \in embedded'
    <3>1. /\ switch' = switch
          /\ \A v \in Versions : DocumentOf[v] # d => vstatus'[v] = vstatus[v]
          /\ \A c \in embedded \ embedded' : /\ DocumentOf[VersionOf[c]] = d
                                             /\ vstatus'[VersionOf[c]] = "deleted"
          /\ current'[d] # None => DocumentOf[current'[d]] = d /\ vstatus'[current'[d]] = "published"
      BY <1>1, <2>1, CommitFacts
    <3> DEFINE v == VersionOf[b]
    <3>2. v \in Versions /\ v \in Revision(s)
      BY <1>1 DEF Candidates, Revision
    <3>3. vstatus'[v] = "published"
      <4>1. CASE DocumentOf[v] = d
        BY <1>1, <3>1, <3>2, <4>1, NoneAssumption DEF Revision
      <4>2. CASE DocumentOf[v] # d
        BY <3>1, <3>2, <4>2 DEF Revision
      <4> QED BY <4>1, <4>2
    <3>4. v \in Revision(s)'
      BY <1>1, <3>2, <3>3 DEF Revision
    <3>5. b \in Candidates(s)'
      BY <1>1, <3>1, <3>4 DEF Candidates
    <3>6. b \in embedded'
      BY <1>1, <3>1, <3>3
    <3> QED BY <1>1, <3>1, <3>5, <3>6
  <2>2. ASSUME UNCHANGED <<documents, current, vstatus, switch, embedded, settled, torn>>
        PROVE  b \in Candidates(s)' /\ switch'[b] = "on" /\ b \in embedded'
    BY <1>1, <2>2 DEF Candidates, Revision
  <2>3. ASSUME NEW h \in Handlers, ApplyScope(h), s # call[h].scope
        PROVE  b \in Candidates(s)' /\ switch'[b] = "on" /\ b \in embedded'
    BY <1>1, <2>3, OtherScopes
  <2>4. ASSUME NEW h \in Handlers, ApplyScope(h), s = call[h].scope
        PROVE  \E k \in Chunks : /\ k \in Candidates(s)' /\ switch'[k] = "on" /\ k \in embedded'
                                 /\ HashOf[k] = HashOf[b]
    <3>1. PICK p \in Calls : /\ p = call[h] /\ PlanInv(p) /\ Planned(p)
                             /\ p.revision = Revision(p.scope)
      BY <1>1, <2>4, AppliedPlan
    <3>2. /\ UNCHANGED <<documents, current, vstatus>>
          /\ \A c \in Chunks : switch'[c] = IF c \in p.on THEN "on"
                                            ELSE IF c \in p.off THEN "exact_duplicate" ELSE switch[c]
          /\ embedded' = (embedded \ p.off) \cup p.embed
          /\ torn' = IF p.torn THEN torn \cup {p.scope} ELSE torn
      BY <1>1, <2>4, <3>1, ApplyScopeFacts DEF TypeInv
    <3>3. ~p.torn /\ p.scope \notin torn
      BY <1>1, <2>4, <3>1, <3>2
    <3>4. /\ p.on = Canonicals(Offered(p.revision)) /\ p.off = Offered(p.revision) \ p.on
          /\ p.embed \subseteq p.on /\ p.on \cap p.off = {}
      BY <3>1, <3>3 DEF PlanInv, PlanSplits, PlanStaysInScope
    <3>5. Candidates(s) = Offered(p.revision) /\ Offered(p.revision) \in SUBSET Chunks
      BY <1>1, <2>4, <3>1, OfferedAreCandidates DEF TypeInv, Offered
    <3>6. PICK k \in Canonicals(Offered(p.revision)) : HashOf[k] = HashOf[b]
      BY <1>1, <3>5, CanonicalExists
    <3>7. k \in p.on /\ k \in Chunks /\ k \in Offered(p.revision) /\ k \notin p.off
      BY <3>4, <3>5, <3>6 DEF Canonicals
    <3>8. k \in embedded'
      <4>1. CASE k \in p.embed
        BY <3>2, <4>1
      <4>2. CASE k \notin p.embed
        <5>1. \/ k \in embedded
              \/ \A e \in Group(p.on \cup p.off, k) : e \notin embedded \/ switch[e] # "on"
          BY <3>1, <3>3, <3>7, <4>2 DEF PlanInv, PlanKeepsContent
        <5>2. b \in Group(p.on \cup p.off, k)
          BY <1>1, <3>4, <3>5, <3>6 DEF Group
        <5> QED BY <1>1, <3>2, <3>7, <5>1, <5>2
      <4> QED BY <4>1, <4>2
    <3>9. switch'[k] = "on"
      BY <3>2, <3>7
    <3>10. k \in Candidates(s)'
      <4>1. VersionOf[k] \in Revision(s)
        BY <3>5, <3>7 DEF Candidates
      <4> QED BY <3>2, <3>7, <3>9, <4>1 DEF Candidates, Revision
    <3> QED BY <3>6, <3>7, <3>8, <3>9, <3>10
  <2>5. ASSUME NEW h \in Handlers, PlanStep(h)
        PROVE  UNCHANGED <<documents, current, vstatus, switch, embedded, settled, torn>>
    BY <1>1, <2>5, PlanStepFacts DEF TypeInv, BusyCallsHaveScope
  <2>6. CASE UNCHANGED vars
    BY <1>1, <2>2, <2>6 DEF vars, store, chunks, history
  <2> QED BY <1>1, <2>1, <2>2, <2>3, <2>4, <2>5, <2>6, StepSplit
<1>2. ASSUME TypeInv, PlansInv, [Next]_vars, NEW s \in Scopes,
             current' = current, s \notin torn', NEW x \in Findable(s)
      PROVE  x \in Findable(s)'
  <2>1. PICK b \in Chunks : /\ b \in Candidates(s) /\ switch[b] = "on" /\ b \in embedded
                            /\ x = HashOf[b]
    BY <1>2 DEF Findable, Candidates
  <2>2. PICK k \in Chunks : /\ k \in Candidates(s)' /\ switch'[k] = "on" /\ k \in embedded'
                            /\ HashOf[k] = HashOf[b]
    BY <1>1, <1>2, <2>1
  <2> QED BY <2>1, <2>2 DEF Findable
<1>3. TypeInv /\ PlansInv /\ [Next]_vars =>
        [\A s \in Scopes : UNCHANGED current /\ s \notin torn'
                             => Findable(s) \subseteq Findable(s)']_vars
  BY <1>2
<1> QED BY <1>3, TypeInvariant, PlansInvariant, PTL DEF Spec, RebuildsHideNothing

LEMMA CanonicalStep ==
  TypeInv /\ PlansInv /\ CanonicalWhenSettled /\ [Next]_vars => CanonicalWhenSettled'
<1> SUFFICES ASSUME TypeInv, PlansInv, CanonicalWhenSettled, [Next]_vars,
                    NEW s \in settled', s \notin torn', NEW c \in Candidates(s)'
             PROVE  IF c \in Canonicals(Candidates(s)')
                    THEN switch'[c] = "on" /\ c \in embedded'
                    ELSE switch'[c] = "exact_duplicate" /\ c \notin embedded'
  BY DEF CanonicalWhenSettled, Canonical
<1> DEFINE Goal == IF c \in Canonicals(Candidates(s)')
                   THEN switch'[c] = "on" /\ c \in embedded'
                   ELSE switch'[c] = "exact_duplicate" /\ c \notin embedded'
<1> SUFFICES Goal
  OBVIOUS
<1>0. TypeOK /\ settled' \subseteq Scopes
  BY TypeStep DEF TypeInv, TypeOK
<1>1. ASSUME s \in settled, s \notin torn, Candidates(s)' = Candidates(s),
             switch'[c] = switch[c], (c \in embedded') = (c \in embedded)
      PROVE  Goal
  BY <1>1 DEF CanonicalWhenSettled, Canonical
<1>2. ASSUME NEW h \in Handlers, NEW d \in Documents, Commit(h, d)
      PROVE  Goal
  <2>1. /\ switch' = switch
        /\ embedded' \subseteq embedded
        /\ \A a \in embedded \ embedded' : DocumentOf[VersionOf[a]] = d
        /\ settled' = settled \ {ScopeOf[d]} /\ torn' = torn
    BY <1>2, CommitFacts DEF RebuildScope
  <2>2. Revision(s)' = Revision(s)
    BY <1>0, <1>2, <2>1, CommitKeepsRevisions
  <2>3. Candidates(s)' = Candidates(s)
    BY <2>1, <2>2 DEF Candidates
  <2>4. DocumentOf[VersionOf[c]] # d
    BY <2>1, <2>3 DEF Candidates, Revision, ScopeOfVersion
  <2> QED BY <1>1, <2>1, <2>3, <2>4
<1>3. ASSUME UNCHANGED <<documents, current, vstatus, switch, embedded, settled, torn>>
      PROVE  Goal
  <2>1. Candidates(s)' = Candidates(s)
    BY <1>3 DEF Candidates, Revision
  <2> QED BY <1>1, <1>3, <2>1
<1>4. ASSUME NEW h \in Handlers, ApplyScope(h)
      PROVE  Goal
  <2>1. PICK p \in Calls : /\ p = call[h] /\ PlanInv(p) /\ Planned(p)
                           /\ p.revision = Revision(p.scope) /\ p.scope \in Scopes
    BY <1>4, AppliedPlan
  <2>2. /\ UNCHANGED <<documents, current, vstatus>>
        /\ \A a \in Chunks : switch'[a] = IF a \in p.on THEN "on"
                                          ELSE IF a \in p.off THEN "exact_duplicate" ELSE switch[a]
        /\ embedded' = (embedded \ p.off) \cup p.embed
        /\ torn' = IF p.torn THEN torn \cup {p.scope} ELSE torn
        /\ settled' = IF p.fresh THEN settled \cup {p.scope} ELSE settled
    BY <1>4, <2>1, ApplyScopeFacts DEF TypeInv
  <2>3. CASE s # p.scope
    <3>1. s \in settled /\ s \notin torn
      BY <2>2, <2>3
    <3>2. Candidates(s)' = Candidates(s) /\ switch'[c] = switch[c]
          /\ (c \in embedded') = (c \in embedded)
      BY <1>0, <1>4, <2>1, <2>3, OtherScopes
    <3> QED BY <1>1, <3>1, <3>2
  <2>4. CASE s = p.scope
    <3>1. ~p.torn /\ s \notin torn
      BY <2>2, <2>4
    <3>2. /\ p.on = Canonicals(Offered(p.revision)) /\ p.off = Offered(p.revision) \ p.on
          /\ p.embed \subseteq p.on /\ p.on \cap p.off = {}
          /\ \A a \in p.on \cup p.off : switch[a] # "off"
      BY <2>1, <3>1 DEF PlanInv, PlanSplits, PlanStaysInScope
    <3>3. Candidates(s) = Offered(p.revision)
      BY <1>0, <2>1, <2>4, OfferedAreCandidates
    <3>4. \A a \in Chunks : (switch'[a] # "off") = (switch[a] # "off")
      BY <2>2, <3>2
    <3>5. Candidates(s)' = Candidates(s)
      <4>1. Candidates(s)' = Offered(Revision(s))'
        BY TypeStep DEF TypeInv, TypeOK, Switches, Candidates, Offered
      <4>2. Offered(Revision(s))' = Offered(Revision(s))
        BY <2>2, <3>4 DEF Offered, Revision
      <4> QED BY <2>1, <2>4, <3>3, <4>1, <4>2
    <3>6. c \in Chunks /\ (c \in Canonicals(Candidates(s)') <=> c \in p.on)
          /\ (c \notin p.on => c \in p.off)
      BY <3>2, <3>3, <3>5 DEF Candidates
    <3>7. ASSUME c \in p.on PROVE c \in embedded'
      <4>1. CASE p.fresh
        BY <2>1, <2>2, <2>4, <3>1, <3>2, <3>7, <4>1 DEF PlanInv, PlanEmbeds
      <4>2. CASE ~p.fresh
        <5>1. s \in settled
          BY <2>2, <4>2
        <5>2. c \in embedded
          BY <3>1, <3>2, <3>3, <3>5, <3>7, <5>1 DEF CanonicalWhenSettled, Canonical
        <5> QED BY <2>2, <3>2, <3>7, <5>2
      <4> QED BY <2>1, <4>1, <4>2 DEF Calls
    <3> QED BY <2>2, <3>2, <3>6, <3>7
  <2> QED BY <2>3, <2>4
<1>5. ASSUME NEW h \in Handlers, PlanStep(h)
      PROVE  UNCHANGED <<documents, current, vstatus, switch, embedded, settled, torn>>
  BY <1>5, PlanStepFacts DEF TypeInv, BusyCallsHaveScope
<1>6. CASE UNCHANGED vars
  BY <1>3, <1>6 DEF vars, store, chunks, history
<1> HIDE DEF Goal
<1> QED BY <1>2, <1>3, <1>4, <1>5, <1>6, StepSplit

\* A scope stays canonical once a rebuild that read it after its last commit has
\* been applied, whatever older rebuilds are applied later - torn ones excepted.
THEOREM SettledAreCanonical == Spec => []CanonicalWhenSettled
<1>1. Init => CanonicalWhenSettled
  <2> SUFFICES ASSUME Init, NEW s PROVE Candidates(s) = {}
    BY DEF CanonicalWhenSettled, Canonical
  <2>1. Revision(s) = {}
    BY DEF Init, Revision
  <2> QED BY <2>1 DEF Candidates
<1> QED BY <1>1, CanonicalStep, TypeInvariant, PlansInvariant, PTL DEF Spec
=============================================================================
