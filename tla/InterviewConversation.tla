----------------------- MODULE InterviewConversation -----------------------
(***************************************************************************)
(* One interview conversation: the handlers that answer its questions      *)
(* (InterviewWorkflowService.ask), the keys they share in Redis - the      *)
(* conversation, its turn lock, one record per request id - and the quota  *)
(* of the grant in PostgreSQL.  Every call to Redis or PostgreSQL may fail *)
(* or be cancelled, before or after it took effect, and every key but the  *)
(* quota has a time to live.                                               *)
(***************************************************************************)
EXTENDS Integers, Sequences

CONSTANTS
  Requests,      \* request ids, each with its question (another question under a
                 \* used id is refused before anything is written)
  Handlers,      \* calls of ask in progress at once
  MaxTurns,      \* conversation_max_turns
  MaxRequests,   \* the grant's max_requests
  None           \* no lock, no request

ASSUME TurnsAssumption == MaxTurns \in Nat \ {0}
ASSUME QuotaAssumption == MaxRequests \in Nat
ASSUME NoneAssumption == None \notin Handlers \cup Requests

VARIABLES
  conversation,  \* interview_conversation:<id>
  lock,          \* interview_conversation_lock:<id>: the handler whose token it holds
  record,        \* interview_request:<id>:<request id>
  revoked,       \* the grant was revoked or has expired
  used,          \* access_grants.request_count
  handler,       \* the calls of ask
  charged,       \* history: how often a request id was charged
  expired        \* history: request ids that had a pending record expire

store == <<conversation, lock, record>>
grant == <<revoked, used, charged>>
vars == <<store, grant, handler, expired>>

ConversationStates == {"none", "live", "deleted", "expired"}
RecordStates == {"none", "pending", "completed", "failed"}

\* What a handler does next.
BeforeLock == {"idle", "loaded", "acquiring"}
Started == {"charging", "exhausted", "running", "saving", "completing", "failing"}
Locked == {"locked", "beginning", "releasing"} \cup Started

\* late is history: the lock has expired since this call took it.
IdleHandler == [pc |-> "idle", request |-> None, turns |-> <<>>, late |-> FALSE]

TypeOK ==
  /\ conversation \in [state : ConversationStates, turns : Seq(Requests)]
  /\ Len(conversation.turns) <= MaxTurns
  /\ lock \in Handlers \cup {None}
  /\ record \in [Requests -> RecordStates]
  /\ revoked \in BOOLEAN
  /\ used \in 0..MaxRequests
  /\ handler \in [Handlers -> [pc : BeforeLock \cup Locked, request : Requests \cup {None},
                               turns : Seq(Requests), late : BOOLEAN]]
  /\ \A h \in Handlers : Len(handler[h].turns) <= MaxTurns
  /\ charged \in [Requests -> Nat]
  /\ expired \subseteq Requests

Init ==
  /\ conversation = [state |-> "none", turns |-> <<>>]
  /\ lock = None
  /\ record = [r \in Requests |-> "none"]
  /\ revoked = FALSE
  /\ used = 0
  /\ handler = [h \in Handlers |-> IdleHandler]
  /\ charged = [r \in Requests |-> 0]
  /\ expired = {}

RequestOf(h) == handler[h].request
At(h, pc) == handler[h].pc = pc
Goto(h, pc) == handler' = [handler EXCEPT ![h].pc = pc]
Return(h) == handler' = [handler EXCEPT ![h] = IdleHandler]
SetRecord(h, s) == record' = [record EXCEPT ![RequestOf(h)] = s]

-----------------------------------------------------------------------------
(* ask, one action per call it waits for.                                  *)

\* read_owned: the handler keeps what it read until it saves its turn.  The grant
\* has been checked by the route's dependency.
Load(h, r) ==
  /\ At(h, "idle")
  /\ ~revoked
  /\ conversation.state = "live"
  /\ handler' = [handler EXCEPT ![h] = [pc |-> "loaded", request |-> r,
                                        turns |-> conversation.turns, late |-> FALSE]]
  /\ UNCHANGED <<store, grant, expired>>

\* read_request: an answered request is answered again from its record, a failed
\* or pending one is refused.
LookUp(h) ==
  /\ At(h, "loaded")
  /\ IF record[RequestOf(h)] = "none" THEN Goto(h, "acquiring") ELSE Return(h)
  /\ UNCHANGED <<store, grant, expired>>

\* Mutant of AcquireLock: sets the lock whether or not it is held.
AcquireLockAnyway(h) ==
  /\ At(h, "acquiring")
  /\ lock' = h
  /\ Goto(h, "locked")
  /\ UNCHANGED <<conversation, record, grant, expired>>

AcquireLock(h) ==
  /\ At(h, "acquiring")
  /\ IF lock = None THEN lock' = h /\ Goto(h, "locked")
                    ELSE lock' = lock /\ Return(h)         \* ConversationBusyError
  /\ UNCHANGED <<conversation, record, grant, expired>>

\* Any of the three calls fails or is cancelled, outside the try block: a lock
\* that was set all the same belongs to nobody.
GiveUp(h) ==
  /\ handler[h].pc \in {"loaded", "acquiring"}
  /\ lock' = lock \/ (At(h, "acquiring") /\ lock = None /\ lock' = h)
  /\ Return(h)
  /\ UNCHANGED <<conversation, record, grant, expired>>

LookUpAgain(h) ==
  /\ At(h, "locked")
  /\ Goto(h, IF record[RequestOf(h)] = "none" THEN "beginning" ELSE "releasing")
  /\ UNCHANGED <<store, grant, expired>>

BeginRequest(h) ==
  /\ At(h, "beginning")
  /\ IF record[RequestOf(h)] = "none"
     THEN SetRecord(h, "pending") /\ Goto(h, "charging")
     ELSE record' = record /\ Goto(h, "releasing")
  /\ UNCHANGED <<conversation, lock, grant, expired>>

\* The record may have been created, but the handler does not know
\* (idempotency_started is still False) and leaves it.
BeginRequestFails(h) ==
  /\ handler[h].pc \in {"locked", "beginning"}
  /\ \/ record' = record
     \/ At(h, "beginning") /\ record[RequestOf(h)] = "none" /\ SetRecord(h, "pending")
  /\ Goto(h, "releasing")
  /\ UNCHANGED <<conversation, lock, grant, expired>>

\* Mutant of Consume: the maximum is not in the UPDATE's WHERE clause.
ConsumeUnbounded(h) ==
  /\ ~revoked
  /\ used' = used + 1
  /\ charged' = [charged EXCEPT ![RequestOf(h)] = @ + 1]
  /\ UNCHANGED revoked

Consume(h) ==
  /\ ~revoked
  /\ used < MaxRequests
  /\ used' = used + 1
  /\ charged' = [charged EXCEPT ![RequestOf(h)] = @ + 1]
  /\ UNCHANGED revoked

ConsumeQuota(h) ==
  /\ At(h, "charging")
  /\ \/ Consume(h) /\ Goto(h, "running")
     \/ /\ revoked \/ used = MaxRequests
        /\ Goto(h, "exhausted")
        /\ UNCHANGED grant
  /\ UNCHANGED <<store, expired>>

\* Cancelled (the record is set to failed), or the repository is unavailable
\* (ConversationWorkflowUnavailableError passes the except clauses by).
ConsumeQuotaFails(h) ==
  /\ At(h, "charging")
  /\ Consume(h) \/ UNCHANGED grant
  /\ \E pc \in {"failing", "releasing"} : Goto(h, pc)
  /\ UNCHANGED <<store, expired>>

\* delete_request: nothing was charged, the id may be used again.
WithdrawRequest(h) ==
  /\ At(h, "exhausted")
  /\ SetRecord(h, "none")
  /\ Goto(h, "releasing")
  /\ UNCHANGED <<conversation, lock, grant, expired>>

WithdrawRequestFails(h) ==
  /\ At(h, "exhausted")
  /\ record' = record \/ SetRecord(h, "none")
  /\ Goto(h, "failing")
  /\ UNCHANGED <<conversation, lock, grant, expired>>

\* graph.run, which is bounded by agent_run_timeout_seconds.
RunGraph(h) ==
  /\ At(h, "running")
  /\ Goto(h, "saving")
  /\ UNCHANGED <<store, grant, expired>>

\* A provider error, the timeout or a cancellation sets the record to failed; an
\* exception of any other type passes by.
RunGraphFails(h) ==
  /\ At(h, "running")
  /\ \E pc \in {"failing", "releasing"} : Goto(h, pc)
  /\ UNCHANGED <<store, grant, expired>>

\* recent_turns[-max_turns:]
Recent(s) == IF Len(s) > MaxTurns THEN SubSeq(s, Len(s) - MaxTurns + 1, Len(s)) ELSE s

\* save_owned writes the conversation the handler read, with the new turn, over
\* whatever is there, or nowhere.
WriteTurn(h) ==
  /\ conversation.state # "expired"
  /\ conversation' = [state |-> "live", turns |-> Recent(Append(handler[h].turns, RequestOf(h)))]

SaveTurn(h) ==
  /\ At(h, "saving")
  /\ \/ WriteTurn(h) /\ Goto(h, "completing")
     \/ /\ conversation.state = "expired"      \* ConversationExpiredError: not caught
        /\ Goto(h, "releasing")
        /\ UNCHANGED conversation
  /\ UNCHANGED <<lock, record, grant, expired>>

SaveTurnFails(h) ==
  /\ At(h, "saving")
  /\ WriteTurn(h) \/ UNCHANGED conversation
  /\ Goto(h, "failing")
  /\ UNCHANGED <<lock, record, grant, expired>>

CompleteRequest(h) ==
  /\ At(h, "completing")
  /\ SetRecord(h, "completed")
  /\ Goto(h, "releasing")
  /\ UNCHANGED <<conversation, lock, grant, expired>>

CompleteRequestFails(h) ==
  /\ At(h, "completing")
  /\ record' = record \/ SetRecord(h, "completed")
  /\ Goto(h, "failing")
  /\ UNCHANGED <<conversation, lock, grant, expired>>

\* Mutant of FailRequest: forgets the failed request, so that it can be retried.
FailRequestForgotten(h) ==
  /\ At(h, "failing")
  /\ SetRecord(h, "none")
  /\ Goto(h, "releasing")
  /\ UNCHANGED <<conversation, lock, grant, expired>>

FailRequest(h) ==
  /\ At(h, "failing")
  /\ SetRecord(h, "failed")
  /\ Goto(h, "releasing")
  /\ UNCHANGED <<conversation, lock, grant, expired>>

FailRequestFails(h) ==
  /\ At(h, "failing")
  /\ record' = record \/ SetRecord(h, "failed")
  /\ Goto(h, "releasing")
  /\ UNCHANGED <<conversation, lock, grant, expired>>

\* Mutant of ReleaseLock: deletes the key, whoever's token it holds.
ReleaseAnyLock(h) ==
  /\ At(h, "releasing")
  /\ lock' = None
  /\ Return(h)
  /\ UNCHANGED <<conversation, record, grant, expired>>

\* release_turn_lock, in the finally clause: deletes the key if it holds this
\* handler's token.
ReleaseLock(h) ==
  /\ At(h, "releasing")
  /\ lock' = IF lock = h THEN None ELSE lock
  /\ Return(h)
  /\ UNCHANGED <<conversation, record, grant, expired>>

\* The API process stops, or release_turn_lock fails.
Stop(h) ==
  /\ handler[h].pc \in Locked
  /\ Return(h)
  /\ UNCHANGED <<store, grant, expired>>

-----------------------------------------------------------------------------
(* The other calls, and time.                                              *)

CreateConversation ==
  /\ conversation.state = "none"
  /\ conversation' = [state |-> "live", turns |-> <<>>]
  /\ UNCHANGED <<lock, record, grant, handler, expired>>

\* delete_owned takes no lock.
DeleteConversation ==
  /\ conversation.state = "live"
  /\ conversation' = [state |-> "deleted", turns |-> <<>>]
  /\ UNCHANGED <<lock, record, grant, handler, expired>>

\* expires_at, which no save moves.
ConversationExpires ==
  /\ conversation.state \in {"live", "deleted"}
  /\ conversation' = [state |-> "expired", turns |-> <<>>]
  /\ UNCHANGED <<lock, record, grant, handler, expired>>

Revoke ==
  /\ ~revoked
  /\ revoked' = TRUE
  /\ UNCHANGED <<store, used, charged, handler, expired>>

\* The key lives for the timeout of a run and 15 s more, but that is not all the
\* handler does under it: the calls to Redis and PostgreSQL around the run take up to
\* their own timeouts.  So it may expire at any time, also under a handler at work.
LockExpires ==
  /\ lock # None
  /\ lock' = None
  /\ handler' = IF handler[lock].pc \in Locked THEN [handler EXCEPT ![lock].late = TRUE]
                                              ELSE handler
  /\ UNCHANGED <<conversation, record, grant, expired>>

\* Mutants of PendingExpires: a time to live shorter than a run; one for every
\* record that is shorter than the conversation's.
PendingExpiresEarly(r) ==
  /\ record[r] = "pending"
  /\ record' = [record EXCEPT ![r] = "none"]
  /\ expired' = expired \cup {r}
  /\ UNCHANGED <<conversation, lock, grant, handler>>

RecordExpires(r) ==
  /\ record[r] # "none"
  /\ \A h \in Handlers : RequestOf(h) = r => handler[h].pc \notin Started
  /\ record' = [record EXCEPT ![r] = "none"]
  /\ expired' = expired \cup {r}
  /\ UNCHANGED <<conversation, lock, grant, handler>>

\* A pending record lives twice the timeout of a run, and a minute at least: longer
\* than the handler that made it, which charges, runs and saves before it writes the
\* record again.  Completed and failed records live as long as a new conversation, so
\* they outlive this one.
PendingExpires(r) ==
  /\ record[r] = "pending"
  /\ \A h \in Handlers : RequestOf(h) = r => handler[h].pc \notin Started
  /\ record' = [record EXCEPT ![r] = "none"]
  /\ expired' = expired \cup {r}
  /\ UNCHANGED <<conversation, lock, grant, handler>>

Proceed(h) ==
  \/ LookUp(h) \/ AcquireLock(h) \/ LookUpAgain(h) \/ BeginRequest(h)
  \/ ConsumeQuota(h) \/ WithdrawRequest(h) \/ RunGraph(h) \/ SaveTurn(h)
  \/ CompleteRequest(h) \/ FailRequest(h) \/ ReleaseLock(h)

\* A call fails with or without effect; or the client that reads the event stream is
\* gone, and the stream cancels ask at whatever it awaits.
Fail(h) ==
  \/ GiveUp(h) \/ BeginRequestFails(h) \/ ConsumeQuotaFails(h)
  \/ WithdrawRequestFails(h) \/ RunGraphFails(h) \/ SaveTurnFails(h)
  \/ CompleteRequestFails(h) \/ FailRequestFails(h) \/ Stop(h)

Environment ==
  \/ CreateConversation \/ DeleteConversation \/ ConversationExpires
  \/ Revoke \/ LockExpires
  \/ \E r \in Requests : PendingExpires(r)

Next ==
  \/ \E h \in Handlers : \/ \E r \in Requests : Load(h, r)
                         \/ Proceed(h)
                         \/ Fail(h)
  \/ Environment

Spec == Init /\ [][Next]_vars

-----------------------------------------------------------------------------
(* Safety.                                                                 *)

\* The lock keeps concurrent questions apart for as long as it lives: of the handlers
\* between its acquisition and its release, all but one have seen theirs expire.  No
\* handler that comes late to its release frees its successor's lock.
OneRunUnlessLate ==
  \A g, h \in Handlers :
    /\ handler[g].pc \in Locked /\ ~handler[g].late
    /\ handler[h].pc \in Locked /\ ~handler[h].late
    => g = h

\* The grant has nothing left to charge, for good.
GrantOver == revoked \/ used = MaxRequests
Uncharged(r) == charged[r] = 0 \/ r \in expired

\* From its charge to its answer a request belongs to one handler, though the lock may
\* have expired: its record is pending, and no other handler that has begun it is still
\* there, to run it again or to write another outcome.  And an id without a record is
\* as good as new: nothing was charged for it, unless a pending record was left behind
\* and has expired.
RunIsRecorded ==
  /\ \A h \in Handlers : handler[h].pc \in {"running", "saving", "completing"} =>
       /\ record[RequestOf(h)] = "pending"
       /\ \A g \in Handlers \ {h} :
            handler[g].pc \in Started => RequestOf(g) # RequestOf(h)
  /\ \A r \in Requests : record[r] = "none" => Uncharged(r)

\* A request id is charged again only when a pending record of it was left behind
\* and has expired: neither retries, lost replies, failures nor an exhausted
\* quota charge twice.
ChargedOnceUnlessExpired ==
  \A r \in Requests : charged[r] > 1 => r \in expired

\* Nor is it answered twice: a request id is in the history once, also when a
\* handler saves a history that it read before others saved theirs.
AnsweredOnceUnlessExpired ==
  \A i, k \in DOMAIN conversation.turns :
    conversation.turns[i] = conversation.turns[k] => i = k \/ conversation.turns[i] \in expired

-----------------------------------------------------------------------------
(* Action properties.                                                      *)

\* The outcome recorded for a request stays while the conversation lives, so a
\* replay tells every client the same.  Only a handler whose own write was not
\* acknowledged turns it into a failure; and only a handler that was refused by the
\* quota, and so charged nothing, withdraws a failure (another one's, that was late).
OutcomesStay ==
  [][\A r \in Requests :
        record[r] \in {"completed", "failed"} =>
          \/ record'[r] = record[r]
          \/ \E h \in Handlers :
               /\ RequestOf(h) = r
               /\ \/ At(h, "failing") /\ record'[r] = "failed"
                  \/ /\ At(h, "exhausted") /\ Uncharged(r)
                     /\ record[r] = "failed" /\ record'[r] = "none"]_vars

-----------------------------------------------------------------------------
(* The conversation as its clients see it.                                 *)

\* How far a handler is with the question it has begun.
PhaseOf == [charging |-> "accepted", exhausted |-> "refused", running |-> "charged",
            saving |-> "charged", completing |-> "charged", failing |-> "failing"]
NoQuestion == [request |-> None, phase |-> "idle", late |-> FALSE]
Serving ==
  [h \in Handlers |->
     IF handler[h].pc \in Started
     THEN [request |-> RequestOf(h), phase |-> PhaseOf[handler[h].pc], late |-> handler[h].late]
     ELSE NoQuestion]

\* Handlers side by side, with leaked locks, lost replies and expiring keys, take
\* questions as leases would give them: a question is begun in its turn, charged,
\* answered, withdrawn or failed only by the handler that serves it, no record
\* expires under it, and only an expired lock lets the next one begin before.
Leased == INSTANCE LeasedTurns WITH serving <- Serving, Calls <- Handlers
LeasedSpec == Leased!Spec

-----------------------------------------------------------------------------
(* What the documents say and the code does not keep.                      *)

\* "A retry with the same request_id is not charged again."
RetriesAreFree == \A r \in Requests : charged[r] <= 1

\* The conversation keeps its latest turns: a save adds one to those that are
\* there, dropping the oldest only when there are more than MaxTurns.
SavesKeepTurns ==
  [][conversation.state = "live" /\ conversation'.state = "live" =>
       \/ conversation' = conversation
       \/ \E r \in Requests :
            conversation'.turns = Recent(Append(conversation.turns, r))]_vars
=============================================================================
