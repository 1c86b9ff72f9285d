-------------------- MODULE InterviewConversationProofs --------------------
(***************************************************************************)
(* The turn lock admits one run at a time for as long as it lives; the     *)
(* request records keep an id from being charged or answered twice even    *)
(* when it does not, for any number of handlers, requests and turns.       *)
(***************************************************************************)
EXTENDS InterviewConversation, SequenceTheorems, TLAPS

Asking == [pc : BeforeLock \cup Locked, request : Requests \cup {None}, turns : Seq(Requests),
           late : BOOLEAN]
History == {s \in Seq(Requests) : Len(s) <= MaxTurns}

\* A handler that is not idle has a request.
HandlersOK ==
  /\ handler \in [Handlers -> Asking]
  /\ \A h \in Handlers : handler[h].turns \in History
  /\ \A h \in Handlers : handler[h].pc # "idle" => handler[h].request \in Requests

TypeInv == TypeOK /\ HandlersOK

\* Keeping the latest turns keeps at most MaxTurns of them.
LEMMA RecentTurns ==
  ASSUME NEW s \in History, NEW r \in Requests
  PROVE  Recent(Append(s, r)) \in History
<1> DEFINE t == Append(s, r)
<1>1. t \in Seq(Requests) /\ Len(t) = Len(s) + 1 /\ Len(s) \in Nat
  BY AppendProperties DEF History
<1>2. CASE Len(t) <= MaxTurns
  BY <1>1, <1>2, TurnsAssumption DEF Recent, History
<1>3. CASE Len(t) > MaxTurns
  <2>1. Len(t) - MaxTurns + 1 \in 1..(Len(t) + 1)
    BY <1>1, <1>3, TurnsAssumption
  <2>2. SubSeq(t, Len(t) - MaxTurns + 1, Len(t)) \in Seq(Requests)
    BY <1>1, <2>1, SubSeqProperties
  <2>3. Len(SubSeq(t, Len(t) - MaxTurns + 1, Len(t))) = MaxTurns
    BY <1>1, <1>3, <2>1, SubSeqProperties, TurnsAssumption
  <2> QED BY <1>3, <2>2, <2>3, TurnsAssumption DEF Recent, History
<1> QED BY <1>1, <1>2, <1>3, TurnsAssumption

LEMMA NoTurns == <<>> \in History /\ <<>> \in Seq(Requests) /\ Len(<<>>) = 0
BY TurnsAssumption DEF History

\* A handler's step: it moves, or returns, and the others do not.
LEMMA GotoTypes ==
  ASSUME TypeInv, NEW h \in Handlers, NEW pc \in BeforeLock \cup Locked, Goto(h, pc),
         handler[h].pc # "idle"
  PROVE  HandlersOK'
BY DEF TypeInv, HandlersOK, Goto, Asking

LEMMA ReturnTypes ==
  ASSUME TypeInv, NEW h \in Handlers, Return(h)
  PROVE  HandlersOK'
<1>1. IdleHandler \in Asking /\ IdleHandler.turns \in History /\ IdleHandler.pc = "idle"
  BY TurnsAssumption DEF IdleHandler, Asking, BeforeLock, History
<1> QED BY <1>1 DEF TypeInv, HandlersOK, Return

-----------------------------------------------------------------------------
(* Types.                                                                  *)

LEMMA PcSets ==
  /\ {"idle", "loaded", "acquiring"} \subseteq BeforeLock
  /\ {"charging", "exhausted", "running", "saving", "completing", "failing",
      "locked", "beginning", "releasing"} \subseteq Locked
BY DEF BeforeLock, Locked, Started

\* Every variable but handler keeps its type, whoever moves.
LEMMA StoreTypes ==
  ASSUME TypeInv, NEW h \in Handlers, handler[h].pc # "idle", Proceed(h) \/ Fail(h)
  PROVE  /\ conversation' \in [state : ConversationStates, turns : History]
         /\ lock' \in Handlers \cup {None}
         /\ record' \in [Requests -> RecordStates]
         /\ revoked' \in BOOLEAN
         /\ used' \in 0..MaxRequests
         /\ charged' \in [Requests -> Nat]
         /\ expired' \subseteq Requests
<1> USE DEF store, grant
<1>1. RequestOf(h) \in Requests /\ handler[h].turns \in History
  BY DEF TypeInv, HandlersOK, RequestOf
<1>2. conversation' \in [state : ConversationStates, turns : History]
  <2>1. conversation \in [state : ConversationStates, turns : History]
    BY DEF TypeInv, TypeOK, History
  <2>2. WriteTurn(h) => conversation' \in [state : ConversationStates, turns : History]
    BY <1>1, RecentTurns DEF WriteTurn, ConversationStates
  <2>3. conversation' = conversation \/ WriteTurn(h)
    BY DEF Proceed, Fail, LookUp, AcquireLock, LookUpAgain, BeginRequest, ConsumeQuota,
           WithdrawRequest, RunGraph, SaveTurn, CompleteRequest, FailRequest, ReleaseLock,
           GiveUp, BeginRequestFails, ConsumeQuotaFails, WithdrawRequestFails, RunGraphFails,
           SaveTurnFails, CompleteRequestFails, FailRequestFails, Stop
  <2> QED BY <2>1, <2>2, <2>3
<1>3. lock' \in Handlers \cup {None}
  BY DEF Proceed, Fail, LookUp, AcquireLock, LookUpAgain, BeginRequest, ConsumeQuota,
         WithdrawRequest, RunGraph, SaveTurn, CompleteRequest, FailRequest, ReleaseLock,
         GiveUp, BeginRequestFails, ConsumeQuotaFails, WithdrawRequestFails, RunGraphFails,
         SaveTurnFails, CompleteRequestFails, FailRequestFails, Stop, TypeInv, TypeOK
<1>4. record' \in [Requests -> RecordStates]
  <2>1. \A s \in RecordStates : SetRecord(h, s) => record' \in [Requests -> RecordStates]
    BY DEF SetRecord, TypeInv, TypeOK
  <2>2. record' = record \/ \E s \in RecordStates : SetRecord(h, s)
    BY DEF Proceed, Fail, LookUp, AcquireLock, LookUpAgain, BeginRequest, ConsumeQuota,
           WithdrawRequest, RunGraph, SaveTurn, CompleteRequest, FailRequest, ReleaseLock,
           GiveUp, BeginRequestFails, ConsumeQuotaFails, WithdrawRequestFails, RunGraphFails,
           SaveTurnFails, CompleteRequestFails, FailRequestFails, Stop, RecordStates
  <2> QED BY <2>1, <2>2 DEF TypeInv, TypeOK
<1>5. revoked' \in BOOLEAN /\ used' \in 0..MaxRequests /\ charged' \in [Requests -> Nat]
  <2>1. Consume(h) => revoked' \in BOOLEAN /\ used' \in 0..MaxRequests /\ charged' \in [Requests -> Nat]
    BY <1>1, QuotaAssumption DEF Consume, TypeInv, TypeOK
  <2>2. UNCHANGED grant \/ Consume(h)
    BY DEF Proceed, Fail, LookUp, AcquireLock, LookUpAgain, BeginRequest, ConsumeQuota,
           WithdrawRequest, RunGraph, SaveTurn, CompleteRequest, FailRequest, ReleaseLock,
           GiveUp, BeginRequestFails, ConsumeQuotaFails, WithdrawRequestFails, RunGraphFails,
           SaveTurnFails, CompleteRequestFails, FailRequestFails, Stop
  <2> QED BY <2>1, <2>2 DEF TypeInv, TypeOK
<1>6. expired' \subseteq Requests
  BY DEF Proceed, Fail, LookUp, AcquireLock, LookUpAgain, BeginRequest, ConsumeQuota,
         WithdrawRequest, RunGraph, SaveTurn, CompleteRequest, FailRequest, ReleaseLock,
         GiveUp, BeginRequestFails, ConsumeQuotaFails, WithdrawRequestFails, RunGraphFails,
         SaveTurnFails, CompleteRequestFails, FailRequestFails, Stop, TypeInv, TypeOK
<1> QED BY <1>2, <1>3, <1>4, <1>5, <1>6

\* A handler's step is a move or a return.
LEMMA HandlerMoves ==
  ASSUME NEW h \in Handlers, Proceed(h) \/ Fail(h)
  PROVE  handler[h].pc # "idle" /\ (Return(h) \/ \E pc \in BeforeLock \cup Locked : Goto(h, pc))
BY PcSets DEF Proceed, Fail, LookUp, AcquireLock, LookUpAgain, BeginRequest, ConsumeQuota,
       WithdrawRequest, RunGraph, SaveTurn, CompleteRequest, FailRequest, ReleaseLock,
       GiveUp, BeginRequestFails, ConsumeQuotaFails, WithdrawRequestFails, RunGraphFails,
       SaveTurnFails, CompleteRequestFails, FailRequestFails, Stop, At, Locked, Started

LEMMA TypeStep == TypeInv /\ [Next]_vars => TypeInv'
<1> SUFFICES ASSUME TypeInv, [Next]_vars PROVE TypeInv'
  OBVIOUS
<1>1. ASSUME NEW h \in Handlers, Proceed(h) \/ Fail(h) PROVE TypeInv'
  <2>1. HandlersOK'
    BY <1>1, HandlerMoves, GotoTypes, ReturnTypes
  <2>2. handler' \in [Handlers -> Asking] /\ \A g \in Handlers : handler'[g].turns \in History
    BY <2>1 DEF HandlersOK
  <2> QED BY <1>1, <2>1, <2>2, HandlerMoves, StoreTypes DEF TypeInv, TypeOK, Asking, History
<1>2. ASSUME NEW h \in Handlers, NEW r \in Requests, Load(h, r) PROVE TypeInv'
  <2>1. conversation.turns \in History
    BY DEF TypeInv, TypeOK, History
  <2> DEFINE loaded == [pc |-> "loaded", request |-> r, turns |-> conversation.turns,
                       late |-> FALSE]
  <2>a. loaded \in Asking /\ loaded.turns \in History /\ loaded.request \in Requests
    BY <2>1, PcSets DEF Asking, History
  <2>b. handler' = [handler EXCEPT ![h] = loaded]
    BY <1>2 DEF Load
  <2>2. HandlersOK'
    <3> HIDE DEF loaded
    <3> QED BY <2>a, <2>b DEF TypeInv, HandlersOK
  <2>3. handler' \in [Handlers -> Asking] /\ \A g \in Handlers : handler'[g].turns \in History
    BY <2>2 DEF HandlersOK
  <2> QED BY <1>2, <2>2, <2>3 DEF Load, store, grant, TypeInv, TypeOK, Asking, History
<1>3. ASSUME Environment PROVE TypeInv'
  <2>1. conversation' \in [state : ConversationStates, turns : Seq(Requests)]
        /\ Len(conversation'.turns) <= MaxTurns
    <3>1. conversation' = conversation
          \/ \E s \in ConversationStates : conversation' = [state |-> s, turns |-> <<>>]
      BY <1>3 DEF Environment, CreateConversation, DeleteConversation,
         ConversationExpires, Revoke, LockExpires, PendingExpires, store, ConversationStates
    <3>2. CASE conversation' = conversation
      BY <3>2 DEF TypeInv, TypeOK
    <3>3. ASSUME NEW s \in ConversationStates, conversation' = [state |-> s, turns |-> <<>>]
          PROVE  /\ conversation' \in [state : ConversationStates, turns : Seq(Requests)]
                 /\ Len(conversation'.turns) <= MaxTurns
      <4>1. conversation'.turns = <<>>
        BY <3>3
      <4> QED BY <3>3, <4>1, NoTurns, TurnsAssumption
    <3> QED BY <3>1, <3>2, <3>3
  <2>2. lock' \in Handlers \cup {None} /\ revoked' \in BOOLEAN /\ expired' \subseteq Requests
    BY <1>3 DEF Environment, CreateConversation, DeleteConversation,
       ConversationExpires, Revoke, LockExpires, PendingExpires, store, grant, TypeInv, TypeOK
  <2>3. record' \in [Requests -> RecordStates]
    BY <1>3 DEF Environment, CreateConversation, DeleteConversation,
       ConversationExpires, Revoke, LockExpires, PendingExpires, store, TypeInv, TypeOK, RecordStates
  <2>4. UNCHANGED <<used, charged>>
    BY <1>3 DEF Environment, CreateConversation, DeleteConversation,
       ConversationExpires, Revoke, LockExpires, PendingExpires, grant
  <2>5. HandlersOK'
    <3>1. CASE handler' = handler
      BY <3>1 DEF TypeInv, HandlersOK
    <3>2. CASE LockExpires
      BY <3>2 DEF LockExpires, TypeInv, HandlersOK, Asking
    <3> QED BY <1>3, <3>1, <3>2 DEF Environment, CreateConversation, DeleteConversation,
               ConversationExpires, Revoke, PendingExpires
  <2>6. handler' \in [Handlers -> Asking] /\ \A g \in Handlers : handler'[g].turns \in History
    BY <2>5 DEF HandlersOK
  <2> QED BY <2>1, <2>2, <2>3, <2>4, <2>5, <2>6 DEF TypeInv, TypeOK, Asking, History
<1>4. CASE UNCHANGED vars
  BY <1>4 DEF vars, store, grant, TypeInv, TypeOK, HandlersOK
<1> QED BY <1>1, <1>2, <1>3, <1>4 DEF Next

LEMMA TypeInit == Init => TypeInv
<1>1. IdleHandler \in Asking /\ IdleHandler.turns \in History /\ IdleHandler.pc = "idle"
  BY TurnsAssumption DEF IdleHandler, Asking, BeforeLock, History
<1>2. Init => HandlersOK
  BY <1>1 DEF Init, HandlersOK
<1>3. Init => TypeOK
  <2> SUFFICES ASSUME Init PROVE TypeOK
    OBVIOUS
  <2>1. conversation \in [state : ConversationStates, turns : Seq(Requests)]
        /\ Len(conversation.turns) <= MaxTurns
    BY NoTurns, TurnsAssumption DEF Init, ConversationStates
  <2>2. handler \in [Handlers -> Asking] /\ \A h \in Handlers : Len(handler[h].turns) <= MaxTurns
    BY <1>1 DEF Init, History
  <2>3. record \in [Requests -> RecordStates] /\ charged \in [Requests -> Nat]
    BY DEF Init, RecordStates
  <2>4. 0 \in 0..MaxRequests
    BY QuotaAssumption
  <2> QED BY <2>1, <2>2, <2>3, <2>4 DEF Init, TypeOK, Asking
<1> QED BY <1>2, <1>3 DEF TypeInv

LEMMA TypeInvariant == Spec => []TypeInv
<1> QED BY TypeInit, TypeStep, PTL DEF Spec

\* The keys in Redis, the quota and what the handlers hold keep their types; the
\* history keeps at most MaxTurns turns and the quota is never exceeded.
THEOREM ConversationTypeCorrect == Spec => []TypeOK
<1> QED BY TypeInvariant, PTL DEF TypeInv

-----------------------------------------------------------------------------
(* The turn lock.                                                          *)

\* A handler past AcquireLock holds the lock until it has expired: it is inductive
\* by itself, for a lock is only taken when free and only released by its holder.
LockHeld == \A h \in Handlers : handler[h].pc \in Locked /\ ~handler[h].late => lock = h

\* A handler's step moves no other handler and touches no lock but a free one or
\* its own.
LEMMA OwnLock ==
  ASSUME TypeInv, NEW h \in Handlers, Proceed(h) \/ Fail(h)
  PROVE  /\ \A g \in Handlers \ {h} : handler'[g] = handler[g]
         /\ lock' = lock \/ lock = None \/ lock = h
         /\ handler'[h].pc \in Locked =>
              \/ lock' = h
              \/ handler[h].pc \in Locked /\ lock' = lock /\ handler'[h].late = handler[h].late
<1> USE DEF store
<1>1. \A g \in Handlers \ {h} : handler'[g] = handler[g]
  BY HandlerMoves DEF Goto, Return, TypeInv, HandlersOK
<1>2. lock' = lock \/ lock = None \/ lock = h
  BY DEF Proceed, Fail, LookUp, AcquireLock, LookUpAgain, BeginRequest, ConsumeQuota,
         WithdrawRequest, RunGraph, SaveTurn, CompleteRequest, FailRequest, ReleaseLock,
         GiveUp, BeginRequestFails, ConsumeQuotaFails, WithdrawRequestFails, RunGraphFails,
         SaveTurnFails, CompleteRequestFails, FailRequestFails, Stop
<1>3. handler'[h].pc = "idle" \/ handler'[h].late = handler[h].late
  BY HandlerMoves DEF Goto, Return, IdleHandler, TypeInv, HandlersOK, Asking
<1>4. AcquireLock(h) => lock' = h \/ handler'[h].pc = "idle"
  BY DEF AcquireLock, Return, IdleHandler, TypeInv, HandlersOK
<1>5. \/ handler[h].pc \in Locked /\ lock' = lock
      \/ AcquireLock(h)
      \/ handler'[h].pc \in {"idle", "acquiring"}
  BY DEF Proceed, Fail, LookUp, LookUpAgain, BeginRequest, ConsumeQuota,
         WithdrawRequest, RunGraph, SaveTurn, CompleteRequest, FailRequest, ReleaseLock,
         GiveUp, BeginRequestFails, ConsumeQuotaFails, WithdrawRequestFails, RunGraphFails,
         SaveTurnFails, CompleteRequestFails, FailRequestFails, Stop,
         At, Goto, Return, IdleHandler, Locked, Started, TypeInv, HandlersOK, Asking
<1> QED BY <1>1, <1>2, <1>3, <1>4, <1>5 DEF Locked, Started

LEMMA LockStep == TypeInv /\ LockHeld /\ [Next]_vars => LockHeld'
<1> SUFFICES ASSUME TypeInv, LockHeld, [Next]_vars PROVE LockHeld'
  OBVIOUS
<1>1. ASSUME NEW h \in Handlers, Proceed(h) \/ Fail(h) PROVE LockHeld'
  BY <1>1, OwnLock, NoneAssumption DEF LockHeld
<1>2. ASSUME NEW h \in Handlers, NEW r \in Requests, Load(h, r) PROVE LockHeld'
  BY <1>2 DEF Load, LockHeld, Locked, Started, store, TypeInv, HandlersOK
<1>3. ASSUME LockExpires PROVE LockHeld'    \* its handler is late now, or was not at work
  BY <1>3 DEF LockExpires, LockHeld, TypeInv, HandlersOK, Asking
<1>4. ASSUME Environment, ~LockExpires PROVE LockHeld'
  BY <1>4 DEF Environment, CreateConversation, DeleteConversation, ConversationExpires,
     Revoke, PendingExpires, store, LockHeld
<1>5. CASE UNCHANGED vars
  BY <1>5 DEF vars, store, LockHeld
<1> QED BY <1>1, <1>2, <1>3, <1>4, <1>5 DEF Next

LEMMA LockInvariant == Spec => []LockHeld
<1>1. Init => LockHeld
  BY DEF Init, LockHeld, IdleHandler, Locked, Started
<1> QED BY <1>1, LockStep, TypeInvariant, PTL DEF Spec

\* Of the handlers in a conversation's workflow all but one have outlived their lock:
\* nobody else ends it early, or enters while it lives.
THEOREM TurnsExclusive == Spec => []OneRunUnlessLate
<1>1. LockHeld => OneRunUnlessLate
  BY DEF LockHeld, OneRunUnlessLate
<1> QED BY <1>1, LockInvariant, PTL

-----------------------------------------------------------------------------
(* What a handler's step does to its request, its record and the grant.    *)

Leaves(h) ==
  /\ Return(h) \/ \E pc \in {"acquiring", "locked", "beginning", "releasing"} : Goto(h, pc)
  /\ UNCHANGED <<record, grant>>

Begins(h) ==
  /\ At(h, "beginning") /\ record[RequestOf(h)] = "none"
  /\ SetRecord(h, "pending")
  /\ \E pc \in {"charging", "releasing"} : Goto(h, pc)
  /\ UNCHANGED grant

Charges(h) ==
  /\ At(h, "charging")
  /\ Consume(h)
  /\ \E pc \in {"running", "failing", "releasing"} : Goto(h, pc)
  /\ UNCHANGED record

Refused(h) ==
  /\ At(h, "charging") /\ GrantOver
  /\ Goto(h, "exhausted")
  /\ UNCHANGED <<record, grant>>

Withdraws(h) ==
  /\ At(h, "exhausted")
  /\ SetRecord(h, "none")
  /\ \E pc \in {"failing", "releasing"} : Goto(h, pc)
  /\ UNCHANGED grant

Advances(h) ==
  /\ \/ At(h, "running") /\ Goto(h, "saving")
     \/ At(h, "saving") /\ Goto(h, "completing")
  /\ UNCHANGED <<record, grant>>

Completes(h) ==
  /\ At(h, "completing")
  /\ SetRecord(h, "completed")
  /\ \E pc \in {"failing", "releasing"} : Goto(h, pc)
  /\ UNCHANGED grant

Errs(h) ==
  /\ handler[h].pc \in Started
  /\ Goto(h, "failing")
  /\ UNCHANGED <<record, grant>>

Fails(h) ==
  /\ At(h, "failing")
  /\ SetRecord(h, "failed")
  /\ Goto(h, "releasing")
  /\ UNCHANGED grant

RequestStep(h) ==
  \/ Leaves(h) \/ Begins(h) \/ Charges(h) \/ Refused(h) \/ Withdraws(h)
  \/ Advances(h) \/ Completes(h) \/ Errs(h) \/ Fails(h)

LEMMA HandlerSteps ==
  ASSUME NEW h \in Handlers, Proceed(h) \/ Fail(h)
  PROVE  RequestStep(h) /\ expired' = expired
<1> USE DEF store
<1>1. expired' = expired
  BY DEF Proceed, Fail, LookUp, AcquireLock, LookUpAgain, BeginRequest, ConsumeQuota,
         WithdrawRequest, RunGraph, SaveTurn, CompleteRequest, FailRequest, ReleaseLock,
         GiveUp, BeginRequestFails, ConsumeQuotaFails, WithdrawRequestFails, RunGraphFails,
         SaveTurnFails, CompleteRequestFails, FailRequestFails, Stop
<1>2. CASE Proceed(h)
  <2>1. LookUp(h) \/ AcquireLock(h) \/ LookUpAgain(h) \/ ReleaseLock(h) => Leaves(h)
    BY DEF LookUp, AcquireLock, LookUpAgain, ReleaseLock, Leaves
  <2>2. BeginRequest(h) => Leaves(h) \/ Begins(h)
    BY DEF BeginRequest, Leaves, Begins
  <2>3. ConsumeQuota(h) => Charges(h) \/ Refused(h)
    BY DEF ConsumeQuota, Charges, Refused, GrantOver
  <2>4. WithdrawRequest(h) => Withdraws(h)
    BY DEF WithdrawRequest, Withdraws
  <2>5. RunGraph(h) \/ SaveTurn(h) => Advances(h) \/ Leaves(h)
    BY DEF RunGraph, SaveTurn, Advances, Leaves
  <2>6. CompleteRequest(h) => Completes(h)
    BY DEF CompleteRequest, Completes
  <2>7. FailRequest(h) => Fails(h)
    BY DEF FailRequest, Fails
  <2> QED BY <1>1, <1>2, <2>1, <2>2, <2>3, <2>4, <2>5, <2>6, <2>7 DEF Proceed, RequestStep
<1>3. CASE Fail(h)
  <2>1. GiveUp(h) \/ Stop(h) => Leaves(h)
    BY DEF GiveUp, Stop, Leaves
  <2>2. BeginRequestFails(h) => Leaves(h) \/ Begins(h)
    BY DEF BeginRequestFails, Leaves, Begins
  <2>3. ConsumeQuotaFails(h) => Charges(h) \/ Errs(h) \/ Leaves(h)
    BY DEF ConsumeQuotaFails, Charges, Errs, Leaves, At, Started
  <2>4. WithdrawRequestFails(h) => Withdraws(h) \/ Errs(h)
    BY DEF WithdrawRequestFails, Withdraws, Errs, At, Started
  <2>5. RunGraphFails(h) \/ SaveTurnFails(h) => Errs(h) \/ Leaves(h)
    BY DEF RunGraphFails, SaveTurnFails, Errs, Leaves, At, Started
  <2>6. CompleteRequestFails(h) => Completes(h) \/ Errs(h)
    BY DEF CompleteRequestFails, Completes, Errs, At, Started
  <2>7. FailRequestFails(h) => Fails(h) \/ Leaves(h)
    BY DEF FailRequestFails, Fails, Leaves
  <2> QED BY <1>1, <1>3, <2>1, <2>2, <2>3, <2>4, <2>5, <2>6, <2>7 DEF Fail, RequestStep
<1> QED BY <1>2, <1>3

\* It writes its own request's record and charge, and no other's.
LEMMA OwnRecord ==
  ASSUME TypeInv, NEW h \in Handlers, Proceed(h) \/ Fail(h)
  PROVE  /\ expired' = expired
         /\ \A r \in Requests \ {RequestOf(h)} : record'[r] = record[r] /\ charged'[r] = charged[r]
<1>1. record' = record \/ \E s \in RecordStates : SetRecord(h, s)
  BY HandlerSteps DEF RequestStep, Leaves, Begins, Charges, Refused, Withdraws, Advances,
     Completes, Errs, Fails, RecordStates
<1>2. charged' = charged \/ Consume(h)
  BY HandlerSteps DEF RequestStep, Leaves, Begins, Charges, Refused, Withdraws, Advances,
     Completes, Errs, Fails, grant
<1> QED BY <1>1, <1>2, HandlerSteps DEF SetRecord, Consume, TypeInv, TypeOK

\* The others stay where they are; the handler keeps its request until it returns.
LEMMA OwnHandler ==
  ASSUME TypeInv, NEW h \in Handlers, Proceed(h) \/ Fail(h)
  PROVE  /\ RequestOf(h) \in Requests
         /\ \A g \in Handlers \ {h} : handler'[g] = handler[g]
         /\ handler'[h].pc # "idle" => handler'[h].request = RequestOf(h)
BY OwnLock, HandlerMoves
DEF TypeInv, HandlersOK, RequestOf, Goto, Return, IdleHandler, Asking

-----------------------------------------------------------------------------
(* Request records and charges: what keeps them in order is the records    *)
(* themselves and the quota, whichever handlers are at work.               *)

Answering == {"running", "saving", "completing"}

\* What a handler knows of the record it has created.  Only an exhausted quota makes a
\* handler lose its record to another one: the one before it, that withdrew its own
\* without hearing so, and reports its failure late.
HandlerRecord(h) ==
  LET pc == handler[h].pc
      r == RequestOf(h) IN
  /\ pc \in Answering => record[r] = "pending"
  /\ pc \in {"charging", "exhausted"} =>
       /\ record[r] = "pending" \/ (record[r] = "failed" /\ GrantOver)
       /\ Uncharged(r)
  /\ pc = "exhausted" => GrantOver
  /\ pc = "failing" /\ record[r] = "none" => GrantOver

\* Two handlers that have begun the same request: one of them is failing, the grant is
\* over and neither will answer.
Apart(g, h) ==
  g # h /\ RequestOf(g) = RequestOf(h) /\ handler[g].pc \in Started /\ handler[h].pc \in Started =>
    /\ GrantOver
    /\ handler[g].pc \notin Answering /\ handler[h].pc \notin Answering
    /\ handler[g].pc = "failing" \/ handler[h].pc = "failing"

RecordInv ==
  /\ \A h \in Handlers : HandlerRecord(h)
  /\ \A g, h \in Handlers : Apart(g, h)
  /\ \A r \in Requests : record[r] = "none" => Uncharged(r)
  /\ ChargedOnceUnlessExpired

\* The last charge is the last: nothing is paid back, and no grant is taken up again.
LEMMA GrantStaysOver == TypeInv /\ [Next]_vars /\ GrantOver => GrantOver'
<1> SUFFICES ASSUME TypeInv, [Next]_vars, GrantOver PROVE GrantOver'
  OBVIOUS
<1> USE DEF grant
<1>1. ASSUME NEW h \in Handlers, Proceed(h) \/ Fail(h) PROVE GrantOver'
  <2>1. Charges(h) => FALSE
    BY QuotaAssumption DEF Charges, Consume, GrantOver, TypeInv, TypeOK
  <2>2. UNCHANGED grant
    BY <1>1, <2>1, HandlerSteps DEF RequestStep, Leaves, Begins, Refused, Withdraws, Advances,
       Completes, Errs, Fails
  <2> QED BY <2>2 DEF GrantOver
<1>2. ASSUME NEW h \in Handlers, NEW r \in Requests, Load(h, r) PROVE GrantOver'
  BY <1>2 DEF Load, GrantOver
<1>3. ASSUME Environment PROVE GrantOver'
  BY <1>3 DEF Environment, CreateConversation, DeleteConversation, ConversationExpires, Revoke,
     LockExpires, PendingExpires, store, GrantOver
<1>4. CASE UNCHANGED vars
  BY <1>4 DEF vars, GrantOver
<1> QED BY <1>1, <1>2, <1>3, <1>4 DEF Next

\* The handler's own request, step by step.
LEMMA OwnRequest ==
  ASSUME TypeInv, RecordInv, NEW h \in Handlers, RequestStep(h), expired' = expired,
         NEW r \in Requests, r = RequestOf(h), GrantOver => GrantOver',
         handler'[h].pc # "idle" => handler'[h].request = r
  PROVE  /\ HandlerRecord(h)'
         /\ record'[r] = "none" => Uncharged(r)'
         /\ charged'[r] > 1 => r \in expired
<1> USE DEF grant, At, SetRecord, Goto
<1>1. /\ charged[r] \in Nat
      /\ handler \in [Handlers -> Asking] /\ record \in [Requests -> RecordStates]
      /\ charged \in [Requests -> Nat]
  BY DEF TypeInv, TypeOK, HandlersOK
<1>2. /\ HandlerRecord(h)
      /\ record[r] = "none" => Uncharged(r)
      /\ charged[r] > 1 => r \in expired
  BY DEF RecordInv, ChargedOnceUnlessExpired
<1>3. CASE Leaves(h)
  <2>1. handler'[h].pc \in {"idle", "acquiring", "locked", "beginning", "releasing"}
    BY <1>1, <1>3 DEF Leaves, Return, IdleHandler, Asking
  <2> QED BY <1>2, <1>3, <2>1 DEF Leaves, HandlerRecord, Uncharged, Answering
<1>4. CASE Begins(h)
  BY <1>1, <1>2, <1>4 DEF Begins, HandlerRecord, Uncharged, Answering, RequestOf, Asking
<1>5. CASE Charges(h)
  <2>1. ~GrantOver
    BY <1>5, QuotaAssumption DEF Charges, Consume, GrantOver, TypeInv, TypeOK
  <2>2. record[r] = "pending" /\ Uncharged(r)
    BY <1>2, <1>5, <2>1 DEF Charges, HandlerRecord
  <2>3. charged'[r] = charged[r] + 1 /\ record' = record
    BY <1>1, <1>5 DEF Charges, Consume
  <2> QED BY <1>1, <1>2, <1>5, <2>2, <2>3
          DEF Charges, HandlerRecord, Uncharged, Answering, RequestOf, Asking
<1>6. CASE Refused(h)
  BY <1>1, <1>2, <1>6 DEF Refused, HandlerRecord, Uncharged, Answering, RequestOf, Asking
<1>7. CASE Withdraws(h)
  BY <1>1, <1>2, <1>7 DEF Withdraws, HandlerRecord, Uncharged, Answering, RequestOf, Asking
<1>8. CASE Advances(h)
  BY <1>1, <1>2, <1>8 DEF Advances, HandlerRecord, Uncharged, Answering, RequestOf, Asking
<1>9. CASE Completes(h)
  BY <1>1, <1>2, <1>9 DEF Completes, HandlerRecord, Uncharged, Answering, RequestOf, Asking,
     RecordStates
<1>10. CASE Errs(h)
  BY <1>1, <1>2, <1>10 DEF Errs, HandlerRecord, Uncharged, Answering, Started, RequestOf, Asking
<1>11. CASE Fails(h)
  BY <1>1, <1>2, <1>11 DEF Fails, HandlerRecord, Uncharged, Answering, RequestOf, Asking,
     RecordStates
<1> QED BY <1>3, <1>4, <1>5, <1>6, <1>7, <1>8, <1>9, <1>10, <1>11 DEF RequestStep

\* Another handler, should it have begun the same request.
LEMMA OthersRequest ==
  ASSUME TypeInv, RecordInv, NEW h \in Handlers, RequestStep(h), expired' = expired,
         NEW r \in Requests, r = RequestOf(h), GrantOver => GrantOver',
         handler'[h].pc # "idle" => handler'[h].request = r,
         NEW g \in Handlers, g # h, handler'[g] = handler[g], RequestOf(g) = r
  PROVE  HandlerRecord(g)' /\ Apart(g, h)' /\ Apart(h, g)'
<1> USE DEF grant, At, SetRecord, Goto
<1>1. /\ handler \in [Handlers -> Asking] /\ record \in [Requests -> RecordStates]
      /\ charged \in [Requests -> Nat]
  BY DEF TypeInv, TypeOK, HandlersOK
<1>2. HandlerRecord(g) /\ HandlerRecord(h) /\ Apart(g, h)
  BY DEF RecordInv
<1> DEFINE Goal == HandlerRecord(g)' /\ Apart(g, h)' /\ Apart(h, g)'
<1>3. CASE handler[g].pc \notin Started
  BY <1>3 DEF HandlerRecord, Apart, Started, Answering
<1>4. CASE handler[g].pc \in Started /\ handler[h].pc \in Started
  <2>1. /\ GrantOver /\ GrantOver'
        /\ handler[g].pc \in {"charging", "exhausted", "failing"}
        /\ handler[h].pc \in {"charging", "exhausted", "failing"}
        /\ handler[g].pc = "failing" \/ handler[h].pc = "failing"
    BY <1>2, <1>4 DEF Apart, Started, Answering
  <2>2. ~Charges(h)
    BY <2>1, QuotaAssumption DEF Charges, Consume, GrantOver, TypeInv, TypeOK
  <2>3. charged' = charged
    BY <2>2 DEF RequestStep, Leaves, Begins, Refused, Withdraws, Advances, Completes, Errs, Fails
  <2>4. handler[g].pc \in {"charging", "exhausted"} => record'[r] \in {record[r], "failed"}
    BY <1>1, <2>1, <2>2
    DEF RequestStep, Leaves, Begins, Refused, Withdraws, Advances, Completes, Errs, Fails
  <2>5. HandlerRecord(g)'
    BY <1>2, <2>1, <2>3, <2>4 DEF HandlerRecord, Uncharged, RequestOf, Answering
  <2>6. \/ handler'[h].pc \notin Started \/ handler'[h].pc = "failing"
        \/ handler[h].pc = "charging" /\ handler'[h].pc = "exhausted"
    BY <1>1, <2>1, <2>2
    DEF RequestStep, Leaves, Begins, Refused, Withdraws, Advances, Completes, Errs, Fails,
        Return, IdleHandler, Started, Asking
  <2> QED BY <2>1, <2>5, <2>6 DEF Apart, Answering, Started
<1>5. CASE handler[g].pc \in Started /\ handler[h].pc \notin Started
  <2>1. Leaves(h) \/ Begins(h)
    BY <1>5
    DEF RequestStep, Charges, Refused, Withdraws, Advances, Completes, Errs, Fails, Started
  <2>2. CASE Leaves(h)
    <3>1. handler'[h].pc \in {"idle", "acquiring", "locked", "beginning", "releasing"}
      BY <1>1, <2>2 DEF Leaves, Return, IdleHandler, Asking
    <3> QED BY <1>2, <2>2, <3>1 DEF Leaves, HandlerRecord, Uncharged, RequestOf, Apart, Started
  <2>3. CASE Begins(h)
    <3>1. handler[g].pc = "failing" /\ GrantOver /\ GrantOver'
      BY <1>2, <1>5, <2>3 DEF Begins, HandlerRecord, Started, Answering
    <3>2. record'[r] = "pending" /\ handler'[h].pc \in {"charging", "releasing"}
      BY <1>1, <2>3 DEF Begins, Asking
    <3> QED BY <3>1, <3>2 DEF HandlerRecord, Apart, Answering, Started, RequestOf
  <2> QED BY <2>1, <2>2, <2>3
<1> QED BY <1>3, <1>4, <1>5

LEMMA RecordStep == TypeInv /\ RecordInv /\ [Next]_vars => RecordInv'
<1> SUFFICES ASSUME TypeInv, RecordInv, [Next]_vars PROVE RecordInv'
  OBVIOUS
<1>0. GrantOver => GrantOver'
  BY GrantStaysOver
<1>1. ASSUME NEW h \in Handlers, Proceed(h) \/ Fail(h) PROVE RecordInv'
  <2>1. /\ RequestOf(h) \in Requests /\ RequestStep(h) /\ expired' = expired
        /\ \A g \in Handlers \ {h} : handler'[g] = handler[g]
        /\ handler'[h].pc # "idle" => handler'[h].request = RequestOf(h)
    BY <1>1, OwnHandler, HandlerSteps
  <2>2. \A r \in Requests \ {RequestOf(h)} : record'[r] = record[r] /\ charged'[r] = charged[r]
    BY <1>1, OwnRecord
  <2>3. HandlerRecord(h)'
    BY <1>0, <2>1, OwnRequest
  <2>4. ASSUME NEW r \in Requests
        PROVE  (record'[r] = "none" => Uncharged(r)') /\ (charged'[r] > 1 => r \in expired')
    <3>1. CASE r = RequestOf(h)
      BY <1>0, <2>1, <3>1, OwnRequest
    <3>2. CASE r # RequestOf(h)
      BY <2>1, <2>2, <3>2 DEF RecordInv, Uncharged, ChargedOnceUnlessExpired
    <3> QED BY <3>1, <3>2
  <2>5. ASSUME NEW g \in Handlers \ {h} PROVE HandlerRecord(g)' /\ Apart(g, h)' /\ Apart(h, g)'
    <3>1. CASE RequestOf(g) = RequestOf(h)
      BY <1>0, <2>1, <3>1, OthersRequest
    <3>2. CASE RequestOf(g) # RequestOf(h) /\ handler[g].pc \notin Started
      BY <2>1, <3>2 DEF HandlerRecord, Apart, Started, Answering
    <3>3. CASE RequestOf(g) # RequestOf(h) /\ handler[g].pc \in Started
      <4>1. RequestOf(g) \in Requests /\ handler'[g] = handler[g]
        BY <2>1, <3>3 DEF TypeInv, HandlersOK, RequestOf, Started
      <4>2. HandlerRecord(g)'
        BY <1>0, <2>1, <2>2, <3>3, <4>1 DEF RecordInv, HandlerRecord, RequestOf, Uncharged
      <4>3. Apart(g, h)' /\ Apart(h, g)'
        BY <2>1, <3>3, <4>1 DEF Apart, RequestOf, Started
      <4> QED BY <4>2, <4>3
    <3> QED BY <3>1, <3>2, <3>3
  <2>6. \A f, g \in Handlers : Apart(f, g)'
    <3> SUFFICES ASSUME NEW f \in Handlers, NEW g \in Handlers PROVE Apart(f, g)'
      OBVIOUS
    <3>1. CASE f # h /\ g # h
      BY <1>0, <2>1, <3>1 DEF RecordInv, Apart, RequestOf
    <3>2. CASE f = g
      BY <3>2 DEF Apart
    <3> QED BY <2>5, <3>1, <3>2
  <2> QED BY <2>3, <2>4, <2>5, <2>6 DEF RecordInv, ChargedOnceUnlessExpired
<1>2. ASSUME NEW h \in Handlers, NEW r \in Requests, Load(h, r) PROVE RecordInv'
  <2>1. /\ \A g \in Handlers \ {h} : handler'[g] = handler[g]
        /\ handler'[h].pc = "loaded"
    BY <1>2 DEF Load, TypeInv, HandlersOK
  <2>2. UNCHANGED <<record, revoked, used, charged, expired>>
    BY <1>2 DEF Load, store, grant
  <2>3. \A g \in Handlers : HandlerRecord(g)'
    BY <2>1, <2>2 DEF RecordInv, HandlerRecord, RequestOf, GrantOver, Uncharged, Answering
  <2>4. \A f, g \in Handlers : Apart(f, g)'
    BY <2>1, <2>2 DEF RecordInv, Apart, RequestOf, GrantOver, Started
  <2> QED BY <2>2, <2>3, <2>4 DEF RecordInv, Uncharged, ChargedOnceUnlessExpired
<1>3. ASSUME NEW r \in Requests, PendingExpires(r) PROVE RecordInv'
  <2>1. /\ handler' = handler /\ UNCHANGED grant /\ expired' = expired \cup {r}
        /\ \A q \in Requests \ {r} : record'[q] = record[q]
        /\ \A h \in Handlers : RequestOf(h) = r => handler[h].pc \notin Started
    BY <1>3 DEF PendingExpires, TypeInv, TypeOK
  <2>2. ASSUME NEW g \in Handlers PROVE HandlerRecord(g)'
    <3>1. CASE handler[g].pc \notin Started
      BY <2>1, <3>1 DEF HandlerRecord, Started, Answering
    <3>2. CASE handler[g].pc \in Started
      <4>1. RequestOf(g) \in Requests \ {r}
        BY <2>1, <3>2 DEF TypeInv, HandlersOK, RequestOf, Started
      <4> QED BY <1>0, <2>1, <4>1 DEF RecordInv, HandlerRecord, RequestOf, grant, Uncharged
    <3> QED BY <3>1, <3>2
  <2>3. \A f, g \in Handlers : Apart(f, g)'
    BY <1>0, <2>1 DEF RecordInv, Apart, RequestOf
  <2>4. \A q \in Requests : record'[q] = "none" => Uncharged(q)'
    BY <2>1 DEF RecordInv, Uncharged, grant
  <2> QED BY <2>1, <2>2, <2>3, <2>4 DEF RecordInv, ChargedOnceUnlessExpired, grant
<1>4. ASSUME UNCHANGED <<record, charged, expired>>,
             \A h \in Handlers : handler'[h].pc = handler[h].pc /\ handler'[h].request = handler[h].request
      PROVE  RecordInv'
  BY <1>0, <1>4
  DEF RecordInv, HandlerRecord, Apart, RequestOf, Uncharged, ChargedOnceUnlessExpired
<1>5. ASSUME LockExpires PROVE RecordInv'
  <2>1. /\ UNCHANGED <<record, charged, expired>>
        /\ \A h \in Handlers : handler'[h].pc = handler[h].pc /\ handler'[h].request = handler[h].request
    BY <1>5 DEF LockExpires, grant, TypeInv, HandlersOK, Asking
  <2> QED BY <1>4, <2>1
<1>6. ASSUME UNCHANGED <<record, charged, expired, handler>> PROVE RecordInv'
  BY <1>4, <1>6
<1>7. ASSUME Environment PROVE RecordInv'
  BY <1>3, <1>5, <1>6, <1>7 DEF Environment, CreateConversation, DeleteConversation,
     ConversationExpires, Revoke, store, grant
<1>8. CASE UNCHANGED vars
  BY <1>6, <1>8 DEF vars, store, grant
<1> QED BY <1>1, <1>2, <1>7, <1>8 DEF Next

LEMMA RecordInvariant == Spec => []RecordInv
<1>1. Init => RecordInv
  BY DEF Init, RecordInv, HandlerRecord, Apart, Uncharged, ChargedOnceUnlessExpired, IdleHandler,
     Started, Answering
<1> QED BY <1>1, RecordStep, TypeInvariant, PTL DEF Spec

\* From its charge to its answer a request has a pending record and one handler, with
\* or without the lock; and an id without a record was never charged, unless its
\* pending record has expired.
THEOREM RunsRecorded == Spec => []RunIsRecorded
<1>1. RecordInv => RunIsRecorded
  BY DEF RecordInv, HandlerRecord, Apart, RunIsRecorded, Answering, Started
<1> QED BY <1>1, RecordInvariant, PTL

\* Only the expiry of a pending record that was left behind lets an id be charged
\* again.
THEOREM ChargedOnce == Spec => []ChargedOnceUnlessExpired
<1> QED BY RecordInvariant, PTL DEF RecordInv

-----------------------------------------------------------------------------
(* Outcomes.                                                               *)

\* A record that says how a request ended is rewritten only by a handler whose own
\* write was not acknowledged, or withdrawn by one that was refused.
LEMMA OutcomeStep ==
  ASSUME TypeInv, RecordInv, [Next]_vars, NEW r \in Requests, record[r] \in {"completed", "failed"}
  PROVE  \/ record'[r] = record[r]
         \/ \E h \in Handlers :
              /\ RequestOf(h) = r
              /\ \/ At(h, "failing") /\ record'[r] = "failed"
                 \/ /\ At(h, "exhausted") /\ Uncharged(r)
                    /\ record[r] = "failed" /\ record'[r] = "none"
<1> DEFINE Goal == \/ record'[r] = record[r]
                   \/ \E h \in Handlers :
                        /\ RequestOf(h) = r
                        /\ \/ At(h, "failing") /\ record'[r] = "failed"
                           \/ /\ At(h, "exhausted") /\ Uncharged(r)
                              /\ record[r] = "failed" /\ record'[r] = "none"
<1> SUFFICES Goal
  OBVIOUS
<1>1. ASSUME NEW h \in Handlers, Proceed(h) \/ Fail(h) PROVE Goal
  <2>1. CASE RequestOf(h) # r
    BY <1>1, <2>1, OwnRecord
  <2>2. CASE RequestOf(h) = r
    <3>1. HandlerRecord(h)
      BY DEF RecordInv
    <3>2. CASE Begins(h) \/ Completes(h)
      BY <2>2, <3>1, <3>2 DEF Begins, Completes, At, HandlerRecord, Answering
    <3>3. CASE Withdraws(h)
      <4>1. At(h, "exhausted") /\ record[r] = "failed" /\ Uncharged(r)
        BY <2>2, <3>1, <3>3 DEF Withdraws, At, HandlerRecord
      <4>2. record'[r] = "none"
        BY <2>2, <3>3 DEF Withdraws, SetRecord, TypeInv, TypeOK
      <4> QED BY <2>2, <4>1, <4>2
    <3>4. CASE Fails(h)
      <4>1. At(h, "failing") /\ record'[r] = "failed"
        BY <2>2, <3>4 DEF Fails, SetRecord, TypeInv, TypeOK
      <4> QED BY <2>2, <4>1
    <3>5. CASE Leaves(h) \/ Charges(h) \/ Refused(h) \/ Advances(h) \/ Errs(h)
      BY <3>5 DEF Leaves, Charges, Refused, Advances, Errs
    <3> QED BY <1>1, <3>2, <3>3, <3>4, <3>5, HandlerSteps DEF RequestStep
  <2> QED BY <2>1, <2>2
<1>2. ASSUME NEW h \in Handlers, NEW q \in Requests, Load(h, q) PROVE Goal
  BY <1>2 DEF Load, store
<1>3. ASSUME Environment PROVE Goal
  BY <1>3 DEF Environment, CreateConversation, DeleteConversation, ConversationExpires,
     Revoke, LockExpires, PendingExpires, store, TypeInv, TypeOK
<1>4. CASE UNCHANGED vars
  BY <1>4 DEF vars, store
<1> QED BY <1>1, <1>2, <1>3, <1>4 DEF Next

\* A replay of a request is told the same outcome for as long as the conversation
\* lives, but for a failure that follows a write which was not acknowledged, and for
\* the withdrawal of such a failure by a handler that charged nothing.
THEOREM OutcomesKept == Spec => OutcomesStay
<1> DEFINE A == \A r \in Requests :
                  record[r] \in {"completed", "failed"} =>
                    \/ record'[r] = record[r]
                    \/ \E h \in Handlers :
                         /\ RequestOf(h) = r
                         /\ \/ At(h, "failing") /\ record'[r] = "failed"
                            \/ /\ At(h, "exhausted") /\ Uncharged(r)
                               /\ record[r] = "failed" /\ record'[r] = "none"
<1>1. TypeInv /\ RecordInv /\ [Next]_vars => [A]_vars
  BY OutcomeStep
<1> QED BY <1>1, TypeInvariant, RecordInvariant, PTL DEF Spec, OutcomesStay

-----------------------------------------------------------------------------
(* The history.                                                            *)

\* A handler whose request is not in any history yet.
BeforeAnswer == {"charging", "exhausted", "running", "saving"}

\* An id in a history has a record, so that nobody begins it again, and nobody who
\* began it before still has to answer it.
AnsweredIsRecorded(s) ==
  \A i \in DOMAIN s :
    \/ s[i] \in expired
    \/ /\ record[s[i]] # "none"
       /\ \A h \in Handlers : handler[h].pc \in BeforeAnswer => RequestOf(h) # s[i]

AnsweredOnce(s) == \A i, k \in DOMAIN s : s[i] = s[k] => i = k \/ s[i] \in expired

HistoryInv(s) == AnsweredIsRecorded(s) /\ AnsweredOnce(s)

\* It has to hold of what the handlers have read as well: one of them may save it.
HistoriesInv ==
  \A s \in History :
    s = conversation.turns \/ (\E h \in Handlers : s = handler[h].turns) => HistoryInv(s)

\* Of a history that is kept, whatever happens: records are not forgotten but by
\* expiry, and an id with a record is not begun.
LEMMA HistoryKept ==
  ASSUME TypeInv, RecordInv, [Next]_vars, NEW s \in History, HistoryInv(s)
  PROVE  HistoryInv(s)'
<1>1. \A i \in DOMAIN s : s[i] \in Requests
  BY DEF History
<1>2. expired \subseteq expired'
  BY OwnRecord DEF Next, Environment, Load, CreateConversation, DeleteConversation, ConversationExpires,
     Revoke, LockExpires, PendingExpires, vars
<1>3. ASSUME NEW r \in Requests, r \notin expired', record[r] # "none",
             \A h \in Handlers : handler[h].pc \in BeforeAnswer => RequestOf(h) # r
      PROVE  /\ record'[r] # "none"
             /\ \A h \in Handlers : handler'[h].pc \in BeforeAnswer => handler'[h].request # r
  <2> DEFINE Goal == /\ record'[r] # "none"
                     /\ \A h \in Handlers : handler'[h].pc \in BeforeAnswer => handler'[h].request # r
  <2>1. ASSUME NEW h \in Handlers, Proceed(h) \/ Fail(h) PROVE Goal
    <3>1. \A g \in Handlers \ {h} : handler'[g] = handler[g]
      BY <2>1, OwnLock
    <3>2. CASE RequestOf(h) # r
      <4>1. record'[r] = record[r]
        BY <2>1, <3>2, OwnRecord
      <4>2. handler'[h].pc \in BeforeAnswer => handler'[h].request = RequestOf(h)
        BY <2>1, HandlerMoves
        DEF Goto, Return, IdleHandler, RequestOf, BeforeAnswer, TypeInv, HandlersOK, Asking
      <4> QED BY <1>3, <3>1, <3>2, <4>1, <4>2 DEF RequestOf
    <3>3. CASE RequestOf(h) = r
      <4>1. handler[h].pc \notin BeforeAnswer
        BY <1>3, <3>3
      <4>2. record' = record \/ SetRecord(h, "completed") \/ SetRecord(h, "failed")
        BY <1>3, <2>1, <3>3, <4>1
        DEF Proceed, Fail, LookUp, AcquireLock, LookUpAgain, BeginRequest, ConsumeQuota,
            WithdrawRequest, RunGraph, SaveTurn, CompleteRequest, FailRequest, ReleaseLock,
            GiveUp, BeginRequestFails, ConsumeQuotaFails, WithdrawRequestFails, RunGraphFails,
            SaveTurnFails, CompleteRequestFails, FailRequestFails, Stop, store, At, BeforeAnswer
      <4>3. record'[r] # "none"
        BY <1>3, <4>2 DEF SetRecord, TypeInv, TypeOK
      <4>4. handler'[h].pc \notin BeforeAnswer
        BY <1>3, <2>1, <3>3, <4>1
        DEF Proceed, Fail, LookUp, AcquireLock, LookUpAgain, BeginRequest, ConsumeQuota,
            WithdrawRequest, RunGraph, SaveTurn, CompleteRequest, FailRequest, ReleaseLock,
            GiveUp, BeginRequestFails, ConsumeQuotaFails, WithdrawRequestFails, RunGraphFails,
            SaveTurnFails, CompleteRequestFails, FailRequestFails, Stop, At, BeforeAnswer,
            Goto, Return, IdleHandler, TypeInv, HandlersOK, Asking
      <4> QED BY <1>3, <3>1, <4>3, <4>4 DEF RequestOf
    <3> QED BY <3>2, <3>3
  <2>2. ASSUME NEW h \in Handlers, NEW q \in Requests, Load(h, q) PROVE Goal
    BY <1>3, <2>2 DEF Load, store, RequestOf, BeforeAnswer, TypeInv, HandlersOK
  <2>3. ASSUME Environment PROVE Goal
    <3>1. \A h \in Handlers : handler'[h].pc = handler[h].pc /\ handler'[h].request = handler[h].request
      BY <2>3 DEF Environment, CreateConversation, DeleteConversation, ConversationExpires,
         Revoke, LockExpires, PendingExpires, TypeInv, HandlersOK, Asking
    <3>2. record'[r] # "none"
      BY <1>3, <2>3 DEF Environment, CreateConversation, DeleteConversation, ConversationExpires,
         Revoke, LockExpires, PendingExpires, store, TypeInv, TypeOK
    <3> QED BY <1>3, <3>1, <3>2 DEF RequestOf
  <2>4. CASE UNCHANGED vars
    BY <1>3, <2>4 DEF vars, store, RequestOf
  <2> QED BY <2>1, <2>2, <2>3, <2>4 DEF Next
<1>4. AnsweredIsRecorded(s)'
  BY <1>1, <1>2, <1>3 DEF HistoryInv, AnsweredIsRecorded, RequestOf
<1>5. AnsweredOnce(s)'
  BY <1>2 DEF HistoryInv, AnsweredOnce
<1> QED BY <1>4, <1>5 DEF HistoryInv

\* Keeping the latest turns drops some of the oldest: Recent(s) is a suffix of s.
LEMMA RecentIsSuffix ==
  ASSUME NEW s \in Seq(Requests)
  PROVE  \E n \in Nat : /\ Len(Recent(s)) + n = Len(s)
                        /\ Recent(s) \in Seq(Requests)
                        /\ \A i \in 1..Len(Recent(s)) : Recent(s)[i] = s[i + n]
<1>1. Len(s) \in Nat
  OBVIOUS
<1>2. CASE Len(s) <= MaxTurns
  <2>1. Recent(s) = s
    BY <1>1, <1>2, TurnsAssumption DEF Recent
  <2> WITNESS 0 \in Nat
  <2> QED BY <1>1, <2>1
<1>3. CASE Len(s) > MaxTurns
  <2> DEFINE n == Len(s) - MaxTurns
  <2>1. n \in Nat /\ n + 1 \in 1..(Len(s) + 1)
    BY <1>1, <1>3, TurnsAssumption
  <2>2. Recent(s) = SubSeq(s, n + 1, Len(s))
    BY <1>3 DEF Recent
  <2>3. /\ SubSeq(s, n + 1, Len(s)) \in Seq(Requests)
        /\ Len(SubSeq(s, n + 1, Len(s))) = MaxTurns
        /\ \A i \in 1..MaxTurns : SubSeq(s, n + 1, Len(s))[i] = s[i + n]
    BY <1>1, <1>3, <2>1, SubSeqProperties, TurnsAssumption
  <2>4. Len(Recent(s)) + n = Len(s)
    BY <1>1, <2>2, <2>3, TurnsAssumption
  <2>5. \A i \in 1..Len(Recent(s)) : Recent(s)[i] = s[i + n]
    BY <2>2, <2>3
  <2> HIDE DEF n
  <2> QED BY <2>1, <2>2, <2>3, <2>4, <2>5
<1> QED BY <1>1, <1>2, <1>3, TurnsAssumption

\* The history that a handler saves, be it the one it has read long ago.
LEMMA HistorySaved ==
  ASSUME TypeInv, RecordInv, [Next]_vars, NEW s \in History, HistoryInv(s),
         NEW h \in Handlers, At(h, "saving"), handler'[h].pc \in {"completing", "failing"},
         SaveTurn(h) \/ SaveTurnFails(h), NEW r \in Requests, r = RequestOf(h)
  PROVE  HistoryInv(Recent(Append(s, r)))'
<1> DEFINE t == Append(s, r)
<1>1. /\ t \in Seq(Requests) /\ Len(t) = Len(s) + 1 /\ Len(s) \in Nat
      /\ \A i \in 1..Len(s) : t[i] = s[i]
      /\ t[Len(s) + 1] = r
  BY AppendProperties DEF History
<1>2. PICK n \in Nat : /\ Len(Recent(t)) + n = Len(t)
                       /\ Recent(t) \in Seq(Requests)
                       /\ \A i \in 1..Len(Recent(t)) : Recent(t)[i] = t[i + n]
  BY <1>1, RecentIsSuffix
<1> DEFINE u == Recent(t)
<1> HIDE DEF t, u
<1>3. DOMAIN u = 1..Len(u) /\ \A i \in DOMAIN u : i + n \in 1..(Len(s) + 1) /\ u[i] = t[i + n]
  <2>1. Len(u) \in Nat /\ DOMAIN u = 1..Len(u) /\ Len(u) + n = Len(s) + 1
    BY <1>1, <1>2 DEF u
  <2>2. \A i \in 1..Len(u) : i + n \in 1..(Len(s) + 1)
    BY <1>1, <2>1
  <2> QED BY <1>2, <2>1, <2>2 DEF u
<1>4. HistoryInv(s)'
  BY HistoryKept
<1>5. DOMAIN s = 1..Len(s)
  BY DEF History
<1>6. \A i \in DOMAIN s : s[i] = r => s[i] \in expired
  BY DEF HistoryInv, AnsweredIsRecorded, At, BeforeAnswer
<1>7. expired' = expired /\ record' = record
  BY DEF SaveTurn, SaveTurnFails
<1>8. /\ record'[r] # "none"
      /\ \A g \in Handlers : handler'[g].pc \in BeforeAnswer => handler'[g].request # r
  <2>1. HandlerRecord(h) /\ \A g \in Handlers : Apart(g, h)
    BY DEF RecordInv
  <2>2. record[r] = "pending" /\ \A g \in Handlers \ {h} : handler[g].pc \in Started => RequestOf(g) # r
    BY <2>1 DEF HandlerRecord, Apart, At, Answering, Started
  <2>3. \A g \in Handlers \ {h} : handler'[g] = handler[g]
    BY OwnLock DEF Proceed, Fail
  <2>4. \A g \in Handlers \ {h} : handler'[g].pc \in BeforeAnswer => handler'[g].request # r
    BY <2>2, <2>3 DEF BeforeAnswer, Started, RequestOf
  <2> QED BY <1>7, <2>2, <2>4 DEF BeforeAnswer
<1>9. AnsweredIsRecorded(u)'
  BY <1>1, <1>3, <1>4, <1>5, <1>8 DEF HistoryInv, AnsweredIsRecorded, RequestOf
<1>10. AnsweredOnce(u)'
  <2> SUFFICES ASSUME NEW i \in DOMAIN u, NEW k \in DOMAIN u, u[i] = u[k], i # k
               PROVE  u[i] \in expired'
    BY DEF AnsweredOnce
  <2>1. /\ i + n \in 1..(Len(s) + 1) /\ k + n \in 1..(Len(s) + 1) /\ i + n # k + n
        /\ u[i] = t[i + n] /\ u[k] = t[k + n]
    BY <1>3
  <2>2. CASE i + n \in 1..Len(s) /\ k + n \in 1..Len(s)
    BY <1>1, <1>4, <1>5, <2>1, <2>2 DEF HistoryInv, AnsweredOnce
  <2>3. CASE i + n = Len(s) + 1
    <3>1. k + n \in 1..Len(s)
      BY <1>1, <2>1, <2>3
    <3>2. s[k + n] = r /\ u[i] = r
      BY <1>1, <2>1, <2>3, <3>1
    <3> QED BY <1>5, <1>6, <1>7, <3>1, <3>2
  <2>4. CASE k + n = Len(s) + 1
    <3>1. i + n \in 1..Len(s)
      BY <1>1, <2>1, <2>4
    <3>2. s[i + n] = r /\ u[i] = r
      BY <1>1, <2>1, <2>4, <3>1
    <3> QED BY <1>5, <1>6, <1>7, <3>1, <3>2
  <2> QED BY <1>1, <2>1, <2>2, <2>3, <2>4
<1> QED BY <1>9, <1>10 DEF HistoryInv, u, t

LEMMA EmptyHistory == HistoryInv(<<>>)
BY DEF HistoryInv, AnsweredIsRecorded, AnsweredOnce

LEMMA EmptyHistoryNext == HistoryInv(<<>>)'
BY DEF HistoryInv, AnsweredIsRecorded, AnsweredOnce

LEMMA HistoriesStep ==
  TypeInv /\ RecordInv /\ HistoriesInv /\ [Next]_vars => HistoriesInv'
<1> SUFFICES ASSUME TypeInv, RecordInv, HistoriesInv, [Next]_vars,
                    NEW s \in History,
                    s = conversation'.turns \/ (\E h \in Handlers : s = handler'[h].turns)
             PROVE  HistoryInv(s)'
  BY DEF HistoriesInv
<1> DEFINE Old == s = conversation.turns \/ (\E h \in Handlers : s = handler[h].turns)
<1>1. CASE Old
  BY <1>1, HistoryKept DEF HistoriesInv
<1>2. CASE s = <<>>
  BY <1>2, EmptyHistoryNext
<1>3. ASSUME NEW h \in Handlers, Proceed(h) \/ Fail(h) PROVE HistoryInv(s)'
  <2>1. \A g \in Handlers : handler'[g].turns \in {handler[g].turns, <<>>}
    <3>1. CASE Return(h)
      BY <3>1 DEF Return, IdleHandler, TypeInv, HandlersOK
    <3>2. ASSUME NEW pc, Goto(h, pc) PROVE \A g \in Handlers : handler'[g].turns = handler[g].turns
      BY <3>2 DEF Goto, TypeInv, HandlersOK, Asking
    <3> QED BY <1>3, <3>1, <3>2, HandlerMoves
  <2>2. CASE conversation' = conversation
    BY <1>1, <1>2, <2>1, <2>2
  <2>3. CASE WriteTurn(h) /\ (SaveTurn(h) \/ SaveTurnFails(h)) /\ s = conversation'.turns
    <3>1. At(h, "saving") /\ RequestOf(h) \in Requests /\ handler[h].turns \in History
      BY <2>3 DEF SaveTurn, SaveTurnFails, At, RequestOf, TypeInv, HandlersOK
    <3>2. handler'[h].pc \in {"completing", "failing"}
      BY <2>3 DEF SaveTurn, SaveTurnFails, WriteTurn, Goto, TypeInv, HandlersOK, Asking
    <3>3. s = Recent(Append(handler[h].turns, RequestOf(h)))
      BY <2>3 DEF WriteTurn
    <3>4. HistoryInv(handler[h].turns)
      BY <3>1 DEF HistoriesInv
    <3>5. ASSUME NEW old \in History, old = handler[h].turns, NEW r \in Requests, r = RequestOf(h)
          PROVE  HistoryInv(Recent(Append(old, r)))' /\ s = Recent(Append(old, r))
      BY <2>3, <3>1, <3>2, <3>3, <3>4, <3>5, HistorySaved
    <3> QED BY <3>1, <3>5
  <2>4. conversation' = conversation \/ (WriteTurn(h) /\ (SaveTurn(h) \/ SaveTurnFails(h)))
    BY <1>3 DEF Proceed, Fail, LookUp, AcquireLock, LookUpAgain, BeginRequest, ConsumeQuota,
       WithdrawRequest, RunGraph, SaveTurn, CompleteRequest, FailRequest, ReleaseLock,
       GiveUp, BeginRequestFails, ConsumeQuotaFails, WithdrawRequestFails, RunGraphFails,
       SaveTurnFails, CompleteRequestFails, FailRequestFails, Stop, store
  <2> QED BY <1>1, <1>2, <2>1, <2>2, <2>3, <2>4
<1>4. ASSUME NEW h \in Handlers, NEW r \in Requests, Load(h, r) PROVE HistoryInv(s)'
  <2>1. Old
    BY <1>4 DEF Load, store, TypeInv, HandlersOK
  <2> QED BY <1>1, <2>1
<1>5. ASSUME Environment PROVE HistoryInv(s)'
  <2>1. conversation' = conversation \/ conversation'.turns = <<>>
    BY <1>5 DEF Environment, CreateConversation, DeleteConversation, ConversationExpires,
       Revoke, LockExpires, PendingExpires, store
  <2>2. \A g \in Handlers : handler'[g].turns = handler[g].turns
    <3>1. CASE LockExpires
      BY <3>1 DEF LockExpires, TypeInv, HandlersOK, Asking
    <3>2. CASE handler' = handler
      BY <3>2
    <3> QED BY <1>5, <3>1, <3>2 DEF Environment, CreateConversation, DeleteConversation,
               ConversationExpires, Revoke, PendingExpires
  <2> QED BY <1>1, <1>2, <2>1, <2>2
<1>6. CASE UNCHANGED vars
  BY <1>1, <1>6 DEF vars, store
<1> QED BY <1>3, <1>4, <1>5, <1>6 DEF Next

\* A request id is answered once in the history, also when a handler saves a history
\* that it read before others saved theirs.
THEOREM AnsweredOnceHolds == Spec => []AnsweredOnceUnlessExpired
<1>1. Init => HistoriesInv
  BY EmptyHistory DEF Init, HistoriesInv, IdleHandler
<1>2. TypeInv /\ HistoriesInv => AnsweredOnceUnlessExpired
  BY DEF TypeInv, TypeOK, HistoriesInv, HistoryInv, AnsweredOnce, AnsweredOnceUnlessExpired, History
<1> QED BY <1>1, <1>2, HistoriesStep, TypeInvariant, RecordInvariant, PTL DEF Spec

-----------------------------------------------------------------------------
(* The conversation as leased turns.                                       *)

LEMMA Phases ==
  /\ PhaseOf["charging"] = "accepted" /\ PhaseOf["exhausted"] = "refused"
  /\ PhaseOf["running"] = "charged" /\ PhaseOf["saving"] = "charged"
  /\ PhaseOf["completing"] = "charged" /\ PhaseOf["failing"] = "failing"
BY DEF PhaseOf

Question(h, pc) == [request |-> RequestOf(h), phase |-> PhaseOf[pc], late |-> handler[h].late]

\* What the clients see of a handler that has begun a question, and of one that has not.
LEMMA ServingNow ==
  ASSUME NEW h \in Handlers
  PROVE  /\ handler[h].pc \in Started => Serving[h] = Question(h, handler[h].pc)
         /\ handler[h].pc \notin Started => Serving[h] = Leased!Idle
BY DEF Serving, Question, NoQuestion, Leased!Idle

\* A handler's step is seen at that handler only.
LEMMA ServingGoto ==
  ASSUME TypeInv, NEW h \in Handlers, NEW pc, Goto(h, pc)
  PROVE  /\ pc \in Started => Serving' = [Serving EXCEPT ![h] = Question(h, pc)]
         /\ pc \notin Started => Serving' = [Serving EXCEPT ![h] = Leased!Idle]
<1>1. \A g \in Handlers : handler'[g] = IF g = h THEN [handler[h] EXCEPT !.pc = pc] ELSE handler[g]
  BY DEF Goto, TypeInv, HandlersOK
<1>2. /\ handler'[h].pc = pc /\ handler'[h].request = handler[h].request
      /\ handler'[h].late = handler[h].late
  BY <1>1 DEF TypeInv, HandlersOK, Asking
<1> QED BY <1>1, <1>2 DEF Serving, Question, NoQuestion, Leased!Idle, RequestOf

LEMMA ServingReturn ==
  ASSUME TypeInv, NEW h \in Handlers, Return(h)
  PROVE  Serving' = [Serving EXCEPT ![h] = Leased!Idle]
<1>1. \A g \in Handlers : handler'[g] = IF g = h THEN IdleHandler ELSE handler[g]
  BY DEF Return, TypeInv, HandlersOK
<1>2. IdleHandler.pc \notin Started
  BY DEF IdleHandler, Started
<1>3. \A g \in Handlers : Serving'[g] = IF g = h THEN Leased!Idle ELSE Serving[g]
  BY <1>1, <1>2 DEF Serving, NoQuestion, Leased!Idle, RequestOf
<1>4. Serving' = [g \in Handlers |-> Serving'[g]] /\ Serving = [g \in Handlers |-> Serving[g]]
  BY DEF Serving
<1> QED BY <1>3, <1>4

\* From one phase of a question to another.
LEMMA ServingPhase ==
  ASSUME TypeInv, NEW h \in Handlers, handler[h].pc \in Started, NEW pc \in Started, Goto(h, pc)
  PROVE  Leased!Goto(h, PhaseOf[pc])
<1>1. Serving' = [Serving EXCEPT ![h] = Question(h, pc)]
  BY ServingGoto
<1>2. Question(h, pc) = [Serving[h] EXCEPT !.phase = PhaseOf[pc]]
  <2>1. Serving[h] = Question(h, handler[h].pc)
    BY ServingNow
  <2> QED BY <2>1 DEF Question
<1>3. [Serving EXCEPT ![h].phase = PhaseOf[pc]] = [Serving EXCEPT ![h] = Question(h, pc)]
  BY <1>2 DEF Serving
<1> QED BY <1>1, <1>3 DEF Leased!Goto

\* The phases, by name, before and after a handler's step.
LEMMA ServingSteps ==
  ASSUME TypeInv, NEW h \in Handlers
  PROVE  /\ At(h, "charging") => Leased!At(h, "accepted")
         /\ At(h, "exhausted") => Leased!At(h, "refused")
         /\ handler[h].pc \in Answering => Leased!At(h, "charged")
         /\ At(h, "failing") => Leased!At(h, "failing")
         /\ handler[h].pc \in Started => ~Leased!At(h, "idle") /\ Serving[h].request = RequestOf(h)
         /\ handler[h].pc \notin Started => Leased!At(h, "idle") /\ Serving[h] = Leased!Idle
         /\ handler[h].pc \in Started =>
              /\ Goto(h, "running") => Leased!Goto(h, "charged")
              /\ Goto(h, "exhausted") => Leased!Goto(h, "refused")
              /\ Goto(h, "failing") => Leased!Goto(h, "failing")
         /\ Return(h) \/ (\E pc \in {"acquiring", "locked", "beginning", "releasing"} : Goto(h, pc))
              => Leased!End(h)
<1>1. /\ At(h, "charging") => Leased!At(h, "accepted")
      /\ At(h, "exhausted") => Leased!At(h, "refused")
      /\ handler[h].pc \in Answering => Leased!At(h, "charged")
      /\ At(h, "failing") => Leased!At(h, "failing")
      /\ handler[h].pc \in Started => ~Leased!At(h, "idle") /\ Serving[h].request = RequestOf(h)
      /\ handler[h].pc \notin Started => Leased!At(h, "idle") /\ Serving[h] = Leased!Idle
  <2>1. ASSUME handler[h].pc \in Started
        PROVE  /\ Serving[h].phase = PhaseOf[handler[h].pc]
               /\ Serving[h].request = RequestOf(h)
    <3>1. Serving[h] = Question(h, handler[h].pc)
      BY <2>1, ServingNow
    <3> QED BY <3>1 DEF Question
  <2>2. ASSUME handler[h].pc \notin Started PROVE Serving[h] = Leased!Idle
    BY <2>2, ServingNow
  <2>3. Answering \subseteq Started
    BY DEF Answering, Started
  <2>4. \A pc \in Answering : PhaseOf[pc] = "charged"
    BY Phases DEF Answering
  <2>5. \A pc \in Started : PhaseOf[pc] # "idle"
    BY Phases DEF Started
  <2>6. "charging" \in Started /\ "exhausted" \in Started /\ "failing" \in Started
    BY DEF Started
  <2>7. Leased!Idle.phase = "idle"
    BY DEF Leased!Idle
  <2> QED BY <2>1, <2>2, <2>3, <2>4, <2>5, <2>6, <2>7, Phases DEF At, Leased!At
<1>2. handler[h].pc \in Started =>
        /\ Goto(h, "running") => Leased!Goto(h, "charged")
        /\ Goto(h, "exhausted") => Leased!Goto(h, "refused")
        /\ Goto(h, "failing") => Leased!Goto(h, "failing")
  <2>1. "running" \in Started /\ "exhausted" \in Started /\ "failing" \in Started
    BY DEF Started
  <2>2. /\ handler[h].pc \in Started /\ Goto(h, "running") => Leased!Goto(h, PhaseOf["running"])
        /\ handler[h].pc \in Started /\ Goto(h, "exhausted") => Leased!Goto(h, PhaseOf["exhausted"])
        /\ handler[h].pc \in Started /\ Goto(h, "failing") => Leased!Goto(h, PhaseOf["failing"])
    BY <2>1, ServingPhase
  <2> QED BY <2>2, Phases
<1>3. Return(h) => Leased!End(h)
  BY ServingReturn DEF Leased!End
<1>4. ASSUME NEW pc \in {"acquiring", "locked", "beginning", "releasing"}, Goto(h, pc)
      PROVE  Leased!End(h)
  BY <1>4, ServingGoto DEF Leased!End, Started
<1> QED BY <1>1, <1>2, <1>3, <1>4

\* A handler in its lease meets only handlers that have outlived theirs.
LEMMA OthersLate ==
  ASSUME TypeInv, LockHeld, NEW h \in Handlers, handler[h].pc \in Locked \ Started
  PROVE  handler[h].late \/ \A d \in Handlers : Leased!At(d, "idle") \/ Serving[d].late
<1> SUFFICES ASSUME ~handler[h].late, NEW d \in Handlers, handler[d].pc \in Started
             PROVE  Serving[d].late
  BY ServingNow DEF Leased!At, Leased!Idle
<1>1. d # h /\ handler[d].pc \in Locked
  BY DEF Locked
<1>2. handler[d].late
  BY <1>1 DEF LockHeld, TypeInv, HandlersOK, Asking
<1>3. Serving[d] = Question(d, handler[d].pc)
  BY ServingNow
<1> QED BY <1>2, <1>3 DEF Question

\* A handler's steps are a call's.
LEMMA CallStep ==
  ASSUME TypeInv, LockHeld, NEW h \in Handlers, Proceed(h) \/ Fail(h)
  PROVE  [Leased!Next]_(Leased!vars)
<1> DEFINE Goal == [Leased!Next]_(Leased!vars)
           r == RequestOf(h)
<1> SUFFICES Goal OBVIOUS
<1> USE DEF grant
<1>1. r \in Requests
  BY OwnHandler
<1>2. \A s : SetRecord(h, s) /\ handler[h].pc \in Started => Leased!SetRecord(h, s)
  BY ServingSteps DEF SetRecord, Leased!SetRecord
<1>3. CASE Leaves(h)
  <2>1. Leased!End(h) /\ UNCHANGED <<record, used, revoked>>
    BY <1>3, ServingSteps DEF Leaves
  <2>2. CASE handler[h].pc \in Started
    <3>1. Leased!Abort(h)
      BY <2>1, <2>2, ServingSteps DEF Leased!Abort, Leased!EndOrFail
    <3> QED BY <3>1 DEF Leased!Next
  <2>3. CASE handler[h].pc \notin Started
    <3>1. Serving' = Serving
      BY <2>1, <2>3, ServingSteps DEF Leased!End, Serving
    <3> QED BY <2>1, <3>1 DEF Leased!vars
  <2> QED BY <2>2, <2>3
<1>4. CASE Begins(h)
  <2>1. /\ record[r] = "none" /\ record' = [record EXCEPT ![r] = "pending"]
        /\ UNCHANGED <<used, revoked>>
        /\ handler[h].pc \in Locked \ Started /\ Leased!At(h, "idle") /\ Serving[h] = Leased!Idle
    BY <1>4, ServingSteps DEF Begins, SetRecord, At, Locked, Started
  <2>2. CASE Goto(h, "charging")
    <3>1. Serving' = [Serving EXCEPT ![h] = [request |-> r, phase |-> "accepted", late |-> handler[h].late]]
      BY <2>2, ServingGoto, Phases DEF Question, Started
    <3>2. handler[h].late \in BOOLEAN
      BY DEF TypeInv, HandlersOK, Asking
    <3>3. Leased!Accept(h, r)
      BY <2>1, <3>1, <3>2, OthersLate DEF Leased!Accept
    <3> QED BY <1>1, <3>3 DEF Leased!Next
  <2>3. CASE Goto(h, "releasing")
    <3>1. Serving' = Serving
      BY <2>1, <2>3, ServingSteps DEF Leased!End, Serving
    <3>2. Leased!AcceptUnseen(r)
      BY <2>1, <3>1 DEF Leased!AcceptUnseen
    <3> QED BY <1>1, <3>2 DEF Leased!Next
  <2> QED BY <1>4, <2>2, <2>3 DEF Begins
<1>5. CASE Charges(h)
  <2>1. Leased!Charge(h)
    BY <1>5, ServingSteps
    DEF Charges, Consume, At, Started, Leased!Charge, Leased!EndOrFail
  <2> QED BY <2>1 DEF Leased!Next
<1>6. CASE Refused(h)
  <2>1. Leased!Refuse(h)
    BY <1>6, ServingSteps DEF Refused, GrantOver, At, Started, Leased!Refuse
  <2> QED BY <2>1 DEF Leased!Next
<1>7. CASE Withdraws(h)
  <2>1. Leased!Withdraw(h)
    BY <1>2, <1>7, ServingSteps DEF Withdraws, At, Started, Leased!Withdraw, Leased!EndOrFail
  <2> QED BY <2>1 DEF Leased!Next
<1>8. CASE Advances(h)
  <2>1. PICK pc \in {"saving", "completing"} : Goto(h, pc)
    BY <1>8 DEF Advances
  <2>2. Serving' = [Serving EXCEPT ![h] = Question(h, pc)]
    BY <2>1, ServingGoto DEF Started
  <2>3. Question(h, pc) = Serving[h]
    BY <1>8, <2>1, ServingNow, Phases DEF Advances, At, Question, Started
  <2>4. Serving' = Serving
    BY <2>2, <2>3 DEF Serving
  <2> QED BY <1>8, <2>4 DEF Advances, Leased!vars
<1>9. CASE Completes(h)
  <2>1. Leased!Answer(h)
    BY <1>2, <1>9, ServingSteps
    DEF Completes, At, Started, Answering, Leased!Answer, Leased!EndOrFail
  <2> QED BY <2>1 DEF Leased!Next
<1>10. CASE Errs(h)
  <2>1. Leased!Abort(h)
    BY <1>10, ServingSteps DEF Errs, Leased!Abort, Leased!EndOrFail
  <2> QED BY <2>1 DEF Leased!Next
<1>11. CASE Fails(h)
  <2>1. Leased!RecordFailure(h)
    BY <1>2, <1>11, ServingSteps DEF Fails, At, Started, Leased!RecordFailure
  <2> QED BY <2>1 DEF Leased!Next
<1> HIDE DEF Goal
<1> QED BY <1>3, <1>4, <1>5, <1>6, <1>7, <1>8, <1>9, <1>10, <1>11, HandlerSteps DEF RequestStep

\* An expiring lock delays the handler at work under it, or is not seen.
LEMMA LockExpiryStep ==
  ASSUME TypeInv, LockExpires
  PROVE  [Leased!Next]_(Leased!vars)
<1>1. UNCHANGED <<record, used, revoked>> /\ lock \in Handlers
  BY DEF LockExpires, grant, TypeInv, TypeOK
<1>2. CASE handler[lock].pc \notin Started
  <2>1. /\ handler'[lock].pc = handler[lock].pc
        /\ \A g \in Handlers \ {lock} : handler'[g] = handler[g]
    BY <1>1 DEF LockExpires, TypeInv, HandlersOK, Asking
  <2>2. Serving' = Serving
    BY <1>2, <2>1 DEF Serving, RequestOf
  <2> QED BY <1>1, <2>2 DEF Leased!vars
<1>3. CASE handler[lock].pc \in Started
  <2>1. \A g \in Handlers : handler'[g] = IF g = lock THEN [handler[lock] EXCEPT !.late = TRUE]
                                                      ELSE handler[g]
    BY <1>1, <1>3 DEF LockExpires, Locked, TypeInv, HandlersOK
  <2>2. /\ handler'[lock].pc = handler[lock].pc /\ handler'[lock].request = handler[lock].request
        /\ handler'[lock].late = TRUE
    BY <1>1, <2>1 DEF TypeInv, HandlersOK, Asking
  <2>3. Serving' = [g \in Handlers |-> IF g = lock THEN [Serving[lock] EXCEPT !.late = TRUE]
                                                   ELSE Serving[g]]
    BY <1>1, <1>3, <2>1, <2>2 DEF Serving, RequestOf
  <2>4. Serving' = [Serving EXCEPT ![lock].late = TRUE]
    BY <1>1, <2>3 DEF Serving
  <2>5. CASE Serving[lock].late
    <3>1. Serving[lock] = Question(lock, handler[lock].pc) /\ Serving[lock].late = TRUE
      BY <1>1, <1>3, <2>5, ServingNow DEF Question, TypeInv, HandlersOK, Asking
    <3>2. [Serving[lock] EXCEPT !.late = TRUE] = Serving[lock]
      BY <3>1 DEF Question
    <3>3. Serving' = Serving
      BY <2>3, <3>2 DEF Serving
    <3> QED BY <1>1, <3>3 DEF Leased!vars
  <2>6. CASE ~Serving[lock].late
    <3>1. Leased!Delay(lock)
      BY <1>1, <1>3, <2>4, <2>6, ServingSteps DEF Leased!Delay
    <3> QED BY <1>1, <3>1 DEF Leased!Next
  <2> QED BY <2>5, <2>6
<1> QED BY <1>2, <1>3

LEMMA LeasedStep ==
  ASSUME TypeInv, LockHeld, [Next]_vars
  PROVE  [Leased!Next]_(Leased!vars)
<1> DEFINE Goal == [Leased!Next]_(Leased!vars)
<1> SUFFICES Goal OBVIOUS
<1> USE DEF store, grant
<1>1. ASSUME NEW h \in Handlers, Proceed(h) \/ Fail(h) PROVE Goal
  BY <1>1, CallStep
<1>2. ASSUME NEW h \in Handlers, NEW r \in Requests, Load(h, r) PROVE Goal
  <2>1. /\ UNCHANGED <<record, used, revoked>>
        /\ handler[h].pc \notin Started /\ handler'[h].pc \notin Started
        /\ \A g \in Handlers \ {h} : handler'[g] = handler[g]
    BY <1>2 DEF Load, At, Started, TypeInv, HandlersOK
  <2>2. Serving' = Serving
    BY <2>1 DEF Serving, RequestOf
  <2> QED BY <2>1, <2>2 DEF Leased!vars
<1>3. ASSUME handler' = handler PROVE Serving' = Serving
  BY <1>3 DEF Serving, RequestOf
<1>4. ASSUME NEW r \in Requests, PendingExpires(r) PROVE Goal
  <2>1. \A c \in Handlers : Serving[c].request # r
    <3>1. ASSUME NEW c \in Handlers, handler[c].pc \in Started PROVE Serving[c].request = RequestOf(c)
      BY <3>1, ServingSteps
    <3>2. ASSUME NEW c \in Handlers, handler[c].pc \notin Started PROVE Serving[c].request = None
      <4>1. Serving[c] = Leased!Idle
        BY <3>2, ServingNow
      <4> QED BY <4>1 DEF Leased!Idle
    <3> QED BY <1>4, <3>1, <3>2, NoneAssumption DEF PendingExpires
  <2>2. Leased!Forget(r)
    BY <1>3, <1>4, <2>1 DEF PendingExpires, Leased!Forget
  <2> QED BY <2>2 DEF Leased!Next
<1>5. ASSUME Revoke PROVE Goal
  <2>1. Leased!Revoke
    BY <1>3, <1>5 DEF Revoke, Leased!Revoke
  <2> QED BY <2>1 DEF Leased!Next
<1>6. ASSUME UNCHANGED <<record, used, revoked, handler>> PROVE Goal
  BY <1>3, <1>6 DEF Leased!vars
<1>7. ASSUME LockExpires PROVE Goal
  BY <1>7, LockExpiryStep
<1> HIDE DEF Goal
<1>8. ASSUME Environment PROVE Goal
  BY <1>4, <1>5, <1>6, <1>7, <1>8
  DEF Environment, CreateConversation, DeleteConversation, ConversationExpires
<1>9. CASE UNCHANGED vars
  BY <1>6, <1>9 DEF vars
<1> QED BY <1>1, <1>2, <1>8, <1>9 DEF Next

\* Any number of handlers, with the lock and the records in Redis failing and expiring
\* as they do, implement turns that are leased.
THEOREM LeasedImplemented == Spec => LeasedSpec
<1>1. Init => Leased!Init
  BY DEF Init, Leased!Init, Leased!Idle, NoQuestion, Serving, IdleHandler, Started
<1>2. TypeInv /\ LockHeld /\ [Next]_vars => [Leased!Next]_(Leased!vars)
  BY LeasedStep
<1> QED BY <1>1, <1>2, TypeInvariant, LockInvariant, PTL
        DEF Spec, LeasedSpec, Leased!Spec
=============================================================================
