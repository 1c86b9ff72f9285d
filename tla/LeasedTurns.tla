---------------------------- MODULE LeasedTurns ----------------------------
(***************************************************************************)
(* What the clients of one interview conversation may rely on, however     *)
(* many calls are made at once and whatever fails: a turn is a lease.  A   *)
(* question begins when no other is being answered but those that have     *)
(* outlived their leases, the grant is charged at most once for it, and    *)
(* how it ended is recorded - or its record is left pending, which refuses *)
(* the id until the record expires.  InterviewConversation implements this *)
(* with keys in Redis that may be leaked, expire or be released late.      *)
(***************************************************************************)
EXTENDS Naturals

CONSTANTS Requests, MaxRequests, Calls, None

VARIABLES
  record,   \* what a client that repeats a request id is told
  serving,  \* the question each call is answering, if any: its id, how far it is, and
            \* whether its lease has run out
  used,     \* charges to the grant
  revoked   \* the grant is over

vars == <<record, serving, used, revoked>>

Idle == [request |-> None, phase |-> "idle", late |-> FALSE]

Init ==
  /\ record = [r \in Requests |-> "none"]
  /\ serving = [c \in Calls |-> Idle]
  /\ used = 0
  /\ revoked = FALSE

At(c, phase) == serving[c].phase = phase
Goto(c, phase) == serving' = [serving EXCEPT ![c].phase = phase]
SetRecord(c, s) == record' = [record EXCEPT ![serving[c].request] = s]

\* The call is done with the question, or has still to record its failure.
End(c) == serving' = [serving EXCEPT ![c] = Idle]
EndOrFail(c) == End(c) \/ Goto(c, "failing")

\* Only an id without a record is taken; and in its lease a call finds no other in its
\* own.  One may also begin too late, and meet the next.
Accept(c, r) ==
  /\ At(c, "idle")
  /\ record[r] = "none"
  /\ record' = [record EXCEPT ![r] = "pending"]
  /\ \E late \in BOOLEAN :
       /\ late \/ \A d \in Calls : At(d, "idle") \/ serving[d].late
       /\ serving' = [serving EXCEPT ![c] = [request |-> r, phase |-> "accepted", late |-> late]]
  /\ UNCHANGED <<used, revoked>>

\* The record was written without anybody knowing.
AcceptUnseen(r) ==
  /\ record[r] = "none"
  /\ record' = [record EXCEPT ![r] = "pending"]
  /\ UNCHANGED <<serving, used, revoked>>

\* The lease runs out; the call does not notice.
Delay(c) ==
  /\ ~At(c, "idle") /\ ~serving[c].late
  /\ serving' = [serving EXCEPT ![c].late = TRUE]
  /\ UNCHANGED <<record, used, revoked>>

Charge(c) ==
  /\ At(c, "accepted")
  /\ ~revoked /\ used < MaxRequests
  /\ used' = used + 1
  /\ Goto(c, "charged") \/ EndOrFail(c)
  /\ UNCHANGED <<record, revoked>>

\* The quota is used up, or the grant is over: the id is as good as new.
Refuse(c) ==
  /\ At(c, "accepted")
  /\ revoked \/ used = MaxRequests
  /\ Goto(c, "refused")
  /\ UNCHANGED <<record, used, revoked>>

Withdraw(c) ==
  /\ At(c, "refused")
  /\ SetRecord(c, "none")
  /\ EndOrFail(c)
  /\ UNCHANGED <<used, revoked>>

Answer(c) ==
  /\ At(c, "charged")
  /\ SetRecord(c, "completed")
  /\ EndOrFail(c)
  /\ UNCHANGED <<used, revoked>>

RecordFailure(c) ==
  /\ At(c, "failing")
  /\ SetRecord(c, "failed")
  /\ End(c)
  /\ UNCHANGED <<used, revoked>>

\* Something failed: the record says so later, or never.
Abort(c) ==
  /\ ~At(c, "idle")
  /\ EndOrFail(c)
  /\ UNCHANGED <<record, used, revoked>>

\* A pending record expires, but not that of a question being answered.
Forget(r) ==
  /\ record[r] = "pending"
  /\ \A c \in Calls : serving[c].request # r
  /\ record' = [record EXCEPT ![r] = "none"]
  /\ UNCHANGED <<serving, used, revoked>>

Revoke ==
  /\ ~revoked
  /\ revoked' = TRUE
  /\ UNCHANGED <<record, serving, used>>

Next ==
  \/ \E c \in Calls :
        \/ \E r \in Requests : Accept(c, r)
        \/ Delay(c) \/ Charge(c) \/ Refuse(c) \/ Withdraw(c)
        \/ Answer(c) \/ RecordFailure(c) \/ Abort(c)
  \/ \E r \in Requests : AcceptUnseen(r) \/ Forget(r)
  \/ Revoke

Spec == Init /\ [][Next]_vars
=============================================================================
