--------------------------- MODULE Administrators ---------------------------
(***************************************************************************)
(* The administrators' accounts in PostgreSQL, their sessions and the      *)
(* counters of failed attempts in Redis, and the requests that use them:   *)
(* login, the authentication of every administrator's request, and the     *)
(* creation and deletion of accounts.  A request makes one call at a time  *)
(* and keeps what it read; between two calls anything may happen.          *)
(* AccessControl composes this module with what the administrators manage. *)
(***************************************************************************)
EXTENDS Integers, FiniteSets

CONSTANTS
  Admins,        \* ids of administrators, each with a user name of its own
  Guessed,       \* user names that are tried with wrong passwords
  Hosts,         \* clients that exchange tokens: other keys of the counters
  Handlers,      \* requests served at once
  MaxFailures,   \* admin_login_max_failures, access_exchange_failure_limit
  None

ASSUME FailuresAssumption == MaxFailures \in Nat \ {0}
ASSUME HandlersAssumption == IsFiniteSet(Handlers)
ASSUME AdminsAssumption == None \notin Admins \cup Hosts /\ Guessed \subseteq Admins

VARIABLES
  admins,     \* admin_users
  created,    \* history: the ids ever inserted
  sessions,   \* whom a live session in Redis names
  failures,   \* the counters of FailureRateLimiter
  handler     \* the requests

adminVars == <<admins, created>>

\* What a request does next, on whose behalf, and what it was asked for (scope: the
\* projects of a new grant).  late: when it began, its session was already one of a
\* deleted administrator, or of a grant that was over.
IdleHandler == [pc |-> "idle", subject |-> None, about |-> None, scope |-> {}, late |-> FALSE]

AdminPCs == {"idle", "looking_up", "rejecting", "clearing", "opening", "identifying",
             "authorised", "creating"}

AdminInit ==
  /\ admins = {}
  /\ created = {}
  /\ sessions = {}
  /\ failures = [k \in Admins \cup Hosts |-> 0]
  /\ handler = [h \in Handlers |-> IdleHandler]

At(h, pc) == handler[h].pc = pc
Goto(h, pc) == handler' = [handler EXCEPT ![h].pc = pc]
Begin(h, pc, subject, about, late) ==
  /\ At(h, "idle")
  /\ handler' = [handler EXCEPT ![h] = [pc |-> pc, subject |-> subject, about |-> about,
                                        scope |-> {}, late |-> late]]
Return(h) == handler' = [handler EXCEPT ![h] = IdleHandler]

-----------------------------------------------------------------------------
(* FailureRateLimiter.                                                     *)

\* Mutant of IsLimited: one attempt too many.
IsLimitedLate(k) == failures[k] > MaxFailures

IsLimited(k) == failures[k] >= MaxFailures

RecordFailure(h) ==
  /\ At(h, "rejecting")
  /\ failures' = [failures EXCEPT ![handler[h].about] = @ + 1]
  /\ Return(h)
  /\ UNCHANGED <<adminVars, sessions>>

\* The key expires, a fixed time after its first failure.
WindowEnds(k) ==
  /\ failures[k] # 0
  /\ failures' = [failures EXCEPT ![k] = 0]
  /\ UNCHANGED <<adminVars, sessions, handler>>

-----------------------------------------------------------------------------
(* AdminAuthService.login.                                                 *)

StartLogin(h, a) ==
  /\ ~IsLimited(a)
  /\ Begin(h, "looking_up", None, a, FALSE)
  /\ UNCHANGED <<adminVars, sessions, failures>>

\* The account is read; the password is verified against what was read.
LookUp(h) ==
  /\ At(h, "looking_up")
  /\ LET a == handler[h].about
     IN \/ a \in admins /\ handler' = [handler EXCEPT ![h].pc = "clearing", ![h].subject = a]
        \/ a \in Guessed /\ Goto(h, "rejecting")
  /\ UNCHANGED <<adminVars, sessions, failures>>

ClearFailures(h) ==
  /\ At(h, "clearing")
  /\ failures' = [failures EXCEPT ![handler[h].about] = 0]
  /\ Goto(h, "opening")
  /\ UNCHANGED <<adminVars, sessions>>

\* Nobody looks whether the account is still there.
OpenSession(h) ==
  /\ At(h, "opening")
  /\ sessions' = sessions \cup {handler[h].subject}
  /\ Return(h)
  /\ UNCHANGED <<adminVars, failures>>

\* The last session of somebody expires or is logged out.
SessionEnds(s) ==
  /\ s \in sessions
  /\ sessions' = sessions \ {s}
  /\ UNCHANGED <<adminVars, failures, handler>>

-----------------------------------------------------------------------------
(* get_current_admin, before every administrator's request.                *)

ReadSession(h, a) ==
  /\ a \in sessions
  /\ Begin(h, "identifying", a, None, a \notin admins)
  /\ UNCHANGED <<adminVars, sessions, failures>>

\* Mutant of Identify: the session is believed.
IdentifyBySession(h) ==
  /\ At(h, "identifying")
  /\ Goto(h, "authorised")
  /\ UNCHANGED <<adminVars, sessions, failures>>

Identify(h) ==
  /\ At(h, "identifying")
  /\ IF handler[h].subject \in admins THEN Goto(h, "authorised") ELSE Return(h)
  /\ UNCHANGED <<adminVars, sessions, failures>>

-----------------------------------------------------------------------------
(* AdminUserManagementService and the command line.                        *)

\* The user name is looked up first: by an administrator's request ...
RequestAccount(h, a) ==
  /\ At(h, "authorised")
  /\ a \notin created
  /\ handler' = [handler EXCEPT ![h] = [IdleHandler EXCEPT !.pc = "creating", !.about = a]]
  /\ UNCHANGED <<adminVars, sessions, failures>>

\* ... or by the program that creates the first administrator.
StartProgram(h, a) ==
  /\ a \notin created
  /\ Begin(h, "creating", None, a, FALSE)
  /\ UNCHANGED <<adminVars, sessions, failures>>

\* The unique index refuses a user name that was inserted in between (one that is
\* used again after a deletion belongs to another id).
CreateAdmin(h) ==
  /\ At(h, "creating")
  /\ LET a == handler[h].about
     IN IF a \in created
        THEN UNCHANGED adminVars
        ELSE admins' = admins \cup {a} /\ created' = created \cup {a}
  /\ Return(h)
  /\ UNCHANGED <<sessions, failures>>

\* Mutant of DeleteAdmin: nobody deletes himself, so one is left anyway.
DeleteAdminUncounted(h, a) ==
  /\ At(h, "authorised")
  /\ a # handler[h].subject
  /\ admins' = admins \ {a}
  /\ Return(h)
  /\ UNCHANGED <<created, sessions, failures>>

\* delete_if_not_last locks every administrator's row and counts them.
DeleteAdmin(h, a) ==
  /\ At(h, "authorised")
  /\ a # handler[h].subject
  /\ admins' = IF admins = {a} THEN admins ELSE admins \ {a}
  /\ Return(h)
  /\ UNCHANGED <<created, sessions, failures>>

\* A call fails, times out or is refused, or the client is gone: what was done
\* stays done.
GiveUp(h) ==
  /\ ~At(h, "idle")
  /\ Return(h)
  /\ UNCHANGED <<adminVars, sessions, failures>>

AdminNext ==
  \/ \E h \in Handlers :
       \/ \E a \in Admins : \/ StartLogin(h, a) \/ ReadSession(h, a) \/ StartProgram(h, a)
                            \/ RequestAccount(h, a) \/ DeleteAdmin(h, a)
       \/ LookUp(h) \/ RecordFailure(h) \/ ClearFailures(h) \/ OpenSession(h)
       \/ Identify(h) \/ CreateAdmin(h) \/ GiveUp(h)
  \/ \E s \in sessions : SessionEnds(s)
  \/ \E k \in Admins \cup Hosts : WindowEnds(k)

-----------------------------------------------------------------------------

\* Once there is an administrator there always is one: also when each of two who
\* were authenticated at the same time deletes the other.
AdministratorRemains == created # {} => admins # {}

\* Attempts that fail count against the maximum: those that passed the check side
\* by side exceed it by their number at most, the first not counted.
FailuresBounded ==
  \A k \in Admins \cup Hosts : failures[k] < MaxFailures + Cardinality(Handlers)
=============================================================================
