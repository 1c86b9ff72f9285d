------------------------ MODULE AccessControlProofs ------------------------
(***************************************************************************)
(* What accounts, sessions, grants and projects promise for every number   *)
(* of administrators, grants, projects, clients and requests at once.      *)
(***************************************************************************)
EXTENDS AccessControl, FiniteSetTheorems, TLAPS

-----------------------------------------------------------------------------
(* Types.  A request knows on whose behalf it runs and what it is about, by *)
(* the step it is at.                                                       *)

PCs == AdminPCs \cup GrantPCs
Requests == [pc : PCs, subject : Subjects \cup {None}, about : About, scope : SUBSET Projects,
             late : BOOLEAN]

Typed(r) ==
  /\ r.pc \in {"clearing", "opening", "identifying"} => r.subject \in Admins
  /\ r.pc \in {"visiting", "admitting", "admitted", "presenting", "welcome", "answering"}
        => r.subject \in Grants
  /\ r.pc \in {"enabling", "disabling"} => r.about \in Grants
  /\ r.pc = "creating" => r.about \in Admins

TypedRequests == {r \in Requests : Typed(r)}

TypeInv ==
  /\ TypeOK
  /\ handler \in [Handlers -> TypedRequests]
  /\ demo.enabled => demo.grant \in Grants

\* The records that a request takes on.
LEMMA RequestUpdates ==
  /\ IdleHandler \in TypedRequests
  /\ \A r \in Requests, pc \in PCs : [r EXCEPT !.pc = pc] \in Requests
  /\ \A r \in Requests, pc \in PCs, s \in Subjects :
        [r EXCEPT !.pc = pc, !.subject = s] \in Requests
  /\ \A pc \in PCs, s \in Subjects \cup {None}, a \in About, late \in BOOLEAN :
        [pc |-> pc, subject |-> s, about |-> a, scope |-> {}, late |-> late] \in Requests
  /\ \A pc \in PCs, a \in About, P \in SUBSET Projects :
        [IdleHandler EXCEPT !.pc = pc, !.about = a, !.scope = P] \in Requests
  /\ \A a \in About : [IdleHandler EXCEPT !.pc = "creating", !.about = a] \in Requests
<1>1. "idle" \in PCs /\ "creating" \in PCs
  BY DEF PCs, AdminPCs
<1>2. IdleHandler \in TypedRequests
  BY <1>1 DEF IdleHandler, TypedRequests, Typed, Requests, About
<1>3. IdleHandler \in Requests
  BY <1>2 DEF TypedRequests
<1>4. \A r \in Requests, pc \in PCs : [r EXCEPT !.pc = pc] \in Requests
  BY DEF Requests
<1>5. \A r \in Requests, pc \in PCs, s \in Subjects : [r EXCEPT !.pc = pc, !.subject = s] \in Requests
  BY DEF Requests
<1>6. \A r \in Requests, pc \in PCs, a \in About, P \in SUBSET Projects :
         /\ [r EXCEPT !.pc = pc, !.about = a] \in Requests
         /\ [r EXCEPT !.pc = pc, !.about = a, !.scope = P] \in Requests
  BY DEF Requests
<1>7. \A pc \in PCs, s \in Subjects \cup {None}, a \in About, late \in BOOLEAN :
         [pc |-> pc, subject |-> s, about |-> a, scope |-> {}, late |-> late] \in Requests
  BY DEF Requests
<1> QED BY <1>1, <1>2, <1>3, <1>4, <1>5, <1>6, <1>7

LEMMA PCNames ==
  {"idle", "looking_up", "rejecting", "clearing", "opening", "identifying", "authorised",
   "creating", "granting", "checking", "deleting", "enabling", "disabling", "exchanging",
   "visiting", "admitting", "admitted", "presenting", "welcome", "answering"} \subseteq PCs
BY DEF PCs, AdminPCs, GrantPCs

\* A request that goes on keeps everything but its place.
LEMMA NewPC ==
  ASSUME NEW r \in Requests, NEW pc \in PCs,
         pc \in {"clearing", "opening", "identifying"} => r.subject \in Admins,
         pc \in {"visiting", "admitting", "admitted", "presenting", "welcome", "answering"}
            => r.subject \in Grants,
         pc \notin {"enabling", "disabling", "creating"}
  PROVE  [r EXCEPT !.pc = pc] \in TypedRequests
<1> DEFINE q == [r EXCEPT !.pc = pc]
<1>1. q \in Requests /\ q.pc = pc /\ q.subject = r.subject
  BY DEF Requests
<1> HIDE DEF q
<1>2. q \in TypedRequests
  BY <1>1 DEF TypedRequests, Typed
<1> QED BY <1>2 DEF q

LEMMA TypeInit == Init => TypeInv
<1> SUFFICES ASSUME Init PROVE TypeInv
  OBVIOUS
<1>1. handler \in [Handlers -> TypedRequests]
  BY RequestUpdates DEF Init, AdminInit
<1>2. handler \in [Handlers -> Requests]
  BY <1>1 DEF TypedRequests
<1> QED BY <1>1, <1>2 DEF Init, AdminInit, TypeInv, TypeOK, ProjectStates, Requests, PCs

\* A step that writes no table but those of the administrators.
LEMMA AdminTypes ==
  ASSUME TypeInv, AdminNext
  PROVE  /\ admins' \subseteq created'
         /\ created' \subseteq Admins
         /\ sessions' \subseteq Subjects
         /\ failures' \in [Admins \cup Hosts -> Nat]
         /\ handler' \in [Handlers -> TypedRequests]
<1> DEFINE Goal == /\ admins' \subseteq created'
                   /\ created' \subseteq Admins
                   /\ sessions' \subseteq Subjects
                   /\ failures' \in [Admins \cup Hosts -> Nat]
                   /\ handler' \in [Handlers -> TypedRequests]
<1>0. /\ admins \subseteq created /\ created \subseteq Admins /\ sessions \subseteq Subjects
      /\ failures \in [Admins \cup Hosts -> Nat] /\ handler \in [Handlers -> TypedRequests]
  BY DEF TypeInv, TypeOK
<1>1. ASSUME NEW h \in Handlers, NEW a \in Admins, StartLogin(h, a) \/ StartProgram(h, a) PROVE Goal
  <2>1. /\ UNCHANGED <<adminVars, sessions, failures>>
        /\ \E pc \in {"looking_up", "creating"} : handler' = [handler EXCEPT ![h] =
              [pc |-> pc, subject |-> None, about |-> a, scope |-> {}, late |-> FALSE]]
    BY <1>1 DEF StartLogin, StartProgram, Begin
  <2>2. \A pc \in {"looking_up", "creating"} :
           [pc |-> pc, subject |-> None, about |-> a, scope |-> {}, late |-> FALSE] \in TypedRequests
    BY RequestUpdates, PCNames DEF TypedRequests, Typed, About
  <2> QED BY <1>0, <2>1, <2>2 DEF adminVars
<1>2. ASSUME NEW h \in Handlers, NEW a \in Admins, ReadSession(h, a) PROVE Goal
  <2>1. /\ UNCHANGED <<adminVars, sessions, failures>>
        /\ handler' = [handler EXCEPT ![h] =
              [pc |-> "identifying", subject |-> a, about |-> None, scope |-> {}, late |-> a \notin admins]]
    BY <1>2 DEF ReadSession, Begin
  <2>2. [pc |-> "identifying", subject |-> a, about |-> None, scope |-> {}, late |-> a \notin admins]
          \in TypedRequests
    BY RequestUpdates, PCNames DEF TypedRequests, Typed, About, Subjects
  <2> QED BY <1>0, <2>1, <2>2 DEF adminVars
<1>3. ASSUME NEW h \in Handlers, NEW a \in Admins, RequestAccount(h, a) PROVE Goal
  <2>1. [IdleHandler EXCEPT !.pc = "creating", !.about = a] \in TypedRequests
    BY RequestUpdates DEF TypedRequests, Typed, About, IdleHandler
  <2> QED BY <1>0, <1>3, <2>1 DEF RequestAccount, adminVars
<1>4. ASSUME NEW h \in Handlers, LookUp(h) PROVE Goal
  <2>1. handler[h] \in Requests
    BY <1>0 DEF TypedRequests
  <2>2. ASSUME NEW a \in admins PROVE [handler[h] EXCEPT !.pc = "clearing", !.subject = a] \in TypedRequests
    BY <1>0, <2>1, RequestUpdates, PCNames DEF TypedRequests, Typed, Subjects, Requests
  <2>3. [handler[h] EXCEPT !.pc = "rejecting"] \in TypedRequests
    BY <2>1, RequestUpdates, PCNames DEF TypedRequests, Typed, Requests
  <2> QED BY <1>0, <1>4, <2>2, <2>3 DEF LookUp, Goto, adminVars
<1>5. ASSUME NEW h \in Handlers, ClearFailures(h) PROVE Goal
  <2>1. handler[h] \in Requests /\ handler[h].subject \in Admins /\ "opening" \in PCs
    BY <1>0, <1>5, PCNames DEF ClearFailures, At, TypedRequests, Typed
  <2>2. [handler[h] EXCEPT !.pc = "opening"] \in TypedRequests
    BY <2>1, NewPC
  <2> QED BY <1>0, <1>5, <2>2 DEF ClearFailures, Goto, adminVars
<1>6. ASSUME NEW h \in Handlers, OpenSession(h) PROVE Goal
  <2>1. handler[h].subject \in Subjects
    BY <1>0, <1>6 DEF OpenSession, At, TypedRequests, Typed, Subjects
  <2> QED BY <1>0, <1>6, <2>1, RequestUpdates DEF OpenSession, Return, adminVars
<1>7. ASSUME NEW h \in Handlers, Identify(h) PROVE Goal
  <2>1. handler[h] \in Requests /\ "authorised" \in PCs
    BY <1>0, PCNames DEF TypedRequests
  <2>2. [handler[h] EXCEPT !.pc = "authorised"] \in TypedRequests
    BY <2>1, NewPC
  <2> QED BY <1>0, <1>7, <2>2, RequestUpdates DEF Identify, Goto, Return, adminVars
<1>8. ASSUME NEW h \in Handlers, CreateAdmin(h) PROVE Goal
  <2>1. handler[h].about \in Admins
    BY <1>0, <1>8 DEF CreateAdmin, At, TypedRequests, Typed
  <2> QED BY <1>0, <1>8, <2>1, RequestUpdates DEF CreateAdmin, Return, adminVars
<1>9. ASSUME NEW h \in Handlers, NEW a \in Admins, DeleteAdmin(h, a) PROVE Goal
  BY <1>0, <1>9, RequestUpdates DEF DeleteAdmin, Return
<1>10. ASSUME NEW h \in Handlers, RecordFailure(h) \/ GiveUp(h) PROVE Goal
  <2>1. /\ UNCHANGED <<adminVars, sessions>>
        /\ handler' = [handler EXCEPT ![h] = IdleHandler]
        /\ \/ failures' = failures
           \/ failures' = [failures EXCEPT ![handler[h].about] = @ + 1]
    BY <1>10 DEF RecordFailure, GiveUp, Return
  <2>2. handler' \in [Handlers -> TypedRequests]
    BY <1>0, <2>1, RequestUpdates
  <2>3. failures' \in [Admins \cup Hosts -> Nat]
    BY <1>0, <2>1
  <2> QED BY <1>0, <2>1, <2>2, <2>3 DEF adminVars
<1>11. ASSUME NEW s \in sessions, SessionEnds(s) PROVE Goal
  BY <1>0, <1>11 DEF SessionEnds, adminVars
<1>12. ASSUME NEW k \in Admins \cup Hosts, WindowEnds(k) PROVE Goal
  BY <1>0, <1>12 DEF WindowEnds, adminVars
<1> HIDE DEF Goal
<1>13. Goal
  BY <1>1, <1>2, <1>3, <1>4, <1>5, <1>6, <1>7, <1>8, <1>9, <1>10, <1>11, <1>12 DEF AdminNext
<1> QED BY <1>13 DEF Goal

\* The tables that the requests about grants and projects write.
GrantTables ==
  /\ project \in [Projects -> ProjectStates]
  /\ documented \subseteq Projects
  /\ links \in [Grants -> SUBSET Projects]
  /\ over \subseteq Grants
  /\ used \in [Grants -> Nat]
  /\ demo \in [grant : Grants \cup {None}, enabled : BOOLEAN]
  /\ demo.enabled => demo.grant \in Grants

LEMMA ProceedTyped ==
  ASSUME NEW pc \in PCs, NEW a \in About, NEW P \in SUBSET Projects,
         pc \in {"enabling", "disabling"} => a \in Grants,
         pc \in {"granting", "checking", "enabling", "disabling"}
  PROVE  [IdleHandler EXCEPT !.pc = pc, !.about = a, !.scope = P] \in TypedRequests
<1> DEFINE q == [IdleHandler EXCEPT !.pc = pc, !.about = a, !.scope = P]
<1>1. q \in Requests /\ q.pc = pc /\ q.about = a
  BY RequestUpdates DEF IdleHandler
<1> HIDE DEF q
<1>2. q \in TypedRequests
  BY <1>1 DEF TypedRequests, Typed
<1> QED BY <1>2 DEF q

LEMMA GrantTypes ==
  ASSUME TypeInv, NEW h \in Handlers, GrantStep(h)
  PROVE  /\ UNCHANGED adminVars
         /\ sessions' \subseteq Subjects
         /\ failures' \in [Admins \cup Hosts -> Nat]
         /\ handler' \in [Handlers -> TypedRequests]
         /\ GrantTables'
<1> DEFINE Goal == /\ UNCHANGED adminVars
                   /\ sessions' \subseteq Subjects
                   /\ failures' \in [Admins \cup Hosts -> Nat]
                   /\ handler' \in [Handlers -> TypedRequests]
                   /\ GrantTables'
<1> SUFFICES Goal
  OBVIOUS
<1>0. /\ sessions \subseteq Subjects /\ failures \in [Admins \cup Hosts -> Nat]
      /\ handler \in [Handlers -> TypedRequests] /\ GrantTables
      /\ IdleHandler \in TypedRequests /\ handler[h] \in Requests
  BY RequestUpdates DEF TypeInv, TypeOK, GrantTables, TypedRequests
<1>1. ASSUME NEW p \in Projects, CreateProject(h, p) PROVE Goal
  BY <1>0, <1>1 DEF CreateProject, Return, GrantTables, ProjectStates
<1>2. ASSUME NEW p \in Projects, LockProject(h, p) PROVE Goal
  <2>1. [IdleHandler EXCEPT !.pc = "checking", !.about = p, !.scope = {}] \in TypedRequests
    BY ProceedTyped, PCNames DEF About
  <2> QED BY <1>0, <1>2, <2>1 DEF LockProject, Proceed, GrantTables, grantVars
<1>3. ASSUME NEW p \in Projects, CreateProjectDocument(h, p) \/ DeleteLastDocument(h, p) PROVE Goal
  BY <1>0, <1>3 DEF CreateProjectDocument, DeleteLastDocument, Return, GrantTables
<1>4. CASE CheckProject(h)
  <2>1. [handler[h] EXCEPT !.pc = "deleting"] \in TypedRequests
    BY <1>0, NewPC, PCNames
  <2> QED BY <1>0, <1>4, <2>1 DEF CheckProject, Return, Goto, GrantTables, grantVars
<1>5. CASE DeleteProject(h)
  <2>1. links' \in [Grants -> SUBSET Projects] /\ project' \in [Projects -> ProjectStates]
    BY <1>0, <1>5 DEF DeleteProject, GrantTables, ProjectStates
  <2> QED BY <1>0, <1>5, <2>1 DEF DeleteProject, Return, GrantTables
<1>6. ASSUME NEW P \in SUBSET Projects, RequestGrant(h, P) PROVE Goal
  <2>1. [IdleHandler EXCEPT !.pc = "granting", !.about = None, !.scope = P] \in TypedRequests
    BY ProceedTyped, PCNames DEF About
  <2> QED BY <1>0, <1>6, <2>1 DEF RequestGrant, Proceed, GrantTables, grantVars
<1>7. ASSUME NEW g \in Grants, CreateGrant(h, g) PROVE Goal
  <2>1. handler[h].scope \in SUBSET Projects
    BY <1>0 DEF Requests
  <2> QED BY <1>0, <1>7, <2>1 DEF CreateGrant, Return, GrantTables
<1>8. ASSUME NEW g \in Grants, Revoke(h, g) PROVE Goal
  BY <1>0, <1>8 DEF Revoke, Return, GrantTables
<1>9. ASSUME NEW g \in Grants, PresentSession(h, g) PROVE Goal
  <2> DEFINE q == [pc |-> "presenting", subject |-> g, about |-> None, scope |-> {}, late |-> g \in over]
  <2>1. handler' = [handler EXCEPT ![h] = q]
    BY <1>9 DEF PresentSession, Begin
  <2>2. "presenting" \in PCs /\ g \in Subjects /\ None \in About
    BY PCNames DEF About, Subjects
  <2>3. q \in Requests
    BY <2>2 DEF Requests
  <2>4. q.pc = "presenting" /\ q.subject = g
    OBVIOUS
  <2> HIDE DEF q
  <2>5. q \in TypedRequests
    BY <2>3, <2>4 DEF TypedRequests, Typed
  <2> QED BY <1>0, <1>9, <2>1, <2>5 DEF PresentSession, GrantTables, grantVars
<1>10. ASSUME NEW g \in Grants, NEW enabled \in BOOLEAN, ValidateDemo(h, g, enabled) PROVE Goal
  <2>1. \A pc \in {"enabling", "disabling"} :
           [IdleHandler EXCEPT !.pc = pc, !.about = g, !.scope = {}] \in TypedRequests
    BY ProceedTyped, PCNames DEF About
  <2> QED BY <1>0, <1>10, <2>1 DEF ValidateDemo, Proceed, GrantTables, grantVars
<1>11. CASE SaveDemo(h)
  <2>1. handler[h].about \in Grants
    BY <1>0, <1>11 DEF SaveDemo, TypedRequests, Typed
  <2>2. PICK enabled \in BOOLEAN : demo' = [grant |-> handler[h].about, enabled |-> enabled]
    BY <1>11 DEF SaveDemo, At
  <2>3. /\ demo' \in [grant : Grants \cup {None}, enabled : BOOLEAN]
        /\ demo'.grant \in Grants
    BY <2>1, <2>2
  <2> QED BY <1>0, <1>11, <2>3 DEF SaveDemo, Return, GrantTables
<1>12. CASE StartDemo(h)
  <2>1. PICK g \in Grants : handler' = [handler EXCEPT ![h] =
           [pc |-> "visiting", subject |-> g, about |-> None, scope |-> {}, late |-> FALSE]]
    BY <1>0, <1>12 DEF StartDemo, Begin, GrantTables
  <2>2. [pc |-> "visiting", subject |-> g, about |-> None, scope |-> {}, late |-> FALSE]
          \in TypedRequests
    BY RequestUpdates, PCNames DEF TypedRequests, Typed, About, Subjects
  <2> QED BY <1>0, <1>12, <2>1, <2>2 DEF StartDemo, GrantTables, grantVars
<1>13. CASE LoadDemoGrant(h)
  <2>1. At(h, "visiting") => [handler[h] EXCEPT !.pc = "admitting"] \in TypedRequests
    BY <1>0, NewPC, PCNames DEF At, TypedRequests, Typed
  <2> QED BY <1>0, <1>13, <2>1 DEF LoadDemoGrant, Return, Goto, GrantTables, grantVars
<1>14. ASSUME NEW k \in Hosts, StartExchange(h, k) PROVE Goal
  <2>1. handler' = [handler EXCEPT ![h] = [pc |-> "exchanging", subject |-> None, about |-> k,
                                           scope |-> {}, late |-> FALSE]]
    BY <1>14 DEF StartExchange, Begin
  <2>2. [pc |-> "exchanging", subject |-> None, about |-> k, scope |-> {}, late |-> FALSE]
          \in TypedRequests
    BY RequestUpdates, PCNames DEF TypedRequests, Typed, About
  <2> QED BY <1>0, <1>14, <2>1, <2>2 DEF StartExchange, GrantTables, grantVars
<1>15. CASE FindGrant(h)
  <2>1. ASSUME NEW g \in Grants
        PROVE  [handler[h] EXCEPT !.pc = "admitting", !.subject = g] \in TypedRequests
    BY <1>0, RequestUpdates, PCNames DEF TypedRequests, Typed, Subjects, Requests
  <2>2. [handler[h] EXCEPT !.pc = "rejecting"] \in TypedRequests
    BY <1>0, NewPC, PCNames
  <2> QED BY <1>0, <1>15, <2>1, <2>2 DEF FindGrant, Goto, GrantTables, grantVars
<1>16. CASE Admit(h)
  <2>1. handler[h].subject \in Grants
    BY <1>0, <1>16 DEF Admit, At, TypedRequests, Typed
  <2>2. \A pc \in {"admitted", "rejecting"} : [handler[h] EXCEPT !.pc = pc] \in TypedRequests
    BY <1>0, <2>1, NewPC, PCNames
  <2> QED BY <1>0, <1>16, <2>1, <2>2 DEF Admit, Goto, Return, GrantTables, grantVars, Subjects
<1>17. CASE ClearAfterExchange(h)
  BY <1>0, <1>17 DEF ClearAfterExchange, Return, GrantTables, grantVars
<1>18. CASE LoadGrant(h)
  <2>1. At(h, "presenting") => [handler[h] EXCEPT !.pc = "welcome"] \in TypedRequests
    BY <1>0, NewPC, PCNames DEF At, TypedRequests, Typed
  <2> QED BY <1>0, <1>18, <2>1 DEF LoadGrant, Return, Goto, GrantTables, grantVars
<1>19. CASE ConsumeRequest(h)
  <2>1. handler[h].subject \in Grants
    BY <1>0, <1>19 DEF ConsumeRequest, At, TypedRequests, Typed
  <2>2. [handler[h] EXCEPT !.pc = "answering"] \in TypedRequests
    BY <1>0, <2>1, NewPC, PCNames
  <2>3. used' \in [Grants -> Nat]
    BY <1>0, <1>19, <2>1 DEF ConsumeRequest, GrantTables
  <2>4. handler' \in [Handlers -> TypedRequests]
    BY <1>0, <1>19, <2>2 DEF ConsumeRequest, Return, Goto
  <2> QED BY <1>0, <1>19, <2>3, <2>4 DEF ConsumeRequest, GrantTables
<1> HIDE DEF Goal
<1>20. CASE \E p \in Projects : \/ CreateProject(h, p) \/ LockProject(h, p)
                                \/ CreateProjectDocument(h, p) \/ DeleteLastDocument(h, p)
  BY <1>1, <1>2, <1>3, <1>20
<1>21. CASE \E g \in Grants : CreateGrant(h, g) \/ Revoke(h, g) \/ PresentSession(h, g)
  BY <1>7, <1>8, <1>9, <1>21
<1> QED
  BY <1>4, <1>5, <1>6, <1>10, <1>11, <1>12, <1>13, <1>14, <1>15, <1>16, <1>17, <1>18, <1>19, <1>20,
     <1>21
  DEF GrantStep

LEMMA TypeStep == TypeInv /\ [Next]_vars => TypeInv'
<1> SUFFICES ASSUME TypeInv, [Next]_vars PROVE TypeInv'
  OBVIOUS
<1>1. GrantTables /\ handler \in [Handlers -> TypedRequests]
      /\ (handler \in [Handlers -> TypedRequests])' => handler' \in [Handlers -> Requests]
  BY DEF TypeInv, TypeOK, GrantTables, TypedRequests
<1>2. CASE AdminStep
  BY <1>1, <1>2, AdminTypes
  DEF AdminStep, grantVars, GrantTables, TypeInv, TypeOK, Requests, PCs
<1>3. ASSUME NEW h \in Handlers, GrantStep(h) PROVE TypeInv'
  <2>1. /\ UNCHANGED adminVars
        /\ sessions' \subseteq Subjects
        /\ failures' \in [Admins \cup Hosts -> Nat]
        /\ handler' \in [Handlers -> TypedRequests]
        /\ GrantTables'
    BY <1>3, GrantTypes
  <2> QED BY <1>1, <2>1 DEF adminVars, GrantTables, TypeInv, TypeOK, Requests, PCs
<1>4. ASSUME NEW g \in Grants, Expire(g) PROVE TypeInv'
  BY <1>4 DEF Expire, TypeInv, TypeOK, adminVars
<1>5. CASE UNCHANGED vars
  BY <1>5 DEF vars, adminVars, grantVars, TypeInv, TypeOK
<1> QED BY <1>2, <1>3, <1>4, <1>5 DEF Next

THEOREM TypesKept == Spec => []TypeInv
<1> QED BY TypeInit, TypeStep, PTL DEF Spec

\* Tables, sessions, counters and requests keep their types.
THEOREM AccessTypeCorrect == Spec => []TypeOK
<1>1. TypeInv => TypeOK
  BY DEF TypeInv
<1> QED BY <1>1, TypesKept, PTL

-----------------------------------------------------------------------------
(* What every step leaves alone.                                           *)

\* The steps of an administrator's request, by what they do to it.
OpensRequest(h) ==
  \E a \in Admins : StartLogin(h, a) \/ ReadSession(h, a) \/ StartProgram(h, a) \/ RequestAccount(h, a)
MovesRequest(h) == LookUp(h) \/ ClearFailures(h) \/ Identify(h)
EndsRequest(h) ==
  \/ RecordFailure(h) \/ OpenSession(h) \/ CreateAdmin(h) \/ GiveUp(h)
  \/ \E a \in Admins : DeleteAdmin(h, a)
AdminRequest(h) == OpensRequest(h) \/ MovesRequest(h) \/ EndsRequest(h)

\* What nobody's request does: a session ends, a counter expires.
Elapses == (\E s \in sessions : SessionEnds(s)) \/ \E k \in Admins \cup Hosts : WindowEnds(k)

LEMMA AdminSplit == AdminNext => Elapses \/ \E h \in Handlers : AdminRequest(h)
<1> SUFFICES ASSUME AdminNext PROVE Elapses \/ \E h \in Handlers : AdminRequest(h)
  OBVIOUS
<1>1. CASE Elapses
  BY <1>1
<1>2. ASSUME NEW h \in Handlers, NEW a \in Admins,
             \/ StartLogin(h, a) \/ ReadSession(h, a) \/ StartProgram(h, a)
             \/ RequestAccount(h, a) \/ DeleteAdmin(h, a)
      PROVE  AdminRequest(h)
  BY <1>2 DEF AdminRequest, OpensRequest, EndsRequest
<1>3. ASSUME NEW h \in Handlers,
             \/ LookUp(h) \/ RecordFailure(h) \/ ClearFailures(h) \/ OpenSession(h)
             \/ Identify(h) \/ CreateAdmin(h) \/ GiveUp(h)
      PROVE  AdminRequest(h)
  BY <1>3 DEF AdminRequest, MovesRequest, EndsRequest
<1> QED BY <1>1, <1>2, <1>3 DEF AdminNext, Elapses

\* A request's step leaves the other requests alone, and no account is inserted twice.
LEMMA AdminFrame ==
  ASSUME TypeInv, NEW h \in Handlers, AdminRequest(h)
  PROVE  /\ \A g \in Handlers \ {h} : handler'[g] = handler[g]
         /\ created \subseteq created'
         /\ admins' \cap created \subseteq admins
<1> DEFINE Goal == /\ \A g \in Handlers \ {h} : handler'[g] = handler[g]
                   /\ created \subseteq created'
                   /\ admins' \cap created \subseteq admins
<1> SUFFICES Goal
  OBVIOUS
<1>0. handler \in [Handlers -> TypedRequests]
  BY DEF TypeInv
<1>1. CASE OpensRequest(h)
  BY <1>0, <1>1
  DEF OpensRequest, StartLogin, ReadSession, StartProgram, RequestAccount, Begin, adminVars
<1>2. CASE MovesRequest(h)
  BY <1>0, <1>2 DEF MovesRequest, LookUp, ClearFailures, Identify, Return, Goto, adminVars
<1>3. CASE EndsRequest(h)
  BY <1>0, <1>3
  DEF EndsRequest, RecordFailure, OpenSession, CreateAdmin, GiveUp, DeleteAdmin, Return, adminVars
<1> HIDE DEF Goal
<1> QED BY <1>1, <1>2, <1>3 DEF AdminRequest

\* The steps of a request about projects and grants, by the tables they write.
ProjectWrites(h) ==
  \/ \E p \in Projects : CreateProject(h, p) \/ CreateProjectDocument(h, p) \/ DeleteLastDocument(h, p)
  \/ DeleteProject(h)
GrantWrites(h) == SaveDemo(h) \/ \E g \in Grants : CreateGrant(h, g) \/ Revoke(h, g)
Requested(h) ==
  \/ \E p \in Projects : LockProject(h, p)
  \/ \E P \in SUBSET Projects : RequestGrant(h, P)
  \/ \E g \in Grants, enabled \in BOOLEAN : ValidateDemo(h, g, enabled)
Arrives(h) ==
  \/ \E g \in Grants : PresentSession(h, g)
  \/ \E k \in Hosts : StartExchange(h, k)
  \/ StartDemo(h)
Goes(h) ==
  \/ CheckProject(h) \/ LoadDemoGrant(h) \/ FindGrant(h) \/ Admit(h) \/ ClearAfterExchange(h)
  \/ LoadGrant(h)

LEMMA GrantSplit ==
  ASSUME NEW h \in Handlers, GrantStep(h)
  PROVE  ProjectWrites(h) \/ GrantWrites(h) \/ Requested(h) \/ Arrives(h) \/ Goes(h) \/ ConsumeRequest(h)
<1> DEFINE Goal == ProjectWrites(h) \/ GrantWrites(h) \/ Requested(h) \/ Arrives(h) \/ Goes(h)
                   \/ ConsumeRequest(h)
<1>1. ASSUME NEW p \in Projects, \/ CreateProject(h, p) \/ LockProject(h, p)
                                 \/ CreateProjectDocument(h, p) \/ DeleteLastDocument(h, p)
      PROVE  Goal
  BY <1>1 DEF ProjectWrites, Requested
<1>2. ASSUME NEW g \in Grants, CreateGrant(h, g) \/ Revoke(h, g) \/ PresentSession(h, g) PROVE Goal
  BY <1>2 DEF GrantWrites, Arrives
<1>3. ASSUME \/ \E P \in SUBSET Projects : RequestGrant(h, P)
             \/ \E g \in Grants, enabled \in BOOLEAN : ValidateDemo(h, g, enabled)
             \/ \E k \in Hosts : StartExchange(h, k)
      PROVE  Goal
  BY <1>3 DEF Requested, Arrives
<1>4. ASSUME \/ CheckProject(h) \/ DeleteProject(h) \/ SaveDemo(h) \/ StartDemo(h) \/ LoadDemoGrant(h)
             \/ FindGrant(h) \/ Admit(h) \/ ClearAfterExchange(h) \/ LoadGrant(h) \/ ConsumeRequest(h)
      PROVE  Goal
  BY <1>4 DEF ProjectWrites, GrantWrites, Arrives, Goes
<1> HIDE DEF Goal
<1>5. Goal
  BY <1>1, <1>2, <1>3, <1>4 DEF GrantStep
<1> QED BY <1>5 DEF Goal

LEMMA GrantFrame ==
  ASSUME TypeInv, NEW h \in Handlers, GrantStep(h)
  PROVE  /\ \A g \in Handlers \ {h} : handler'[g] = handler[g]
         /\ over \subseteq over'
         /\ UNCHANGED <<project, documented, links>> \/ ProjectWrites(h) \/ GrantWrites(h)
         /\ used' = used \/ ConsumeRequest(h)
<1> DEFINE Goal == /\ \A g \in Handlers \ {h} : handler'[g] = handler[g]
                   /\ over \subseteq over'
                   /\ UNCHANGED <<project, documented, links>> \/ ProjectWrites(h) \/ GrantWrites(h)
                   /\ used' = used \/ ConsumeRequest(h)
<1> SUFFICES Goal
  OBVIOUS
<1>0. handler \in [Handlers -> TypedRequests]
  BY DEF TypeInv
<1>1. CASE ProjectWrites(h)
  BY <1>0, <1>1
  DEF ProjectWrites, CreateProject, CreateProjectDocument, DeleteLastDocument, DeleteProject, Return
<1>2. CASE GrantWrites(h)
  BY <1>0, <1>2 DEF GrantWrites, SaveDemo, CreateGrant, Revoke, Return
<1>3. CASE Requested(h)
  BY <1>0, <1>3 DEF Requested, LockProject, RequestGrant, ValidateDemo, Proceed, grantVars
<1>4. CASE Arrives(h)
  BY <1>0, <1>4 DEF Arrives, PresentSession, StartExchange, StartDemo, Begin, grantVars
<1>5. CASE Goes(h)
  BY <1>0, <1>5
  DEF Goes, CheckProject, LoadDemoGrant, FindGrant, Admit, ClearAfterExchange, LoadGrant, Return, Goto,
      grantVars
<1>6. CASE ConsumeRequest(h)
  BY <1>0, <1>6 DEF ConsumeRequest, Return, Goto
<1> HIDE DEF Goal
<1> QED BY <1>1, <1>2, <1>3, <1>4, <1>5, <1>6, GrantSplit

\* Every step is one of these, and each leaves the other part's tables alone.
LEMMA StepSplit ==
  ASSUME TypeInv, [Next]_vars
  PROVE  \/ \E h \in Handlers : AdminRequest(h) /\ UNCHANGED grantVars
         \/ \E h \in Handlers : GrantStep(h) /\ UNCHANGED adminVars
         \/ Elapses /\ UNCHANGED <<adminVars, handler, grantVars>>
         \/ \E g \in Grants : Expire(g)
         \/ UNCHANGED vars
<1> DEFINE Goal == \/ \E h \in Handlers : AdminRequest(h) /\ UNCHANGED grantVars
                   \/ \E h \in Handlers : GrantStep(h) /\ UNCHANGED adminVars
                   \/ Elapses /\ UNCHANGED <<adminVars, handler, grantVars>>
                   \/ \E g \in Grants : Expire(g)
                   \/ UNCHANGED vars
<1> SUFFICES Goal
  OBVIOUS
<1>1. CASE AdminStep
  <2>1. Elapses => UNCHANGED <<adminVars, handler>>
    BY DEF Elapses, SessionEnds, WindowEnds
  <2> QED BY <1>1, <2>1, AdminSplit DEF AdminStep
<1>2. ASSUME NEW h \in Handlers, GrantStep(h) PROVE Goal
  <2>1. UNCHANGED adminVars
    BY <1>2, GrantTypes
  <2> QED BY <1>2, <2>1
<1> HIDE DEF Goal
<1> QED BY <1>1, <1>2 DEF Next, Goal

-----------------------------------------------------------------------------
(* One administrator remains.                                              *)

\* The count under the locks of delete_if_not_last is all that is needed, whoever
\* was authenticated before whichever deletion.
THEOREM OneRemains == Spec => []AdministratorRemains
<1>1. Init => AdministratorRemains
  BY DEF Init, AdminInit, AdministratorRemains
<1>2. TypeInv /\ AdministratorRemains /\ [Next]_vars => AdministratorRemains'
  <2> SUFFICES ASSUME TypeInv, AdministratorRemains, [Next]_vars PROVE AdministratorRemains'
    OBVIOUS
  <2>1. ASSUME UNCHANGED adminVars PROVE AdministratorRemains'
    BY <2>1 DEF AdministratorRemains, adminVars
  <2>2. ASSUME NEW h \in Handlers, AdminRequest(h) PROVE AdministratorRemains'
    <3>1. CASE OpensRequest(h) \/ MovesRequest(h)
      <4>1. UNCHANGED adminVars
        BY <3>1 DEF OpensRequest, MovesRequest, StartLogin, ReadSession, StartProgram, RequestAccount,
                    LookUp, ClearFailures, Identify
      <4> QED BY <4>1, <2>1
    <3>2. CASE CreateAdmin(h)
      BY <3>2 DEF CreateAdmin, AdministratorRemains, adminVars
    <3>3. ASSUME NEW a \in Admins, DeleteAdmin(h, a) PROVE AdministratorRemains'
      BY <3>3 DEF DeleteAdmin, AdministratorRemains
    <3>4. CASE RecordFailure(h) \/ OpenSession(h) \/ GiveUp(h)
      BY <3>4, <2>1 DEF RecordFailure, OpenSession, GiveUp
    <3> QED BY <2>2, <3>1, <3>2, <3>3, <3>4 DEF AdminRequest, EndsRequest
  <2>3. Next /\ (\E g \in Grants : Expire(g)) => UNCHANGED adminVars
    BY DEF Expire
  <2> QED BY <2>1, <2>2, <2>3, StepSplit DEF vars, Expire
<1> QED BY <1>1, <1>2, TypesKept, PTL DEF Spec

-----------------------------------------------------------------------------
(* The quota.                                                              *)

\* Whatever was admitted before, the UPDATE's own conditions keep the maximum.
THEOREM QuotaHeld == Spec => []QuotaKept
<1>1. Init => QuotaKept
  BY RequestsAssumption DEF Init, QuotaKept
<1>2. TypeInv /\ QuotaKept /\ [Next]_vars => QuotaKept'
  <2> SUFFICES ASSUME TypeInv, QuotaKept, [Next]_vars PROVE QuotaKept'
    OBVIOUS
  <2>1. ASSUME UNCHANGED used PROVE QuotaKept'
    BY <2>1 DEF QuotaKept
  <2>2. ASSUME NEW h \in Handlers, ConsumeRequest(h) PROVE QuotaKept'
    BY <2>2, RequestsAssumption DEF ConsumeRequest, QuotaKept, TypeInv, TypeOK
  <2>3. ASSUME NEW h \in Handlers, GrantStep(h) PROVE QuotaKept'
    BY <2>1, <2>2, <2>3, GrantFrame
  <2>4. (UNCHANGED grantVars \/ UNCHANGED vars \/ \E g \in Grants : Expire(g)) => UNCHANGED used
    BY DEF grantVars, vars, Expire
  <2> QED BY <2>1, <2>3, <2>4, StepSplit
<1> QED BY <1>1, <1>2, TypesKept, PTL DEF Spec

-----------------------------------------------------------------------------
(* Nobody comes in late.  What a session names was an account or is a       *)
(* grant; that an account which is gone does not come back, and a grant     *)
(* that is over stays over, carries the ghost of the request's beginning    *)
(* to the check.                                                            *)

Entered(r) ==
  /\ r.pc \in {"clearing", "opening", "identifying"} => r.subject \in created
  /\ r.pc = "identifying" /\ r.late => r.subject \notin admins
  /\ r.pc = "presenting" /\ r.late => r.subject \in over
  /\ r.pc \in {"authorised", "welcome", "answering"} => ~r.late

EntryInv ==
  /\ sessions \cap Admins \subseteq created
  /\ \A h \in Handlers : Entered(handler[h])

Waiting == PCs \ {"clearing", "opening", "identifying", "presenting", "authorised", "welcome",
                  "answering"}

LEMMA EntrySteady ==
  ASSUME created \subseteq created', over \subseteq over', admins' \cap created \subseteq admins,
         NEW g \in Handlers, Entered(handler[g]), handler'[g] = handler[g]
  PROVE  Entered(handler[g])'
BY DEF Entered

LEMMA EntryWaiting ==
  ASSUME NEW h \in Handlers, handler'[h].pc \in Waiting
  PROVE  Entered(handler[h])'
BY DEF Entered, Waiting

LEMMA EntryAdmin ==
  ASSUME TypeInv, EntryInv, NEW h \in Handlers, AdminRequest(h), UNCHANGED grantVars
  PROVE  EntryInv'
<1> DEFINE Here == sessions' \cap Admins \subseteq created' /\ Entered(handler[h])'
<1>a. \A g \in Handlers \ {h} : Entered(handler[g])'
  BY AdminFrame, EntrySteady DEF EntryInv, grantVars
<1> SUFFICES Here
  BY <1>a DEF EntryInv
<1>0. /\ handler \in [Handlers -> TypedRequests] /\ handler[h] \in Requests
      /\ sessions \cap Admins \subseteq created /\ Entered(handler[h])
      /\ admins \subseteq created /\ created \subseteq created' /\ "idle" \in Waiting
      /\ {"looking_up", "creating", "rejecting"} \subseteq Waiting
  BY AdminFrame, PCNames DEF TypeInv, TypeOK, EntryInv, TypedRequests, Waiting
<1>1. ASSUME NEW a \in Admins, StartLogin(h, a) \/ StartProgram(h, a) PROVE Here
  <2>1. handler'[h].pc \in Waiting /\ sessions' = sessions
    BY <1>0, <1>1 DEF StartLogin, StartProgram, Begin
  <2> QED BY <1>0, <2>1, EntryWaiting
<1>2. ASSUME NEW a \in Admins, RequestAccount(h, a) PROVE Here
  <2>1. handler'[h].pc \in Waiting /\ sessions' = sessions
    BY <1>0, <1>2 DEF RequestAccount, IdleHandler
  <2> QED BY <1>0, <2>1, EntryWaiting
<1>3. ASSUME NEW a \in Admins, ReadSession(h, a) PROVE Here
  <2>1. /\ handler'[h].pc = "identifying" /\ handler'[h].subject = a
        /\ handler'[h].late = (a \notin admins)
        /\ a \in created /\ sessions' = sessions /\ UNCHANGED <<admins, created>>
    BY <1>0, <1>3 DEF ReadSession, Begin, adminVars
  <2>2. Entered(handler[h])'
    BY <2>1 DEF Entered
  <2> QED BY <1>0, <2>1, <2>2
<1>4. CASE LookUp(h)
  <2>1. /\ handler'[h].pc = "clearing" => handler'[h].subject \in admins
        /\ handler'[h].pc \in {"clearing", "rejecting"}
        /\ sessions' = sessions /\ UNCHANGED <<admins, created>>
    BY <1>0, <1>4 DEF LookUp, Goto, adminVars, Requests
  <2>2. Entered(handler[h])'
    BY <1>0, <2>1 DEF Entered
  <2> QED BY <1>0, <2>1, <2>2
<1>5. CASE ClearFailures(h)
  <2>1. /\ handler[h].pc = "clearing" /\ handler'[h] = [handler[h] EXCEPT !.pc = "opening"]
        /\ sessions' = sessions /\ UNCHANGED <<admins, created>>
    BY <1>0, <1>5 DEF ClearFailures, At, Goto, adminVars
  <2>2. handler'[h].pc = "opening" /\ handler'[h].subject = handler[h].subject
    BY <1>0, <2>1 DEF Requests
  <2>3. Entered(handler[h])'
    BY <1>0, <2>1, <2>2 DEF Entered
  <2> QED BY <1>0, <2>1, <2>3
<1>6. CASE OpenSession(h)
  <2>1. /\ handler'[h].pc \in Waiting /\ sessions' = sessions \cup {handler[h].subject}
        /\ handler[h].subject \in created
    BY <1>0, <1>6 DEF OpenSession, At, Return, IdleHandler, Entered
  <2> QED BY <1>0, <2>1, EntryWaiting
<1>7. CASE Identify(h)
  <2>1. sessions' = sessions
    BY <1>7 DEF Identify
  <2>2. CASE handler'[h].pc \in Waiting
    BY <1>0, <2>1, <2>2, EntryWaiting
  <2>3. CASE handler'[h].pc \notin Waiting
    <3>1. /\ handler[h].pc = "identifying" /\ handler[h].subject \in admins
          /\ handler'[h] = [handler[h] EXCEPT !.pc = "authorised"]
      BY <1>0, <1>7, <2>3 DEF Identify, At, Goto, Return, IdleHandler
    <3>2. handler'[h].pc = "authorised" /\ handler'[h].late = handler[h].late
      BY <1>0, <3>1 DEF Requests
    <3>3. handler[h].late \in BOOLEAN
      BY <1>0 DEF Requests
    <3>4. Entered(handler[h])'
      BY <1>0, <3>1, <3>2, <3>3 DEF Entered
    <3> QED BY <1>0, <2>1, <3>4
  <2> QED BY <2>2, <2>3
<1>8. CASE RecordFailure(h) \/ CreateAdmin(h) \/ GiveUp(h) \/ \E a \in Admins : DeleteAdmin(h, a)
  <2>1. handler'[h].pc \in Waiting /\ sessions' = sessions
    BY <1>0, <1>8 DEF RecordFailure, CreateAdmin, GiveUp, DeleteAdmin, Return, IdleHandler
  <2> QED BY <1>0, <2>1, EntryWaiting
<1> HIDE DEF Here
<1> QED
  BY <1>1, <1>2, <1>3, <1>4, <1>5, <1>6, <1>7, <1>8
  DEF AdminRequest, OpensRequest, MovesRequest, EndsRequest

LEMMA EntryGrant ==
  ASSUME TypeInv, EntryInv, NEW h \in Handlers, GrantStep(h), UNCHANGED adminVars
  PROVE  EntryInv'
<1> DEFINE Here == sessions' \cap Admins \subseteq created' /\ Entered(handler[h])'
<1>a. \A g \in Handlers \ {h} : Entered(handler[g])'
  BY GrantFrame, EntrySteady DEF EntryInv, adminVars
<1> SUFFICES Here
  BY <1>a DEF EntryInv
<1>0. /\ handler \in [Handlers -> TypedRequests] /\ handler[h] \in Requests
      /\ sessions \cap Admins \subseteq created /\ Entered(handler[h])
      /\ UNCHANGED <<admins, created>> /\ over \subseteq over' /\ "idle" \in Waiting
      /\ {"checking", "deleting", "granting", "enabling", "disabling", "exchanging", "visiting",
          "admitting", "admitted", "rejecting"} \subseteq Waiting
  BY GrantFrame, PCNames DEF TypeInv, EntryInv, TypedRequests, Waiting, adminVars
<1>1. CASE ProjectWrites(h)
  <2>1. handler'[h].pc \in Waiting /\ sessions' = sessions
    BY <1>0, <1>1 DEF ProjectWrites, CreateProject, CreateProjectDocument, DeleteLastDocument,
                      DeleteProject, Return, IdleHandler
  <2> QED BY <1>0, <2>1, EntryWaiting
<1>2. CASE GrantWrites(h)
  <2>1. handler'[h].pc \in Waiting /\ sessions' = sessions
    BY <1>0, <1>2 DEF GrantWrites, SaveDemo, CreateGrant, Revoke, Return, IdleHandler
  <2> QED BY <1>0, <2>1, EntryWaiting
<1>3. CASE Requested(h)
  <2>1. handler'[h].pc \in Waiting /\ sessions' = sessions
    BY <1>0, <1>3 DEF Requested, LockProject, RequestGrant, ValidateDemo, Proceed, IdleHandler
  <2> QED BY <1>0, <2>1, EntryWaiting
<1>4. ASSUME NEW g \in Grants, PresentSession(h, g) PROVE Here
  <2>1. /\ handler'[h].pc = "presenting" /\ handler'[h].subject = g
        /\ handler'[h].late = (g \in over) /\ sessions' = sessions
    BY <1>0, <1>4 DEF PresentSession, Begin
  <2>2. Entered(handler[h])'
    BY <1>0, <2>1 DEF Entered
  <2> QED BY <1>0, <2>1, <2>2
<1>5. CASE StartDemo(h) \/ \E k \in Hosts : StartExchange(h, k)
  <2>1. handler'[h].pc \in Waiting /\ sessions' = sessions
    BY <1>0, <1>5 DEF StartDemo, StartExchange, Begin
  <2> QED BY <1>0, <2>1, EntryWaiting
<1>6. CASE CheckProject(h) \/ LoadDemoGrant(h) \/ FindGrant(h)
  <2>1. sessions' = sessions
    BY <1>6 DEF CheckProject, LoadDemoGrant, FindGrant
  <2>2. handler'[h].pc \in Waiting
    <3>1. \/ handler' = [handler EXCEPT ![h] = IdleHandler]
          \/ \E pc \in {"deleting", "admitting", "rejecting"} :
                \/ handler' = [handler EXCEPT ![h].pc = pc]
                \/ \E g \in Grants : handler' = [handler EXCEPT ![h].pc = pc, ![h].subject = g]
      BY <1>6 DEF CheckProject, LoadDemoGrant, FindGrant, Return, Goto
    <3> QED BY <1>0, <3>1 DEF Requests, IdleHandler
  <2> QED BY <1>0, <2>1, <2>2, EntryWaiting
<1>7. CASE Admit(h)
  <2>1. handler[h].subject \in Grants
    BY <1>0, <1>7 DEF Admit, At, TypedRequests, Typed
  <2>2. sessions' \cap Admins \subseteq created'
    BY <1>0, <1>7, <2>1, GrantsAssumption DEF Admit
  <2>3. handler'[h].pc \in Waiting
    BY <1>0, <1>7 DEF Admit, Goto, Return, IdleHandler, Requests
  <2> QED BY <2>2, <2>3, EntryWaiting
<1>8. CASE ClearAfterExchange(h)
  <2>1. handler'[h].pc \in Waiting /\ sessions' = sessions
    BY <1>0, <1>8 DEF ClearAfterExchange, Return, IdleHandler
  <2> QED BY <1>0, <2>1, EntryWaiting
<1>9. CASE LoadGrant(h)
  <2>1. sessions' = sessions /\ over' = over
    BY <1>9 DEF LoadGrant, grantVars
  <2>2. CASE handler'[h].pc \in Waiting
    BY <1>0, <2>1, <2>2, EntryWaiting
  <2>3. CASE handler'[h].pc \notin Waiting
    <3>1. /\ handler[h].pc = "presenting" /\ handler[h].subject \notin over
          /\ handler' = [handler EXCEPT ![h].pc = "welcome"]
      BY <1>0, <1>9, <2>3 DEF LoadGrant, At, Goto, Return, IdleHandler, Authorized
    <3>2. handler'[h].pc = "welcome" /\ handler'[h].late = handler[h].late /\ handler[h].late \in BOOLEAN
      BY <1>0, <3>1 DEF Requests
    <3>3. Entered(handler[h])'
      BY <1>0, <3>1, <3>2 DEF Entered
    <3> QED BY <1>0, <2>1, <3>3
  <2> QED BY <2>2, <2>3
<1>10. CASE ConsumeRequest(h)
  <2>1. sessions' = sessions
    BY <1>10 DEF ConsumeRequest
  <2>2. CASE handler'[h].pc \in Waiting
    BY <1>0, <2>1, <2>2, EntryWaiting
  <2>3. CASE handler'[h].pc \notin Waiting
    <3>1. handler[h].pc = "welcome" /\ handler' = [handler EXCEPT ![h].pc = "answering"]
      BY <1>0, <1>10, <2>3 DEF ConsumeRequest, At, Goto, Return, IdleHandler
    <3>2. handler'[h].pc = "answering" /\ handler'[h].late = handler[h].late /\ handler[h].late \in BOOLEAN
      BY <1>0, <3>1 DEF Requests
    <3>3. Entered(handler[h])'
      BY <1>0, <3>1, <3>2 DEF Entered
    <3> QED BY <1>0, <2>1, <3>3
  <2> QED BY <2>2, <2>3
<1> HIDE DEF Here
<1> QED
  BY <1>1, <1>2, <1>3, <1>4, <1>5, <1>6, <1>7, <1>8, <1>9, <1>10, GrantSplit DEF Arrives, Goes

\* A request that begins with a session whose account or grant is gone is turned
\* away, whenever and by whom that session was opened.
THEOREM NobodyLate == Spec => []NobodyComesInLate
<1>1. Init => EntryInv
  BY DEF Init, AdminInit, EntryInv, Entered, IdleHandler
<1>2. TypeInv /\ EntryInv /\ [Next]_vars => EntryInv'
  <2> SUFFICES ASSUME TypeInv, EntryInv, [Next]_vars PROVE EntryInv'
    OBVIOUS
  <2>1. CASE Elapses /\ UNCHANGED <<adminVars, handler, grantVars>>
    BY <2>1 DEF Elapses, SessionEnds, WindowEnds, EntryInv, Entered, adminVars, grantVars
  <2>2. ASSUME NEW g \in Grants, Expire(g) PROVE EntryInv'
    BY <2>2 DEF Expire, EntryInv, Entered, adminVars
  <2>3. CASE UNCHANGED vars
    BY <2>3 DEF vars, EntryInv, Entered, adminVars, grantVars
  <2> QED BY <2>1, <2>2, <2>3, EntryAdmin, EntryGrant, StepSplit
<1>3. EntryInv => NobodyComesInLate
  BY DEF EntryInv, Entered, NobodyComesInLate
<1> QED BY <1>1, <1>2, <1>3, TypesKept, PTL DEF Spec

-----------------------------------------------------------------------------
(* Projects that grants and documents name.  A project whose deletion has   *)
(* been checked is named by no grant, because its row stays locked.         *)

ProjectsInv ==
  /\ \A p \in documented : project[p] = "present"
  /\ \A h \in Handlers : handler[h].pc = "deleting" => \A g \in Grants : handler[h].about \notin links[g]

LinksKept ==
  /\ \A g \in Grants : links[g] # {} => links'[g] = links[g]
  /\ \A p \in documented : project'[p] = "present"

\* What a request of the administration that arrives does to its handler.
LEMMA RequestedFacts ==
  ASSUME handler \in [Handlers -> TypedRequests], NEW h \in Handlers, Requested(h)
  PROVE  handler'[h].pc \in {"checking", "granting", "enabling", "disabling"}
<1>1. ASSUME NEW pc, NEW about, NEW scope, Proceed(h, pc, about, scope)
      PROVE  handler'[h].pc = pc
  BY <1>1 DEF Proceed, IdleHandler
<1>2. ASSUME NEW p \in Projects, LockProject(h, p)
      PROVE  handler'[h].pc = "checking"
  BY <1>1, <1>2 DEF LockProject
<1>3. ASSUME NEW P \in SUBSET Projects, RequestGrant(h, P)
      PROVE  handler'[h].pc = "granting"
  BY <1>1, <1>3 DEF RequestGrant
<1>4. ASSUME NEW g \in Grants, NEW enabled \in BOOLEAN, ValidateDemo(h, g, enabled)
      PROVE  handler'[h].pc \in {"enabling", "disabling"}
  BY <1>1, <1>4 DEF ValidateDemo
<1> QED BY <1>2, <1>3, <1>4 DEF Requested

\* Whatever becomes of the other requests: nobody's step but CheckProject leads to
\* the deletion.
LEMMA DeletionsChecked ==
  ASSUME TypeInv, [Next]_vars, NEW h \in Handlers, handler'[h].pc = "deleting",
         handler'[h] # handler[h]
  PROVE  CheckProject(h)
<1>0. /\ handler \in [Handlers -> TypedRequests]
      /\ \A g \in Handlers : handler[g] \in Requests
  BY DEF TypeInv, TypedRequests
<1>1. ASSUME NEW g \in Handlers, AdminRequest(g) PROVE FALSE
  <2>1. g = h
    BY <1>1, AdminFrame
  <2>2. ASSUME NEW a \in Admins, StartLogin(g, a) \/ ReadSession(g, a) \/ StartProgram(g, a) PROVE FALSE
    BY <1>0, <2>1, <2>2 DEF StartLogin, ReadSession, StartProgram, Begin
  <2>5. ASSUME NEW a \in Admins, RequestAccount(g, a) PROVE FALSE
    BY <1>0, <2>1, <2>5 DEF RequestAccount, IdleHandler
  <2>3. CASE MovesRequest(g)
    BY <1>0, <2>1, <2>3
    DEF MovesRequest, LookUp, ClearFailures, Identify, Return, Goto, IdleHandler, Requests
  <2>4. CASE EndsRequest(g)
    BY <1>0, <2>1, <2>4
    DEF EndsRequest, RecordFailure, OpenSession, CreateAdmin, GiveUp, DeleteAdmin, Return, IdleHandler
  <2> QED BY <1>1, <2>2, <2>3, <2>4, <2>5 DEF AdminRequest, OpensRequest
<1>2. ASSUME NEW g \in Handlers, GrantStep(g), ~CheckProject(h) PROVE FALSE
  <2>1. g = h
    BY <1>2, GrantFrame
  <2>2. CASE ProjectWrites(g)
    BY <1>0, <2>1, <2>2 DEF ProjectWrites, CreateProject, CreateProjectDocument, DeleteLastDocument,
                            DeleteProject, Return, IdleHandler
  <2>3. CASE GrantWrites(g)
    BY <1>0, <2>1, <2>3 DEF GrantWrites, SaveDemo, CreateGrant, Revoke, Return, IdleHandler
  <2>4. CASE Requested(g)
    BY <1>0, <2>1, <2>4, RequestedFacts
  <2>5. CASE Arrives(g)
    BY <1>0, <2>1, <2>5 DEF Arrives, PresentSession, StartExchange, StartDemo, Begin
  <2>6. CASE LoadDemoGrant(g) \/ FindGrant(g)
    <3>1. \/ handler' = [handler EXCEPT ![g] = IdleHandler]
          \/ \E pc \in {"admitting", "rejecting"} :
                \/ handler' = [handler EXCEPT ![g].pc = pc]
                \/ \E r \in Grants : handler' = [handler EXCEPT ![g].pc = pc, ![g].subject = r]
      BY <2>6 DEF LoadDemoGrant, FindGrant, Return, Goto
    <3> QED BY <1>0, <2>1, <3>1 DEF Requests, IdleHandler
  <2>7. CASE Admit(g) \/ ClearAfterExchange(g) \/ LoadGrant(g) \/ ConsumeRequest(g)
    BY <1>0, <2>1, <2>7
    DEF Admit, ClearAfterExchange, LoadGrant, ConsumeRequest, Return, Goto, IdleHandler, Requests
  <2> QED BY <1>2, <2>1, <2>2, <2>3, <2>4, <2>5, <2>6, <2>7, GrantSplit DEF Goes
<1>3. UNCHANGED handler => FALSE
  OBVIOUS
<1> QED BY <1>1, <1>2, <1>3, StepSplit DEF vars, Expire

LEMMA ProjectsStep == TypeInv /\ ProjectsInv /\ [Next]_vars => ProjectsInv' /\ LinksKept
<1> SUFFICES ASSUME TypeInv, ProjectsInv, [Next]_vars PROVE ProjectsInv' /\ LinksKept
  OBVIOUS
<1>0. /\ documented \subseteq Projects /\ project \in [Projects -> ProjectStates]
      /\ links \in [Grants -> SUBSET Projects] /\ handler \in [Handlers -> TypedRequests]
  BY DEF TypeInv, TypeOK
<1>1. ASSUME UNCHANGED <<project, documented, links>> PROVE ProjectsInv' /\ LinksKept
  <2>1. ASSUME NEW h \in Handlers, handler'[h].pc = "deleting", NEW g \in Grants
        PROVE  handler'[h].about \notin links'[g]
    <3>1. CASE handler'[h] = handler[h]
      BY <1>1, <2>1, <3>1 DEF ProjectsInv
    <3>2. CASE handler'[h] # handler[h]
      <4>1. CheckProject(h)
        BY <2>1, <3>2, DeletionsChecked
      <4>2. handler'[h].about = handler[h].about /\ handler[h].about \notin links[g]
        BY <1>0, <4>1, <2>1 DEF CheckProject, Return, Goto, IdleHandler, TypedRequests, Requests
      <4> QED BY <1>1, <4>2
    <3> QED BY <3>1, <3>2
  <2> QED BY <1>0, <1>1, <2>1 DEF ProjectsInv, LinksKept
\* A request that ends writes one of the tables.
<1>2. ASSUME NEW h \in Handlers, handler' = [handler EXCEPT ![h] = IdleHandler],
             \A g \in Grants : \/ links'[g] \subseteq links[g]
                               \/ \A p \in links'[g] : ~Locked(p),
             \A p \in documented' : project'[p] = "present"
      PROVE  ProjectsInv'
  <2>1. ASSUME NEW k \in Handlers, handler'[k].pc = "deleting", NEW g \in Grants
        PROVE  handler'[k].about \notin links'[g]
    <3>1. handler'[k] = handler[k]
      BY <1>0, <1>2, <2>1 DEF IdleHandler
    <3>2. handler[k].about \notin links[g] /\ Locked(handler[k].about)
      BY <2>1, <3>1 DEF ProjectsInv, Locked
    <3> QED BY <1>2, <3>1, <3>2
  <2> QED BY <1>2, <2>1 DEF ProjectsInv
<1>3. ASSUME NEW h \in Handlers, NEW p \in Projects,
             CreateProject(h, p) \/ CreateProjectDocument(h, p) \/ DeleteLastDocument(h, p)
      PROVE  ProjectsInv' /\ LinksKept
  <2>1. /\ handler' = [handler EXCEPT ![h] = IdleHandler] /\ links' = links
        /\ \A q \in documented' : project'[q] = "present"
        /\ \A q \in documented : project'[q] = "present"
    BY <1>0, <1>3 DEF CreateProject, CreateProjectDocument, DeleteLastDocument, Return, ProjectsInv
  <2> QED BY <1>2, <2>1 DEF LinksKept
<1>4. ASSUME NEW h \in Handlers, DeleteProject(h) PROVE ProjectsInv' /\ LinksKept
  <2>1. /\ handler' = [handler EXCEPT ![h] = IdleHandler] /\ documented' = documented
        /\ \A g \in Grants : handler[h].about \notin links[g]
    BY <1>4 DEF DeleteProject, Return, At, ProjectsInv
  <2>4. \A g \in Grants : links[g] \ {handler[h].about} = links[g]
    BY <2>1
  <2>2. \A g \in Grants : links'[g] = links[g]
    BY <1>0, <1>4, <2>4 DEF DeleteProject
  <2>3. \A q \in documented : project'[q] = "present"
    BY <1>0, <1>4 DEF DeleteProject, ProjectsInv
  <2> QED BY <1>2, <2>1, <2>2, <2>3 DEF LinksKept
<1>5. ASSUME NEW h \in Handlers, NEW g \in Grants, CreateGrant(h, g) PROVE ProjectsInv' /\ LinksKept
  <2>1. /\ handler' = [handler EXCEPT ![h] = IdleHandler] /\ UNCHANGED <<project, documented>>
        /\ links[g] = {} /\ \A p \in handler[h].scope : ~Locked(p)
        /\ links' = links \/ links' = [links EXCEPT ![g] = handler[h].scope]
    BY <1>5 DEF CreateGrant, Return
  <2>2. \A r \in Grants : /\ links[r] # {} => links'[r] = links[r]
                          /\ links'[r] \subseteq links[r] \/ \A p \in links'[r] : ~Locked(p)
    BY <1>0, <2>1
  <2>3. \A q \in documented : project'[q] = "present"
    BY <2>1 DEF ProjectsInv
  <2> QED BY <1>2, <2>1, <2>2, <2>3 DEF LinksKept
<1>6. ASSUME NEW h \in Handlers, GrantStep(h) PROVE ProjectsInv' /\ LinksKept
  <2>1. ASSUME NEW g \in Grants, Revoke(h, g) PROVE UNCHANGED <<project, documented, links>>
    BY <2>1 DEF Revoke
  <2>2. SaveDemo(h) => UNCHANGED <<project, documented, links>>
    BY DEF SaveDemo
  <2> QED BY <1>1, <1>3, <1>4, <1>5, <1>6, <2>1, <2>2, GrantFrame DEF ProjectWrites, GrantWrites
<1>7. (UNCHANGED grantVars \/ UNCHANGED vars \/ \E g \in Grants : Expire(g))
      => UNCHANGED <<project, documented, links>>
  BY DEF grantVars, vars, Expire
<1> QED BY <1>1, <1>6, <1>7, StepSplit

\* A grant keeps its projects and a document its project, through every race of
\* deletions with creations.
THEOREM LinksHeld == Spec => LinksStay
<1>1. Init => ProjectsInv
  BY DEF Init, AdminInit, ProjectsInv, IdleHandler
<1>2. TypeInv /\ ProjectsInv /\ [Next]_vars => ProjectsInv' /\ [LinksKept]_vars
  BY ProjectsStep
<1>3. Spec => []ProjectsInv
  BY <1>1, <1>2, TypesKept, PTL DEF Spec
<1> QED BY <1>2, <1>3, TypesKept, PTL DEF Spec, LinksStay, LinksKept

-----------------------------------------------------------------------------
(* Failed attempts.  A counter and the attempts that passed its check and   *)
(* may still fail stay together below the maximum and the number of         *)
(* requests at once.                                                        *)

Keys == Admins \cup Hosts
PendingPCs == {"looking_up", "rejecting", "exchanging", "admitting"}
Pending(k) == {h \in Handlers : handler[h].pc \in PendingPCs /\ handler[h].about = k}

FailuresInv ==
  /\ \A h \in Handlers : handler[h].pc = "visiting" => handler[h].about = None
  /\ \A k \in Keys : failures[k] + Cardinality(Pending(k)) < MaxFailures + Cardinality(Handlers)

\* Only a request that begins joins those that may fail, and a visitor has no key.
LEMMA AttemptsBegin ==
  ASSUME TypeInv, FailuresInv, [Next]_vars, NEW h \in Handlers
  PROVE  /\ handler'[h].pc = "visiting" => handler'[h].about = None
         /\ \A k \in Keys : handler'[h].pc \in PendingPCs /\ handler'[h].about = k =>
               \/ h \in Pending(k)
               \/ k \in Admins /\ StartLogin(h, k)
               \/ k \in Hosts /\ StartExchange(h, k)
<1> DEFINE Goal == /\ handler'[h].pc = "visiting" => handler'[h].about = None
                   /\ \A k \in Keys : handler'[h].pc \in PendingPCs /\ handler'[h].about = k =>
                         \/ h \in Pending(k)
                         \/ k \in Admins /\ StartLogin(h, k)
                         \/ k \in Hosts /\ StartExchange(h, k)
<1> SUFFICES Goal
  OBVIOUS
<1>0. /\ handler \in [Handlers -> TypedRequests] /\ handler[h] \in Requests
      /\ handler[h].pc = "visiting" => handler[h].about = None
      /\ None \notin Keys
  BY AdminsAssumption DEF TypeInv, TypedRequests, FailuresInv, Keys
<1>1. ASSUME handler'[h] = handler[h] PROVE Goal
  BY <1>0, <1>1 DEF Pending
<1>2. ASSUME handler'[h].pc \notin PendingPCs \cup {"visiting"} PROVE Goal
  BY <1>2
<1>3. ASSUME handler[h].pc \in PendingPCs, handler'[h].about = handler[h].about,
             handler'[h].pc # "visiting"
      PROVE  Goal
  BY <1>3 DEF Pending
<1>4. ASSUME AdminRequest(h) PROVE Goal
  <2>1. ASSUME NEW a \in Admins, StartLogin(h, a) PROVE Goal
    <3>1. handler'[h].pc = "looking_up" /\ handler'[h].about = a
      BY <1>0, <2>1 DEF StartLogin, Begin
    <3> QED BY <2>1, <3>1
  <2>2. ASSUME NEW a \in Admins, ReadSession(h, a) \/ StartProgram(h, a) PROVE Goal
    <3>1. handler'[h].pc \in {"identifying", "creating"}
      BY <1>0, <2>2 DEF ReadSession, StartProgram, Begin
    <3> QED BY <3>1, <1>2 DEF PendingPCs
  <2>3. ASSUME NEW a \in Admins, RequestAccount(h, a) PROVE Goal
    <3>1. handler'[h].pc = "creating"
      BY <1>0, <2>3 DEF RequestAccount, IdleHandler
    <3> QED BY <3>1, <1>2 DEF PendingPCs
  <2>4. CASE LookUp(h)
    <3>1. /\ handler[h].pc = "looking_up" /\ handler'[h].about = handler[h].about
          /\ handler'[h].pc \in {"clearing", "rejecting"}
      BY <1>0, <2>4 DEF LookUp, At, Goto, Requests
    <3> QED BY <3>1, <1>3 DEF PendingPCs
  <2>5. CASE ClearFailures(h) \/ Identify(h)
    <3>1. handler'[h].pc \in {"opening", "authorised", "idle"}
      BY <1>0, <2>5 DEF ClearFailures, Identify, Return, Goto, IdleHandler, Requests
    <3> QED BY <3>1, <1>2 DEF PendingPCs
  <2>6. CASE EndsRequest(h)
    <3>1. handler'[h].pc = "idle"
      BY <1>0, <2>6
      DEF EndsRequest, RecordFailure, OpenSession, CreateAdmin, GiveUp, DeleteAdmin, Return, IdleHandler
    <3> QED BY <3>1, <1>2 DEF PendingPCs
  <2> HIDE DEF Goal
  <2> QED BY <1>4, <2>1, <2>2, <2>3, <2>4, <2>5, <2>6 DEF AdminRequest, OpensRequest, MovesRequest
<1>5. ASSUME GrantStep(h) PROVE Goal
  <2>1. CASE ProjectWrites(h) \/ GrantWrites(h)
    <3>1. handler'[h].pc = "idle"
      BY <1>0, <2>1 DEF ProjectWrites, CreateProject, CreateProjectDocument, DeleteLastDocument,
                        DeleteProject, GrantWrites, SaveDemo, CreateGrant, Revoke, Return, IdleHandler
    <3> QED BY <3>1, <1>2 DEF PendingPCs
  <2>2. CASE Requested(h)
    <3>1. handler'[h].pc \in {"checking", "granting", "enabling", "disabling"}
      BY <1>0, <2>2, RequestedFacts
    <3> QED BY <3>1, <1>2 DEF PendingPCs
  <2>3. ASSUME NEW g \in Grants, PresentSession(h, g) PROVE Goal
    <3>1. handler'[h].pc = "presenting"
      BY <1>0, <2>3 DEF PresentSession, Begin
    <3> QED BY <3>1, <1>2 DEF PendingPCs
  <2>4. ASSUME NEW k \in Hosts, StartExchange(h, k) PROVE Goal
    <3>1. handler'[h].pc = "exchanging" /\ handler'[h].about = k
      BY <1>0, <2>4 DEF StartExchange, Begin
    <3> QED BY <2>4, <3>1
  <2>5. CASE StartDemo(h)
    <3>1. handler'[h].pc = "visiting" /\ handler'[h].about = None
      BY <1>0, <2>5 DEF StartDemo, Begin
    <3> QED BY <1>0, <3>1
  <2>6. CASE LoadDemoGrant(h)
    <3>1. handler'[h].about = None \/ handler'[h].pc = "idle"
      BY <1>0, <2>6 DEF LoadDemoGrant, At, Goto, Return, IdleHandler, Requests
    <3>2. handler'[h].pc # "visiting"
      BY <1>0, <2>6 DEF LoadDemoGrant, At, Goto, Return, IdleHandler, Requests
    <3> QED BY <1>0, <3>1, <3>2, <1>2 DEF PendingPCs
  <2>7. CASE FindGrant(h)
    <3>1. /\ handler[h].pc = "exchanging" /\ handler'[h].about = handler[h].about
          /\ handler'[h].pc \in {"admitting", "rejecting"}
      BY <1>0, <2>7 DEF FindGrant, At, Goto, Requests
    <3> QED BY <3>1, <1>3 DEF PendingPCs
  <2>8. CASE Admit(h)
    <3>1. /\ handler[h].pc = "admitting"
          /\ \/ handler'[h].about = handler[h].about /\ handler'[h].pc \in {"admitted", "rejecting"}
             \/ handler'[h].pc = "idle"
      BY <1>0, <2>8 DEF Admit, At, Goto, Return, IdleHandler, Requests
    <3> QED BY <3>1, <1>2, <1>3 DEF PendingPCs
  <2>9. CASE CheckProject(h) \/ ClearAfterExchange(h) \/ LoadGrant(h) \/ ConsumeRequest(h)
    <3>1. handler'[h].pc \in {"deleting", "welcome", "answering", "idle"}
      BY <1>0, <2>9 DEF CheckProject, ClearAfterExchange, LoadGrant, ConsumeRequest, Return, Goto,
                        IdleHandler, Requests
    <3> QED BY <3>1, <1>2 DEF PendingPCs
  <2> HIDE DEF Goal
  <2> QED BY <1>5, <2>1, <2>2, <2>3, <2>4, <2>5, <2>6, <2>7, <2>8, <2>9, GrantSplit DEF Arrives, Goes
<1>6. ASSUME NEW g \in Handlers, g # h, AdminRequest(g) \/ GrantStep(g) PROVE Goal
  BY <1>1, <1>6, AdminFrame, GrantFrame
<1>7. ASSUME UNCHANGED handler PROVE Goal
  BY <1>1, <1>7
<1> HIDE DEF Goal
<1> QED BY <1>4, <1>5, <1>6, <1>7, StepSplit DEF vars, Expire

\* A counter grows only by an attempt that was pending and ends.
LEMMA CounterGrows ==
  ASSUME TypeInv, [Next]_vars, NEW k \in Keys
  PROVE  \/ failures'[k] <= failures[k]
         \/ \E h \in Pending(k) : /\ failures'[k] = failures[k] + 1
                                  /\ handler' = [handler EXCEPT ![h] = IdleHandler]
<1> DEFINE Goal == \/ failures'[k] <= failures[k]
                   \/ \E h \in Pending(k) : /\ failures'[k] = failures[k] + 1
                                            /\ handler' = [handler EXCEPT ![h] = IdleHandler]
<1> SUFFICES Goal
  OBVIOUS
<1>0. /\ failures \in [Keys -> Nat] /\ failures[k] \in Nat
      /\ handler \in [Handlers -> TypedRequests]
  BY DEF TypeInv, TypeOK, Keys
<1>1. ASSUME UNCHANGED failures PROVE Goal
  BY <1>0, <1>1
<1>2. ASSUME NEW h \in Handlers, RecordFailure(h) PROVE Goal
  <2>1. /\ handler[h].pc = "rejecting"
        /\ failures' = [failures EXCEPT ![handler[h].about] = @ + 1]
        /\ handler' = [handler EXCEPT ![h] = IdleHandler]
    BY <1>2 DEF RecordFailure, At, Return
  <2>2. CASE handler[h].about = k
    <3>1. h \in Pending(k)
      BY <2>1, <2>2 DEF Pending, PendingPCs
    <3>2. failures'[k] = failures[k] + 1
      BY <1>0, <2>1, <2>2
    <3> QED BY <2>1, <3>1, <3>2
  <2>3. CASE handler[h].about # k
    <3>1. failures'[k] = failures[k]
      BY <1>0, <2>1, <2>3
    <3> QED BY <1>0, <3>1
  <2> QED BY <2>2, <2>3
<1>3. ASSUME NEW h \in Handlers, ClearFailures(h) \/ ClearAfterExchange(h) PROVE Goal
  BY <1>0, <1>3 DEF ClearFailures, ClearAfterExchange
<1>4. ASSUME NEW j \in Keys, WindowEnds(j) PROVE Goal
  BY <1>0, <1>4 DEF WindowEnds
<1>5. ASSUME NEW h \in Handlers, AdminRequest(h) PROVE Goal
  <2>1. CASE OpensRequest(h)
    BY <2>1, <1>1 DEF OpensRequest, StartLogin, ReadSession, StartProgram, RequestAccount
  <2>2. CASE LookUp(h) \/ Identify(h)
    BY <2>2, <1>1 DEF LookUp, Identify
  <2>3. CASE OpenSession(h) \/ CreateAdmin(h) \/ GiveUp(h) \/ \E a \in Admins : DeleteAdmin(h, a)
    BY <2>3, <1>1 DEF OpenSession, CreateAdmin, GiveUp, DeleteAdmin
  <2> HIDE DEF Goal
  <2> QED BY <1>2, <1>3, <1>5, <2>1, <2>2, <2>3 DEF AdminRequest, MovesRequest, EndsRequest
<1>6. ASSUME NEW h \in Handlers, GrantStep(h) PROVE Goal
  <2>1. CASE ProjectWrites(h) \/ GrantWrites(h)
    BY <2>1, <1>1 DEF ProjectWrites, CreateProject, CreateProjectDocument, DeleteLastDocument,
                      DeleteProject, GrantWrites, SaveDemo, CreateGrant, Revoke
  <2>2. CASE Requested(h) \/ Arrives(h)
    BY <2>2, <1>1 DEF Requested, LockProject, RequestGrant, ValidateDemo, Arrives, PresentSession,
                      StartExchange, StartDemo
  <2>3. CASE CheckProject(h) \/ LoadDemoGrant(h) \/ FindGrant(h) \/ Admit(h) \/ LoadGrant(h)
    BY <2>3, <1>1 DEF CheckProject, LoadDemoGrant, FindGrant, Admit, LoadGrant
  <2>4. CASE ConsumeRequest(h)
    BY <2>4, <1>1 DEF ConsumeRequest
  <2> HIDE DEF Goal
  <2> QED BY <1>3, <1>6, <2>1, <2>2, <2>3, <2>4, GrantSplit DEF Goes
<1>7. CASE Elapses
  <2>1. ASSUME NEW s, SessionEnds(s) PROVE Goal
    BY <2>1, <1>1 DEF SessionEnds
  <2> HIDE DEF Goal
  <2> QED BY <1>4, <1>7, <2>1 DEF Elapses, Keys
<1>8. UNCHANGED vars \/ (\E g \in Grants : Expire(g)) => Goal
  BY <1>1 DEF vars, Expire
<1> HIDE DEF Goal
<1> QED BY <1>5, <1>6, <1>7, <1>8, StepSplit

LEMMA FailuresStep == TypeInv /\ TypeInv' /\ FailuresInv /\ [Next]_vars => FailuresInv'
<1> SUFFICES ASSUME TypeInv, TypeInv', FailuresInv, [Next]_vars PROVE FailuresInv'
  OBVIOUS
<1>1. \A h \in Handlers : handler'[h].pc = "visiting" => handler'[h].about = None
  BY AttemptsBegin
<1>2. ASSUME NEW k \in Keys
      PROVE  failures'[k] + Cardinality(Pending(k)') < MaxFailures + Cardinality(Handlers)
  <2>0. /\ IsFiniteSet(Handlers) /\ Cardinality(Handlers) \in Nat
        /\ \A S \in SUBSET Handlers : /\ IsFiniteSet(S) /\ Cardinality(S) \in Nat
                                      /\ Cardinality(S) <= Cardinality(Handlers)
    BY HandlersAssumption, FS_CardinalityType, FS_Subset
  <2>1. /\ failures[k] \in Nat /\ failures'[k] \in Nat /\ MaxFailures \in Nat
        /\ failures[k] + Cardinality(Pending(k)) < MaxFailures + Cardinality(Handlers)
        /\ Pending(k) \in SUBSET Handlers /\ Pending(k)' \in SUBSET Handlers
        /\ handler \in [Handlers -> TypedRequests]
    BY FailuresAssumption DEF TypeInv, TypeOK, Keys, FailuresInv, Pending
  <2>2. CASE \E h \in Handlers : (k \in Admins /\ StartLogin(h, k)) \/ (k \in Hosts /\ StartExchange(h, k))
    <3>1. failures' = failures
      BY <2>2 DEF StartLogin, StartExchange
    <3>2. ~(failures[k] >= MaxFailures)
      BY <2>2 DEF StartLogin, StartExchange, IsLimited
    <3>3. failures'[k] = failures[k] /\ failures[k] < MaxFailures
      BY <2>1, <3>1, <3>2
    <3> QED BY <2>0, <2>1, <3>3
  <2>3. CASE ~\E h \in Handlers : (k \in Admins /\ StartLogin(h, k)) \/ (k \in Hosts /\ StartExchange(h, k))
    <3>1. Pending(k)' \subseteq Pending(k)
      BY <2>3, AttemptsBegin DEF Pending
    <3>2. CASE failures'[k] <= failures[k]
      <4>1. Cardinality(Pending(k)') <= Cardinality(Pending(k))
        BY <3>1, <2>0, <2>1, FS_Subset
      <4> QED BY <2>0, <2>1, <3>2, <4>1
    <3>3. ASSUME NEW h \in Pending(k), failures'[k] = failures[k] + 1,
                 handler' = [handler EXCEPT ![h] = IdleHandler]
          PROVE  failures'[k] + Cardinality(Pending(k)') < MaxFailures + Cardinality(Handlers)
      <4>1. h \notin Pending(k)'
        BY <2>1, <3>3 DEF Pending, PendingPCs, IdleHandler
      <4>2. Pending(k)' \in SUBSET (Pending(k) \ {h})
        BY <3>1, <4>1
      <4>3. /\ IsFiniteSet(Pending(k) \ {h})
            /\ Cardinality(Pending(k) \ {h}) = Cardinality(Pending(k)) - 1
        BY <2>0, <2>1, <3>3, FS_RemoveElement
      <4>4. Cardinality(Pending(k)') <= Cardinality(Pending(k)) - 1
        BY <4>2, <4>3, FS_Subset
      <4> QED BY <2>0, <2>1, <3>3, <4>4
    <3> QED BY <3>2, <3>3, CounterGrows
  <2> QED BY <2>2, <2>3
<1> QED BY <1>1, <1>2 DEF FailuresInv

\* Parallel attempts exceed the maximum by their number at most.
THEOREM FailuresLimited == Spec => []FailuresBounded
<1>1. Init => FailuresInv
  <2> SUFFICES ASSUME Init PROVE FailuresInv
    OBVIOUS
  <2>1. \A k \in Keys : Pending(k) = {} /\ failures[k] = 0
    BY DEF Init, AdminInit, Pending, PendingPCs, IdleHandler, Keys
  <2>2. Cardinality({}) = 0 /\ Cardinality(Handlers) \in Nat
    BY FS_EmptySet, FS_CardinalityType, HandlersAssumption
  <2>3. \A k \in Keys : failures[k] + Cardinality(Pending(k)) < MaxFailures + Cardinality(Handlers)
    BY <2>1, <2>2, FailuresAssumption
  <2> QED BY <2>3 DEF Init, AdminInit, IdleHandler, FailuresInv
<1>2. TypeInv /\ FailuresInv => FailuresBounded
  <2> SUFFICES ASSUME TypeInv, FailuresInv, NEW k \in Keys
               PROVE  failures[k] < MaxFailures + Cardinality(Handlers)
    BY DEF FailuresBounded, Keys
  <2>1. IsFiniteSet(Pending(k)) /\ Cardinality(Pending(k)) \in Nat /\ Cardinality(Handlers) \in Nat
    BY HandlersAssumption, FS_Subset, FS_CardinalityType, Pending(k) \in SUBSET Handlers DEF Pending
  <2> QED BY <2>1, FailuresAssumption DEF FailuresInv, TypeInv, TypeOK, Keys
<1> QED BY <1>1, <1>2, FailuresStep, TypesKept, PTL DEF Spec
=============================================================================
