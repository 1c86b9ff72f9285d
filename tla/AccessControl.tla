--------------------------- MODULE AccessControl ---------------------------
(***************************************************************************)
(* What administrators manage for the recruiters - projects, access grants *)
(* over projects, the public demo's grant - and the requests of the        *)
(* recruiters: the exchange of a grant's token for a session, the demo's   *)
(* session, and questions, which are charged to the grant.                 *)
(***************************************************************************)
EXTENDS Administrators

CONSTANTS
  Grants,        \* ids of access_grants
  Projects,      \* ids of projects
  MaxRequests    \* max_requests of a grant

ASSUME GrantsAssumption == Grants \cap (Admins \cup {None}) = {}
ASSUME RequestsAssumption == MaxRequests \in Nat \ {0}

VARIABLES
  project,    \* projects: not yet created, there, deleted
  documented, \* projects that knowledge_documents belong to
  links,      \* grant_projects: none before the grant is created
  over,       \* grants that were revoked or have expired
  used,       \* access_grants.request_count
  demo        \* public_demo_config

grantVars == <<project, documented, links, over, used, demo>>
vars == <<adminVars, sessions, failures, handler, grantVars>>

ProjectStates == {"unused", "present", "deleted"}
GrantPCs == {"granting", "checking", "deleting", "enabling", "disabling", "exchanging", "visiting",
             "admitting", "admitted", "presenting", "welcome", "answering"}
Subjects == Admins \cup Grants
About == Admins \cup Hosts \cup Projects \cup Grants \cup {None}

TypeOK ==
  /\ admins \subseteq created
  /\ created \subseteq Admins
  /\ sessions \subseteq Subjects
  /\ failures \in [Admins \cup Hosts -> Nat]
  /\ handler \in [Handlers -> [pc : AdminPCs \cup GrantPCs, subject : Subjects \cup {None},
                               about : About, scope : SUBSET Projects, late : BOOLEAN]]
  /\ project \in [Projects -> ProjectStates]
  /\ documented \subseteq Projects
  /\ links \in [Grants -> SUBSET Projects]
  /\ over \subseteq Grants
  /\ used \in [Grants -> Nat]
  /\ demo \in [grant : Grants \cup {None}, enabled : BOOLEAN]

Init ==
  /\ AdminInit
  /\ project = [p \in Projects |-> "unused"]
  /\ documented = {}
  /\ links = [g \in Grants |-> {}]
  /\ over = {}
  /\ used = [g \in Grants |-> 0]
  /\ demo = [grant |-> None, enabled |-> FALSE]

\* The row of a project that a request has locked for its deletion.
Locked(p) == \E h \in Handlers : handler[h].pc \in {"checking", "deleting"} /\ handler[h].about = p

\* _is_currently_authorized, _is_currently_valid
Authorized(g) == g \notin over /\ links[g] # {}
Valid(g) == Authorized(g) /\ used[g] < MaxRequests

\* An administrator's request, authenticated, goes on with this.
Proceed(h, pc, about, scope) ==
  /\ At(h, "authorised")
  /\ handler' = [handler EXCEPT ![h] = [IdleHandler EXCEPT !.pc = pc, !.about = about,
                                                           !.scope = scope]]

-----------------------------------------------------------------------------
(* Projects.                                                               *)

CreateProject(h, p) ==
  /\ At(h, "authorised")
  /\ project[p] = "unused"
  /\ project' = [project EXCEPT ![p] = "present"]
  /\ Return(h)
  /\ UNCHANGED <<adminVars, sessions, failures, documented, links, over, used, demo>>

\* delete: SELECT ... FOR UPDATE of the project ...
LockProject(h, p) ==
  /\ ~Locked(p)
  /\ project[p] = "present"
  /\ Proceed(h, "checking", p, {})
  /\ UNCHANGED <<adminVars, sessions, failures, grantVars>>

\* Mutant of CheckProject: nobody looks for the grants that name the project.
CheckNothing(h) ==
  /\ At(h, "checking")
  /\ Goto(h, "deleting")
  /\ UNCHANGED <<adminVars, sessions, failures, grantVars>>

\* ... then of its references by grants and by documents ...
CheckProject(h) ==
  /\ At(h, "checking")
  /\ LET p == handler[h].about
     IN IF p \in documented \/ \E g \in Grants : p \in links[g]
        THEN Return(h)
        ELSE Goto(h, "deleting")
  /\ UNCHANGED <<adminVars, sessions, failures, grantVars>>

\* ... then its deletion, which a document's foreign key refuses and the grants'
\* links follow (ON DELETE CASCADE).
DeleteProject(h) ==
  /\ At(h, "deleting")
  /\ LET p == handler[h].about
     IN IF p \in documented
        THEN UNCHANGED <<project, links>>
        ELSE /\ project' = [project EXCEPT ![p] = "deleted"]
             /\ links' = [g \in Grants |-> links[g] \ {p}]
  /\ Return(h)
  /\ UNCHANGED <<adminVars, sessions, failures, documented, over, used, demo>>

\* create_document waits for the project's row; it is refused when that is gone.
CreateProjectDocument(h, p) ==
  /\ At(h, "authorised")
  /\ ~Locked(p)
  /\ project[p] = "present"
  /\ documented' = documented \cup {p}
  /\ Return(h)
  /\ UNCHANGED <<adminVars, sessions, failures, project, links, over, used, demo>>

\* delete_document, of a project's last one, takes no lock on the project.
DeleteLastDocument(h, p) ==
  /\ At(h, "authorised")
  /\ p \in documented
  /\ documented' = documented \ {p}
  /\ Return(h)
  /\ UNCHANGED <<adminVars, sessions, failures, project, links, over, used, demo>>

-----------------------------------------------------------------------------
(* Access grants.                                                          *)

\* create: the projects are read ...
RequestGrant(h, P) ==
  /\ P # {}
  /\ \A p \in P : project[p] = "present"
  /\ Proceed(h, "granting", None, P)
  /\ UNCHANGED <<adminVars, sessions, failures, grantVars>>

\* Mutant of CreateGrant: does not wait for a project's row that is locked.
CreateGrantAtOnce(h, g) ==
  /\ At(h, "granting")
  /\ links[g] = {}
  /\ links' = IF \A p \in handler[h].scope : project[p] = "present"
              THEN [links EXCEPT ![g] = handler[h].scope]
              ELSE links
  /\ Return(h)
  /\ UNCHANGED <<adminVars, sessions, failures, project, documented, over, used, demo>>

\* ... and the grant is inserted with its links, whose foreign keys wait for the
\* projects' rows and fail if one is gone.
CreateGrant(h, g) ==
  /\ At(h, "granting")
  /\ links[g] = {} /\ g \notin over
  /\ \A p \in handler[h].scope : ~Locked(p)
  /\ links' = IF \A p \in handler[h].scope : project[p] = "present"
              THEN [links EXCEPT ![g] = handler[h].scope]
              ELSE links
  /\ Return(h)
  /\ UNCHANGED <<adminVars, sessions, failures, project, documented, over, used, demo>>

Revoke(h, g) ==
  /\ At(h, "authorised")
  /\ links[g] # {}
  /\ over' = over \cup {g}
  /\ Return(h)
  /\ UNCHANGED <<adminVars, sessions, failures, project, documented, links, used, demo>>

Expire(g) ==
  /\ links[g] # {} /\ g \notin over
  /\ over' = over \cup {g}
  /\ UNCHANGED <<adminVars, sessions, failures, handler, project, documented, links, used, demo>>

-----------------------------------------------------------------------------
(* The public demo.                                                        *)

\* update_config validates the grant, of an enabled demo also that it is in force ...
ValidateDemo(h, g, enabled) ==
  /\ IF enabled THEN Valid(g) ELSE links[g] # {}
  /\ Proceed(h, IF enabled THEN "enabling" ELSE "disabling", g, {})
  /\ UNCHANGED <<adminVars, sessions, failures, grantVars>>

\* ... and stores it, whatever has become of it.
SaveDemo(h) ==
  /\ handler[h].pc \in {"enabling", "disabling"}
  /\ demo' = [grant |-> handler[h].about, enabled |-> At(h, "enabling")]
  /\ Return(h)
  /\ UNCHANGED <<adminVars, sessions, failures, project, documented, links, over, used>>

StartDemo(h) ==
  /\ demo.enabled
  /\ Begin(h, "visiting", demo.grant, None, FALSE)
  /\ UNCHANGED <<adminVars, sessions, failures, grantVars>>

LoadDemoGrant(h) ==
  /\ At(h, "visiting")
  /\ IF Valid(handler[h].subject) THEN Goto(h, "admitting") ELSE Return(h)
  /\ UNCHANGED <<adminVars, sessions, failures, grantVars>>

-----------------------------------------------------------------------------
(* exchange_access_token.                                                  *)

StartExchange(h, k) ==
  /\ ~IsLimited(k)
  /\ Begin(h, "exchanging", None, k, FALSE)
  /\ UNCHANGED <<adminVars, sessions, failures, grantVars>>

\* Mutant of FindGrant: the record that was found is not kept.
FindGrantForgotten(h) ==
  /\ At(h, "exchanging")
  /\ \/ (\E g \in Grants : Valid(g)) /\ Goto(h, "admitting")
     \/ Goto(h, "rejecting")
  /\ UNCHANGED <<adminVars, sessions, failures, grantVars>>

\* The token names a grant in force, or none.
FindGrant(h) ==
  /\ At(h, "exchanging")
  /\ \/ \E g \in Grants :
          Valid(g) /\ handler' = [handler EXCEPT ![h].pc = "admitting", ![h].subject = g]
     \/ Goto(h, "rejecting")
  /\ UNCHANGED <<adminVars, sessions, failures, grantVars>>

\* _create_session_from_record: refused when the grant lives less than a second
\* more, of which an exchange makes a failed attempt.
Admit(h) ==
  /\ At(h, "admitting")
  /\ LET exchange == handler[h].about # None
     IN \/ /\ sessions' = sessions \cup {handler[h].subject}
           /\ IF exchange THEN Goto(h, "admitted") ELSE Return(h)
        \/ /\ IF exchange THEN Goto(h, "rejecting") ELSE Return(h)
           /\ UNCHANGED sessions
  /\ UNCHANGED <<adminVars, failures, grantVars>>

ClearAfterExchange(h) ==
  /\ At(h, "admitted")
  /\ failures' = [failures EXCEPT ![handler[h].about] = 0]
  /\ Return(h)
  /\ UNCHANGED <<adminVars, sessions, grantVars>>

-----------------------------------------------------------------------------
(* A recruiter's question.                                                 *)

\* get_current_recruiter_for_interview: the session ...
PresentSession(h, g) ==
  /\ g \in sessions
  /\ Begin(h, "presenting", g, None, g \in over)
  /\ UNCHANGED <<adminVars, sessions, failures, grantVars>>

\* Mutant of LoadGrant: the session is believed.
LoadGrantUnchecked(h) ==
  /\ At(h, "presenting")
  /\ Goto(h, "welcome")
  /\ UNCHANGED <<adminVars, sessions, failures, grantVars>>

\* ... and its grant.
LoadGrant(h) ==
  /\ At(h, "presenting")
  /\ IF Authorized(handler[h].subject) THEN Goto(h, "welcome") ELSE Return(h)
  /\ UNCHANGED <<adminVars, sessions, failures, grantVars>>

\* Mutant of ConsumeRequest: charges what was admitted, without the UPDATE's conditions.
ConsumeRequestAnyway(h) ==
  /\ At(h, "welcome")
  /\ used' = [used EXCEPT ![handler[h].subject] = @ + 1]
  /\ Goto(h, "answering")
  /\ UNCHANGED <<adminVars, sessions, failures, project, documented, links, over, demo>>

\* consume_request: one UPDATE that repeats the conditions.
ConsumeRequest(h) ==
  /\ At(h, "welcome")
  /\ LET g == handler[h].subject
     IN IF g \notin over /\ used[g] < MaxRequests
        THEN used' = [used EXCEPT ![g] = @ + 1] /\ Goto(h, "answering")
        ELSE used' = used /\ Return(h)
  /\ UNCHANGED <<adminVars, sessions, failures, project, documented, links, over, demo>>

AdminStep == AdminNext /\ UNCHANGED grantVars

GrantStep(h) ==
  \/ \E p \in Projects : \/ CreateProject(h, p) \/ LockProject(h, p)
                         \/ CreateProjectDocument(h, p) \/ DeleteLastDocument(h, p)
  \/ CheckProject(h) \/ DeleteProject(h)
  \/ \E P \in SUBSET Projects : RequestGrant(h, P)
  \/ \E g \in Grants : CreateGrant(h, g) \/ Revoke(h, g) \/ PresentSession(h, g)
  \/ \E g \in Grants, enabled \in BOOLEAN : ValidateDemo(h, g, enabled)
  \/ SaveDemo(h) \/ StartDemo(h) \/ LoadDemoGrant(h)
  \/ \E k \in Hosts : StartExchange(h, k)
  \/ FindGrant(h) \/ Admit(h) \/ ClearAfterExchange(h)
  \/ LoadGrant(h) \/ ConsumeRequest(h)

Next ==
  \/ AdminStep
  \/ \E h \in Handlers : GrantStep(h)
  \/ \E g \in Grants : Expire(g)

Spec == Init /\ [][Next]_vars

-----------------------------------------------------------------------------
(* Properties.                                                             *)

\* "A deleted administrator's old session fails", and so does the session of a
\* grant that was revoked or has expired, also one that was opened afterwards by a
\* request that had read the account or the grant before: no request that begins
\* when its session's owner is gone is let in.
NobodyComesInLate ==
  \A h \in Handlers : handler[h].pc \in {"authorised", "welcome", "answering"} => ~handler[h].late

\* The questions of all the sessions of a grant together stay within its maximum.
QuotaKept == \A g \in Grants : used[g] <= MaxRequests

\* A grant keeps the projects it was created with, and a document its project:
\* their deletion is refused, also when it began before the grant or the document
\* was there.
LinksStay ==
  [][/\ \A g \in Grants : links[g] # {} => links'[g] = links[g]
     /\ \A p \in documented : project'[p] = "present"]_vars
=============================================================================
