------------------------- MODULE VersionLifecycle -------------------------
(***************************************************************************)
(* What a reader of published knowledge may rely on: one version of a      *)
(* document at most is published, the one its pointer names; a version is  *)
(* published once and never comes back.  KnowledgeStore (jobs, review and  *)
(* indexing) and Deduplication (rebuilds of published chunks) both         *)
(* implement this specification.                                           *)
(***************************************************************************)
CONSTANTS Documents, Versions, DocumentOf, None

VARIABLES
  current,  \* the version a document's readers see
  life      \* where a version is in its life

vars == <<current, life>>

Lives == {"unborn", "hidden", "ready", "published", "retired", "gone"}

Init ==
  /\ current = [d \in Documents |-> None]
  /\ life \in [Versions -> {"unborn", "ready"}]

Move(v, l) == life' = [life EXCEPT ![v] = l]

Create(v) == life[v] = "unborn" /\ Move(v, "hidden") /\ UNCHANGED current

\* Indexed, and back to review.
Prepare(v) == life[v] = "hidden" /\ Move(v, "ready") /\ UNCHANGED current
Reopen(v) == life[v] = "ready" /\ Move(v, "hidden") /\ UNCHANGED current

Publish(v) ==
  LET d == DocumentOf[v] IN
  /\ life[v] = "ready"
  /\ life' = [w \in Versions |-> IF w = v THEN "published"
                                 ELSE IF w = current[d] THEN "retired" ELSE life[w]]
  /\ current' = [current EXCEPT ![d] = v]

Withdraw(d) ==
  /\ current[d] # None
  /\ Move(current[d], "retired")
  /\ current' = [current EXCEPT ![d] = None]

RemoveVersion(v) ==
  /\ life[v] \in {"hidden", "ready", "retired"}
  /\ current[DocumentOf[v]] # v
  /\ Move(v, "gone")
  /\ UNCHANGED current

RemoveDocument(d) ==
  /\ life' = [v \in Versions |-> IF DocumentOf[v] = d /\ life[v] # "unborn" THEN "gone"
                                 ELSE life[v]]
  /\ current' = [current EXCEPT ![d] = None]

Next ==
  \/ \E v \in Versions : Create(v) \/ Prepare(v) \/ Reopen(v) \/ Publish(v) \/ RemoveVersion(v)
  \/ \E d \in Documents : Withdraw(d) \/ RemoveDocument(d)

Spec == Init /\ [][Next]_vars
=============================================================================
