---------------------------- MODULE MCAgentGraph ----------------------------
(* Instances of AgentGraph for TLC.                                         *)
EXTENDS AgentGraph

CONSTANTS f1, j1, j2, k1, t1, t2, f2, p, q

\* A fact of the candidate, a fact of project p, a plan of project q, a principle.
MCFour == {f1, j1, k1, t1}
\* Two chunks per scope.
MCSix == {f1, f2, j1, j2, t1, t2}

MCScopeOf == [c \in Chunks |-> CASE c \in {f1, f2} -> "profile"
                                 [] c \in {t1, t2} -> "technical"
                                 [] OTHER -> "project"]
MCProjectOf == [c \in Chunks |-> CASE c \in {j1, j2} -> p
                                   [] c = k1 -> q
                                   [] OTHER -> None]
=============================================================================
