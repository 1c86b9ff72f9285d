-------------------------- MODULE MCAccessControl --------------------------
(* An instance of AccessControl for TLC.                                    *)
EXTENDS AccessControl, TLC

CONSTANTS a1, a2, h1, h2

\* Of safety only: nothing tells the handlers apart.
Interchangeable == Permutations(Handlers)
=============================================================================
