---------------------- MODULE MCInterviewConversation ----------------------
(* Instances of InterviewConversation for TLC.                              *)
EXTENDS InterviewConversation, TLC

CONSTANTS q1, q2, h1, h2

\* Handlers and request ids are interchangeable.
Symmetry == Permutations(Handlers) \cup Permutations(Requests)

\* Nobody outlives its lock.
LocksLive == \A h \in Handlers : ~handler[h].late
=============================================================================
