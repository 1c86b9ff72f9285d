-------------------------- MODULE MCKnowledgeStore --------------------------
(* Instances of KnowledgeStore for TLC.                                     *)
EXTENDS KnowledgeStore, TLC

CONSTANTS d1, v1, v2, v3, c1, j1, j2, j3, j4

MCOneDocument == [v \in Versions |-> d1]
MCEqualContents == [v \in Versions |-> IF v = v3 THEN v1 ELSE v]
MCClean == [c \in Chunks |-> "clean"]

\* The two versions of equal content are told apart by nothing else.
InterchangeableVersions ==
  Permutations(Jobs) \cup Permutations(Chunks) \cup Permutations({v1, v3})

\* A failed job changes its version's status as an edit does; PipelineRaces fails jobs.
NoFailure == \A j \in Jobs : job[j].status # "failed"
=============================================================================
