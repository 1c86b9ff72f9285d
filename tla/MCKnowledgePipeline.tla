------------------------ MODULE MCKnowledgePipeline ------------------------
(* Instances of KnowledgePipeline for TLC.                                  *)
EXTENDS KnowledgePipeline, TLC

CONSTANTS d1, v1, v2, c1, c2, c3, j1, j2, j3, j4, r1, r2, w1, w2

MCOneDocument == [v \in Versions |-> d1]
MCDistinctContents == [v \in Versions |-> v]
MCClean == [c \in Chunks |-> "clean"]
MCMixed == [c \in Chunks |-> IF c = c1 THEN "clean" ELSE IF c = c2 THEN "hard_block" ELSE "contact"]

Interchangeable ==
  Permutations(Jobs) \cup Permutations(Requests) \cup Permutations(Workers)
=============================================================================
