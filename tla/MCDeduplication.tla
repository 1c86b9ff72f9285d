-------------------------- MODULE MCDeduplication --------------------------
(* Instances of Deduplication for TLC.                                      *)
EXTENDS Deduplication, TLC

CONSTANTS d1, d2, v1, v2, v3, s1, x, y, h1, h2

MCDocumentOf == [v \in Versions |-> IF v = v1 THEN d1 ELSE d2]
MCScopeOf == [d \in Documents |-> s1]
\* The oldest chunk is the second document's; the first document has a pair of equal
\* chunks, and one that differs.
MCVersionOf == [c \in Chunks |-> IF c = 1 THEN v2 ELSE IF c = 5 THEN v3 ELSE v1]
MCHashOf == [c \in Chunks |-> IF c = 4 THEN y ELSE x]
Interchangeable == Permutations(Handlers)
=============================================================================
