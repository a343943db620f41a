------------------------- MODULE MCProjectKnowledge -------------------------
(* Instances of ProjectKnowledge. *)
EXTENDS ProjectKnowledge, TLC

KnowledgeSymmetry == Permutations(Chunks) \cup Permutations(Workers)
=============================================================================
