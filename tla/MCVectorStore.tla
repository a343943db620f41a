---------------------------- MODULE MCVectorStore ----------------------------
(* Instances of VectorStore. *)
EXTENDS VectorStore, TLC

IdSymmetry == Permutations(Ids)
=============================================================================
