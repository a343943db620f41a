------------------------ MODULE MCRuntimeStateManager ------------------------
(* RuntimeStateManager for TLC: the configurations name its callers as model
   values; one of them also checks that it implements RevisionPublication. *)
EXTENDS RuntimeStateManager
=============================================================================
