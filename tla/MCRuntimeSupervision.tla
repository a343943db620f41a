------------------------ MODULE MCRuntimeSupervision ------------------------
(* Instances of RuntimeSupervision. *)
EXTENDS RuntimeSupervision, TLC

=============================================================================
