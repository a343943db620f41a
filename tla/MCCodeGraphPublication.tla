----------------------- MODULE MCCodeGraphPublication -----------------------
(* Instances of CodeGraphPublication. *)
EXTENDS CodeGraphPublication, TLC

=============================================================================
