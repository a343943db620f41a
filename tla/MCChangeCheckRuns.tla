-------------------------- MODULE MCChangeCheckRuns --------------------------
(* Instances of ChangeCheckRuns. *)
EXTENDS ChangeCheckRuns
=============================================================================
