--------------------------- MODULE MCProtocolEvents ---------------------------
(* Instances of ProtocolEvents for TLC: one watcher or one follower, which
   the configurations name as model values. *)
EXTENDS ProtocolEvents
=============================================================================
