----------------------- MODULE MCWorktreeCoordination -----------------------
(* Instances of WorktreeCoordination: tasks that depend on no other. Ids of
   leases are interchangeable, and so are those of worktree records. *)
EXTENDS WorktreeCoordination, TLC

Independent == [t \in Tasks |-> {}]
IdSymmetry == Permutations(Leases) \cup Permutations(Records)
=============================================================================
