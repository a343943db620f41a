------------------------- MODULE RevisionPublication -------------------------
(***************************************************************************)
(* What the project runtime promises about revisions, without saying how.  *)
(*                                                                         *)
(* A change of the project is observed under the next revision number.     *)
(* While the runtime is open, the newest observed revision is eventually   *)
(* published or reported as failed; an older one is never published;       *)
(* readers are served what was published last, or a newer revision that    *)
(* failed when it was committed already; and closing the runtime freezes   *)
(* all of it.                                                              *)
(*                                                                         *)
(* RuntimeStateManager implements this specification.                      *)
(***************************************************************************)
EXTENDS Naturals

CONSTANTS
  InitialRevision,  \* the revision the durable store was opened at
  MaxRevision       \* bound: the last revision that may be observed

VARIABLES
  observed,   \* newest revision seen
  published,  \* newest revision published
  serving,    \* revision of the state readers are served
  failed,     \* revision reported as failed, 0 when none is
  open        \* FALSE from the moment shutdown begins

vars == <<observed, published, serving, failed, open>>

Init ==
  /\ observed = InitialRevision
  /\ published = InitialRevision
  /\ serving = InitialRevision
  /\ failed = 0
  /\ open = TRUE

Observe ==
  /\ open
  /\ observed < MaxRevision
  /\ observed' = observed + 1
  /\ failed' = 0
  /\ UNCHANGED <<published, serving, open>>

Publish ==
  /\ open
  /\ published < observed
  /\ failed = 0
  /\ published' = observed
  /\ serving' = observed
  /\ UNCHANGED <<observed, failed, open>>

Fail ==
  /\ open
  /\ published < observed
  /\ failed = 0
  /\ failed' = observed
  /\ serving' \in {serving, observed}
  /\ UNCHANGED <<observed, published, open>>

Close ==
  /\ open
  /\ open' = FALSE
  /\ UNCHANGED <<observed, published, serving, failed>>

Next == Observe \/ Publish \/ Fail \/ Close

(* The newest revision does not stay undecided: it is published or failed. *)
Decide == Publish \/ Fail

SafetySpec == Init /\ [][Next]_vars
Spec == SafetySpec /\ WF_vars(Decide)
=============================================================================
