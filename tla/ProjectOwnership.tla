-------------------------- MODULE ProjectOwnership --------------------------
(* Who owns the state of one project: what RuntimeSupervision is about, and what
   every module with one project runtime takes for granted. A worker process goes
   from its boot, through the creation of the lease and the write of it (open, then
   own), to serving, and by a hang, a signal or an idle stop to its end
   (packages/runtime/src/service-storage.ts, cli.ts).                            *)

VARIABLES
  worker,  \* where each worker process is
  lost     \* history: the lease was removed from a live worker

Stages == {"unborn", "boot", "break", "open", "own", "serve", "hung", "ending", "leaving", "dead"}

Owns(p) == worker[p] \in {"own", "serve", "hung", "ending", "leaving"}
SingleOwner == \A p, q \in DOMAIN worker : Owns(p) /\ Owns(q) => p = q

(* Two workers open the project's state at once only after the lease of a live
   worker was removed, as retiring a lease does that was just created and is not
   written yet: a worker that finds the lease of a live one never gets past
   acquireProjectWorkerLease.                                                 *)
OnlyALostLeaseIsShared == lost \/ SingleOwner
=============================================================================
