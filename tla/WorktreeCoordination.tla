------------------------ MODULE WorktreeCoordination ------------------------
(***************************************************************************
Agents share one repository through several checkouts. Each checkout has a
runtime; the runtimes and the command line share a database of task leases,
worktree records and lifecycle events (packages/runtime/src/
worktree-coordination.ts). A lifecycle event is posted to the runtime of the
checkout it is about (server-routes.ts, ChangeEvents): the handler stamps it,
reads the history and the leases, validates the transition (packages/core/src/
change-state.ts), claims, releases or checks the lease, and writes the event.
The handler never awaits after it parsed the body, so a runtime has one event
in hand; but other runtimes and the command line run between its statements.

One Change; its own lifecycle events are left out, and so are event ids (a
repeated id is answered with the stored event), summaries and branches. A
lease's status is told apart only as far as the code does: active or ended.
***************************************************************************)
EXTENDS Naturals, Sequences, SequencesExt, FiniteSets

CONSTANTS
  Checkouts,  \* directories that are or may become a checkout of the repository
  Main,       \* the checkout that is always there
  Clients,    \* processes of the command line: worktree create, remove, reap, list
  Tasks, DependsOn, Checks,   \* of the Change; every task declares every check
  Actors,     \* agents that are named in a request
  User,       \* whom normalizeAgentId names when no agent is given
  Leases, Records,            \* ids of task_leases and of worktrees
  None,
  MaxCalls    \* bound: calls that are under way at a time

ASSUME MainIsACheckout == Main \in Checkouts
ASSUME NoneIsNoRow ==
  /\ None \notin Tasks \cup Actors \cup Checkouts \cup Records
  /\ None \notin [task : Tasks, agent : Actors \cup {User}, path : Checkouts,
                  record : Records \cup {None}, term : {"running", "over", "extended"}]
  /\ None \notin [path : Checkouts, status : {"active", "gone"}]
ASSUME ProcessesDiffer == Checkouts \cap Clients = {}

VARIABLES
  lease,     \* the active rows of task_leases: a lease or None
  worktree,  \* the worktrees table: [path, status] or None; stale and removed are "gone"
  present,   \* the checkouts whose directory exists
  last,      \* the type of each task's latest event
  result,    \* the status of each task's checks
  call,      \* what each process is doing
  pending,   \* the runtimes that stamped an event, in the order of the stamps
  robbed     \* those whose lease was ended by another between its check and their event

vars == <<lease, worktree, present, last, result, call, pending, robbed>>
history == <<last, result>>
History == [last |-> last, result |-> result]

Processes == Checkouts \cup Clients
Work == {"claimed", "started", "review", "ready"}
EventTypes == Work \cup {"blocked", "closed"}

NoCall == [stage |-> "idle", goal |-> "none", type |-> "none", task |-> None, agent |-> None,
           path |-> None, record |-> None, valid |-> {}, late |-> FALSE,
           ending |-> {}, missing |-> {}]

Init ==
  /\ lease = [l \in Leases |-> None]
  /\ worktree = [r \in Records |-> None]
  /\ present = {Main}
  /\ last = [t \in Tasks |-> "none"]
  /\ result = [t \in Tasks |-> [c \in Checks |-> "unknown"]]
  /\ call = [p \in Processes |-> NoCall]
  /\ pending = <<>>
  /\ robbed = {}

-----------------------------------------------------------------------------
(* Leases *)

Active == {l \in Leases : lease[l] # None}
On(t) == {l \in Active : lease[l].task = t}
RunOut == {l \in Active : lease[l].term = "over"}
MutantHeldThrough(r) == {l \in Active : lease[l].path = worktree[r].path}
HeldThrough(r) == {l \in Active : lease[l].record = r}

\* Ids are random: one that no row and no statement under way names is new.
NewLeases == {l \in Leases : lease[l] = None /\ \A p \in Processes : l \notin call[p].ending}

Named(actor) == IF actor = None THEN User ELSE actor
SameOwner(l, agent, path) == lease[l].agent = agent /\ lease[l].path = path
MutantOwnerMatches(l, actor, path) == actor = None \/ lease[l].agent = actor
OwnerMatches(l, actor, path) ==
  lease[l].path = path /\ (actor = None \/ lease[l].agent = actor)

-----------------------------------------------------------------------------
(* change-state.ts: the status of a task, and what may follow it *)

StatusAfter ==
  [claimed |-> "claimed", started |-> "running", review |-> "review", ready |-> "ready",
   blocked |-> "blocked", closed |-> "closed"]

StatusFromChecks(results) ==
  CASE \E c \in Checks : results[c] = "failed" -> "blocked"
    [] \E c \in Checks : results[c] = "running" -> "running"
    [] Checks # {} /\ \A c \in Checks : results[c] = "passed" -> "ready"
    [] OTHER -> "planned"

\* h: a history that was read; leased: the tasks with an active lease.
Status(t, h, leased) ==
  CASE t \in leased /\ h.last[t] \in {"none", "claimed"} -> "claimed"
    [] h.last[t] \in DOMAIN StatusAfter -> StatusAfter[h.last[t]]
    [] OTHER -> StatusFromChecks(h.result[t])

Unblocked(t, h, leased) == \A d \in DependsOn[t] : Status(d, h, leased) = "closed"

StatusBefore ==
  [claimed |-> {"planned"}, started |-> {"claimed"}, review |-> {"running", "ready"},
   ready |-> {"blocked", "review"}, closed |-> {"review", "ready"},
   blocked |-> {"planned", "claimed", "running", "review", "blocked", "ready"}]

Admissible(type, t, h, leased) ==
  /\ Status(t, h, leased) \in StatusBefore[type]
  /\ type \in {"claimed", "started", "closed"} => Unblocked(t, h, leased)
  /\ type = "closed" => \A c \in Checks : h.result[t][c] = "passed"

-----------------------------------------------------------------------------
(* Calls *)

At(p, stage) == call[p].stage = stage
Ready(p) == At(p, "idle") /\ Cardinality({q \in Processes : ~At(q, "idle")}) < MaxCalls
Goto(p, stage) == call' = [call EXCEPT ![p].stage = stage]
Announce(p) ==
  call' = [call EXCEPT ![p] = [NoCall EXCEPT !.stage = "write", !.type = call[p].type,
             !.task = call[p].task, !.path = call[p].path, !.late = call[p].late]]
Finish(p) ==
  /\ call' = [call EXCEPT ![p] = NoCall]
  /\ pending' = SelectSeq(pending, LAMBDA q : q # p)

End(leases) ==
  /\ lease' = [l \in Leases |-> IF l \in leases THEN None ELSE lease[l]]
  /\ robbed' = robbed \cup
       {q \in Processes : At(q, "write") /\ \E l \in On(call[q].task) \cap leases :
                                              lease[l].path = call[q].path}

\* An event stamped before another of its task is never the latest one, even if
\* it is written after it.
Overtake(t, older, calls) ==
  [q \in Processes |-> IF q \in older /\ calls[q].task = t
                         THEN [calls[q] EXCEPT !.late = TRUE] ELSE calls[q]]

StampedBefore(p) ==
  {pending[k] : k \in {i \in DOMAIN pending : \E j \in i + 1 .. Len(pending) : pending[j] = p}}

Claiming == {"probe", "confirm", "claim"}

(* markExpiredLeasesStale: the leases that ran out are selected, then ended one
   by one by their id, whatever became of them in between. *)
SelectRunOut(p) ==
  /\ At(p, "sweep") /\ (RunOut # {} \/ call[p].goal \in Claiming)
  /\ call' = [call EXCEPT ![p].stage = "mark", ![p].ending = RunOut]
  /\ UNCHANGED <<lease, worktree, present, history, pending, robbed>>

-----------------------------------------------------------------------------
(* POST ChangeEvents, in the runtime of checkout p *)

\* A sweep is over; one that selects nothing and the read that follows are one step.
Swept(p) ==
  \/ At(p, "mark")
  \/ At(p, "sweep") /\ RunOut = {} /\ call[p].goal \notin Claiming

\* What was read is kept as the sets of leased tasks under which the event is valid.
Receive(p, type, t, actor) ==
  /\ Ready(p) /\ p \in present
  /\ call' = [call EXCEPT ![p] = [NoCall EXCEPT
       !.stage = "sweep", !.goal = "list", !.type = type, !.task = t, !.agent = actor, !.path = p,
       !.valid = {leased \in SUBSET Tasks : Admissible(type, t, History, leased)}]]
  /\ pending' = Append(pending, p)
  /\ UNCHANGED <<lease, worktree, present, history, robbed>>

(* activeTaskLeaseSummaries ends, then lists; the transition is validated
   against the history read before. A claim of a task that another agent holds
   is tried before it is validated, to tell who holds it. *)
ListLeases(p) ==
  LET c == call[p]
      left == Active \ c.ending
      ok == {lease[l].task : l \in left} \in c.valid
      early == /\ c.type = "claimed"
               /\ \E l \in left : lease[l].task = c.task /\ lease[l].agent # c.agent
      next(stage, goal) == [c EXCEPT !.stage = stage, !.goal = goal, !.valid = {}, !.ending = {}]
  IN /\ Swept(p) /\ c.goal = "list"
     /\ End(c.ending)
     /\ \/ /\ early
           /\ call' = [call EXCEPT ![p] = next("sweep", IF ok THEN "confirm" ELSE "probe")]
           /\ UNCHANGED pending
        \/ /\ ~early /\ ok
           /\ call' = [call EXCEPT ![p] =
                IF c.type = "claimed" THEN next("sweep", "claim") ELSE next("own", "none")]
           /\ UNCHANGED pending
        \/ ~early /\ ~ok /\ Finish(p)
     /\ UNCHANGED <<worktree, present, history>>

(* claimTaskLease, also of createManagedWorktree: the sweep, then a transaction. *)
EndBeforeClaim(p) ==
  /\ At(p, "mark") /\ call[p].goal \in Claiming
  /\ End(call[p].ending)
  /\ call' = [call EXCEPT ![p].stage = "claim", ![p].ending = {}]
  /\ UNCHANGED <<worktree, present, history, pending>>

Granted(p) ==
  CASE call[p].goal = "claim" -> Announce(p) /\ UNCHANGED pending
    [] call[p].goal = "confirm" ->
         call' = [call EXCEPT ![p].stage = "sweep", ![p].goal = "claim"] /\ UNCHANGED pending
    [] call[p].goal = "probe" -> Finish(p)

Claim(p) ==
  LET c == call[p]
      agent == Named(c.agent)
  IN /\ At(p, "claim")
     /\ \/ \E l \in On(c.task) :
             /\ SameOwner(l, agent, c.path)
             /\ lease' = [lease EXCEPT ![l].term = IF @ = "over" THEN "extended" ELSE @]
             /\ Granted(p)
        \/ /\ On(c.task) = {}
           /\ \E l \in NewLeases : lease' = [lease EXCEPT ![l] =
                [task |-> c.task, agent |-> agent, path |-> c.path, record |-> c.record,
                 term |-> "running"]]
           /\ Granted(p)
        \/ /\ \E l \in On(c.task) : ~SameOwner(l, agent, c.path)
           /\ UNCHANGED lease
           /\ IF p \in Clients THEN Goto(p, "undo") /\ UNCHANGED pending ELSE Finish(p)
     /\ UNCHANGED <<worktree, present, history, robbed>>

(* requireTaskLeaseOwner: no lease, or that of another, refuses the event. *)
RequireOwner(p) ==
  LET c == call[p]
      owned == \E l \in On(c.task) : OwnerMatches(l, c.agent, c.path)
  IN /\ At(p, "own") /\ c.type \in Work
     /\ \/ owned /\ Announce(p) /\ UNCHANGED pending
        \/ ~owned /\ Finish(p)
     /\ UNCHANGED <<lease, worktree, present, history, robbed>>

(* releaseTaskLease: without a lease there is nothing to release. *)
Release(p) ==
  LET c == call[p]
      owned == {l \in On(c.task) : OwnerMatches(l, c.agent, c.path)}
  IN /\ At(p, "own") /\ c.type \notin Work
     /\ End(owned)
     /\ \/ On(c.task) = owned /\ Announce(p) /\ UNCHANGED pending
        \/ On(c.task) # owned /\ Finish(p)
     /\ UNCHANGED <<worktree, present, history>>

(* writeRuntimeEvent. The event of worktree create is stamped as it is written. *)
WriteEvent(p) ==
  LET c == call[p]
      older == IF p \in Clients THEN Range(pending) ELSE StampedBefore(p)
  IN /\ At(p, "write")
     /\ last' = [last EXCEPT ![c.task] = IF c.late THEN @ ELSE c.type]
     /\ call' = Overtake(c.task, older, [call EXCEPT ![p] = NoCall])
     /\ pending' = SelectSeq(pending, LAMBDA q : q # p)
     /\ robbed' = robbed \ {p}
     /\ UNCHANGED <<lease, worktree, present, result>>

-----------------------------------------------------------------------------
(* The check runner writes its events without validation, and whoever posts one
   may do so in any order. The start of a check makes the task run like its own
   start, and a failure blocks it. *)

CheckEvent(t, c, type, outcome) ==
  /\ last' = [last EXCEPT ![t] = type]
  /\ result' = [result EXCEPT ![t][c] = outcome]
  /\ call' = Overtake(t, Range(pending), call)
  /\ UNCHANGED <<lease, worktree, present, pending, robbed>>

CheckStarts(t, c) == CheckEvent(t, c, "started", "running")
CheckEnds(t, c) == CheckEvent(t, c, "passed", "passed") \/ CheckEvent(t, c, "blocked", "failed")

-----------------------------------------------------------------------------
(* createManagedWorktree: the checkout, its record, the lease, the event *)

CreateWorktree(p, path, t, actor) ==
  /\ Ready(p) /\ path \notin present
  /\ present' = present \cup {path}
  /\ call' = [call EXCEPT ![p] = [NoCall EXCEPT
       !.stage = "record", !.goal = "claim", !.type = "claimed", !.task = t,
       !.agent = Named(actor), !.path = path]]
  /\ UNCHANGED <<lease, worktree, history, pending, robbed>>

RecordWorktree(p) ==
  /\ At(p, "record")
  /\ \E r \in Records :
       /\ worktree[r] = None
       /\ worktree' = [worktree EXCEPT ![r] = [path |-> call[p].path, status |-> "active"]]
       /\ call' = [call EXCEPT ![p].stage = "sweep", ![p].record = r]
  /\ UNCHANGED <<lease, present, history, pending, robbed>>

\* The directory and the record go in one step.
UndoCreate(p) ==
  /\ At(p, "undo")
  /\ present' = present \ {call[p].path}
  /\ worktree' = [worktree EXCEPT ![call[p].record].status = "gone"]
  /\ Finish(p)
  /\ UNCHANGED <<lease, history, robbed>>

-----------------------------------------------------------------------------
(* removeManagedWorktree: a record is found by its id or by its path, whatever
   its status; its directory goes first, then the record, then the leases. *)

RemoveWorktree(p, r) ==
  /\ Ready(p) /\ worktree[r] # None
  /\ present' = present \ {worktree[r].path}
  /\ call' = [call EXCEPT ![p].stage = "unlist", ![p].record = r]
  /\ UNCHANGED <<lease, worktree, history, pending, robbed>>

\* The record is marked, and the leases held through it are selected.
EndRecord(p, r) ==
  /\ worktree' = [worktree EXCEPT ![r].status = "gone"]
  /\ call' = [call EXCEPT ![p].stage = "mark", ![p].goal = "missing", ![p].ending = HeldThrough(r),
                          ![p].missing = @ \ {r}]
  /\ UNCHANGED <<lease, present, history, pending, robbed>>

UnlistWorktree(p) == At(p, "unlist") /\ EndRecord(p, call[p].record)

-----------------------------------------------------------------------------
(* reapWorktrees sweeps and looks for missing directories; the overview, and
   so worktree list, only looks. *)

Reap(p) ==
  /\ Ready(p)
  /\ call' = [call EXCEPT ![p].stage = "sweep", ![p].goal = "look"]
  /\ UNCHANGED <<lease, worktree, present, history, pending, robbed>>

FindMissing(p) ==
  /\ Ready(p) \/ At(p, "look")
  /\ call' = [call EXCEPT ![p].stage = "missing",
       ![p].missing = {r \in Records : /\ worktree[r] # None /\ worktree[r].status = "active"
                                       /\ worktree[r].path \notin present}]
  /\ UNCHANGED <<lease, worktree, present, history, pending, robbed>>

MarkMissing(p) ==
  /\ At(p, "missing")
  /\ \/ \E r \in call[p].missing : EndRecord(p, r)
     \/ /\ call[p].missing = {} /\ Finish(p)
        /\ UNCHANGED <<lease, worktree, present, history, robbed>>

EndSelected(p) ==
  /\ Swept(p) /\ call[p].goal \in {"look", "missing"}
  /\ End(call[p].ending)
  /\ call' = [call EXCEPT ![p].stage = call[p].goal, ![p].ending = {}]
  /\ UNCHANGED <<worktree, present, history, pending>>

-----------------------------------------------------------------------------
(* Time, the user and crashes *)

LeaseRunsOut(l) ==
  /\ l \in Active \ RunOut
  /\ lease' = [lease EXCEPT ![l].term = "over"]
  /\ UNCHANGED <<worktree, present, history, call, pending, robbed>>

DirectoryVanishes(path) ==
  /\ path \in present \ {Main}
  /\ present' = present \ {path}
  /\ UNCHANGED <<lease, worktree, history, call, pending, robbed>>

Dies(p) ==
  /\ ~At(p, "idle")
  /\ Finish(p)
  /\ robbed' = robbed \ {p}
  /\ UNCHANGED <<lease, worktree, present, history>>

Handle(p) ==
  \/ SelectRunOut(p) \/ ListLeases(p) \/ EndBeforeClaim(p) \/ Claim(p)
  \/ RequireOwner(p) \/ Release(p) \/ WriteEvent(p)
  \/ RecordWorktree(p) \/ UndoCreate(p) \/ UnlistWorktree(p) \/ MarkMissing(p) \/ EndSelected(p)

Next ==
  \/ \E p \in Checkouts, type \in EventTypes, t \in Tasks, actor \in Actors \cup {None} :
       Receive(p, type, t, actor)
  \/ \E p \in Clients :
       \/ \E path \in Checkouts, t \in Tasks, actor \in Actors \cup {None} :
            CreateWorktree(p, path, t, actor)
       \/ \E r \in Records : RemoveWorktree(p, r)
       \/ Reap(p) \/ FindMissing(p)
  \/ \E p \in Processes : Handle(p) \/ Dies(p)
  \/ \E t \in Tasks, c \in Checks : CheckStarts(t, c) \/ CheckEnds(t, c)
  \/ \E l \in Leases : LeaseRunsOut(l)
  \/ \E path \in Checkouts : DirectoryVanishes(path)

Spec == Init /\ [][Next]_vars

-----------------------------------------------------------------------------
Lease == [task : Tasks, agent : Actors \cup {User}, path : Checkouts,
          record : Records \cup {None}, term : {"running", "over", "extended"}]

(* The types of the variables. *)
TypeOK ==
  /\ lease \in [Leases -> Lease \cup {None}]
  /\ worktree \in [Records -> [path : Checkouts, status : {"active", "gone"}] \cup {None}]
  /\ present \subseteq Checkouts /\ Main \in present
  /\ DOMAIN call = Processes
  /\ Range(pending) \subseteq Checkouts
  /\ robbed \subseteq Processes

(* A task has one holder, and whoever is about to announce that he claimed,
   started, reviewed or readied it is the holder, unless his lease was ended by
   somebody else (it had run out, or his worktree was given up) meanwhile. *)
WorkIsExclusive ==
  /\ \A k, l \in Active : lease[k].task = lease[l].task => k = l
  /\ \A p \in Processes \ robbed :
       At(p, "write") /\ call[p].type \in Work =>
         \E l \in On(call[p].task) : lease[l].path = call[p].path

(* A lease ends because its owner released it, because it ran out at least once
   (a sweep may end one that was renewed after the sweep had selected it), or
   because the worktree it was claimed through was removed or is missing. *)
LeasesEndForAReason ==
  [][\A l \in Active : lease'[l] = None =>
       \/ lease[l].term # "running"
       \/ lease[l].record # None /\ worktree[lease[l].record].status # "active"
       \/ /\ call[lease[l].path].task = lease[l].task
          /\ At(lease[l].path, "own") /\ call'[lease[l].path].stage = "write"
          /\ OwnerMatches(l, call[lease[l].path].agent, lease[l].path)]_vars

(* worktree-coordination.ts:502: who posts an event for a task without a lease
   is told that the task "must be claimed before this lifecycle event", and to
   run opencanon changes claim: such a claim would be admitted. *)
AdviceCanBeFollowed ==
  \A p \in Checkouts :
    At(p, "own") /\ call[p].type \in Work /\ On(call[p].task) = {} =>
      Admissible("claimed", call[p].task, History, {lease[l].task : l \in Active})
=============================================================================
