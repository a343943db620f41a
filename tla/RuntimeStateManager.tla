------------------------- MODULE RuntimeStateManager -------------------------
(***************************************************************************)
(* The coordinator of one project runtime                                  *)
(* (packages/runtime/src/state-manager.ts): it numbers observed changes,   *)
(* runs one analysis at a time, coalesces the changes that arrive          *)
(* meanwhile, publishes only the newest revision, makes callers wait for a *)
(* revision, lets one exclusive operation (Project Knowledge indexing) run *)
(* between analyses, and shuts all of it down.                             *)
(*                                                                         *)
(* The code is single threaded: an action is what runs between two awaits. *)
(* A continuation whose promise has settled is a separate action, so that  *)
(* any other continuation may run first.                                   *)
(***************************************************************************)
EXTENDS Naturals

CONSTANTS
  Callers,          \* concurrent callers of the manager's methods
  NoOperation,      \* exclusiveOperation when no operation is running
  InitialRevision,  \* options.initialRevision, read from the durable store
  MaxRevision,      \* bound: changes stop being observed at this revision
  GapRequests       \* whether a change may be requested by the very job that
                    \* lies between waitForRebuildIdle's return and the claim

ASSUME RevisionAssumption ==
  /\ InitialRevision \in Nat \ {0}
  /\ MaxRevision \in Nat
  /\ InitialRevision <= MaxRevision
ASSUME CallerAssumption == NoOperation \notin Callers /\ GapRequests \in BOOLEAN

VARIABLES
  revision,            \* observed, accepted and published revision numbers
  snapshot,            \* revision whose candidate built the current snapshot
  phase,               \* lifecycle phase shown to clients
  active,              \* revision being analysed, 0 when none
  queued,              \* revision waiting to be analysed, 0 when none
  failure,             \* revision whose analysis failed, 0 when none
  loop,                \* where runLoop awaits
  aborted,             \* activeAbortController has been aborted
  exclusiveOperation,  \* caller whose operation holds the project
  shutdownState,       \* running, stopping or stopped
  drain,               \* how far performShutdown's coordinator task is
  waiters,             \* callers registered in the set of revision waiters
  target,              \* revision each caller waits for
  pc,                  \* where each caller is
  got                  \* revision of the snapshot each caller was handed last

analysisVars == <<active, queued, loop, aborted, phase>>
callerVars == <<waiters, target, pc, got>>
vars == <<revision, snapshot, phase, active, queued, failure, loop, aborted,
          exclusiveOperation, shutdownState, drain, waiters, target, pc, got>>

Phases == {"transport-ready", "refreshing", "ready", "failed", "stopping", "stopped"}
LoopStates == {"none", "building", "discarding", "settled"}
CallerStates ==
  {"idle", "resolved", "rejected",      \* no call, or a call that just returned
   "revisionWait",                      \* waitForRevision
   "idleRevisionWait", "idleRevisionResume",  \* waitForRebuildIdle, at
   "idleLoopWait", "idleLoopResume",          \* each of its two awaits
   "spinning",                          \* waitForRebuildIdle looping without await
   "admitted", "operating"}             \* before the claim, and in the operation

Running == shutdownState = "running"
Busy == active # 0 \/ queued # 0 \/ loop # "none" \/ exclusiveOperation # NoOperation
Undecided == active # 0 \/ queued # 0
RebuildIdle == ~Undecided /\ revision.observed = revision.published

Init ==
  /\ revision = [observed |-> InitialRevision, accepted |-> InitialRevision,
                 published |-> InitialRevision]
  /\ snapshot = InitialRevision
  /\ phase = "transport-ready"
  /\ active = 0 /\ queued = 0 /\ failure = 0
  /\ loop = "none" /\ aborted = FALSE
  /\ exclusiveOperation = NoOperation
  /\ shutdownState = "running" /\ drain = "none"
  /\ waiters = {}
  /\ target = [c \in Callers |-> 0]
  /\ pc = [c \in Callers |-> "idle"]
  /\ got = [c \in Callers |-> 0]

-----------------------------------------------------------------------------
(* The analysis loop's control, shared by the handlers below. *)

MutantMayAnalyse(q) == q # 0 /\ Running
MayAnalyse(q) == q # 0 /\ Running /\ exclusiveOperation' = NoOperation

(* The head of runLoop's while: the queued intent becomes the active one. *)
TakeIntent(q) ==
  /\ active' = q
  /\ queued' = 0
  /\ aborted' = FALSE
  /\ loop' = "building"
  /\ phase' = "refreshing"

StartLoop(q, ph, ab) ==
  IF loop = "none" /\ MayAnalyse(q)
    THEN TakeIntent(q)
    ELSE /\ queued' = q /\ phase' = ph /\ aborted' = ab
         /\ UNCHANGED <<active, loop>>

SettledPhase(ph) ==
  IF Running /\ failure' = 0 /\ revision'.published = revision'.observed THEN "ready" ELSE ph

(* The end of an iteration: the finally block, then the while condition and,
   when it fails, what follows the loop. *)
NextIteration(ph) ==
  IF MayAnalyse(queued)
    THEN TakeIntent(queued)
    ELSE /\ active' = 0 /\ aborted' = FALSE
         /\ loop' = "settled"
         /\ phase' = SettledPhase(ph)
         /\ UNCHANGED queued

-----------------------------------------------------------------------------
(* Revision waiters. *)

(* A caller of waitForRevision gets its promise's outcome; one inside
   waitForRebuildIdle goes on with that function, or is rejected with it. *)
Resolved ==
  [c \in Callers |-> IF pc[c] = "idleRevisionWait" THEN "idleRevisionResume" ELSE "resolved"]
Rejected == [c \in Callers |-> "rejected"]

ReleaseWaiters(released, outcome) ==
  /\ waiters' = waiters \ released
  /\ pc' = [c \in Callers |-> IF c \in released THEN outcome[c] ELSE pc[c]]

MutantReleasedBelow(r) == {c \in waiters : target[c] < r}
ReleasedBy(r) == {c \in waiters : target[c] <= r}

ResolvePublishedWaiters ==
  LET released == ReleasedBy(revision'.published)
  IN  /\ ReleaseWaiters(released, Resolved)
      /\ got' = [c \in Callers |-> IF c \in released THEN snapshot' ELSE got[c]]
      /\ UNCHANGED target

RejectWaitersThrough(r) ==
  /\ ReleaseWaiters(ReleasedBy(r), Rejected)
  /\ UNCHANGED <<target, got>>

(* The synchronous part of waitForRevision: answer now or register. *)
FailedSince(t) == failure # 0 /\ failure >= t /\ ~Undecided

AwaitRevision(c, t, waiting) ==
  /\ target' = [target EXCEPT ![c] = t]
  /\ \/ /\ Running /\ revision.published < t /\ ~FailedSince(t)
        /\ waiters' = waiters \cup {c}
        /\ pc' = [pc EXCEPT ![c] = waiting]
        /\ UNCHANGED got
     \/ /\ revision.published < t /\ (~Running \/ FailedSince(t))
        /\ pc' = [pc EXCEPT ![c] = "rejected"]
        /\ UNCHANGED <<waiters, got>>
     \/ /\ t <= revision.published
        /\ pc' = [pc EXCEPT ![c] = "resolved"]
        /\ got' = [got EXCEPT ![c] = snapshot]
        /\ UNCHANGED waiters

(* waitForRevision(t) *)
WaitForRevision(c, t) ==
  /\ pc[c] = "idle"
  /\ AwaitRevision(c, t, "revisionWait")
  /\ UNCHANGED <<revision, snapshot, failure, exclusiveOperation, shutdownState, drain>>
  /\ UNCHANGED analysisVars

(* The caller's timeout or abort signal ends one of its waits. *)
InterruptWait(c) ==
  /\ c \in waiters \/ pc[c] = "idleLoopWait"
  /\ waiters' = waiters \ {c}
  /\ pc' = [pc EXCEPT ![c] = "rejected"]
  /\ UNCHANGED <<revision, snapshot, failure, exclusiveOperation, shutdownState, drain,
                 target, got>>
  /\ UNCHANGED analysisVars

(* The caller has its answer and may call again. *)
Return(c) ==
  /\ pc[c] \in {"resolved", "rejected"}
  /\ pc' = [pc EXCEPT ![c] = "idle"]
  /\ target' = [target EXCEPT ![c] = 0]
  /\ got' = [got EXCEPT ![c] = 0]
  /\ UNCHANGED <<revision, snapshot, failure, exclusiveOperation, shutdownState, drain, waiters>>
  /\ UNCHANGED analysisVars

-----------------------------------------------------------------------------
(* Requesting an analysis. *)

NextRevision == revision.observed + 1

AcceptsRequest ==
  /\ Running
  /\ revision.observed < MaxRevision
  /\ GapRequests \/ \A c \in Callers : pc[c] # "admitted"

(* requestRebuild: a newer intent replaces the queued one and aborts the
   active one; the loop starts unless it is running or an operation holds the
   project. *)
RequestRebuild ==
  LET next == NextRevision
  IN  /\ AcceptsRequest
      /\ revision' = [revision EXCEPT !.observed = next, !.accepted = next]
      /\ failure' = 0
      /\ UNCHANGED <<snapshot, exclusiveOperation, shutdownState, drain>>
      /\ StartLoop(next, "refreshing", active # 0)

(* scheduleRebuild: the watcher does not wait for the result. *)
ScheduleRebuild == RequestRebuild /\ UNCHANGED callerVars

(* rebuildAndPublish waits for the revision it has just requested. *)
RebuildAndPublish(c) ==
  /\ pc[c] = "idle"
  /\ RequestRebuild
  /\ waiters' = waiters \cup {c}
  /\ target' = [target EXCEPT ![c] = revision'.observed]
  /\ pc' = [pc EXCEPT ![c] = "revisionWait"]
  /\ UNCHANGED got

(* assertAcceptingWork refuses rebuildAndPublish and runExclusiveOperation. *)
RefuseWhileStopping(c) ==
  /\ ~Running
  /\ pc[c] = "idle"
  /\ pc' = [pc EXCEPT ![c] = "rejected"]
  /\ UNCHANGED <<revision, snapshot, failure, exclusiveOperation, shutdownState, drain,
                 waiters, target, got>>
  /\ UNCHANGED analysisVars

-----------------------------------------------------------------------------
(* The analysis loop. *)

(* A candidate is published when no newer change was observed meanwhile. *)
MutantIsNewest(r) == TRUE
IsNewest(r) == r = revision.observed

(* The candidate commits: revision, snapshot and waiters change together. *)
PublishCandidate ==
  /\ loop = "building"
  /\ Running /\ IsNewest(active)
  /\ revision' = [revision EXCEPT !.published = active]
  /\ snapshot' = active
  /\ failure' = 0
  /\ UNCHANGED <<exclusiveOperation, shutdownState, drain>>
  /\ NextIteration("ready")
  /\ ResolvePublishedWaiters

(* A candidate nobody wants any more: its discard hook is awaited. *)
SupersedeCandidate ==
  /\ loop = "building"
  /\ ~Running \/ ~IsNewest(active)
  /\ loop' = "discarding"
  /\ UNCHANGED <<revision, snapshot, phase, active, queued, failure, aborted,
                 exclusiveOperation, shutdownState, drain>>
  /\ UNCHANGED callerVars

DiscardCandidate ==
  /\ loop = "discarding"
  /\ UNCHANGED <<revision, snapshot, failure, exclusiveOperation, shutdownState, drain>>
  /\ NextIteration(phase)
  /\ UNCHANGED callerVars

(* The catch block: the error of an aborted analysis that has a successor, or
   that shutdown ended, is not a failure. *)
MutantIgnoresEveryError == TRUE
IgnoresError == aborted /\ (queued # 0 \/ ~Running)

IterationThrows ==
  /\ UNCHANGED <<revision, exclusiveOperation, shutdownState, drain>>
  /\ \/ /\ IgnoresError
        /\ UNCHANGED failure
        /\ NextIteration(phase)
        /\ UNCHANGED callerVars
     \/ /\ ~IgnoresError
        /\ failure' = active
        /\ NextIteration("failed")
        /\ RejectWaitersThrough(active)

(* rebuildNow rejects, or commit throws before anything is published. *)
RebuildThrows == loop = "building" /\ UNCHANGED snapshot /\ IterationThrows

DiscardThrows == loop = "discarding" /\ UNCHANGED snapshot /\ IterationThrows

(* The candidate is committed, durably, and is the current snapshot when
   readProjectInventory throws, because git cannot be started: the revision
   that readers are served already is reported as failed. *)
InventoryThrows ==
  /\ loop = "building"
  /\ Running /\ IsNewest(active)
  /\ snapshot' = active
  /\ IterationThrows

(* startLoop's finally handler: the loop's promise settles, whoever awaits it
   may go on, and a request that arrived since runLoop returned is taken up. *)
RestartsFor(q) == MayAnalyse(q)

LoopSettles ==
  /\ loop = "settled"
  /\ UNCHANGED <<revision, snapshot, failure, exclusiveOperation, shutdownState, drain>>
  /\ \/ RestartsFor(queued) /\ TakeIntent(queued)
     \/ ~RestartsFor(queued) /\ loop' = "none" /\ UNCHANGED <<active, queued, aborted, phase>>
  /\ pc' = [c \in Callers |-> IF pc[c] = "idleLoopWait" THEN "idleLoopResume" ELSE pc[c]]
  /\ UNCHANGED <<waiters, target, got>>

-----------------------------------------------------------------------------
(* Exclusive operations. *)

(* waitForRebuildIdle, from each place it may go on: the top of its loop, the
   read of the loop promise, and the condition at its end. *)
TopOfIdleWait ==
  IF ~Running THEN "rejected"
  ELSE IF revision.observed > revision.published
         THEN IF FailedSince(revision.observed) THEN "rejected" ELSE "idleRevisionWait"
  ELSE IF loop # "none" THEN "idleLoopWait"
  ELSE IF RebuildIdle THEN "admitted" ELSE "spinning"

AfterIdleRevision ==
  IF loop # "none" THEN "idleLoopWait"
  ELSE IF RebuildIdle THEN "admitted" ELSE TopOfIdleWait

AfterIdleLoop == IF RebuildIdle THEN "admitted" ELSE TopOfIdleWait

ContinueIdleWait(c, next) ==
  /\ pc' = [pc EXCEPT ![c] = next]
  /\ waiters' = IF next = "idleRevisionWait" THEN waiters \cup {c} ELSE waiters
  /\ target' = IF next = "idleRevisionWait"
                 THEN [target EXCEPT ![c] = revision.observed] ELSE target
  /\ UNCHANGED <<revision, snapshot, failure, exclusiveOperation, shutdownState, drain, got>>
  /\ UNCHANGED analysisVars

(* runExclusiveOperation up to its first await. *)
RequestOperation(c) ==
  /\ pc[c] = "idle"
  /\ Running
  /\ ContinueIdleWait(c, IF exclusiveOperation # NoOperation THEN "rejected" ELSE TopOfIdleWait)

ResumeAfterRevision(c) ==
  pc[c] = "idleRevisionResume" /\ ContinueIdleWait(c, AfterIdleRevision)

ResumeAfterLoop(c) ==
  pc[c] = "idleLoopResume" /\ ContinueIdleWait(c, AfterIdleLoop)

MayClaim == Running /\ exclusiveOperation = NoOperation

(* The claim. Shutdown, another operation and the caller's own signal are
   checked again, the analysis is not. *)
ClaimOperation(c) ==
  /\ pc[c] = "admitted"
  /\ \/ /\ MayClaim
        /\ exclusiveOperation' = c
        /\ pc' = [pc EXCEPT ![c] = "operating"]
     \/ /\ pc' = [pc EXCEPT ![c] = "rejected"]
        /\ UNCHANGED exclusiveOperation
  /\ UNCHANGED <<revision, snapshot, failure, shutdownState, drain, waiters, target, got>>
  /\ UNCHANGED analysisVars

(* The operation ends, however it ends, and queued changes are analysed. *)
MutantResumesAnalysis(q, ph, ab) == UNCHANGED analysisVars
ResumesAnalysis(q, ph, ab) == StartLoop(q, ph, ab)

FinishOperation(c) ==
  /\ pc[c] = "operating"
  /\ exclusiveOperation' = IF exclusiveOperation = c THEN NoOperation ELSE exclusiveOperation
  /\ ResumesAnalysis(queued, phase, aborted)
  /\ pc' = [pc EXCEPT ![c] = "idle"]
  /\ target' = [target EXCEPT ![c] = 0]
  /\ got' = [got EXCEPT ![c] = 0]
  /\ UNCHANGED <<revision, snapshot, failure, shutdownState, drain, waiters>>

-----------------------------------------------------------------------------
(* Shutdown: performShutdown calls beginShutdown, then finishShutdown once
   waitForIdle has returned. *)

BeginShutdown ==
  /\ Running
  /\ shutdownState' = "stopping"
  /\ drain' = "draining"
  /\ phase' = "stopping"
  /\ queued' = 0
  /\ aborted' = (active # 0)
  /\ ReleaseWaiters(waiters, Rejected)
  /\ UNCHANGED <<revision, snapshot, active, failure, loop, exclusiveOperation, target, got>>

MutantIdleNever == ~Busy /\ revision.observed = revision.published
IdleForShutdown == ~Busy

(* waitForIdle keeps awaiting the loop or the operation while there is one. *)
WaitForIdleReturns ==
  /\ drain = "draining"
  /\ IdleForShutdown
  /\ drain' = "drained"
  /\ UNCHANGED <<revision, snapshot, failure, exclusiveOperation, shutdownState>>
  /\ UNCHANGED <<analysisVars, callerVars>>

FinishShutdown ==
  /\ drain = "drained"
  /\ \/ /\ ~Busy
        /\ shutdownState' = "stopped" /\ phase' = "stopped" /\ drain' = "done"
     \/ /\ Busy
        /\ drain' = "threw"
        /\ UNCHANGED <<shutdownState, phase>>
  /\ UNCHANGED <<revision, snapshot, active, queued, failure, loop, aborted,
                 exclusiveOperation>>
  /\ UNCHANGED callerVars

-----------------------------------------------------------------------------
LoopStep ==
  \/ PublishCandidate \/ SupersedeCandidate \/ RebuildThrows \/ InventoryThrows
  \/ DiscardCandidate \/ DiscardThrows \/ LoopSettles

CallerStep(c) ==
  \/ RebuildAndPublish(c)
  \/ \E t \in 1..MaxRevision : WaitForRevision(c, t)
  \/ InterruptWait(c) \/ Return(c) \/ RefuseWhileStopping(c)
  \/ RequestOperation(c) \/ ResumeAfterRevision(c) \/ ResumeAfterLoop(c)
  \/ ClaimOperation(c) \/ FinishOperation(c)

ShutdownStep == BeginShutdown \/ WaitForIdleReturns \/ FinishShutdown

Next ==
  \/ ScheduleRebuild
  \/ LoopStep
  \/ \E c \in Callers : CallerStep(c)
  \/ ShutdownStep

SafetySpec == Init /\ [][Next]_vars

(* The event loop runs every continuation whose promise has settled, an
   analysis and an operation end, and shutdown is driven to its end. Nothing
   makes callers call, time out or shut down. *)
Fairness ==
  /\ WF_vars(PublishCandidate \/ SupersedeCandidate \/ RebuildThrows \/ InventoryThrows)
  /\ WF_vars(DiscardCandidate \/ DiscardThrows)
  /\ WF_vars(LoopSettles)
  /\ \A c \in Callers :
       /\ WF_vars(ResumeAfterRevision(c))
       /\ WF_vars(ResumeAfterLoop(c))
       /\ WF_vars(ClaimOperation(c))
       /\ WF_vars(FinishOperation(c))
  /\ WF_vars(WaitForIdleReturns)
  /\ WF_vars(FinishShutdown)

Spec == SafetySpec /\ Fairness
-----------------------------------------------------------------------------
(* Properties. *)

Revisions == 0..MaxRevision

(* Every variable holds a value the code can give it. *)
TypeOK ==
  /\ revision \in [observed : Revisions, accepted : Revisions, published : Revisions]
  /\ snapshot \in Revisions
  /\ phase \in Phases
  /\ active \in Revisions /\ queued \in Revisions /\ failure \in Revisions
  /\ loop \in LoopStates /\ aborted \in BOOLEAN
  /\ exclusiveOperation \in Callers \cup {NoOperation}
  /\ shutdownState \in {"running", "stopping", "stopped"}
  /\ drain \in {"none", "draining", "drained", "done", "threw"}
  /\ waiters \subseteq Callers
  /\ target \in [Callers -> Revisions]
  /\ pc \in [Callers -> CallerStates]
  /\ got \in [Callers -> Revisions]

(* While the runtime runs, an observed change is never forgotten: the newest
   revision is published, queued, being analysed by an analysis nobody
   aborted, or reported as failed (requestRebuild, runLoop). *)
NewestRevisionIsOwned ==
  Running =>
    \/ revision.published = revision.observed
    \/ queued = revision.observed
    \/ active = revision.observed /\ loop = "building" /\ ~aborted
    \/ failure = revision.observed

(* Queued work always has somebody who will start it, so neither waitForIdle
   (`if (!pending) continue`) nor waitForRebuildIdle turns into a loop without
   an await, which would hang the process. *)
IdleWaitsNeverSpin ==
  /\ Undecided => loop # "none" \/ exclusiveOperation # NoOperation
  /\ \A c \in Callers : pc[c] # "spinning"

(* A registered waiter is still waiting for something: its revision is neither
   published nor covered by a reported failure, and shutdown leaves none
   (resolvePublishedWaiters, rejectWaitersThrough, beginShutdown). *)
NoStrandedWaiter ==
  \A c \in waiters : Running /\ target[c] > revision.published /\ target[c] > failure

(* Whoever waited for a revision is handed a snapshot at least that new. *)
WaitersSeeTheirRevision ==
  \A c \in Callers : pc[c] = "resolved" => got[c] >= target[c]

(* The error of an analysis that a newer change superseded, or that shutdown
   aborted, is never shown as a failure; a failure is about the newest revision. *)
FailureIsAboutTheNewest ==
  failure # 0 =>
    /\ failure = revision.observed
    /\ revision.published < failure
    /\ ~Undecided

(* Project analysis and an exclusive operation never run at the same time, and
   the operation in the slot is the one running. *)
NoOverlap ==
  /\ exclusiveOperation # NoOperation => active = 0
  /\ \A c \in Callers : pc[c] = "operating" => exclusiveOperation = c

(* The phase shown to clients agrees with the revisions: ready only when the
   newest change is published, failed exactly while a failure stands, and
   refreshing whenever an analysis runs or is queued. *)
PhaseAgreesWithRevisions ==
  Running =>
    /\ phase = "ready" => revision.published = revision.observed /\ ~Undecided
    /\ phase = "failed" <=> failure # 0
    /\ Undecided => phase = "refreshing"

(* finishShutdown, called once waitForIdle has returned, never finds work and
   throws; a stopped manager owns nothing. *)
ShutdownIsClean ==
  /\ drain # "threw"
  /\ shutdownState = "stopped" => ~Busy /\ waiters = {}

(* Publication moves forward, only to the newest observed revision, only while
   running, and takes the snapshot with it. *)
PublishesOnlyTheNewest ==
  [][revision'.published # revision.published =>
       /\ Running
       /\ revision'.published = revision.observed
       /\ revision'.observed = revision.observed
       /\ revision'.published > revision.published
       /\ snapshot' = revision'.published]_vars

(* What the project's documentation promises: a failed analysis leaves readers
   the snapshot they had (runLoop's catch). It does not hold (InventoryThrows). *)
FailurePreservesSnapshot == [][failure' \notin {0, failure} => UNCHANGED snapshot]_vars

(* A waiter for a revision that has been observed is answered: published,
   failed, superseded by a newer answer, or shut down. *)
WaitersAreAnswered ==
  \A c \in Callers :
    (c \in waiters /\ target[c] <= revision.observed) ~> (c \notin waiters)

(* A shutdown that has begun ends: the coordinator drains and stops. *)
ShutdownCompletes == (shutdownState = "stopping") ~> (shutdownState = "stopped")

(* The manager implements the abstract promise about revisions. *)
Publication == INSTANCE RevisionPublication WITH
  observed <- revision.observed, published <- revision.published,
  serving <- snapshot, failed <- failure, open <- Running

PublicationSafety == Publication!SafetySpec
ImplementsPublication == Publication!Spec
=============================================================================
