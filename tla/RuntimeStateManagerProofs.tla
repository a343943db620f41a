---------------------- MODULE RuntimeStateManagerProofs ----------------------
(***************************************************************************)
(* Theorems about RuntimeStateManager, for any set of callers, any initial *)
(* revision and any bound on revisions. The inductive invariant IInv has   *)
(* three parts: how revisions, the loop and the abort signal agree         *)
(* (AnalysisInv), how far shutdown is (DrainInv), and what each caller may *)
(* rely on (CallerInv). The last part is about RuntimeSupervision: why a   *)
(* project has one manager at a time.                                      *)
(***************************************************************************)
EXTENDS RuntimeStateManager, ProjectOwnership, TLAPS

(* An intent's number tells its place: nothing queued or analysed is older
   than what is published, and only the newest change is queued. What readers
   are served is published, or newer when its publication failed half-way. *)
WorkIsNumbered ==
  /\ 0 < revision.observed
  /\ revision.published <= revision.observed
  /\ revision.published <= snapshot /\ snapshot <= revision.observed
  /\ queued # 0 => queued = revision.observed /\ revision.published < queued
  /\ active # 0 => active <= revision.observed /\ revision.published < active

(* While running, the analysis in progress is aborted exactly when a newer
   change is queued behind it; after shutdown it is always aborted. *)
AbortMeansSuperseded ==
  /\ active # 0 <=> loop \in {"building", "discarding"}
  /\ aborted => active # 0
  /\ Running /\ active # 0 =>
       \/ aborted /\ queued # 0 /\ active < revision.observed
       \/ ~aborted /\ queued = 0 /\ active = revision.observed /\ loop = "building"
  /\ ~Running => queued = 0 /\ (active # 0 => aborted)
  /\ queued # 0 => loop # "none" \/ exclusiveOperation # NoOperation

AnalysisInv ==
  /\ WorkIsNumbered
  /\ AbortMeansSuperseded
  /\ FailureIsAboutTheNewest
  /\ NewestRevisionIsOwned
  /\ PhaseAgreesWithRevisions

DrainInv ==
  /\ Running <=> drain = "none"
  /\ shutdownState = "stopped" <=> drain = "done"
  /\ drain \in {"drained", "done"} => ~Busy
  /\ drain # "threw"

CallerInv ==
  /\ \A c \in waiters : pc[c] \in {"revisionWait", "idleRevisionWait"}
  /\ NoStrandedWaiter
  /\ WaitersSeeTheirRevision
  /\ \A c \in Callers : pc[c] # "spinning"
  /\ \A c \in Callers : pc[c] = "operating" <=> exclusiveOperation = c

IInv == TypeOK /\ AnalysisInv /\ DrainInv /\ CallerInv

-----------------------------------------------------------------------------
(* The initial state satisfies the invariant. *)
LEMMA InitIInv == Init => IInv
<1> SUFFICES ASSUME Init PROVE IInv
  OBVIOUS
<1> USE RevisionAssumption, CallerAssumption DEF Init, Running, Busy, Undecided
<1>1. TypeOK
  <2>1. InitialRevision \in Revisions /\ 0 \in Revisions
    BY DEF Revisions
  <2>2. revision \in [observed : Revisions, accepted : Revisions, published : Revisions]
    BY <2>1
  <2>3. target \in [Callers -> Revisions] /\ got \in [Callers -> Revisions]
    BY <2>1
  <2>4. pc \in [Callers -> CallerStates]
    BY DEF CallerStates
  <2>5. exclusiveOperation \in Callers \cup {NoOperation} /\ waiters \subseteq Callers
    OBVIOUS
  <2> QED
    BY <2>1, <2>2, <2>3, <2>4, <2>5 DEF TypeOK, Phases, LoopStates
<1>2. AnalysisInv
  BY DEF AnalysisInv, WorkIsNumbered, AbortMeansSuperseded, FailureIsAboutTheNewest,
         NewestRevisionIsOwned, PhaseAgreesWithRevisions
<1>3. DrainInv
  BY DEF DrainInv
<1>4. CallerInv
  BY DEF CallerInv, NoStrandedWaiter, WaitersSeeTheirRevision
<1> QED
  BY <1>1, <1>2, <1>3, <1>4 DEF IInv

-----------------------------------------------------------------------------
(* Every step preserves the types. *)
LEMMA StepTypeOK == TypeOK /\ [Next]_vars => TypeOK'
<1> SUFFICES ASSUME TypeOK, [Next]_vars PROVE TypeOK'
  OBVIOUS
<1> USE RevisionAssumption, CallerAssumption
<1>0. TypeOK
  OBVIOUS
<1>a. ASSUME RequestRebuild PROVE
        /\ revision' \in [observed : Revisions, accepted : Revisions, published : Revisions]
        /\ revision'.observed \in Revisions
        /\ active' \in Revisions /\ queued' \in Revisions /\ failure' \in Revisions
        /\ loop' \in LoopStates /\ aborted' \in BOOLEAN /\ phase' \in Phases
        /\ snapshot' \in Revisions /\ exclusiveOperation' = exclusiveOperation
        /\ UNCHANGED <<shutdownState, drain>>
  <2>1. revision.observed + 1 \in Revisions
    BY <1>0, <1>a DEF RequestRebuild, AcceptsRequest, TypeOK, Revisions
  <2>2. revision' \in [observed : Revisions, accepted : Revisions, published : Revisions]
    BY <1>0, <1>a, <2>1 DEF RequestRebuild, NextRevision, TypeOK
  <2>3. revision'.observed \in Revisions
    BY <2>2
  <2>4. /\ active' \in Revisions /\ queued' \in Revisions
        /\ loop' \in LoopStates /\ phase' \in Phases
    BY <1>0, <1>a, <2>1 DEF RequestRebuild, NextRevision, TypeOK, StartLoop, TakeIntent, MayAnalyse,
       LoopStates, Phases, Revisions
  <2>5. aborted' \in BOOLEAN
    BY <1>a DEF RequestRebuild, StartLoop, TakeIntent
  <2> QED
    BY <1>0, <1>a, <2>2, <2>3, <2>4, <2>5 DEF RequestRebuild, TypeOK, Revisions
<1>b. ASSUME NEW ph \in Phases, NextIteration(ph), exclusiveOperation' = exclusiveOperation
      PROVE /\ active' \in Revisions /\ queued' \in Revisions
            /\ loop' \in LoopStates /\ aborted' \in BOOLEAN /\ phase' \in Phases
  <2>1. /\ active' \in Revisions /\ queued' \in Revisions
        /\ loop' \in LoopStates /\ phase' \in Phases
    BY <1>0, <1>b DEF NextIteration, SettledPhase, TakeIntent, MayAnalyse, TypeOK, LoopStates,
       Phases, Revisions
  <2>2. aborted' \in BOOLEAN
    BY <1>b DEF NextIteration, TakeIntent
  <2> QED
    BY <2>1, <2>2
<1>c. ASSUME NEW released \in SUBSET Callers,
             NEW outcome \in [Callers -> CallerStates], ReleaseWaiters(released, outcome)
      PROVE waiters' \subseteq Callers /\ pc' \in [Callers -> CallerStates]
  BY <1>0, <1>c DEF ReleaseWaiters, TypeOK
<1>d. Resolved \in [Callers -> CallerStates] /\ Rejected \in [Callers -> CallerStates]
  BY DEF Resolved, Rejected, CallerStates
<1>e. \A r : ReleasedBy(r) \in SUBSET Callers
  BY <1>0 DEF ReleasedBy, TypeOK
<1>1. CASE ScheduleRebuild
  BY <1>0, <1>1, <1>a DEF ScheduleRebuild, callerVars, TypeOK
<1>2. CASE PublishCandidate
  <2>1. revision' \in [observed : Revisions, accepted : Revisions, published : Revisions]
    BY <1>0, <1>2 DEF PublishCandidate, TypeOK
  <2>2. snapshot' \in Revisions /\ failure' \in Revisions
    BY <1>0, <1>2 DEF PublishCandidate, TypeOK, Revisions
  <2>3. /\ active' \in Revisions /\ queued' \in Revisions
        /\ loop' \in LoopStates /\ aborted' \in BOOLEAN /\ phase' \in Phases
    BY <1>2, <1>b DEF PublishCandidate, Phases
  <2>4. waiters' \subseteq Callers /\ pc' \in [Callers -> CallerStates]
    BY <1>2, <1>c, <1>d, <1>e DEF PublishCandidate, ResolvePublishedWaiters
  <2>5. target' \in [Callers -> Revisions] /\ got' \in [Callers -> Revisions]
    BY <1>0, <1>2, <2>2 DEF PublishCandidate, ResolvePublishedWaiters, TypeOK
  <2> QED
    BY <1>0, <1>2, <2>1, <2>2, <2>3, <2>4, <2>5 DEF PublishCandidate, TypeOK
<1>3. CASE SupersedeCandidate
  BY <1>0, <1>3 DEF SupersedeCandidate, callerVars, TypeOK, LoopStates
<1>4. ASSUME IterationThrows, snapshot' \in {snapshot, active} PROVE TypeOK'
  <2>1. /\ active' \in Revisions /\ queued' \in Revisions
        /\ loop' \in LoopStates /\ aborted' \in BOOLEAN /\ phase' \in Phases
    BY <1>0, <1>4, <1>b DEF IterationThrows, TypeOK, Phases
  <2>2. waiters' \subseteq Callers /\ pc' \in [Callers -> CallerStates]
    BY <1>0, <1>4, <1>c, <1>d, <1>e DEF IterationThrows, RejectWaitersThrough, callerVars, TypeOK
  <2>3. UNCHANGED <<target, got>> /\ failure' \in Revisions
    BY <1>0, <1>4 DEF IterationThrows, RejectWaitersThrough, callerVars, TypeOK
  <2>4. snapshot' \in Revisions
    BY <1>0, <1>4 DEF TypeOK
  <2> QED
    BY <1>0, <1>4, <2>1, <2>2, <2>3, <2>4 DEF IterationThrows, TypeOK
<1>5. CASE DiscardCandidate
  BY <1>0, <1>5, <1>b DEF DiscardCandidate, callerVars, TypeOK
<1>6. CASE LoopSettles
  <2>1. pc' \in [Callers -> CallerStates]
    BY <1>0, <1>6 DEF LoopSettles, TypeOK, CallerStates
  <2>2. /\ active' \in Revisions /\ queued' \in Revisions
        /\ loop' \in LoopStates /\ phase' \in Phases
    BY <1>0, <1>6 DEF LoopSettles, TakeIntent, TypeOK, LoopStates, Phases, Revisions
  <2>3. aborted' \in BOOLEAN
    BY <1>0, <1>6 DEF LoopSettles, TakeIntent, TypeOK
  <2> QED
    BY <1>0, <1>6, <2>1, <2>2, <2>3 DEF LoopSettles, TypeOK
<1>7. ASSUME NEW c \in Callers, CallerStep(c) PROVE TypeOK'
  <2>1. CASE RebuildAndPublish(c)
    <3>1. pc' \in [Callers -> CallerStates] /\ waiters' \subseteq Callers
      BY <1>0, <2>1 DEF RebuildAndPublish, TypeOK, CallerStates
    <3>2. target' \in [Callers -> Revisions]
      BY <1>0, <1>a, <2>1 DEF RebuildAndPublish, TypeOK
    <3> QED
      BY <1>0, <1>a, <2>1, <3>1, <3>2 DEF RebuildAndPublish, TypeOK
  <2>2. ASSUME NEW t \in 1..MaxRevision, WaitForRevision(c, t) PROVE TypeOK'
    <3>1. pc' \in [Callers -> CallerStates] /\ waiters' \subseteq Callers
      BY <1>0, <2>2 DEF WaitForRevision, AwaitRevision, TypeOK, CallerStates
    <3>2. target' \in [Callers -> Revisions] /\ got' \in [Callers -> Revisions]
      BY <1>0, <2>2 DEF WaitForRevision, AwaitRevision, TypeOK, Revisions
    <3> QED
      BY <1>0, <2>2, <3>1, <3>2 DEF WaitForRevision, analysisVars, TypeOK
  <2>3. CASE InterruptWait(c)
    BY <1>0, <2>3 DEF InterruptWait, analysisVars, TypeOK, CallerStates
  <2>4. CASE Return(c)
    <3>1. target' \in [Callers -> Revisions] /\ got' \in [Callers -> Revisions]
      BY <1>0, <2>4 DEF Return, TypeOK, Revisions
    <3> QED
      BY <1>0, <2>4, <3>1 DEF Return, analysisVars, TypeOK, CallerStates
  <2>5. CASE RefuseWhileStopping(c)
    BY <1>0, <2>5 DEF RefuseWhileStopping, analysisVars, TypeOK, CallerStates
  <2>6. ASSUME NEW next \in CallerStates, ContinueIdleWait(c, next) PROVE TypeOK'
    <3>1. target' \in [Callers -> Revisions]
      BY <1>0, <2>6 DEF ContinueIdleWait, TypeOK
    <3> QED
      BY <1>0, <2>6, <3>1 DEF ContinueIdleWait, analysisVars, TypeOK
  <2>7. TopOfIdleWait \in CallerStates
    BY DEF TopOfIdleWait, CallerStates
  <2>8. AfterIdleRevision \in CallerStates /\ AfterIdleLoop \in CallerStates
    BY <2>7 DEF AfterIdleRevision, AfterIdleLoop, CallerStates
  <2>9. CASE RequestOperation(c)
    <3>1. (IF exclusiveOperation # NoOperation THEN "rejected" ELSE TopOfIdleWait) \in CallerStates
      BY <2>7 DEF CallerStates
    <3> QED
      BY <2>6, <2>9, <3>1 DEF RequestOperation
  <2>10. CASE ResumeAfterRevision(c) \/ ResumeAfterLoop(c)
    BY <2>6, <2>8, <2>10 DEF ResumeAfterRevision, ResumeAfterLoop
  <2>11. CASE ClaimOperation(c)
    BY <1>0, <2>11 DEF ClaimOperation, analysisVars, TypeOK, CallerStates
  <2>12. CASE FinishOperation(c)
    <3>1. target' \in [Callers -> Revisions] /\ got' \in [Callers -> Revisions]
      BY <1>0, <2>12 DEF FinishOperation, TypeOK, Revisions
    <3>2. /\ active' \in Revisions /\ queued' \in Revisions
          /\ loop' \in LoopStates /\ phase' \in Phases
      BY <1>0, <2>12 DEF FinishOperation, ResumesAnalysis, StartLoop, TakeIntent, TypeOK,
         LoopStates, Phases, Revisions
    <3>4. aborted' \in BOOLEAN
      BY <1>0, <2>12 DEF FinishOperation, ResumesAnalysis, StartLoop, TakeIntent, TypeOK
    <3>3. pc' \in [Callers -> CallerStates]
      BY <1>0, <2>12 DEF FinishOperation, TypeOK, CallerStates
    <3> QED
      BY <1>0, <2>12, <3>1, <3>2, <3>3, <3>4 DEF FinishOperation, TypeOK
  <2> QED
    BY <1>7, <2>1, <2>2, <2>3, <2>4, <2>5, <2>9, <2>10, <2>11, <2>12 DEF CallerStep
<1>8. CASE BeginShutdown
  <2>1. waiters \in SUBSET Callers
    BY <1>0 DEF TypeOK
  <2>2. waiters' \subseteq Callers /\ pc' \in [Callers -> CallerStates]
    BY <1>8, <1>c, <1>d, <2>1 DEF BeginShutdown
  <2> QED
    BY <1>0, <1>8, <2>2 DEF BeginShutdown, TypeOK, Revisions, Phases
<1>9. CASE WaitForIdleReturns
  BY <1>0, <1>9 DEF WaitForIdleReturns, analysisVars, callerVars, TypeOK
<1>10. CASE FinishShutdown
  BY <1>0, <1>10 DEF FinishShutdown, callerVars, TypeOK, Phases
<1>11. CASE UNCHANGED vars
  BY <1>0, <1>11 DEF vars, TypeOK
<1> QED
  BY <1>1, <1>2, <1>3, <1>4, <1>5, <1>6, <1>7, <1>8, <1>9, <1>10, <1>11
     DEF Next, LoopStep, ShutdownStep, RebuildThrows, DiscardThrows, InventoryThrows

-----------------------------------------------------------------------------
(* The initial state and every step have the types of TypeOK. *)
THEOREM TypeCorrect == SafetySpec => []TypeOK
<1>1. Init => TypeOK
  BY InitIInv DEF IInv
<1> QED
  BY <1>1, StepTypeOK, PTL DEF SafetySpec

-----------------------------------------------------------------------------
(* Every step keeps revisions, the loop, the abort signal and the phase in
   agreement. *)
LEMMA StepAnalysisInv == IInv /\ [Next]_vars => AnalysisInv'
<1> SUFFICES ASSUME IInv, [Next]_vars PROVE AnalysisInv'
  OBVIOUS
<1> USE RevisionAssumption, CallerAssumption
<1>0. TypeOK /\ AnalysisInv
  BY DEF IInv
<1> USE DEF AnalysisInv, WorkIsNumbered, AbortMeansSuperseded, FailureIsAboutTheNewest,
            NewestRevisionIsOwned, PhaseAgreesWithRevisions, Running, Undecided
<1>t. /\ revision.observed \in Nat /\ revision.published \in Nat /\ snapshot \in Nat
      /\ active \in Nat /\ queued \in Nat /\ failure \in Nat
      /\ shutdownState \in {"running", "stopping", "stopped"}
  BY <1>0 DEF TypeOK, Revisions
<1>a. ASSUME RequestRebuild PROVE AnalysisInv'
  <2>1. /\ revision'.observed = revision.observed + 1
        /\ revision'.published = revision.published
    BY <1>0, <1>a DEF RequestRebuild, NextRevision, TypeOK
  <2>2. /\ Running /\ Running' /\ failure' = 0 /\ snapshot' = snapshot
        /\ exclusiveOperation' = exclusiveOperation
    BY <1>a DEF RequestRebuild, AcceptsRequest
  <2>3. CASE loop = "none" /\ exclusiveOperation = NoOperation
    <3>1. /\ active' = revision.observed + 1 /\ queued' = 0 /\ ~aborted'
          /\ loop' = "building" /\ phase' = "refreshing"
      BY <1>t, <1>a, <2>2, <2>3 DEF RequestRebuild, NextRevision, StartLoop, MayAnalyse, TakeIntent
    <3> QED
      BY <1>0, <1>t, <2>1, <2>2, <3>1
  <2>4. CASE ~(loop = "none" /\ exclusiveOperation = NoOperation)
    <3>1. /\ queued' = revision.observed + 1 /\ active' = active /\ loop' = loop
          /\ phase' = "refreshing"
      BY <1>a, <2>2, <2>4 DEF RequestRebuild, NextRevision, StartLoop, MayAnalyse
    <3>2. aborted' <=> active # 0
      BY <1>a, <2>2, <2>4 DEF RequestRebuild, StartLoop, MayAnalyse
    <3> QED
      BY <1>0, <1>t, <2>1, <2>2, <2>4, <3>1, <3>2
  <2> QED
    BY <2>3, <2>4
<1>b. ASSUME UNCHANGED <<revision, snapshot, failure, exclusiveOperation, shutdownState>>,
             UNCHANGED analysisVars
      PROVE AnalysisInv'
  BY <1>0, <1>b DEF analysisVars
<1>1. CASE ScheduleRebuild
  BY <1>1, <1>a DEF ScheduleRebuild
<1>2. CASE PublishCandidate
  <2>1. revision'.published = active /\ revision'.observed = revision.observed
    BY <1>0, <1>2 DEF PublishCandidate, TypeOK
  <2>2. /\ queued = 0 /\ active = revision.observed /\ active # 0 /\ ~aborted
        /\ Running /\ Running'
    BY <1>0, <1>t, <1>2 DEF PublishCandidate, IsNewest
  <2>3. /\ active' = 0 /\ aborted' = FALSE /\ queued' = 0 /\ loop' = "settled"
        /\ phase' = "ready" /\ failure' = 0 /\ snapshot' = active
    BY <1>2, <2>1, <2>2 DEF PublishCandidate, NextIteration, SettledPhase, MayAnalyse
  <2> QED
    BY <1>t, <2>1, <2>2, <2>3
<1>3. CASE SupersedeCandidate
  BY <1>0, <1>t, <1>3 DEF SupersedeCandidate, IsNewest
<1>4. ASSUME loop \in {"building", "discarding"}, IterationThrows,
             snapshot' = snapshot \/ snapshot' = active
      PROVE  AnalysisInv'
  BY <1>0, <1>t, <1>4 DEF IterationThrows, IgnoresError, NextIteration, SettledPhase,
     MayAnalyse, TakeIntent
<1>5. CASE DiscardCandidate
  BY <1>0, <1>t, <1>5 DEF DiscardCandidate, NextIteration, SettledPhase, MayAnalyse, TakeIntent
<1>6. CASE LoopSettles
  BY <1>0, <1>t, <1>6 DEF LoopSettles, RestartsFor, MayAnalyse, TakeIntent
<1>7. ASSUME NEW c \in Callers, CallerStep(c) PROVE AnalysisInv'
  <2>1. CASE RebuildAndPublish(c)
    BY <1>a, <2>1 DEF RebuildAndPublish
  <2>2. CASE \E t \in 1..MaxRevision : WaitForRevision(c, t)
    BY <1>b, <2>2 DEF WaitForRevision
  <2>3. CASE InterruptWait(c) \/ Return(c) \/ RefuseWhileStopping(c)
    BY <1>b, <2>3 DEF InterruptWait, Return, RefuseWhileStopping
  <2>4. CASE RequestOperation(c) \/ ResumeAfterRevision(c) \/ ResumeAfterLoop(c)
    BY <1>b, <2>4 DEF RequestOperation, ResumeAfterRevision, ResumeAfterLoop, ContinueIdleWait
  <2>5. CASE ClaimOperation(c)
    BY <1>0, <2>5 DEF ClaimOperation, MayClaim, analysisVars
  <2>6. CASE FinishOperation(c)
    BY <1>0, <1>t, <2>6 DEF FinishOperation, ResumesAnalysis, StartLoop, MayAnalyse, TakeIntent
  <2> QED
    BY <1>7, <2>1, <2>2, <2>3, <2>4, <2>5, <2>6 DEF CallerStep
<1>8. CASE BeginShutdown
  BY <1>0, <1>t, <1>8 DEF BeginShutdown
<1>9. CASE WaitForIdleReturns
  BY <1>b, <1>9 DEF WaitForIdleReturns
<1>10. CASE FinishShutdown
  <2>1. ~Running
    BY <1>10 DEF IInv, DrainInv, FinishShutdown
  <2> QED
    BY <1>0, <1>t, <1>10, <2>1 DEF FinishShutdown
<1>11. CASE UNCHANGED vars
  BY <1>b, <1>11 DEF vars, analysisVars
<1> QED
  BY <1>1, <1>2, <1>3, <1>4, <1>5, <1>6, <1>7, <1>8, <1>9, <1>10, <1>11
     DEF Next, LoopStep, ShutdownStep, RebuildThrows, DiscardThrows, InventoryThrows

-----------------------------------------------------------------------------
(* Every step keeps the progress of shutdown in agreement with the work. *)
LEMMA StepDrainInv == IInv /\ [Next]_vars => DrainInv'
<1> SUFFICES ASSUME IInv, [Next]_vars PROVE DrainInv'
  OBVIOUS
<1>0. DrainInv /\ shutdownState \in {"running", "stopping", "stopped"}
  BY DEF IInv, TypeOK
<1>b. ASSUME UNCHANGED <<exclusiveOperation, shutdownState, drain, active, queued, loop>>
      PROVE DrainInv'
  BY <1>0, <1>b DEF DrainInv, Busy, Running
<1>c. ASSUME Running, UNCHANGED <<shutdownState, drain>> PROVE DrainInv'
  BY <1>0, <1>c DEF DrainInv, Running
<1>d. ASSUME Busy, UNCHANGED <<shutdownState, drain>> PROVE DrainInv'
  BY <1>0, <1>d DEF DrainInv, Running
<1>1. CASE ScheduleRebuild
  BY <1>c, <1>1 DEF ScheduleRebuild, RequestRebuild, AcceptsRequest
<1>2. CASE LoopStep
  <2>1. Busy /\ UNCHANGED <<shutdownState, drain>>
    BY <1>2 DEF LoopStep, PublishCandidate, SupersedeCandidate, RebuildThrows, DiscardThrows,
       InventoryThrows, IterationThrows, DiscardCandidate, LoopSettles, Busy
  <2> QED
    BY <1>d, <2>1
<1>3. ASSUME NEW c \in Callers, CallerStep(c) PROVE DrainInv'
  <2>1. CASE RebuildAndPublish(c)
    BY <1>c, <2>1 DEF RebuildAndPublish, RequestRebuild, AcceptsRequest
  <2>2. CASE \E t \in 1..MaxRevision : WaitForRevision(c, t)
    BY <1>b, <2>2 DEF WaitForRevision, analysisVars
  <2>3. CASE InterruptWait(c) \/ Return(c) \/ RefuseWhileStopping(c)
    BY <1>b, <2>3 DEF InterruptWait, Return, RefuseWhileStopping, analysisVars
  <2>4. CASE RequestOperation(c) \/ ResumeAfterRevision(c) \/ ResumeAfterLoop(c)
    BY <1>b, <2>4 DEF RequestOperation, ResumeAfterRevision, ResumeAfterLoop, ContinueIdleWait,
       analysisVars
  <2>5. CASE ClaimOperation(c)
    BY <1>b, <1>c, <2>5 DEF ClaimOperation, MayClaim, analysisVars
  <2>6. CASE FinishOperation(c)
    <3>1. exclusiveOperation = c /\ c # NoOperation
      BY <2>6, CallerAssumption DEF FinishOperation, IInv, CallerInv
    <3> QED
      BY <1>d, <2>6, <3>1 DEF FinishOperation, Busy
  <2> QED
    BY <1>3, <2>1, <2>2, <2>3, <2>4, <2>5, <2>6 DEF CallerStep
<1>4. CASE BeginShutdown
  BY <1>4 DEF BeginShutdown, DrainInv, Running
<1>5. CASE WaitForIdleReturns
  BY <1>0, <1>5 DEF WaitForIdleReturns, IdleForShutdown, DrainInv, Busy, Running, analysisVars
<1>6. CASE FinishShutdown
  BY <1>0, <1>6 DEF FinishShutdown, DrainInv, Busy, Running
<1>7. CASE UNCHANGED vars
  BY <1>b, <1>7 DEF vars
<1> QED
  BY <1>1, <1>2, <1>3, <1>4, <1>5, <1>6, <1>7 DEF Next, ShutdownStep

-----------------------------------------------------------------------------
(* Every step keeps each caller in agreement with the manager. *)
LEMMA StepCallerInv == IInv /\ [Next]_vars => CallerInv'
<1> SUFFICES ASSUME IInv, [Next]_vars PROVE CallerInv'
  OBVIOUS
<1> USE CallerAssumption
<1>0. TypeOK /\ AnalysisInv /\ CallerInv
  BY DEF IInv
<1>t. /\ revision.observed \in Nat /\ revision.published \in Nat
      /\ active \in Nat /\ queued \in Nat /\ failure \in Nat
      /\ target \in [Callers -> Nat] /\ got \in [Callers -> Nat]
      /\ pc \in [Callers -> CallerStates] /\ waiters \subseteq Callers
  BY <1>0 DEF TypeOK, Revisions
<1> USE DEF CallerInv, NoStrandedWaiter, WaitersSeeTheirRevision, Running
<1>b. ASSUME UNCHANGED <<revision, failure, exclusiveOperation, shutdownState>>,
             UNCHANGED callerVars
      PROVE CallerInv'
  BY <1>0, <1>b DEF callerVars
<1>r. ASSUME RequestRebuild
      PROVE /\ revision'.observed = revision.observed + 1
            /\ revision'.published = revision.published
            /\ failure' = 0 /\ UNCHANGED <<exclusiveOperation, shutdownState>> /\ Running
  BY <1>0, <1>r DEF RequestRebuild, AcceptsRequest, NextRevision, TypeOK
<1>1. CASE ScheduleRebuild
  BY <1>0, <1>t, <1>1, <1>r DEF ScheduleRebuild, callerVars
<1>2. CASE PublishCandidate
  <2>1. /\ snapshot' = revision'.published /\ revision'.published \in Nat
        /\ Running /\ Running' /\ failure' = 0
        /\ UNCHANGED <<exclusiveOperation, target>>
    BY <1>0, <1>t, <1>2 DEF PublishCandidate, ResolvePublishedWaiters, TypeOK
  <2> DEFINE released == {c \in waiters : target[c] <= revision'.published}
  <2>2. /\ waiters' = waiters \ released
        /\ pc' = [c \in Callers |-> IF c \in released
                     THEN IF pc[c] = "idleRevisionWait" THEN "idleRevisionResume" ELSE "resolved"
                     ELSE pc[c]]
        /\ got' = [c \in Callers |-> IF c \in released THEN snapshot' ELSE got[c]]
    BY <1>2, <1>t DEF PublishCandidate, ResolvePublishedWaiters, ReleasedBy, ReleaseWaiters, Resolved
  <2> QED
    BY <1>0, <1>t, <2>1, <2>2
<1>3. CASE SupersedeCandidate
  BY <1>b, <1>3 DEF SupersedeCandidate
<1>4. ASSUME IterationThrows PROVE CallerInv'
  <2>1. CASE UNCHANGED failure /\ UNCHANGED callerVars
    BY <1>b, <1>4, <2>1 DEF IterationThrows
  <2>2. CASE failure' = active /\ RejectWaitersThrough(active)
    <3>1. /\ waiters' = waiters \ {c \in waiters : target[c] <= active}
          /\ pc' = [c \in Callers |-> IF c \in {d \in waiters : target[d] <= active}
                       THEN "rejected" ELSE pc[c]]
          /\ UNCHANGED <<target, got>>
      BY <2>2, <1>t DEF RejectWaitersThrough, ReleasedBy, ReleaseWaiters, Rejected
    <3> QED
      BY <1>0, <1>t, <1>4, <2>2, <3>1 DEF IterationThrows
  <2> QED
    BY <1>4, <2>1, <2>2 DEF IterationThrows
<1>5. CASE DiscardCandidate
  BY <1>b, <1>5 DEF DiscardCandidate
<1>6. CASE LoopSettles
  BY <1>0, <1>t, <1>6 DEF LoopSettles
<1>7. ASSUME NEW c \in Callers, CallerStep(c) PROVE CallerInv'
  <2>1. CASE RebuildAndPublish(c)
    <3>1. revision'.observed > revision'.published
      BY <1>0, <1>t, <1>r, <2>1 DEF RebuildAndPublish, AnalysisInv, WorkIsNumbered
    <3> QED
      BY <1>0, <1>t, <1>r, <2>1, <3>1 DEF RebuildAndPublish
  <2>2. ASSUME NEW t \in 1..MaxRevision, WaitForRevision(c, t) PROVE CallerInv'
    <3>1. t \in Nat /\ t > 0
      BY RevisionAssumption
    <3>2. FailedSince(t) \/ t > failure
      BY <1>0, <1>t, <3>1 DEF FailedSince, AnalysisInv, FailureIsAboutTheNewest, Undecided
    <3>3. snapshot \in Nat /\ revision.published <= snapshot
      BY <1>0 DEF AnalysisInv, WorkIsNumbered, TypeOK, Revisions
    <3> QED
      BY <1>0, <1>t, <2>2, <3>1, <3>2, <3>3 DEF WaitForRevision, AwaitRevision
  <2>3. CASE InterruptWait(c) \/ Return(c) \/ RefuseWhileStopping(c)
    BY <1>0, <1>t, <2>3 DEF InterruptWait, Return, RefuseWhileStopping
  <2>4. ASSUME NEW next \in CallerStates, ContinueIdleWait(c, next),
               pc[c] \in {"idle", "idleRevisionResume", "idleLoopResume"},
               next \notin {"spinning", "operating", "resolved"},
               next = "idleRevisionWait" =>
                 Running /\ revision.observed > revision.published
                   /\ ~FailedSince(revision.observed)
        PROVE  CallerInv'
    <3>1. c \notin waiters
      BY <1>0, <2>4
    <3>3. next = "idleRevisionWait" => revision.observed > failure
      BY <1>0, <1>t, <2>4 DEF FailedSince, AnalysisInv, FailureIsAboutTheNewest, Undecided,
         WorkIsNumbered
    <3> QED
      BY <1>0, <1>t, <2>4, <3>1, <3>3 DEF ContinueIdleWait
  <2>5. /\ TopOfIdleWait \in {"rejected", "idleRevisionWait", "idleLoopWait", "admitted"}
        /\ TopOfIdleWait = "idleRevisionWait" =>
             Running /\ revision.observed > revision.published /\ ~FailedSince(revision.observed)
    BY <1>0, <1>t DEF TopOfIdleWait, RebuildIdle, Undecided, AnalysisInv, WorkIsNumbered,
       AbortMeansSuperseded
  <2>6. CASE RequestOperation(c)
    <3> DEFINE next == IF exclusiveOperation # NoOperation THEN "rejected" ELSE TopOfIdleWait
    <3>1. next \in {"rejected", "idleRevisionWait", "idleLoopWait", "admitted"}
      BY <2>5
    <3>2. next \in CallerStates
      BY <3>1 DEF CallerStates
    <3> QED
      BY <2>4, <2>5, <2>6, <3>1, <3>2 DEF RequestOperation
  <2>7. CASE ResumeAfterRevision(c)
    <3>1. AfterIdleRevision \in {TopOfIdleWait, "idleLoopWait", "admitted"}
      BY DEF AfterIdleRevision
    <3>2. AfterIdleRevision \in CallerStates
      BY <2>5, <3>1 DEF CallerStates
    <3> QED
      BY <2>4, <2>5, <2>7, <3>1, <3>2 DEF ResumeAfterRevision
  <2>8. CASE ResumeAfterLoop(c)
    <3>1. AfterIdleLoop \in {TopOfIdleWait, "admitted"}
      BY DEF AfterIdleLoop
    <3>2. AfterIdleLoop \in CallerStates
      BY <2>5, <3>1 DEF CallerStates
    <3> QED
      BY <2>4, <2>5, <2>8, <3>1, <3>2 DEF ResumeAfterLoop
  <2>9. CASE ClaimOperation(c)
    BY <1>0, <1>t, <2>9 DEF ClaimOperation, MayClaim
  <2>10. CASE FinishOperation(c)
    BY <1>0, <1>t, <2>10 DEF FinishOperation
  <2> QED
    BY <1>7, <2>1, <2>2, <2>3, <2>6, <2>7, <2>8, <2>9, <2>10 DEF CallerStep
<1>8. CASE BeginShutdown
  <2>1. /\ waiters' = {}
        /\ pc' = [c \in Callers |-> IF c \in waiters THEN "rejected" ELSE pc[c]]
        /\ UNCHANGED <<target, got, exclusiveOperation>>
    BY <1>8, <1>t DEF BeginShutdown, ReleaseWaiters, Rejected
  <2> QED
    BY <1>0, <1>t, <2>1
<1>9. CASE WaitForIdleReturns
  BY <1>b, <1>9 DEF WaitForIdleReturns
<1>10. CASE FinishShutdown
  <2>1. ~Running
    BY <1>10 DEF IInv, DrainInv, FinishShutdown
  <2>2. waiters = {}
    BY <1>0, <2>1
  <2> QED
    BY <1>0, <1>10, <2>2 DEF FinishShutdown, callerVars
<1>11. CASE UNCHANGED vars
  BY <1>b, <1>11 DEF vars, callerVars
<1> QED
  BY <1>1, <1>2, <1>3, <1>4, <1>5, <1>6, <1>7, <1>8, <1>9, <1>10, <1>11
     DEF Next, LoopStep, ShutdownStep, RebuildThrows, DiscardThrows, InventoryThrows

-----------------------------------------------------------------------------
(* The invariant is inductive, so it holds in every reachable state. *)
THEOREM Invariance == SafetySpec => []IInv
<1>1. IInv /\ [Next]_vars => IInv'
  BY StepTypeOK, StepAnalysisInv, StepDrainInv, StepCallerInv DEF IInv
<1> QED
  BY InitIInv, <1>1, PTL DEF SafetySpec

(* No observed change is forgotten while the runtime runs: the newest one is
   published, queued, being analysed, or reported as failed. *)
THEOREM NewestRevisionOwned == SafetySpec => []NewestRevisionIsOwned
<1>1. IInv => NewestRevisionIsOwned
  BY DEF IInv, AnalysisInv
<1> QED
  BY Invariance, <1>1, PTL

(* No superseded or aborted analysis is ever reported as a failure. *)
THEOREM FailureAboutNewest == SafetySpec => []FailureIsAboutTheNewest
<1>1. IInv => FailureIsAboutTheNewest
  BY DEF IInv, AnalysisInv
<1> QED
  BY Invariance, <1>1, PTL

(* The phase shown to clients always agrees with the revisions. *)
THEOREM PhaseAgrees == SafetySpec => []PhaseAgreesWithRevisions
<1>1. IInv => PhaseAgreesWithRevisions
  BY DEF IInv, AnalysisInv
<1> QED
  BY Invariance, <1>1, PTL

(* Neither waitForIdle nor waitForRebuildIdle ever loops without an await. *)
THEOREM NoSpin == SafetySpec => []IdleWaitsNeverSpin
<1>1. IInv => IdleWaitsNeverSpin
  <2>1. ASSUME IInv, Undecided PROVE loop # "none" \/ exclusiveOperation # NoOperation
    BY <2>1 DEF IInv, AnalysisInv, AbortMeansSuperseded, Undecided
  <2> QED
    BY <2>1 DEF IInv, CallerInv, IdleWaitsNeverSpin
<1> QED
  BY Invariance, <1>1, PTL

(* No waiter stays registered for a revision that is published or failed, and
   none survives shutdown. *)
THEOREM NoneStranded == SafetySpec => []NoStrandedWaiter
<1>1. IInv => NoStrandedWaiter
  BY DEF IInv, CallerInv
<1> QED
  BY Invariance, <1>1, PTL

(* Every resolved waiter was handed a snapshot at least as new as it asked. *)
THEOREM WaitersSeeRevision == SafetySpec => []WaitersSeeTheirRevision
<1>1. IInv => WaitersSeeTheirRevision
  BY DEF IInv, CallerInv
<1> QED
  BY Invariance, <1>1, PTL

(* finishShutdown never throws once waitForIdle has returned, and a stopped
   manager owns no work and no waiter. *)
THEOREM CleanShutdown == SafetySpec => []ShutdownIsClean
<1>1. IInv => ShutdownIsClean
  <2>1. ASSUME IInv, shutdownState = "stopped" PROVE ~Busy /\ waiters = {}
    BY <2>1 DEF IInv, DrainInv, CallerInv, NoStrandedWaiter, Running
  <2> QED
    BY <2>1 DEF IInv, DrainInv, ShutdownIsClean
<1> QED
  BY Invariance, <1>1, PTL

-----------------------------------------------------------------------------
(* An operation and an analysis never overlap, provided that no change is
   requested by the job between waitForRebuildIdle's return and the claim: an
   admitted caller then still finds the manager idle when it claims. *)
AdmittedMeansIdle == \A c \in Callers : pc[c] = "admitted" /\ Running => RebuildIdle

OverlapInv == IInv /\ AdmittedMeansIdle /\ (exclusiveOperation # NoOperation => active = 0)

LEMMA StepOverlapInv ==
  ASSUME ~GapRequests
  PROVE  OverlapInv /\ [Next]_vars => OverlapInv'
<1> SUFFICES ASSUME OverlapInv, [Next]_vars PROVE OverlapInv'
  OBVIOUS
<1>0. IInv /\ TypeOK /\ IInv'
  BY StepTypeOK, StepAnalysisInv, StepDrainInv, StepCallerInv DEF IInv, OverlapInv
<1> USE CallerAssumption DEF AdmittedMeansIdle, Running, RebuildIdle, Undecided
<1>1. AdmittedMeansIdle /\ (exclusiveOperation # NoOperation => active = 0)
  BY DEF OverlapInv
<1>t. pc \in [Callers -> CallerStates]
  BY <1>0 DEF TypeOK
<1> SUFFICES AdmittedMeansIdle' /\ (exclusiveOperation # NoOperation => active = 0)'
  BY <1>0 DEF OverlapInv
<1> DEFINE Goal == AdmittedMeansIdle' /\ (exclusiveOperation # NoOperation => active = 0)'
<1>b. ASSUME UNCHANGED <<revision, exclusiveOperation, shutdownState, active, queued>>,
             \A c \in Callers : pc'[c] = "admitted" => pc[c] = "admitted" \/ RebuildIdle \/ ~Running
      PROVE Goal
  BY <1>1, <1>b
<1>a. ASSUME RequestRebuild,
             \A c \in Callers : pc'[c] = "admitted" => pc[c] = "admitted"
      PROVE Goal
  <2>1. \A c \in Callers : pc[c] # "admitted"
    BY <1>a DEF RequestRebuild, AcceptsRequest
  <2>2. exclusiveOperation' # NoOperation => active' = 0
    BY <1>1, <1>a DEF RequestRebuild, StartLoop, MayAnalyse, TakeIntent
  <2> QED
    BY <1>a, <2>1, <2>2
<1>c. ASSUME active # 0, ~Running \/ \A c \in Callers : pc'[c] = "admitted" => pc[c] = "admitted",
             exclusiveOperation' = exclusiveOperation, shutdownState' = shutdownState
      PROVE Goal
  BY <1>1, <1>c
<1>2. CASE ScheduleRebuild
  BY <1>a, <1>2 DEF ScheduleRebuild, callerVars
<1>3. ASSUME loop \in {"building", "discarding"}, LoopStep PROVE Goal
  <2>1. active # 0
    BY <1>0, <1>3 DEF IInv, AnalysisInv, AbortMeansSuperseded
  <2>2. exclusiveOperation' = exclusiveOperation /\ shutdownState' = shutdownState
    BY <1>3 DEF LoopStep, PublishCandidate, SupersedeCandidate, RebuildThrows, DiscardThrows,
       InventoryThrows, IterationThrows, DiscardCandidate, LoopSettles
  <2>3. \A c \in Callers : pc'[c] = "admitted" => pc[c] = "admitted"
    BY <1>t, <1>3 DEF LoopStep, PublishCandidate, SupersedeCandidate, RebuildThrows, DiscardThrows,
       InventoryThrows, IterationThrows, DiscardCandidate, LoopSettles, callerVars, ResolvePublishedWaiters,
       RejectWaitersThrough, ReleaseWaiters, Resolved, Rejected
  <2> QED
    BY <1>c, <2>1, <2>2, <2>3
<1>4. ASSUME loop \notin {"building", "discarding"}, LoopStep PROVE Goal
  <2>1. LoopSettles
    BY <1>4 DEF LoopStep, PublishCandidate, SupersedeCandidate, RebuildThrows, DiscardThrows,
       InventoryThrows, DiscardCandidate
  <2>2. \A c \in Callers : pc'[c] = "admitted" => pc[c] = "admitted"
    BY <1>t, <2>1 DEF LoopSettles
  <2>3. CASE RestartsFor(queued)
    BY <1>1, <2>1, <2>2, <2>3 DEF LoopSettles, RestartsFor, MayAnalyse, TakeIntent
  <2>4. CASE ~RestartsFor(queued)
    BY <1>b, <2>1, <2>2, <2>4 DEF LoopSettles
  <2> QED
    BY <2>3, <2>4
<1>5. ASSUME NEW c \in Callers, CallerStep(c) PROVE Goal
  <2>1. CASE RebuildAndPublish(c)
    BY <1>a, <1>t, <2>1 DEF RebuildAndPublish
  <2>2. CASE \E t \in 1..MaxRevision : WaitForRevision(c, t)
    BY <1>b, <1>t, <2>2 DEF WaitForRevision, AwaitRevision, analysisVars
  <2>3. CASE InterruptWait(c) \/ Return(c) \/ RefuseWhileStopping(c)
    BY <1>b, <1>t, <2>3 DEF InterruptWait, Return, RefuseWhileStopping, analysisVars
  <2>4. TopOfIdleWait = "admitted" => RebuildIdle
    BY DEF TopOfIdleWait
  <2>5. AfterIdleRevision = "admitted" => RebuildIdle
    BY <2>4 DEF AfterIdleRevision
  <2>6. AfterIdleLoop = "admitted" => RebuildIdle
    BY <2>4 DEF AfterIdleLoop
  <2>7. ASSUME NEW next, ContinueIdleWait(c, next), next = "admitted" => RebuildIdle PROVE Goal
    BY <1>b, <1>t, <2>7 DEF ContinueIdleWait, analysisVars
  <2>8. CASE RequestOperation(c)
    BY <2>4, <2>7, <2>8 DEF RequestOperation
  <2>9. CASE ResumeAfterRevision(c) \/ ResumeAfterLoop(c)
    BY <2>5, <2>6, <2>7, <2>9 DEF ResumeAfterRevision, ResumeAfterLoop
  <2>10. CASE ClaimOperation(c)
    BY <1>1, <1>t, <2>10 DEF ClaimOperation, MayClaim, analysisVars
  <2>11. CASE FinishOperation(c)
    <3>1. exclusiveOperation' = NoOperation
      BY <1>0, <2>11 DEF FinishOperation, IInv, CallerInv
    <3>2. \A d \in Callers : pc'[d] = "admitted" => pc[d] = "admitted"
      BY <1>t, <2>11 DEF FinishOperation
    <3>3. CASE RebuildIdle
      BY <3>1, <3>2, <3>3, <1>1, <1>0, <2>11 DEF FinishOperation, ResumesAnalysis, StartLoop,
         MayAnalyse, TakeIntent
    <3>4. CASE ~RebuildIdle
      BY <3>1, <3>2, <3>4, <1>1, <2>11 DEF FinishOperation
    <3> QED
      BY <3>3, <3>4
  <2> QED
    BY <1>5, <2>1, <2>2, <2>3, <2>8, <2>9, <2>10, <2>11 DEF CallerStep
<1>6. CASE BeginShutdown
  BY <1>1, <1>6 DEF BeginShutdown
<1>7. CASE WaitForIdleReturns
  BY <1>b, <1>7 DEF WaitForIdleReturns, analysisVars, callerVars
<1>8. CASE FinishShutdown
  <2>1. ~Running
    BY <1>0, <1>8 DEF IInv, DrainInv, FinishShutdown
  <2> QED
    BY <1>1, <1>8, <2>1 DEF FinishShutdown
<1>9. CASE UNCHANGED vars
  BY <1>b, <1>9 DEF vars
<1> QED
  BY <1>2, <1>3, <1>4, <1>5, <1>6, <1>7, <1>8, <1>9 DEF Next, ShutdownStep

(* Project analysis and an exclusive operation never overlap, when no request
   falls into the gap before the claim. *)
THEOREM NeverOverlap ==
  ASSUME ~GapRequests
  PROVE  SafetySpec => []NoOverlap
<1>1. Init => OverlapInv
  BY InitIInv DEF Init, OverlapInv, AdmittedMeansIdle
<1>2. OverlapInv /\ [Next]_vars => OverlapInv'
  BY StepOverlapInv
<1>3. OverlapInv => NoOverlap
  BY DEF OverlapInv, NoOverlap, IInv, CallerInv
<1> QED
  BY <1>1, <1>2, <1>3, PTL DEF SafetySpec

-----------------------------------------------------------------------------
(* What one step may do to the revisions: observe, publish or fail the newest,
   close, or leave them alone. *)
LEMMA RevisionStep ==
  ASSUME IInv, [Next]_vars
  PROVE  \/ /\ Running /\ Running' /\ revision.observed < MaxRevision
            /\ revision'.observed = revision.observed + 1
            /\ revision'.published = revision.published
            /\ failure' = 0 /\ snapshot' = snapshot
         \/ /\ Running /\ Running' /\ revision.published < revision.observed /\ failure = 0
            /\ revision'.observed = revision.observed
            /\ revision'.published = revision.observed
            /\ snapshot' = revision.observed /\ failure' = 0
         \/ /\ Running /\ Running' /\ revision.published < revision.observed /\ failure = 0
            /\ failure' = revision.observed
            /\ snapshot' \in {snapshot, revision.observed} /\ UNCHANGED revision
         \/ /\ Running /\ ~Running'
            /\ UNCHANGED <<revision, snapshot, failure>>
         \/ /\ Running' = Running
            /\ UNCHANGED <<revision, snapshot, failure>>
<1> USE DEF Running
<1>0. TypeOK /\ AnalysisInv
  BY DEF IInv
<1>t. /\ revision.observed \in Nat /\ revision.published \in Nat /\ active \in Nat
      /\ failure \in Nat
  BY <1>0 DEF TypeOK, Revisions
<1>a. ASSUME RequestRebuild
      PROVE /\ Running /\ Running' /\ revision.observed < MaxRevision
            /\ revision'.observed = revision.observed + 1
            /\ revision'.published = revision.published
            /\ failure' = 0 /\ snapshot' = snapshot
  BY <1>0, <1>a DEF RequestRebuild, AcceptsRequest, NextRevision, TypeOK
<1>b. active # 0 => failure = 0 /\ revision.published < revision.observed
  BY <1>0, <1>t DEF AnalysisInv, WorkIsNumbered, FailureIsAboutTheNewest, Undecided
<1>c. ASSUME loop \in {"building", "discarding"}, IterationThrows,
             \/ UNCHANGED snapshot
             \/ Running /\ IsNewest(active) /\ snapshot' = active
      PROVE \/ /\ Running /\ Running' /\ revision.published < revision.observed /\ failure = 0
               /\ failure' = revision.observed
               /\ snapshot' \in {snapshot, revision.observed} /\ UNCHANGED revision
            \/ Running' = Running /\ UNCHANGED <<revision, snapshot, failure>>
  <2>1. active # 0
    BY <1>0, <1>c DEF AnalysisInv, AbortMeansSuperseded
  <2>2. ~IgnoresError => Running /\ active = revision.observed
    BY <1>0, <1>t, <2>1 DEF AnalysisInv, AbortMeansSuperseded, IgnoresError
  <2>3. Running /\ IsNewest(active) => active = revision.observed /\ ~IgnoresError
    BY <1>0, <1>t, <2>1 DEF AnalysisInv, AbortMeansSuperseded, IgnoresError, IsNewest
  <2> QED
    BY <1>b, <1>c, <2>1, <2>2, <2>3 DEF IterationThrows
<1>1. CASE ScheduleRebuild
  BY <1>1, <1>a DEF ScheduleRebuild
<1>2. CASE LoopStep
  <2>1. CASE PublishCandidate
    <3>1. active # 0
      BY <1>0, <2>1 DEF PublishCandidate, AnalysisInv, AbortMeansSuperseded
    <3> QED
      BY <1>0, <1>b, <2>1, <3>1 DEF PublishCandidate, IsNewest, TypeOK
  <2>2. CASE SupersedeCandidate \/ DiscardCandidate \/ LoopSettles
    BY <2>2 DEF SupersedeCandidate, DiscardCandidate, LoopSettles
  <2>3. CASE RebuildThrows \/ DiscardThrows \/ InventoryThrows
    BY <1>c, <2>3 DEF RebuildThrows, DiscardThrows, InventoryThrows
  <2> QED
    BY <1>2, <2>1, <2>2, <2>3 DEF LoopStep
<1>3. ASSUME NEW c \in Callers, CallerStep(c)
      PROVE \/ RequestRebuild
            \/ Running' = Running /\ UNCHANGED <<revision, snapshot, failure>>
  BY <1>3 DEF CallerStep, RebuildAndPublish, WaitForRevision, InterruptWait, Return,
     RefuseWhileStopping, RequestOperation, ResumeAfterRevision, ResumeAfterLoop,
     ContinueIdleWait, ClaimOperation, FinishOperation
<1>4. CASE BeginShutdown
  BY <1>4 DEF BeginShutdown
<1>5. CASE WaitForIdleReturns
  BY <1>5 DEF WaitForIdleReturns
<1>6. CASE FinishShutdown
  <2>1. ~Running
    BY <1>6 DEF IInv, DrainInv, FinishShutdown
  <2> QED
    BY <1>6, <2>1 DEF FinishShutdown
<1>7. CASE UNCHANGED vars
  BY <1>7 DEF vars
<1> QED
  BY <1>1, <1>2, <1>3, <1>4, <1>5, <1>6, <1>7, <1>a DEF Next, ShutdownStep

(* Publication only moves forward, only to the newest observed revision, only
   while running, and takes the snapshot with it. *)
THEOREM OnlyNewestPublished == SafetySpec => PublishesOnlyTheNewest
<1>1. ASSUME IInv, [Next]_vars, revision'.published # revision.published
      PROVE /\ Running
            /\ revision'.published = revision.observed
            /\ revision'.observed = revision.observed
            /\ revision'.published > revision.published
            /\ snapshot' = revision'.published
  <2>1. revision.published \in Nat /\ revision.observed \in Nat
    BY <1>1 DEF IInv, TypeOK, Revisions
  <2> QED
    BY <1>1, <2>1, RevisionStep
<1>2. IInv /\ [Next]_vars =>
        [revision'.published # revision.published =>
           /\ Running
           /\ revision'.published = revision.observed
           /\ revision'.observed = revision.observed
           /\ revision'.published > revision.published
           /\ snapshot' = revision'.published]_vars
  BY <1>1
<1> QED
  BY Invariance, <1>2, PTL DEF SafetySpec, PublishesOnlyTheNewest

(* The manager implements RevisionPublication: its initial state is an initial
   state there, and every step observes, publishes, fails, closes or stutters. *)
THEOREM PublicationRefinement == SafetySpec => PublicationSafety
<1>1. Init => Publication!Init
  BY DEF Init, Publication!Init, Running
<1>2. IInv /\ [Next]_vars => [Publication!Next]_(Publication!vars)
  <2> SUFFICES ASSUME IInv, [Next]_vars
               PROVE  Publication!Next \/ UNCHANGED Publication!vars
    OBVIOUS
  <2>1. Running \in BOOLEAN /\ Running' \in BOOLEAN
    BY DEF Running
  <2> QED
    BY RevisionStep, <2>1 DEF Publication!Next, Publication!Observe, Publication!Publish,
       Publication!Fail, Publication!Close, Publication!vars
<1> QED
  BY Invariance, <1>1, <1>2, PTL DEF SafetySpec, PublicationSafety, Publication!SafetySpec

(***************************************************************************)
(* Why there is one manager of a project's state: a runtime opens it only  *)
(* while it owns the project's worker lease (acquireProjectWorkerLease).   *)
(* Who owns the lease is RuntimeSupervision's subject, for any number of   *)
(* clients, workers, faults and deaths.                                    *)
(*                                                                         *)
(* That two workers do not own one project (SingleOwner) is not inductive: *)
(* it says nothing of a worker between the creation of its lease and the   *)
(* write, nor of whose lease there is. LeaseInv adds both. Whom the lease  *)
(* names is past its boot (LeaseFollowsBoot), and, until the lease of a    *)
(* live worker has been removed, whoever created a lease and still runs is *)
(* the one that it names (HolderIsNamed).                                  *)
(***************************************************************************)
CONSTANTS Starters, Stoppers, Service, MaxWorkers, MaxFaults, MaxDeaths, Attempts,
          RestartMaxAttempts, None
VARIABLES entry, ripe, lease, slock, todo, me, current, called, deaths, faults

Sup == INSTANCE RuntimeSupervision

OwnStages == {"own", "serve", "hung", "ending", "leaving"}
Unleased == {"unborn", "boot", "break"}
LeaseNames(p) == lease # None /\ lease.pid = p

LeaseTypesOK == worker \in [Sup!Workers -> Stages] /\ lease \in Sup!Lease \cup {None}
LeaseFollowsBoot == \A p \in Sup!Workers : LeaseNames(p) => worker[p] \notin Unleased
HolderIsNamed == lost \/ \A p \in Sup!Workers : worker[p] \in {"open"} \cup OwnStages => LeaseNames(p)
LeaseInv == LeaseTypesOK /\ LeaseFollowsBoot /\ HolderIsNamed

(* No worker acquires anything: each stays, dies, or goes on as an owner. *)
Onward ==
  /\ worker' \in [Sup!Workers -> Stages]
  /\ \A p \in Sup!Workers :
       \/ worker'[p] = worker[p] \/ worker'[p] = "dead"
       \/ worker[p] \in OwnStages /\ worker'[p] \in OwnStages

(* A lease that was created can be told from none. *)
LEMMA CreatedIsSome ==
  ASSUME Sup!Founded, NEW p \in Sup!Workers, NEW w \in BOOLEAN
  PROVE  [pid |-> p, written |-> w] \in Sup!Lease /\ [pid |-> p, written |-> w] # None
<1>1. [pid |-> p, written |-> w] \in Sup!Lease
  BY DEF Sup!Lease
<1>2. QED
  BY <1>1 DEF Sup!Founded

(* ---- What the helpers do to the workers ---- *)

(* The end of a process leaves the others as they are. *)
LEMMA EndedIsOnward ==
  ASSUME LeaseTypesOK, NEW p, Sup!Ended(p)
  PROVE  Onward
BY DEF LeaseTypesOK, Sup!Ended, Onward, Stages

(* SIGTERM makes nobody an owner. *)
LEMMA TerminatedIsOnward ==
  ASSUME LeaseTypesOK, NEW p, Sup!Terminated(p)
  PROVE  Onward
<1> DEFINE after(s) == CASE s = "serve" -> "ending"
                         [] s \in {"boot", "break", "open", "own"} -> "dead" [] OTHER -> s
<1>1. worker' = [worker EXCEPT ![p] = after(worker[p])]
  BY DEF Sup!Terminated
<1>2. \A s \in Stages :
        /\ after(s) \in Stages
        /\ after(s) = s \/ after(s) = "dead" \/ (s \in OwnStages /\ after(s) \in OwnStages)
  BY DEF Stages, OwnStages
<1>3. \A q \in Sup!Workers : worker'[q] = IF q = p THEN after(worker[q]) ELSE worker[q]
  BY <1>1 DEF LeaseTypesOK
<1>4. worker' \in [Sup!Workers -> Stages]
  BY <1>1, <1>2 DEF LeaseTypesOK
<1> HIDE DEF after
<1>5. QED
  BY <1>2, <1>3, <1>4 DEF LeaseTypesOK, Onward

(* ---- Steps that preserve the invariant for the same reason ---- *)

(* Workers only go on, and the lease is not touched. *)
LEMMA OnwardKeepsLease ==
  ASSUME LeaseInv, Onward, lease' = lease, lost' = lost
  PROVE  LeaseInv'
<1>1. LeaseTypesOK'
  BY DEF LeaseInv, LeaseTypesOK, Onward
<1>2. LeaseFollowsBoot'
  BY DEF LeaseInv, LeaseFollowsBoot, LeaseNames, Onward, Unleased, OwnStages
<1>3. HolderIsNamed'
  <2>1. CASE lost
    BY <2>1 DEF HolderIsNamed
  <2>2. CASE ~lost
    BY <2>2 DEF LeaseInv, HolderIsNamed, LeaseNames, Onward, OwnStages
  <2>3. QED
    BY <2>1, <2>2
<1>4. QED
  BY <1>1, <1>2, <1>3 DEF LeaseInv

(* One worker moves to a stage in which it holds nothing and starts nothing
   that a lease names.                                                        *)
LEMMA UnnamedKeepsLease ==
  ASSUME LeaseInv, NEW p \in Sup!Workers, NEW s \in Unleased, ~LeaseNames(p),
         Sup!Becomes(p, s), lease' = lease, lost' = lost
  PROVE  LeaseInv'
<1>1. \A q \in Sup!Workers : worker'[q] = IF q = p THEN s ELSE worker[q]
  BY DEF LeaseInv, LeaseTypesOK, Sup!Becomes
<1>2. LeaseTypesOK'
  BY DEF LeaseInv, LeaseTypesOK, Sup!Becomes, Unleased, Stages
<1>3. LeaseFollowsBoot'
  BY <1>1 DEF LeaseInv, LeaseFollowsBoot, LeaseNames
<1>4. HolderIsNamed'
  <2>1. CASE lost
    BY <2>1 DEF HolderIsNamed
  <2>2. CASE ~lost
    BY <1>1, <2>2 DEF LeaseInv, HolderIsNamed, LeaseNames, Unleased, OwnStages
  <2>3. QED
    BY <2>1, <2>2
<1>5. QED
  BY <1>2, <1>3, <1>4 DEF LeaseInv

(* A lease is removed: nobody held it, or that is remembered. *)
LEMMA RemovalKeepsLease ==
  ASSUME LeaseInv, NEW by, ~LeaseNames(by), Sup!RemoveLease(by),
         Onward \/ \E p \in Sup!Workers : worker[p] = "break" /\ Sup!Becomes(p, "boot")
  PROVE  LeaseInv'
<1>1. lease' = None /\ lost' = (lost \/ (Sup!LiveLease /\ lease.pid # by))
  BY DEF Sup!RemoveLease
<1>2. LeaseTypesOK'
  BY <1>1 DEF LeaseInv, LeaseTypesOK, Onward, Sup!Becomes, Stages
<1>3. LeaseFollowsBoot'
  BY <1>1 DEF LeaseFollowsBoot, LeaseNames
<1>4. ASSUME ~lost, ~(Sup!LiveLease /\ lease.pid # by), NEW p \in Sup!Workers
      PROVE  worker'[p] \notin {"open"} \cup OwnStages
  <2>1. worker[p] \notin {"open"} \cup OwnStages
    <3> SUFFICES ASSUME worker[p] \in {"open"} \cup OwnStages PROVE FALSE
      OBVIOUS
    <3>1. LeaseNames(p)
      BY <1>4 DEF LeaseInv, HolderIsNamed
    <3>2. Sup!Live(p)
      BY DEF Sup!Live, OwnStages
    <3>3. QED
      BY <3>1, <3>2, <1>4 DEF LeaseNames, Sup!LiveLease
  <2>2. QED
    BY <2>1 DEF Onward, Sup!Becomes, OwnStages, LeaseInv, LeaseTypesOK
<1>5. HolderIsNamed'
  BY <1>1, <1>4 DEF HolderIsNamed
<1>6. QED
  BY <1>2, <1>3, <1>5 DEF LeaseInv

(* A worker that ends after releasing its lease leaves nobody else without. *)
LEMMA ReleaseKeepsLease ==
  ASSUME LeaseInv, NEW p \in Sup!Workers, Sup!Release(p), Sup!Ended(p), lost' = lost
  PROVE  LeaseInv'
<1>1. lease' = lease \/ (LeaseNames(p) /\ lease' = None)
  BY DEF Sup!Release, LeaseNames
<1>2. \A q \in Sup!Workers : worker'[q] = IF q = p THEN "dead" ELSE worker[q]
  BY DEF LeaseInv, LeaseTypesOK, Sup!Ended
<1>3. LeaseTypesOK'
  BY <1>1 DEF LeaseInv, LeaseTypesOK, Sup!Ended, Stages
<1>4. LeaseFollowsBoot'
  BY <1>1, <1>2 DEF LeaseInv, LeaseFollowsBoot, LeaseNames, Unleased
<1>5. HolderIsNamed'
  <2>1. CASE lost
    BY <2>1 DEF HolderIsNamed
  <2>2. CASE ~lost
    BY <1>1, <1>2, <2>2 DEF LeaseInv, HolderIsNamed, LeaseNames, OwnStages
  <2>3. QED
    BY <2>1, <2>2
<1>6. QED
  BY <1>3, <1>4, <1>5 DEF LeaseInv

(* ---- The invariant ---- *)

LEMMA LeaseInvHoldsFirst ==
  ASSUME Sup!Founded, Sup!Init
  PROVE  LeaseInv
<1>1. PICK running \in BOOLEAN :
        /\ worker = [p \in Sup!Workers |-> IF running /\ p = 1 THEN "serve" ELSE "unborn"]
        /\ lease = IF running THEN [pid |-> 1, written |-> TRUE] ELSE None
  BY DEF Sup!Init
<1>2. 1 \in Sup!Workers
  BY DEF Sup!Founded, Sup!Workers
<1>3. LeaseTypesOK
  BY <1>1, <1>2 DEF LeaseTypesOK, Stages, Sup!Lease
<1>4. LeaseFollowsBoot
  BY <1>1, <1>2 DEF LeaseFollowsBoot, LeaseNames, Unleased
<1>5. HolderIsNamed
  <2>1. [pid |-> 1, written |-> TRUE] # None
    BY <1>2, CreatedIsSome
  <2>2. ASSUME NEW p \in Sup!Workers, worker[p] \in {"open"} \cup OwnStages PROVE running /\ p = 1
    BY <1>1, <2>2 DEF OwnStages
  <2>3. QED
    BY <1>1, <2>1, <2>2 DEF HolderIsNamed, LeaseNames
<1>6. QED
  BY <1>3, <1>4, <1>5 DEF LeaseInv

(* What clients and the service do changes the workers by spawning one or by
   signals, and the lease by removing it.                                     *)
LEMMA ActorsKeepLease ==
  ASSUME Sup!Founded, LeaseInv, NEW a \in Sup!Actors, Sup!Step(a)
  PROVE  LeaseInv'
<1> USE DEF LeaseInv
<1>1. ASSUME UNCHANGED <<worker, lease, lost>> PROVE LeaseInv'
  BY <1>1, OnwardKeepsLease DEF Onward, LeaseTypesOK
<1>2. CASE Sup!TakeLock(a) \/ Sup!BreakLock(a) \/ Sup!GiveUpLock(a)
           \/ Sup!Unlock(a) \/ Sup!BreakIdleLock(a) \/ Sup!Read(a) \/ Sup!ReadUnregistered(a)
  BY <1>1, <1>2 DEF Sup!TakeLock, Sup!BreakLock, Sup!GiveUpLock,
    Sup!Unlock, Sup!BreakIdleLock, Sup!Read, Sup!ReadUnregistered
<1>3. CASE Sup!ProbeAnswered(a) \/ Sup!ProbeFails(a) \/ Sup!ForgetVictim(a) \/ Sup!RetireUnreadable(a)
           \/ Sup!RetireRegistered(a) \/ Sup!StopUnregistered(a) \/ Sup!Choose(a)
  BY <1>1, <1>3 DEF Sup!ProbeAnswered, Sup!ProbeFails, Sup!ForgetVictim,
    Sup!RetireUnreadable, Sup!RetireRegistered, Sup!StopUnregistered, Sup!Choose
<1>4. CASE Sup!OtherIsReady(a) \/ Sup!OtherIsNot(a) \/ Sup!SpawnFails(a) \/ Sup!Register(a)
           \/ Sup!KidIsReady(a) \/ Sup!KidExited(a) \/ Sup!Return(a)
  BY <1>1, <1>4 DEF Sup!OtherIsReady, Sup!OtherIsNot, Sup!SpawnFails,
    Sup!Register, Sup!KidIsReady, Sup!KidExited, Sup!Return
<1>5. CASE Sup!Reap(a)
  <2>1. Sup!Ended(me[a].victim) /\ lease' = lease /\ lost' = lost
    BY <1>5 DEF Sup!Reap
  <2>2. QED
    BY <2>1, EndedIsOnward, OnwardKeepsLease
<1>6. CASE Sup!RetireOther(a)
  <2>1. Sup!Terminated(lease.pid) /\ lease' = lease /\ lost' = lost
    BY <1>6 DEF Sup!RetireOther
  <2>2. QED
    BY <2>1, TerminatedIsOnward, OnwardKeepsLease
<1>7. CASE Sup!Stop(a)
  <2>1. Sup!Terminated(entry.pid) /\ lease' = lease /\ lost' = lost
    BY <1>7 DEF Sup!Stop
  <2>2. QED
    BY <2>1, TerminatedIsOnward, OnwardKeepsLease
<1>8. CASE Sup!Confirm(a)
  <2>1. UNCHANGED <<worker, lease, lost>> \/ (Sup!Terminated(me[a].kid) /\ lease' = lease /\ lost' = lost)
    BY <1>8 DEF Sup!Confirm, Sup!Discard
  <2>2. QED
    BY <1>1, <2>1, TerminatedIsOnward, OnwardKeepsLease
<1>9. CASE Sup!KidIsLate(a)
  <2>1. Sup!Terminated(me[a].kid) /\ lease' = lease /\ lost' = lost
    BY <1>9 DEF Sup!KidIsLate, Sup!Discard
  <2>2. QED
    BY <2>1, TerminatedIsOnward, OnwardKeepsLease
<1>10. CASE Sup!DropLease(a)
  <2>1. Sup!RemoveLease(0) /\ UNCHANGED worker
    BY <1>10 DEF Sup!DropLease
  <2>2. ~LeaseNames(0)
    BY DEF Sup!Founded, LeaseTypesOK, LeaseNames, Sup!Lease, Sup!Workers
  <2>3. Onward
    BY <2>1 DEF Onward, LeaseTypesOK
  <2>4. QED
    BY <2>1, <2>2, <2>3, RemovalKeepsLease
<1>11. CASE Sup!Spawn(a)
  <2>1. PICK p \in Sup!Workers : worker[p] = "unborn" /\ Sup!Becomes(p, "boot")
    BY <1>11 DEF Sup!Spawn, Sup!Unborn, Sup!Becomes
  <2>2. lease' = lease /\ lost' = lost
    BY <1>11 DEF Sup!Spawn
  <2>3. ~LeaseNames(p)
    BY <2>1 DEF LeaseFollowsBoot, Unleased
  <2>4. QED
    BY <2>1, <2>2, <2>3, UnnamedKeepsLease DEF Unleased
<1>12. QED
  BY <1>2, <1>3, <1>4, <1>5, <1>6, <1>7, <1>8, <1>9, <1>10, <1>11 DEF Sup!Step

(* The reconciler, apart from its starts, only signals. *)
LEMMA ServiceKeepsLease ==
  ASSUME LeaseInv, Sup!ServiceStep
  PROVE  LeaseInv'
<1> USE DEF LeaseInv
<1>1. ASSUME UNCHANGED <<worker, lease, lost>> PROVE LeaseInv'
  BY <1>1, OnwardKeepsLease DEF Onward, LeaseTypesOK
<1>2. CASE Sup!Reconcile \/ Sup!KeepRegistered \/ Sup!ListPeers \/ Sup!Culled \/ Sup!JudgeFine
           \/ Sup!JudgeDue \/ Sup!JudgeUnhealthy \/ Sup!JudgeStale \/ Sup!Restarted
  BY <1>1, <1>2 DEF Sup!Reconcile, Sup!KeepRegistered, Sup!ListPeers, Sup!Culled,
    Sup!JudgeFine, Sup!JudgeDue, Sup!JudgeUnhealthy, Sup!JudgeStale, Sup!Restarted
<1>3. ASSUME NEW p \in Sup!Workers, Sup!Cull(p) PROVE LeaseInv'
  <2>1. Sup!Terminated(p) /\ lease' = lease /\ lost' = lost
    BY <1>3 DEF Sup!Cull
  <2>2. QED
    BY <2>1, TerminatedIsOnward, OnwardKeepsLease
<1>4. QED
  BY <1>2, <1>3 DEF Sup!ServiceStep

(* The steps of a worker: only here does anyone acquire the lease. *)
LEMMA WorkersKeepLease ==
  ASSUME Sup!Founded, LeaseInv, NEW p \in Sup!Workers,
         Sup!WorkerStep(p) \/ Sup!LeavesIdle(p) \/ Sup!BootFails(p) \/ Sup!Crashes(p) \/ Sup!Hangs(p)
  PROVE  LeaseInv'
<1> USE DEF LeaseInv
<1>1. CASE Sup!CreateLease(p)
  <2>1. lease = None /\ lease' = [pid |-> p, written |-> FALSE] /\ lost' = lost
    BY <1>1 DEF Sup!CreateLease
  <2>2. \A q \in Sup!Workers : worker'[q] = IF q = p THEN "open" ELSE worker[q]
    BY <1>1 DEF Sup!CreateLease, Sup!Becomes, LeaseTypesOK
  <2>3. lease' # None
    BY <2>1, CreatedIsSome
  <2>4. LeaseTypesOK'
    BY <1>1, <2>1 DEF Sup!CreateLease, Sup!Becomes, LeaseTypesOK, Sup!Lease, Stages
  <2>5. LeaseFollowsBoot'
    BY <2>1, <2>2 DEF LeaseFollowsBoot, LeaseNames, Unleased
  <2>6. HolderIsNamed'
    <3>1. CASE lost
      BY <3>1, <2>1 DEF HolderIsNamed
    <3>2. CASE ~lost
      BY <3>2, <2>1, <2>2, <2>3 DEF HolderIsNamed, LeaseNames
    <3>3. QED
      BY <3>1, <3>2
  <2>7. QED
    BY <2>4, <2>5, <2>6
<1>2. CASE Sup!WriteLease(p)
  <2>1. /\ worker[p] = "open" /\ lost' = lost
        /\ lease' = IF LeaseNames(p) THEN [lease EXCEPT !.written = TRUE] ELSE lease
    BY <1>2 DEF Sup!WriteLease, LeaseNames
  <2>2. \A q \in Sup!Workers :
          worker'[q] = IF q # p THEN worker[q] ELSE IF lease = None THEN "dead" ELSE "own"
    BY <1>2 DEF Sup!WriteLease, Sup!Becomes, LeaseTypesOK
  <2>3. lease' \in Sup!Lease \cup {None} /\ \A q \in Sup!Workers : LeaseNames(q)' <=> LeaseNames(q)
    BY <2>1 DEF Sup!Founded, LeaseTypesOK, LeaseNames, Sup!Lease
  <2>4. LeaseTypesOK'
    BY <1>2, <2>3 DEF Sup!WriteLease, Sup!Becomes, LeaseTypesOK, Stages
  <2>5. LeaseFollowsBoot'
    BY <2>2, <2>3 DEF LeaseFollowsBoot, Unleased
  <2>6. HolderIsNamed'
    <3>1. CASE lost
      BY <3>1, <2>1 DEF HolderIsNamed
    <3>2. CASE ~lost
      BY <3>2, <2>1, <2>2, <2>3 DEF HolderIsNamed
    <3>3. QED
      BY <3>1, <3>2
  <2>7. QED
    BY <2>4, <2>5, <2>6
<1>3. CASE Sup!FindDeadOwner(p)
  <2>1. worker[p] = "boot" /\ Sup!Becomes(p, "break") /\ lease' = lease /\ lost' = lost
    BY <1>3 DEF Sup!FindDeadOwner
  <2>2. ~LeaseNames(p)
    BY <2>1 DEF LeaseFollowsBoot, Unleased
  <2>3. QED
    BY <2>1, <2>2, UnnamedKeepsLease DEF Unleased
<1>4. CASE Sup!BreakLease(p)
  <2>1. worker[p] = "break" /\ Sup!Becomes(p, "boot") /\ Sup!RemoveLease(p)
    BY <1>4 DEF Sup!BreakLease
  <2>2. ~LeaseNames(p)
    BY <2>1 DEF LeaseFollowsBoot, Unleased
  <2>3. QED
    BY <2>1, <2>2, RemovalKeepsLease
<1>5. CASE Sup!Refused(p)
  BY <1>5, EndedIsOnward, OnwardKeepsLease DEF Sup!Refused
<1>6. CASE Sup!Serves(p) \/ Sup!LeavesOnSignal(p) \/ Sup!LeavesIdle(p) \/ Sup!Hangs(p)
  <2>1. lease' = lease /\ lost' = lost
    BY <1>6 DEF Sup!Serves, Sup!Leaves, Sup!LeavesOnSignal, Sup!LeavesIdle, Sup!Hangs
  <2>2. worker[p] \in OwnStages /\ \E s \in OwnStages : Sup!Becomes(p, s)
    BY <1>6 DEF Sup!Serves, Sup!Leaves, Sup!LeavesOnSignal, Sup!LeavesIdle, Sup!Hangs, OwnStages
  <2>3. Onward
    BY <2>2 DEF Onward, Sup!Becomes, LeaseTypesOK, OwnStages, Stages
  <2>4. QED
    BY <2>1, <2>3, OnwardKeepsLease
<1>7. CASE Sup!Exits(p) \/ Sup!BootFails(p)
  <2>1. Sup!Release(p) /\ Sup!Ended(p) /\ lost' = lost
    BY <1>7 DEF Sup!Exits, Sup!BootFails
  <2>2. QED
    BY <2>1, ReleaseKeepsLease
<1>8. CASE Sup!Crashes(p)
  BY <1>8, EndedIsOnward, OnwardKeepsLease DEF Sup!Crashes
<1>9. QED
  BY <1>1, <1>2, <1>3, <1>4, <1>5, <1>6, <1>7, <1>8 DEF Sup!WorkerStep

LEMMA NextKeepsLease ==
  ASSUME Sup!Founded, LeaseInv, [Sup!Next]_(Sup!vars)
  PROVE  LeaseInv'
<1>1. ASSUME UNCHANGED <<worker, lease, lost>> PROVE LeaseInv'
  BY <1>1, OnwardKeepsLease DEF Onward, LeaseTypesOK, LeaseInv
<1>2. CASE \E a \in Sup!Actors : Sup!Step(a)
  BY <1>2, ActorsKeepLease
<1>3. CASE Sup!ServiceStep
  BY <1>3, ServiceKeepsLease
<1>4. CASE \E p \in Sup!Workers :
             \/ Sup!WorkerStep(p) \/ Sup!LeavesIdle(p) \/ Sup!BootFails(p)
             \/ Sup!Crashes(p) \/ Sup!Hangs(p)
  BY <1>4, WorkersKeepLease
<1>5. CASE (\E c \in Sup!Clients : Sup!Call(c) \/ Sup!Killed(c)) \/ Sup!ServiceDies \/ Sup!TimePasses
  BY <1>1, <1>5 DEF Sup!Call, Sup!Killed, Sup!ServiceDies, Sup!TimePasses
<1>6. CASE UNCHANGED Sup!vars
  BY <1>1, <1>6 DEF Sup!vars
<1>7. QED
  BY <1>2, <1>3, <1>4, <1>5, <1>6 DEF Sup!Next

(* The property of the runs: two workers use one project's state only after the
   lease of a live one was removed.                                           *)
THEOREM OwnersAreExclusive ==
  ASSUME Sup!Founded
  PROVE  Sup!Spec => []OnlyALostLeaseIsShared
<1>1. LeaseInv => OnlyALostLeaseIsShared
  <2> SUFFICES ASSUME LeaseInv, ~lost, NEW p \in Sup!Workers, NEW q \in Sup!Workers,
                      Owns(p), Owns(q)
               PROVE  p = q
    BY DEF OnlyALostLeaseIsShared, SingleOwner, LeaseInv, LeaseTypesOK
  <2>1. worker[p] \in OwnStages /\ worker[q] \in OwnStages
    BY DEF Owns, OwnStages
  <2>2. LeaseNames(p) /\ LeaseNames(q)
    BY <2>1 DEF LeaseInv, HolderIsNamed
  <2>3. QED
    BY <2>2 DEF LeaseNames
<1>2. LeaseInv /\ [Sup!Next]_(Sup!vars) => LeaseInv'
  BY NextKeepsLease
<1>3. Sup!Init => LeaseInv
  BY LeaseInvHoldsFirst
<1>4. QED
  BY <1>1, <1>2, <1>3, PTL DEF Sup!Spec
=============================================================================
