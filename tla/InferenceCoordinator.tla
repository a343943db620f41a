------------------------ MODULE InferenceCoordinator ------------------------
(***************************************************************************)
(* The machine's inference coordinator                                     *)
(* (packages/runtime/src/inference-coordinator.ts) with the host processes *)
(* it starts and terminates (inference-host.ts, process-tree.ts): a bounded *)
(* queue of two priorities, one drain loop that executes one operation at  *)
(* a time, one resident model at a time, retirement of the host after an   *)
(* interruption or a model change, eviction when idle, and stop.           *)
(*                                                                         *)
(* An action is what the event loop runs between two awaits.  Texts,       *)
(* vectors and metrics are left out; how long anything takes is left to    *)
(* the interleaving.                                                       *)
(***************************************************************************)
EXTENDS Integers, FiniteSets, FiniteSetsExt, SequencesExt

CONSTANTS
  Operations,            \* operation ids that clients submit, again and again
  Models,                \* GGUF models
  Unfit,                 \* models the execution profile has no capacity for
  Slots,                 \* bound: host processes that exist at a time
  None,
  Priority,              \* request.priority of each operation
  Kind,                  \* CountTokens or Embed
  Model,                 \* request.modelId
  Bytes,                 \* bytes of request.texts
  MaximumQueueRequests,  \* input.policy
  MaximumQueueBytes      \* input.policy

Priorities == {"interactive", "background"}
BurstLimit == 4
\* The counter is compared with 4 only, so the model caps it there.
MaximumBurst == BurstLimit
\* The history counters need to tell only whether the limit was exceeded.
MaximumOvertaken == BurstLimit + 1

ASSUME OperationAssumption ==
  /\ IsFiniteSet(Operations)
  /\ Priority \in [Operations -> Priorities]
  /\ Kind \in [Operations -> {"countTokens", "embed"}]
  /\ Model \in [Operations -> Models]
  /\ Bytes \in [Operations -> Nat]
  /\ Unfit \subseteq Models
ASSUME NoneAssumption == None \notin Operations \cup Models \cup Slots
ASSUME QueueAssumption == MaximumQueueRequests \in Nat /\ MaximumQueueBytes \in Nat

VARIABLES
  queue,            \* the interactive and the background queue
  queueBytes,       \* bytes of the queued operations
  interactiveBurst, \* interactive operations taken since the last background one
  active,           \* the operation drain executes, None when none
  step,             \* where drain awaits; idle when not draining
  using,            \* host process the active operation starts or uses
  aborted,          \* the active operation's controller has been aborted
  pending,          \* operations whose caller has no answer yet
  host,             \* process of the current host, None when undefined
  residentModel,    \* model the coordinator believes resident
  hostStatus,       \* status shown by describe
  idleTimer,        \* whether the idle eviction timer is set
  stopped,
  stopCall,         \* how far the call of stop is
  process,          \* host processes, by slot
  loaded,           \* model each host process was started with
  overtaken         \* history: operations of the other priority taken since
                    \* an operation of this one has been waiting

queueVars == <<queue, queueBytes, interactiveBurst, overtaken>>
activeVars == <<active, step, using, aborted>>
hostVars == <<host, residentModel, idleTimer, process>>
vars == <<queue, queueBytes, interactiveBurst, active, step, using, aborted, pending,
          host, residentModel, hostStatus, idleTimer, stopped, stopCall, process,
          loaded, overtaken>>

Steps ==
  {"idle",                   \* not draining
   "ensuring",               \* ensureHost awaits the old host's retirement
   "starting",               \* ensureHost awaits startHost
   "connecting",             \* execute resumes with a host
   "counting", "embedding",  \* execute awaits a request to the host
   "rejecting",              \* execute has thrown, the catch block runs next
   "retiring"}               \* the catch block awaits retireHost
Executing == {"ensuring", "starting", "connecting", "counting", "embedding"}
InFlight == {"counting", "embedding"}
ProcessStates ==
  {"free",                             \* no process
   "loading", "serving",               \* alive as far as the coordinator knows
   "crashed",                          \* exited by itself, host still referenced
   "killed",                           \* being terminated, nobody awaits it
   "retiring", "evicting", "stopping"} \* being terminated, awaited by the drain
                                       \* loop, the idle timer, the stop call
HostStatuses == {"stopped", "loading", "running", "ready", "idle", "failed"}

Queued == UNION {ToSet(queue[p]) : p \in Priorities}
ById == Queued \cup ({active} \ {None})
QueueLength == Len(queue["interactive"]) + Len(queue["background"])
Alive(h) == h # None /\ process[h] = "serving"

Init ==
  /\ queue = [p \in Priorities |-> <<>>]
  /\ queueBytes = 0 /\ interactiveBurst = 0
  /\ active = None /\ step = "idle" /\ using = None /\ aborted = FALSE
  /\ pending = {}
  /\ host = None /\ residentModel = None /\ hostStatus = "stopped"
  /\ idleTimer = FALSE /\ stopped = FALSE /\ stopCall = "none"
  /\ process = [s \in Slots |-> "free"]
  /\ loaded = [s \in Slots |-> None]
  /\ overtaken = [p \in Priorities |-> 0]

-----------------------------------------------------------------------------
(* Hosts. *)

MutantStopHost(h, awaiter) == process
(* host.stop called by awaiter: a process that has already exited is gone at
   once, any other is being terminated while awaiter waits. *)
StopHost(h, awaiter) ==
  IF h = None THEN process
  ELSE [process EXCEPT ![h] = IF @ = "crashed" THEN "free" ELSE awaiter]

(* retireHost up to its await, entered with status st. *)
RetireHost(awaiter, st) ==
  /\ host' = None
  /\ residentModel' = None
  /\ process' = StopHost(host, awaiter)
  /\ hostStatus' = IF host = None /\ ~stopped THEN "stopped" ELSE st

Awaited(awaiter) == \E s \in Slots : process[s] = awaiter

(* What retireHost does after its await. *)
RetiredStatus == IF stopped THEN hostStatus ELSE "stopped"

(* onAbort of a request in flight: the host counts as dead and its termination
   starts, unawaited. *)
KillInFlight(h) == [process EXCEPT ![h] = IF @ = "serving" THEN "killed" ELSE @]

-----------------------------------------------------------------------------
(* The drain loop. *)

MutantNextOperation(q) ==
  IF q["interactive"] # <<>> THEN Head(q["interactive"])
  ELSE IF q["background"] # <<>> THEN Head(q["background"])
  ELSE None
NextOperation(q) ==
  IF /\ q["interactive"] # <<>>
     /\ interactiveBurst < BurstLimit \/ q["background"] = <<>>
    THEN Head(q["interactive"])
  ELSE IF q["background"] # <<>> THEN Head(q["background"])
  ELSE None

NextBurst(op) ==
  IF Priority[op] = "background" THEN 0
  ELSE IF interactiveBurst < MaximumBurst THEN interactiveBurst + 1
  ELSE interactiveBurst

Overtakes(op, q) ==
  [p \in Priorities |->
     IF p = Priority[op] \/ q[p] = <<>> THEN 0
     ELSE IF overtaken[p] < MaximumOvertaken THEN overtaken[p] + 1
     ELSE overtaken[p]]

MutantReusesAnyHost(op) == Alive(host)
(* ensureHost: the resident host when it is alive and has the model, else
   retire whatever is there. *)
ReusesHost(op) == Alive(host) /\ residentModel = Model[op]

EnsureHost(op, st) ==
  IF Model[op] \in Unfit
    THEN /\ step' = "rejecting" /\ using' = None /\ hostStatus' = st
         /\ UNCHANGED <<host, residentModel, process>>
  ELSE IF ReusesHost(op)
    THEN /\ step' = "connecting" /\ using' = host /\ hostStatus' = "running"
         /\ UNCHANGED <<host, residentModel, process>>
  ELSE /\ step' = "ensuring" /\ using' = None
       /\ RetireHost("retiring", st)

MutantLeakBytes(op, bytes) == bytes
TakeBytes(op, bytes) == bytes - Bytes[op]

(* The head of the loop picks op; execute throws at once when its deadline has
   passed while it was queued. *)
TakeOperation(op, q, bytes, st) ==
  /\ active' = op /\ aborted' = FALSE
  /\ queue' = [q EXCEPT ![Priority[op]] = Tail(@)]
  /\ queueBytes' = TakeBytes(op, bytes)
  /\ interactiveBurst' = NextBurst(op)
  /\ overtaken' = Overtakes(op, q)
  /\ \/ EnsureHost(op, st)
     \/ /\ step' = "rejecting" /\ using' = None /\ hostStatus' = st
        /\ UNCHANGED <<host, residentModel, process>>

(* scheduleIdleEviction in drain's finally block. *)
SchedulesEviction(q) ==
  /\ q["interactive"] = <<>> /\ q["background"] = <<>>
  /\ host # None /\ ~idleTimer /\ ~stopped

DrainEnds(q, bytes, st) ==
  /\ active' = None /\ aborted' = FALSE /\ step' = "idle" /\ using' = None
  /\ queue' = q /\ queueBytes' = bytes
  /\ idleTimer' = (idleTimer \/ SchedulesEviction(q))
  /\ hostStatus' = IF SchedulesEviction(q) THEN "idle" ELSE st
  /\ UNCHANGED <<interactiveBurst, overtaken, host, residentModel, process>>

(* The while condition and what follows, with the queue, its bytes and the
   status that the code before it left. *)
LoopHead(q, bytes, st) ==
  IF stopped \/ NextOperation(q) = None
    THEN DrainEnds(q, bytes, st)
    ELSE TakeOperation(NextOperation(q), q, bytes, st) /\ UNCHANGED idleTimer

-----------------------------------------------------------------------------
(* The coordinator's methods. *)

MutantAdmits(op) ==
  /\ ~stopped
  /\ QueueLength < MaximumQueueRequests
  /\ queueBytes + Bytes[op] <= MaximumQueueBytes
Admits(op) ==
  /\ ~stopped
  /\ op \notin ById
  /\ QueueLength < MaximumQueueRequests
  /\ queueBytes + Bytes[op] <= MaximumQueueBytes

ClearIdleEviction == idleTimer' = FALSE

(* enqueue, with the drain loop it enters when none runs.  A refused request
   changes nothing. *)
Enqueue(op) ==
  LET q == [queue EXCEPT ![Priority[op]] = Append(@, op)]
      status == IF host # None THEN "ready" ELSE hostStatus
  IN
  /\ Admits(op)
  /\ pending' = pending \cup {op}
  /\ ClearIdleEviction
  /\ IF step = "idle"
       THEN TakeOperation(NextOperation(q), q, queueBytes + Bytes[op], status)
       ELSE /\ queue' = q /\ queueBytes' = queueBytes + Bytes[op]
            /\ hostStatus' = status
            /\ UNCHANGED <<activeVars, interactiveBurst, overtaken, host, residentModel, process>>
  /\ UNCHANGED <<stopped, stopCall, loaded>>

IndexOf(q, op) == CHOOSE k \in DOMAIN q : q[k] = op

(* cancel, or the caller's signal, of a queued operation (removeQueued). *)
CancelQueued(op) ==
  /\ op \in Queued
  /\ queue' = [queue EXCEPT ![Priority[op]] = RemoveAt(@, IndexOf(@, op))]
  /\ queueBytes' = queueBytes - Bytes[op]
  /\ pending' = pending \ {op}
  /\ UNCHANGED <<interactiveBurst, overtaken, activeVars, hostVars, hostStatus,
                 stopped, stopCall, loaded>>

(* The active operation's controller is aborted: a request in flight is
   rejected and its host killed; at any other await nothing happens yet. *)
AbortActive ==
  /\ active # None
  /\ aborted' = TRUE
  /\ IF step \in InFlight
       THEN step' = "rejecting" /\ process' = KillInFlight(using)
       ELSE UNCHANGED <<step, process>>
  /\ UNCHANGED <<queueVars, active, using, pending, host, residentModel, hostStatus,
                 idleTimer, stopped, stopCall, loaded>>

CancelActive == ~aborted /\ AbortActive

(* The deadline timer, which execute clears when it ends. *)
DeadlinePasses == step \in Executing /\ ~aborted /\ AbortActive

(* describe begins with refreshExitedHost. *)
Describe ==
  /\ host # None /\ ~Alive(host)
  /\ idleTimer' = FALSE
  /\ host' = None /\ residentModel' = None
  /\ hostStatus' = "failed"
  /\ process' = [process EXCEPT ![host] = IF @ = "crashed" THEN "free" ELSE @]
  /\ UNCHANGED <<queueVars, activeVars, pending, stopped, stopCall, loaded>>

MutantStopAborts == aborted
StopAborts == active # None

(* stop up to its await: the queue is refused, the active operation aborted
   and the host, killed by that abort or not, stopped. *)
Stop ==
  /\ ~stopped
  /\ stopped' = TRUE
  /\ idleTimer' = FALSE
  /\ queue' = [p \in Priorities |-> <<>>]
  /\ queueBytes' = 0
  /\ pending' = pending \ Queued
  /\ aborted' = StopAborts
  /\ step' = IF step \in InFlight THEN "rejecting" ELSE step
  /\ host' = None /\ residentModel' = None /\ hostStatus' = "stopped"
  /\ process' = StopHost(host, "stopping")
  /\ stopCall' = IF host # None /\ process[host] # "crashed" THEN "awaiting" ELSE "returned"
  /\ UNCHANGED <<interactiveBurst, overtaken, active, using, loaded>>

-----------------------------------------------------------------------------
(* The active operation. *)

(* ensureHost resumes from retireHost and calls startHost. *)
StartHost ==
  /\ step = "ensuring" /\ ~Awaited("retiring")
  /\ hostStatus' = "loading"
  /\ \E s \in Slots :
       /\ process[s] = "free"
       /\ using' = s
       /\ process' = [process EXCEPT ![s] = "loading"]
       /\ loaded' = [loaded EXCEPT ![s] = Model[active]]
  /\ step' = "starting"
  /\ UNCHANGED <<queueVars, active, aborted, pending, host, residentModel, idleTimer,
                 stopped, stopCall>>

HostStarts ==
  /\ step = "starting"
  /\ process' = [process EXCEPT ![using] = "serving"]
  /\ host' = using /\ residentModel' = Model[active]
  /\ hostStatus' = "running"
  /\ step' = "connecting"
  /\ UNCHANGED <<queueVars, active, using, aborted, pending, idleTimer, stopped,
                 stopCall, loaded>>

(* The process exits while it loads, or reports a failure or exceeds the
   startup timeout and is terminated, unawaited. *)
HostStartFails ==
  /\ step = "starting"
  /\ \E outcome \in {"free", "killed"} : process' = [process EXCEPT ![using] = outcome]
  /\ using' = None
  /\ hostStatus' = "failed"
  /\ step' = "rejecting"
  /\ UNCHANGED <<queueVars, active, aborted, pending, host, residentModel, idleTimer,
                 stopped, stopCall, loaded>>

(* The host loads but modelIdentity refuses what it says of its model: the
   start fails although the process is alive and the current host, of no
   resident model. *)
HostMismatches ==
  /\ step = "starting"
  /\ process' = [process EXCEPT ![using] = "serving"]
  /\ host' = using /\ using' = None
  /\ hostStatus' = "failed"
  /\ step' = "rejecting"
  /\ UNCHANGED <<queueVars, active, aborted, pending, residentModel, idleTimer,
                 stopped, stopCall, loaded>>

(* execute resumes with its host and sends the token request, unless the host
   has been stopped or has exited meanwhile, or the operation was aborted. *)
SendRequest ==
  /\ step = "connecting"
  /\ IF ~aborted /\ process[using] = "serving"
       THEN step' = "counting" /\ UNCHANGED process
       ELSE step' = "rejecting" /\ process' = KillInFlight(using)
  /\ UNCHANGED <<queueVars, active, using, aborted, pending, host, residentModel,
                 hostStatus, idleTimer, stopped, stopCall, loaded>>

(* The token counts arrive and pass the checks: an embed request follows. *)
SendEmbed ==
  /\ step = "counting" /\ Kind[active] = "embed"
  /\ step' = "embedding"
  /\ UNCHANGED <<queueVars, active, using, aborted, pending, hostVars, hostStatus,
                 stopped, stopCall, loaded>>

(* The last answer arrives and passes the checks: the caller is answered and
   the loop goes on. *)
OperationCompletes ==
  /\ step = "embedding" \/ (step = "counting" /\ Kind[active] = "countTokens")
  /\ pending' = pending \ {active}
  /\ LoopHead(queue, queueBytes, hostStatus)
  /\ UNCHANGED <<stopped, stopCall, loaded>>

(* The host reports an error, writes garbage, or the answer fails a check. *)
AnswerRejected ==
  /\ step \in InFlight
  /\ step' = "rejecting"
  /\ UNCHANGED <<queueVars, active, using, aborted, pending, hostVars, hostStatus,
                 stopped, stopCall, loaded>>

MustRetire == aborted \/ (host # None /\ ~Alive(host))

(* The catch block: the caller is answered; after an interruption the host is
   retired before the loop goes on. *)
OperationFails ==
  /\ step = "rejecting"
  /\ pending' = pending \ {active}
  /\ IF MustRetire
       THEN /\ RetireHost("retiring", hostStatus)
            /\ step' = "retiring" /\ using' = None
            /\ UNCHANGED <<queueVars, active, aborted, idleTimer>>
       ELSE LoopHead(queue, queueBytes, hostStatus)
  /\ UNCHANGED <<stopped, stopCall, loaded>>

ResumeAfterRetirement ==
  /\ step = "retiring" /\ ~Awaited("retiring")
  /\ LoopHead(queue, queueBytes, RetiredStatus)
  /\ UNCHANGED <<pending, stopped, stopCall, loaded>>

-----------------------------------------------------------------------------
(* Timers and processes. *)

(* The eviction timer calls retireHost, which nobody awaits. *)
IdleTimerFires ==
  /\ idleTimer
  /\ idleTimer' = FALSE
  /\ RetireHost("evicting",
       IF host # None /\ process[host] = "crashed" /\ ~stopped THEN "stopped" ELSE hostStatus)
  /\ UNCHANGED <<queueVars, activeVars, pending, stopped, stopCall, loaded>>

(* A host process exits by itself; the request it holds is rejected. *)
HostCrashes(s) ==
  /\ process[s] = "serving"
  /\ process' = [process EXCEPT ![s] = "crashed"]
  /\ step' = IF step \in InFlight /\ using = s THEN "rejecting" ELSE step
  /\ UNCHANGED <<queueVars, active, using, aborted, pending, host, residentModel,
                 hostStatus, idleTimer, stopped, stopCall, loaded>>

KilledHostExits(s) ==
  /\ process[s] = "killed"
  /\ process' = [process EXCEPT ![s] = IF host = s THEN "crashed" ELSE "free"]
  /\ UNCHANGED <<queueVars, activeVars, pending, host, residentModel, hostStatus,
                 idleTimer, stopped, stopCall, loaded>>

(* terminateSpawnedProcess returns to whoever awaits it. *)
TerminationEnds(s) ==
  /\ process[s] \in {"retiring", "evicting", "stopping"}
  /\ process' = [process EXCEPT ![s] = "free"]
  /\ hostStatus' = IF process[s] = "evicting" THEN RetiredStatus ELSE hostStatus
  /\ stopCall' = IF process[s] = "stopping" THEN "returned" ELSE stopCall
  /\ UNCHANGED <<queueVars, activeVars, pending, host, residentModel, idleTimer,
                 stopped, loaded>>

Next ==
  \/ \E op \in Operations : Enqueue(op) \/ CancelQueued(op)
  \/ CancelActive \/ DeadlinePasses \/ Describe \/ Stop
  \/ StartHost \/ HostStarts \/ HostStartFails \/ HostMismatches
  \/ SendRequest \/ SendEmbed \/ OperationCompletes \/ AnswerRejected
  \/ OperationFails \/ ResumeAfterRetirement
  \/ IdleTimerFires
  \/ \E s \in Slots : HostCrashes(s) \/ KilledHostExits(s) \/ TerminationEnds(s)

SafetySpec == Init /\ [][Next]_vars

(* Continuations run, timers fire, a start ends by its timeout and a
   termination by SIGKILL.  Nothing is assumed of the host's answers: the
   deadline timer covers a host that never answers. *)
Fairness ==
  /\ WF_vars(DeadlinePasses)
  /\ WF_vars(StartHost)
  /\ WF_vars(HostStarts \/ HostStartFails \/ HostMismatches)
  /\ WF_vars(SendRequest)
  /\ WF_vars(OperationFails)
  /\ WF_vars(ResumeAfterRetirement)
  /\ WF_vars(IdleTimerFires)
  /\ \A s \in Slots : WF_vars(KilledHostExits(s)) /\ WF_vars(TerminationEnds(s))

Spec == SafetySpec /\ Fairness

-----------------------------------------------------------------------------
(* Properties. *)

TypeOK ==
  /\ queue \in [Priorities -> Seq(Operations)]
  /\ queueBytes \in Int
  /\ interactiveBurst \in 0..MaximumBurst
  /\ active \in Operations \cup {None}
  /\ step \in Steps
  /\ using \in Slots \cup {None}
  /\ aborted \in BOOLEAN
  /\ pending \subseteq Operations
  /\ host \in Slots \cup {None}
  /\ residentModel \in Models \cup {None}
  /\ hostStatus \in HostStatuses
  /\ idleTimer \in BOOLEAN /\ stopped \in BOOLEAN
  /\ stopCall \in {"none", "awaiting", "returned"}
  /\ process \in [Slots -> ProcessStates]
  /\ loaded \in [Slots -> Models \cup {None}]
  /\ overtaken \in [Priorities -> 0..MaximumOvertaken]

(* The byte account that admission relies on is what the queued operations
   hold, whatever mix of completion, cancellation and stop emptied the queue,
   and neither limit of the policy is ever exceeded (enqueue, drain,
   removeQueued). *)
QueueAccounting ==
  /\ queueBytes = MapThenSumSet(LAMBDA op : Bytes[op], Queued)
  /\ queueBytes <= MaximumQueueBytes
  /\ QueueLength <= MaximumQueueRequests

(* Every caller without an answer has an operation that is queued exactly once
   or active, and a queued operation's caller has no answer: no promise is
   lost, settled early or executed twice. *)
PendingIsOwned ==
  /\ pending \subseteq ById
  /\ Queued \subseteq pending
  /\ active \notin Queued
  /\ \A p \in Priorities : IsInjective(queue[p])

(* Work never lies in the queue without a drain loop that will take it, and a
   stopped coordinator holds none. *)
NoStall ==
  /\ Queued # {} => step # "idle"
  /\ step = "idle" <=> active = None
  /\ stopped => Queued = {}

(* Neither priority starves the other: while a background operation waits at
   most four interactive ones are taken before it, and while an interactive
   one waits at most one background operation (nextOperation). *)
BoundedOvertaking ==
  /\ overtaken["background"] <= BurstLimit
  /\ overtaken["interactive"] <= 1

(* A process the coordinator counts on is its current host or the one it is
   starting; any other live process is being terminated.  No host is leaked. *)
NoOrphanHost ==
  \A s \in Slots :
    /\ process[s] = "serving" => host = s
    /\ process[s] = "loading" => step = "starting" /\ using = s
    /\ process[s] = "crashed" => host = s

(* A request is in flight only to the current host, which is alive, was started
   with the model the request names and has proved to be that model; a resident
   model is always the one the current host was started with. *)
InFlightIsServed ==
  /\ residentModel # None => host # None /\ residentModel = loaded[host]
  /\ step \in InFlight =>
       /\ using = host /\ Alive(host) /\ ~aborted
       /\ residentModel = Model[active] /\ loaded[host] = Model[active]

(* The eviction timer runs only while the coordinator is idle with a host, so
   it never fires under a queued or an active operation; and an idle host is
   never left without it. *)
IdleHostIsWatched ==
  /\ idleTimer => host # None /\ step = "idle"
  /\ host # None /\ step = "idle" /\ ~stopped => idleTimer

(* After an interrupted operation the next one never inherits the interrupted
   host: the loop takes an operation only when no host is dead or killed. *)
NextOperationGetsLiveHost ==
  [][active' # active /\ active' # None /\ using' # None =>
       process[using'] = "serving" /\ loaded[using'] = Model[active']]_vars

(* Whatever stop finds under way, no request reaches a host after it, not even
   one whose start was still awaited. *)
StoppedServesNothing == stopped => step \notin InFlight

(* Every admitted operation is answered: however long the other priority keeps
   submitting, and though the host may never answer. *)
OperationsAreAnswered == \A op \in Operations : op \in pending ~> op \notin pending

(* stop ends every host process, one it finds being started included, and the
   call itself returns. *)
StopEndsEverything ==
  stopped ~> [](stopCall = "returned" /\ \A s \in Slots : process[s] = "free")

(* At most one host process exists that may hold model memory
   (runtime-operations-spec, "only one isolated inference host owns model
   memory"). *)
OnlyOneHost == Cardinality({s \in Slots : process[s] \notin {"free", "crashed"}}) <= 1
=============================================================================
