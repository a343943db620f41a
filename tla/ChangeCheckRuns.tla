--------------------------- MODULE ChangeCheckRuns ---------------------------
(***************************************************************************)
(* Change check runs (packages/runtime/src/change-check-runner.ts, on the  *)
(* job tables of crates/opencanon-engine/src/project/job_store.rs).        *)
(*                                                                         *)
(* A batch of checks is admitted whole or not at all; one drain loop runs  *)
(* them in turn. A run's job row and its events are written by separate    *)
(* transactions, so the runtime may die, and the storage may fail, between *)
(* any two of them. The event loop executes one segment at a time: while   *)
(* "step" is not "none" a segment is between two of its store calls and    *)
(* only that segment, or the death of the process, comes next.             *)
(*                                                                         *)
(* Reads are taken to succeed; every run belongs to this runtime's         *)
(* namespace; retention, which deletes terminal runs only, is an await     *)
(* that deletes nothing; an output chunk is an event without its text.     *)
(***************************************************************************)
EXTENDS Naturals, Sequences, FiniteSets, SequencesExt

CONSTANTS
  Runs,         \* bound: the runs that can be started
  Capacity,     \* ActiveRunCapacity
  None,
  MaxOutput,    \* bound: output events of a run
  MaxDeaths,    \* bound: deaths of the runtime
  MaxFaults     \* bound: store calls that fail

ASSUME ChecksAssumption ==
  /\ None \notin Runs /\ Capacity \in Nat \ {0}
  /\ {MaxOutput, MaxDeaths, MaxFaults} \subseteq Nat

VARIABLES
  status,       \* the job row of each run
  events,       \* its job events
  queue,        \* queue
  drain,        \* where the drain loop is: none, busy, command, retention
  item,         \* the run the drain loop executes
  step,         \* the next store call of the segment being executed
  subject,      \* the run that a cancellation or the reconciliation works on
  flushing,     \* who called flushOutput
  output,       \* pendingOutput is not empty
  outcome,      \* the result of runChangeCheck
  failed,       \* outputPersistenceError
  completed,    \* completedRun is set
  controllers,  \* the runs with an AbortController
  aborted,      \* those whose controller was aborted
  completions,  \* the runs whose completion promise is unresolved
  cancelling,   \* the runs whose completion a cancel call awaits
  runtime,      \* off, reconciling, up
  stopping, stopList, stopCall,  \* stop()
  deaths, faults

disk == <<status, events>>
loop == <<queue, drain, item>>
segment == <<step, subject, flushing>>
execution == <<output, outcome, failed, completed>>
calls == <<controllers, aborted, completions, cancelling>>
life == <<runtime, stopping, stopList, stopCall>>
bounds == <<deaths, faults>>
vars == <<disk, loop, segment, execution, calls, life, bounds>>

Terminal == {"passed", "failed", "cancelled"}
Active == {r \in Runs : status[r] \in {"queued", "running"}}
EventTypes == Terminal \cup {"queued", "started", "output"}
Steps == {"none", "start", "announce", "record", "save", "emit",
          "finish", "finishEvent", "finishCanon", "fail", "failEvent", "failCanon",
          "recover", "recoverEvent", "recoverCanon", "cancel", "cancelEvent",
          "stopCancel", "stopCancelEvent", "reconcile", "reconcileEvent"}

Free == runtime = "up" /\ step = "none"
Write(r, s) == status' = [status EXCEPT ![r] = s] /\ UNCHANGED events
Emit(r, type) == events' = [events EXCEPT ![r] = Append(@, type)] /\ UNCHANGED status
Turn(next) == step' = next /\ UNCHANGED <<subject, flushing>>

(* completeRun: whoever awaits the completion is answered. *)
Complete(rs) == completions' = completions \ rs /\ cancelling' = cancelling \ rs

(* The head of the drain loop; a run it takes goes straight into execute. *)
LoopHead(q) ==
  /\ UNCHANGED <<subject, flushing>>
  /\ IF stopping \/ q = <<>>
       THEN drain' = "none" /\ item' = None /\ queue' = q /\ step' = "none"
       ELSE drain' = "busy" /\ item' = Head(q) /\ queue' = Tail(q) /\ step' = "start"

Init ==
  /\ status = [r \in Runs |-> "none"] /\ events = [r \in Runs |-> <<>>]
  /\ queue = <<>> /\ drain = "none" /\ item = None
  /\ step = "none" /\ subject = None /\ flushing = "none"
  /\ output = FALSE /\ outcome = "none" /\ failed = FALSE /\ completed = FALSE
  /\ controllers = {} /\ aborted = {} /\ completions = {} /\ cancelling = {}
  /\ runtime = "up" /\ stopping = FALSE /\ stopList = <<>> /\ stopCall = "none"
  /\ deaths = 0 /\ faults = 0

-----------------------------------------------------------------------------
(* start *)

Fresh == {r \in Runs : status[r] = "none"}
Batches == {<<r>> : r \in Fresh} \cup {b \in Fresh \X Fresh : b[1] # b[2]}

(* admit_jobs_json: the rows and their first events are one transaction. *)
Admit(batch) ==
  /\ Free /\ ~stopping
  /\ Cardinality(Active) + Len(batch) <= Capacity
  /\ status' = [r \in Runs |-> IF r \in Range(batch) THEN "queued" ELSE status[r]]
  /\ events' = [r \in Runs |-> IF r \in Range(batch) THEN <<"queued">> ELSE events[r]]

Start(batch) ==
  /\ Admit(batch)
  /\ completions' = completions \cup Range(batch)
  /\ IF drain = "none"
       THEN LoopHead(queue \o batch)
       ELSE queue' = queue \o batch /\ UNCHANGED <<drain, item, segment>>
  /\ UNCHANGED <<execution, controllers, aborted, cancelling, life, bounds>>

(* Broadcasting the first event of a run fails after the admission: that run
   and the rest of the batch are not queued, and no drain is scheduled. *)
StartFails(batch) ==
  /\ faults < MaxFaults /\ faults' = faults + 1
  /\ Admit(batch)
  /\ \E k \in 1 .. Len(batch) :
       /\ completions' = completions \cup Range(SubSeq(batch, 1, k))
       /\ queue' = queue \o SubSeq(batch, 1, k - 1)
  /\ UNCHANGED <<drain, item, segment, execution, controllers, aborted, cancelling, life, deaths>>

-----------------------------------------------------------------------------
(* execute *)

BeginRun ==
  /\ step = "start"
  /\ IF status[item] = "queued"
       THEN Write(item, "running") /\ Turn("announce") /\ UNCHANGED loop
       ELSE LoopHead(queue) /\ UNCHANGED disk
  /\ UNCHANGED <<execution, calls, life, bounds>>

AnnounceStart ==
  /\ step = "announce"
  /\ Emit(item, "started") /\ Turn("record")
  /\ controllers' = controllers \cup {item}
  /\ UNCHANGED <<loop, execution, aborted, completions, cancelling, life, bounds>>

RecordStart ==
  /\ step = "record"
  /\ drain' = "command" /\ Turn("none")
  /\ UNCHANGED <<disk, queue, item, execution, calls, life, bounds>>

(* queueOutput *)
Output ==
  /\ Free /\ drain = "command" /\ ~output
  /\ Len(SelectSeq(events[item], LAMBDA e : e = "output")) < MaxOutput
  /\ output' = TRUE
  /\ UNCHANGED <<disk, loop, segment, outcome, failed, completed, calls, life, bounds>>

(* flushOutput, called by the handler of a chunk that fills the buffer or by
   its timer. *)
Flush ==
  /\ Free /\ drain = "command" /\ output
  /\ step' = "save" /\ flushing' \in {"data", "timer"}
  /\ UNCHANGED <<disk, loop, subject, execution, calls, life, bounds>>

(* appendOutput writes the row from the copy that execute holds. *)
SaveOutput ==
  /\ step = "save"
  /\ Write(item, "running") /\ Turn("emit")
  /\ output' = FALSE
  /\ UNCHANGED <<loop, outcome, failed, completed, calls, life, bounds>>

EmitOutput ==
  /\ step = "emit"
  /\ Emit(item, "output")
  /\ Turn(CASE flushing = "final" -> "finish" [] flushing = "catch" -> "fail" [] OTHER -> "none")
  /\ UNCHANGED <<loop, execution, calls, life, bounds>>

(* runChangeCheck: an aborted command is cancelled, a validator does not see
   the signal; either may also reject. *)
Results == {"passed", "failed", "rejected"} \cup (IF item \in aborted THEN {"cancelled"} ELSE {})

Catch(pending) ==
  IF pending THEN step' = "save" /\ flushing' = "catch" /\ UNCHANGED subject
             ELSE Turn("fail")

CommandEnds ==
  /\ Free /\ drain = "command"
  /\ drain' = "busy"
  /\ \E result \in Results :
       IF failed \/ result = "rejected"
         THEN Catch(output) /\ UNCHANGED outcome
         ELSE /\ outcome' = result
              /\ IF output THEN step' = "save" /\ flushing' = "final" /\ UNCHANGED subject
                           ELSE Turn("finish")
  /\ UNCHANGED <<disk, queue, item, output, failed, completed, calls, life, bounds>>

FinishRun ==
  /\ step = "finish"
  /\ Write(item, outcome) /\ Turn("finishEvent")
  /\ UNCHANGED <<loop, execution, calls, life, bounds>>

AnnounceFinish ==
  /\ step = "finishEvent"
  /\ Emit(item, outcome) /\ Turn("finishCanon")
  /\ completed' = TRUE
  /\ UNCHANGED <<loop, output, outcome, failed, calls, life, bounds>>

FailRun ==
  /\ step = "fail"
  /\ Write(item, "failed") /\ Turn("failEvent")
  /\ UNCHANGED <<loop, execution, calls, life, bounds>>

AnnounceFailure ==
  /\ step = "failEvent"
  /\ Emit(item, "failed") /\ Turn("failCanon")
  /\ completed' = TRUE
  /\ UNCHANGED <<loop, output, outcome, failed, calls, life, bounds>>

(* The finally block. *)
MutantLeaveRun ==
  /\ controllers' = controllers \ {item} /\ aborted' = aborted \ {item}
  /\ UNCHANGED <<completions, cancelling>>
LeaveRun ==
  /\ controllers' = controllers \ {item} /\ aborted' = aborted \ {item}
  /\ IF completed THEN Complete({item}) ELSE UNCHANGED <<completions, cancelling>>

(* recordTerminalCanonEvent, the last store call; then execute awaits the
   retention of terminal runs. *)
RecordEnd ==
  /\ step \in {"finishCanon", "failCanon"}
  /\ LeaveRun
  /\ drain' = "retention" /\ Turn("none")
  /\ UNCHANGED <<disk, queue, item, execution, life, bounds>>

Settle == outcome' = "none" /\ failed' = FALSE /\ completed' = FALSE /\ UNCHANGED output

Retained ==
  /\ Free /\ drain = "retention"
  /\ LoopHead(queue) /\ Settle
  /\ UNCHANGED <<disk, calls, life, bounds>>

(* recoverUnexpectedRunFailure *)
Recover ==
  /\ step \in {"recover", "recoverEvent"}
  /\ IF step = "recover" THEN Write(item, "failed") /\ Turn("recoverEvent")
                         ELSE Emit(item, "failed") /\ Turn("recoverCanon")
  /\ UNCHANGED <<loop, execution, calls, life, bounds>>

Recovered ==
  /\ step = "recoverCanon"
  /\ Complete({item}) /\ LoopHead(queue) /\ Settle
  /\ UNCHANGED <<disk, controllers, aborted, life, bounds>>

-----------------------------------------------------------------------------
(* cancel and stop *)

(* queue.findIndex and queue.splice *)
Unqueue(r, next) ==
  /\ \E k \in DOMAIN queue :
       /\ queue[k] = r /\ \A j \in 1 .. (k - 1) : queue[j] # r
       /\ queue' = RemoveAt(queue, k)
  /\ subject' = r /\ step' = next /\ UNCHANGED flushing

CancelQueued(r) ==
  /\ Free /\ r \in Range(queue)
  /\ Unqueue(r, "cancel")
  /\ UNCHANGED <<disk, drain, item, execution, calls, life, bounds>>

(* A run that is not queued is aborted, and its completion awaited. *)
CancelRunning(r) ==
  /\ Free /\ r \in Active \ Range(queue) /\ r \in completions
  /\ cancelling' = cancelling \cup {r}
  /\ aborted' = aborted \cup ({r} \cap controllers)
  /\ UNCHANGED <<disk, loop, segment, execution, controllers, completions, life, bounds>>

(* finishCancelled *)
FinishCancelled ==
  /\ step \in {"cancel", "stopCancel"}
  /\ Write(subject, "cancelled")
  /\ Turn(IF step = "cancel" THEN "cancelEvent" ELSE "stopCancelEvent")
  /\ UNCHANGED <<loop, execution, calls, life, bounds>>

AnnounceCancelled ==
  /\ step \in {"cancelEvent", "stopCancelEvent"}
  /\ Emit(subject, "cancelled") /\ Complete({subject})
  /\ step' = "none" /\ subject' = None
  /\ UNCHANGED <<loop, flushing, execution, controllers, aborted, life, bounds>>

(* stop cancels the runs that were queued one after the other, and then aborts
   the running one. *)
StopTurn(list) ==
  /\ stopping' = TRUE
  /\ IF list # <<>>
       THEN /\ stopList' = Tail(list) /\ stopCall' = "cancelling" /\ UNCHANGED aborted
            /\ IF Head(list) \in Range(queue)
                 THEN Unqueue(Head(list), "stopCancel")
                 ELSE status[Head(list)] \in Terminal /\ UNCHANGED <<queue, segment>>
       ELSE /\ stopCall' = "draining" /\ aborted' = aborted \cup controllers
            /\ UNCHANGED <<stopList, queue, segment>>
  /\ UNCHANGED <<disk, drain, item, execution, controllers, completions, cancelling, runtime, bounds>>

Stop == Free /\ ~stopping /\ StopTurn(queue)
StopGoesOn == Free /\ stopCall = "cancelling" /\ StopTurn(stopList)

StopReturns ==
  /\ Free /\ stopCall = "draining" /\ drain = "none"
  /\ stopCall' = "returned"
  /\ UNCHANGED <<disk, loop, segment, execution, calls, runtime, stopping, stopList, bounds>>

-----------------------------------------------------------------------------
(* The process dies and starts again. *)

Off ==
  /\ runtime' = "off"
  /\ queue' = <<>> /\ drain' = "none" /\ item' = None
  /\ step' = "none" /\ subject' = None /\ flushing' = "none"
  /\ output' = FALSE /\ outcome' = "none" /\ failed' = FALSE /\ completed' = FALSE
  /\ controllers' = {} /\ aborted' = {} /\ completions' = {} /\ cancelling' = {}
  /\ stopping' = FALSE /\ stopList' = <<>> /\ stopCall' = "none"

RuntimeDies ==
  /\ runtime # "off" /\ deaths < MaxDeaths /\ deaths' = deaths + 1
  /\ Off
  /\ UNCHANGED <<disk, faults>>

Boot ==
  /\ runtime = "off" /\ runtime' = "reconciling"
  /\ UNCHANGED <<disk, loop, segment, execution, calls, stopping, stopList, stopCall, bounds>>

(* reconcileInterruptedRuns *)
MutantReconcile(r) ==
  /\ runtime = "reconciling" /\ step = "none" /\ status[r] = "running"
  /\ step' = "reconcile" /\ subject' = r
  /\ UNCHANGED <<disk, loop, flushing, execution, calls, life, bounds>>
Reconcile(r) ==
  /\ runtime = "reconciling" /\ step = "none" /\ r \in Active
  /\ step' = "reconcile" /\ subject' = r
  /\ UNCHANGED <<disk, loop, flushing, execution, calls, life, bounds>>

MutantInterruptRun ==
  /\ step \in {"reconcile", "reconcileEvent"}
  /\ IF step = "reconcile" THEN Emit(subject, "failed") /\ Turn("reconcileEvent")
                           ELSE Write(subject, "failed") /\ step' = "none" /\ subject' = None /\ UNCHANGED flushing
  /\ UNCHANGED <<loop, execution, calls, life, bounds>>
InterruptRun ==
  /\ step \in {"reconcile", "reconcileEvent"}
  /\ IF step = "reconcile" THEN Write(subject, "failed") /\ Turn("reconcileEvent")
                           ELSE Emit(subject, "failed") /\ step' = "none" /\ subject' = None /\ UNCHANGED flushing
  /\ UNCHANGED <<loop, execution, calls, life, bounds>>

Ready ==
  /\ runtime = "reconciling" /\ step = "none" /\ Active = {}
  /\ runtime' = "up"
  /\ UNCHANGED <<disk, loop, segment, execution, calls, stopping, stopList, stopCall, bounds>>

-----------------------------------------------------------------------------
(* A store call fails: nothing is written, but that an event may have been
   stored when its broadcast fails. *)

Announced ==
  CASE step = "announce" -> <<item, "started">>
    [] step = "emit" -> <<item, "output">>
    [] step = "finishEvent" -> <<item, outcome>>
    [] step \in {"failEvent", "recoverEvent"} -> <<item, "failed">>
    [] step \in {"cancelEvent", "stopCancelEvent"} -> <<subject, "cancelled">>
    [] step = "reconcileEvent" -> <<subject, "failed">>
    [] OTHER -> <<None, "none">>

(* drain's catch: a run that is not terminal is failed, once more. *)
Unexpected ==
  IF status[item] \in Terminal
    THEN LoopHead(queue) /\ Settle
    ELSE Turn("recover") /\ UNCHANGED <<loop, execution>>

StartStepFails ==
  /\ step \in {"start", "announce", "record"}
  /\ Unexpected
  /\ UNCHANGED <<calls, life, deaths>>

(* The timer's callback catches the error and aborts the run; the handler of
   the chunk does not, and nothing else in the process would. *)
FlushFails ==
  /\ step \in {"save", "emit"}
  /\ CASE flushing = "data" -> Off /\ UNCHANGED deaths
       [] flushing = "timer" ->
            /\ failed' = TRUE /\ output' = FALSE /\ aborted' = aborted \cup {item} /\ Turn("none")
            /\ UNCHANGED <<loop, outcome, completed, controllers, completions, cancelling, life, deaths>>
       [] flushing = "final" ->
            /\ output' = FALSE /\ Turn("fail")
            /\ UNCHANGED <<loop, outcome, failed, completed, calls, life, deaths>>
       [] flushing = "catch" ->
            /\ LeaveRun /\ output' = FALSE /\ Turn("recover")
            /\ UNCHANGED <<loop, outcome, failed, completed, life, deaths>>

MutantFinishStepFails ==
  /\ step \in {"finish", "finishEvent", "finishCanon"}
  /\ step' = "save" /\ flushing' = "catch" /\ UNCHANGED subject
  /\ UNCHANGED <<loop, execution, calls, life, deaths>>
FinishStepFails ==
  /\ step \in {"finish", "finishEvent", "finishCanon"}
  /\ Turn("fail")
  /\ UNCHANGED <<loop, execution, calls, life, deaths>>

FailStepFails ==
  /\ step \in {"fail", "failEvent", "failCanon"}
  /\ LeaveRun /\ Unexpected
  /\ UNCHANGED <<life, deaths>>

RecoverStepFails ==
  /\ step \in {"recover", "recoverEvent", "recoverCanon"}
  /\ Complete({item}) /\ LoopHead(queue) /\ Settle
  /\ UNCHANGED <<controllers, aborted, life, deaths>>

(* The error goes to the caller of cancel, or ends stop. *)
CancelStepFails ==
  /\ step \in {"cancel", "cancelEvent", "stopCancel", "stopCancelEvent"}
  /\ step' = "none" /\ subject' = None
  /\ stopCall' = IF step \in {"stopCancel", "stopCancelEvent"} THEN "threw" ELSE stopCall
  /\ UNCHANGED <<loop, flushing, execution, calls, runtime, stopping, stopList, deaths>>

(* A startup that fails ends the process. *)
ReconcileStepFails ==
  /\ step \in {"reconcile", "reconcileEvent"}
  /\ Off /\ UNCHANGED deaths

StoreFails ==
  /\ step # "none" /\ faults < MaxFaults /\ faults' = faults + 1
  /\ UNCHANGED status
  /\ \/ UNCHANGED events
     \/ /\ Announced[1] # None
        /\ events' = [events EXCEPT ![Announced[1]] = Append(@, Announced[2])]
  /\ \/ StartStepFails \/ FlushFails \/ FinishStepFails \/ FailStepFails
     \/ RecoverStepFails \/ CancelStepFails \/ ReconcileStepFails

-----------------------------------------------------------------------------
(* The next store call of the segment being executed. *)
StoreCall ==
  \/ BeginRun \/ AnnounceStart \/ RecordStart \/ SaveOutput \/ EmitOutput
  \/ FinishRun \/ AnnounceFinish \/ FailRun \/ AnnounceFailure \/ RecordEnd
  \/ Recover \/ Recovered \/ FinishCancelled \/ AnnounceCancelled \/ InterruptRun

Next ==
  \/ \E batch \in Batches : Start(batch) \/ StartFails(batch)
  \/ StoreCall \/ StoreFails
  \/ Output \/ Flush \/ CommandEnds \/ Retained
  \/ \E r \in Runs : CancelQueued(r) \/ CancelRunning(r)
  \/ Stop \/ StopGoesOn \/ StopReturns
  \/ RuntimeDies \/ Boot \/ Ready \/ \E r \in Runs : Reconcile(r)

Spec == Init /\ [][Next]_vars

(* The event loop goes on, a command ends (it has a time limit), and a runtime
   that is off is started again. *)
FairSpec ==
  /\ Spec
  /\ WF_vars(StoreCall) /\ WF_vars(CommandEnds) /\ WF_vars(Retained)
  /\ WF_vars(StopGoesOn)
  /\ WF_vars(Boot) /\ WF_vars(Ready) /\ WF_vars(\E r \in Runs : Reconcile(r))

-----------------------------------------------------------------------------
(* Properties. *)

(* Every variable keeps its type. *)
TypeOK ==
  /\ status \in [Runs -> Terminal \cup {"none", "queued", "running"}]
  /\ events \in [Runs -> Seq(EventTypes)]
  /\ queue \in Seq(Runs) /\ stopList \in Seq(Runs)
  /\ drain \in {"none", "busy", "command", "retention"}
  /\ item \in Runs \cup {None} /\ subject \in Runs \cup {None}
  /\ step \in Steps /\ flushing \in {"none", "data", "timer", "final", "catch"}
  /\ output \in BOOLEAN /\ failed \in BOOLEAN /\ completed \in BOOLEAN
  /\ outcome \in Terminal \cup {"none"}
  /\ controllers \subseteq Runs /\ aborted \subseteq Runs
  /\ completions \subseteq Runs /\ cancelling \subseteq Runs
  /\ runtime \in {"off", "reconciling", "up"} /\ stopping \in BOOLEAN
  /\ stopCall \in {"none", "cancelling", "draining", "returned", "threw"}
  /\ deaths \in 0 .. MaxDeaths /\ faults \in 0 .. MaxFaults

(* Wherever the runtime dies, and as long as no store call fails, a run's events
   never contradict its row: at most one of them is terminal, nothing follows it,
   and it is the stored status. While no runtime has died a terminal run has it. *)
EventsTellTheResult ==
  \A r \in Runs : faults = 0 =>
    /\ \A k \in DOMAIN events[r] :
         events[r][k] \in Terminal => k = Len(events[r]) /\ events[r][k] = status[r]
    /\ (step = "none" /\ deaths = 0 /\ status[r] \in Terminal) => Last(events[r]) = status[r]

(* No admitted run is forgotten: each active one is queued once, or being
   executed or cancelled, with a completion to await; and the runner that
   idle shutdown asks (hasActiveWork) holds nothing else, as long as no store
   call failed. *)
ActiveRunsAreHeld ==
  runtime = "up" /\ faults = 0 =>
    /\ IsInjective(queue)
    /\ \A r \in Range(queue) : status[r] = "queued" /\ r # item
    /\ \A r \in Active : r \in completions /\ r \in Range(queue) \cup {item, subject}
    /\ controllers \subseteq {item}
    /\ completions \subseteq Range(queue) \cup {item, subject}

(* Whatever dies or fails, a run that has a result keeps one: no late write of a
   row that execute or appendOutput still holds makes it active again. *)
ResultsAreKept ==
  [][\A r \in Runs : status[r] \in Terminal => status'[r] \in Terminal]_vars

(* Every admitted run gets a result, whatever dies meanwhile, unless a store call
   fails. *)
RunsEnd ==
  \A r \in Runs : (status[r] \in {"queued", "running"}) ~> (status[r] \in Terminal \/ faults > 0)

(* docs/opencanon/specs/runtime-operations-spec.md:91: a cancellation that was
   asked for ends with the run, unless a store call fails. *)
CancelsAreAnswered ==
  \A r \in Runs : (r \in cancelling) ~> (r \notin cancelling \/ faults > 0)

(* docs/opencanon/specs/runtime-operations-spec.md:203, "asynchronous check
   persistence failures terminate the run rather than the runtime". *)
RuntimeSurvivesFailures == [][faults' # faults => runtime' = runtime]_vars
=============================================================================
