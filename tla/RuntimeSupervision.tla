-------------------------- MODULE RuntimeSupervision --------------------------
(* How the worker process of one project is started, stopped and supervised
   (packages/runtime/src/service-*.ts): the local service, which starts it when a
   client asks and reconciles what is registered with what runs, clients that
   stop it in a process of their own, and the workers themselves. The processes
   share three files: the registry, the startup lock and the worker lease. Each
   call, and the reconciler, runs a list of steps, todo, which a step may extend. *)
EXTENDS Naturals, Sequences, FiniteSets, ProjectOwnership

CONSTANTS
  Starters,      \* clients that may have the service start the project
  Stoppers,      \* clients that may stop it themselves; each makes one call
  Service,       \* the reconciler of the service
  MaxWorkers,    \* bound: worker processes; spawning one more fails
  MaxFaults,     \* bound: crashes and hangs of workers
  MaxDeaths,     \* bound: deaths of the service and of clients
  Attempts,      \* AutoPortStartupAttempts
  RestartMaxAttempts,
  None

Clients == Starters \cup Stoppers

Actors == Clients \cup {Service}
Workers == 1..MaxWorkers
Lease == [pid : Workers, written : BOOLEAN]

Founded ==
  /\ MaxWorkers \in Nat \ {0} /\ Attempts \in Nat \ {0} /\ RestartMaxAttempts \in Nat
  /\ MaxFaults \in Nat /\ MaxDeaths \in Nat
  /\ Service \notin Clients /\ None \notin Lease
ASSUME SupervisionAssumption == Founded

VARIABLES
  entry,     \* the project's registration, or None
  ripe,      \* the deadline in the registered lifecycle has passed
  lease,     \* worker.lock: who created it and whether it is written, or None
  slock,     \* who created the startup lock, Orphaned if a dead service did, or None
  todo,      \* the steps each call, and the reconciler, still has to make
  me,        \* what each of them holds in memory
  current,   \* whose copy of the registered lifecycle is still what is registered
  called,    \* clients that have made their call
  deaths, faults

vars == <<worker, entry, ripe, lease, slock, todo, me, current, called, deaths, faults, lost>>

(* ---- Data ---- *)

Statuses == {"starting", "running", "unhealthy", "backing", "failed", "stopping"}
Entry == [pid : Workers, st : Statuses, att : 0..(RestartMaxAttempts + 1)]
Verdicts == {"none", "running", "starting", "unhealthy", "stale", "failed"}
Memory == [seen : Entry \cup {None}, held : Entry \cup {None}, verdict : Verdicts,
           victim : Workers \cup {0}, kid : Workers \cup {0}, tries : 0..Attempts,
           ok : BOOLEAN, keep : SUBSET Workers]
Held == "held"    \* the service's copy of the entry it restarts
Orphaned == "orphaned"

TypeOK ==
  /\ worker \in [Workers -> Stages]
  /\ entry \in Entry \cup {None} /\ ripe \in BOOLEAN
  /\ lease \in Lease \cup {None}
  /\ slock \in Starters \cup {Service, Orphaned, None}
  /\ me \in [Actors -> Memory]
  /\ current \subseteq Actors \cup {Held}
  /\ called \subseteq Clients /\ deaths \in 0..MaxDeaths /\ faults \in 0..MaxFaults

Blank == [seen |-> None, held |-> None, verdict |-> "none", victim |-> 0, kid |-> 0,
          tries |-> 0, ok |-> TRUE, keep |-> {}]

(* A first worker may be serving already, registered and owning the lease. *)
Init ==
  /\ \E running \in BOOLEAN :
       /\ worker = [p \in Workers |-> IF running /\ p = 1 THEN "serve" ELSE "unborn"]
       /\ entry = IF running THEN [pid |-> 1, st |-> "running", att |-> 0] ELSE None
       /\ lease = IF running THEN [pid |-> 1, written |-> TRUE] ELSE None
  /\ ripe = FALSE /\ slock = None
  /\ todo = [a \in Actors |-> <<>>] /\ me = [a \in Actors |-> Blank]
  /\ current = {} /\ called = {} /\ deaths = 0 /\ faults = 0
  /\ lost = FALSE

Live(p) == worker[p] \notin {"unborn", "dead"}
Registered(p) == entry # None /\ entry.pid = p
LiveLock == slock \notin {None, Orphaned}

At(a, step) == todo[a] # <<>> /\ Head(todo[a]) = step
Go(a, steps) == todo' = [todo EXCEPT ![a] = steps \o Tail(@)]
Know(a, change) == me' = [me EXCEPT ![a] = change]

files == <<entry, ripe, current>>
rest  == <<called, deaths, faults>>

(* ---- The registry: service-storage.ts, each a section under its lock ---- *)

(* A new lifecycle has a new deadline. *)
Write(e, writers) == entry' = e /\ current' = writers /\ ripe' = FALSE
Forget(p) == IF Registered(p) THEN Write(None, {}) ELSE UNCHANGED files

(* compareAndSetRuntimeLifecycle: nobody wrote the lifecycle since it was read. *)
Swapped(reader, e) == entry # None /\ reader \in current /\ Write(e, {reader})

(* ---- The startup lock ---- *)

StartSteps == <<"lock", "read", "retire", "choose", "unlock">>
Finish(a) == IF a = Service THEN <<"restarted">> ELSE <<>>

(* An exception inside the locked section, or before it. *)
Throw(a) == todo' = [todo EXCEPT ![a] = <<"unlock">> \o Finish(a)]

(* A call is over, and what it knew is forgotten. *)
Over(a) == todo' = [todo EXCEPT ![a] = <<>>] /\ me' = [me EXCEPT ![a] = Blank]
Forgotten(a) == IF a = Service THEN {Service, Held} ELSE {a}
End(a) == Over(a) /\ current' = current \ Forgotten(a)

(* All who lock are one process, and find out that a holder died, remove its lock
   and take it without a pause.                                               *)
TakeLock(a) ==
  /\ At(a, "lock") /\ ~LiveLock
  /\ slock' = a /\ Go(a, <<>>)
  /\ UNCHANGED <<worker, files, lease, me, rest, lost>>

(* Whatever file is there by now is removed. *)
RemoveLock == slock' = None
BreakLock(a) ==
  /\ At(a, "break")
  /\ RemoveLock /\ Go(a, <<>>)
  /\ UNCHANGED <<worker, files, lease, me, rest, lost>>

GiveUpLock(a) ==
  /\ At(a, "lock") /\ LiveLock
  /\ IF a = Service
     THEN todo' = [todo EXCEPT ![a] = Finish(a)] /\ Know(a, [me[a] EXCEPT !.ok = FALSE]) /\ UNCHANGED current
     ELSE End(a)
  /\ UNCHANGED <<worker, entry, ripe, lease, slock, rest, lost>>

Unlock(a) ==
  /\ At(a, "unlock")
  /\ RemoveLock
  /\ IF a = Service THEN Go(a, <<>>) /\ UNCHANGED <<me, current>> ELSE End(a)
  /\ UNCHANGED <<worker, entry, ripe, lease, rest, lost>>

BreakIdleLock(a) ==
  /\ At(a, "break-idle")
  /\ Go(a, IF slock = Orphaned THEN <<"break">> ELSE <<>>)
  /\ UNCHANGED <<worker, files, lease, slock, me, rest, lost>>

(* ---- Inspection: service-monitor.ts ---- *)

(* Reading the entry and looking whether its process runs is one stretch; a probe
   of one that runs is awaited. *)
Reconciling(a) == \E k \in DOMAIN todo[a] : todo[a][k] = "judge"
Look(a, e, verdict) == Know(a, [me[a] EXCEPT !.seen = e, !.verdict = verdict])

Inspect(a, e) ==
  /\ IF Live(e.pid)
     THEN Look(a, e, "none") /\ Go(a, <<"probe">>)
     ELSE Look(a, e, IF e.st = "failed" THEN "failed" ELSE "stale") /\ Go(a, <<>>)
  /\ current' = current \cup {a} /\ UNCHANGED <<entry, ripe>>

Read(a) ==
  /\ At(a, "read") /\ entry # None
  /\ Inspect(a, entry)
  /\ UNCHANGED <<worker, lease, slock, rest, lost>>

(* There is nothing for the service to reconcile; a start goes on. *)
ReadUnregistered(a) ==
  /\ At(a, "read") /\ entry = None
  /\ IF Reconciling(a) THEN End(a)
     ELSE Go(a, <<>>) /\ Look(a, None, "none") /\ UNCHANGED current
  /\ UNCHANGED <<worker, entry, ripe, lease, slock, rest, lost>>

Answers(p) == worker[p] = "serve"

(* The deadline of a lifecycle that was read earlier may have passed or not. *)
Passed(reader) == IF reader \in current THEN {ripe} ELSE BOOLEAN

ByLifecycle(e) ==
  CASE e.st \in {"failed", "starting", "running"} -> e.st [] OTHER -> "unhealthy"
Conclude(a, verdict) == Know(a, [me[a] EXCEPT !.verdict = verdict])

(* A probe was answered: the lifecycle becomes running, with a message that says
   whether the state was read as well, unless it is just that already or somebody
   wrote it during the probe.                                                 *)
ProbeAnswered(a) ==
  /\ At(a, "probe") /\ Answers(me[a].seen.pid)
  /\ LET seen == me[a].seen
         healthy == [seen EXCEPT !.st = "running", !.att = 0] IN
     \/ /\ seen.st = "running"
        /\ Conclude(a, "running") /\ Go(a, <<>>) /\ UNCHANGED files
     \/ /\ Swapped(a, healthy)
        /\ Know(a, [me[a] EXCEPT !.verdict = "running", !.seen = healthy]) /\ Go(a, <<>>)
     \/ /\ a \notin current
        /\ IF entry = None THEN Conclude(a, "stale") /\ Go(a, <<>>) /\ UNCHANGED files
           ELSE IF entry.pid # seen.pid THEN Inspect(a, entry)
           ELSE /\ Look(a, entry, ByLifecycle(entry)) /\ Go(a, <<>>)
                /\ current' = current \cup {a} /\ UNCHANGED <<entry, ripe>>
  /\ UNCHANGED <<worker, lease, slock, rest, lost>>

ProbeFails(a) ==
  /\ At(a, "probe") /\ ~Answers(me[a].seen.pid)
  /\ \E passed \in Passed(a) :
       Conclude(a, IF me[a].seen.st = "starting" /\ ~passed THEN "starting" ELSE "unhealthy")
  /\ Go(a, <<>>)
  /\ UNCHANGED <<worker, files, lease, slock, rest, lost>>

(* ---- Ending a worker: process-tree.ts ---- *)

Ended(p) == worker' = [worker EXCEPT ![p] = "dead"]
(* SIGTERM ends a worker that has no handler yet; one that hangs never runs it. *)
Terminated(p) ==
  worker' = [worker EXCEPT ![p] =
    CASE @ = "serve" -> "ending" [] @ \in {"boot", "break", "open", "own"} -> "dead" [] OTHER -> @]

(* Mutant: nothing follows the SIGTERM. *)
MutantReap(a) ==
  /\ At(a, "reap")
  /\ Go(a, <<>>)
  /\ UNCHANGED <<worker, files, lease, slock, me, rest, lost>>

(* SIGKILL, unless it has ended in time. *)
Reap(a) ==
  /\ At(a, "reap")
  /\ Ended(me[a].victim) /\ Go(a, <<>>)
  /\ UNCHANGED <<files, lease, slock, me, rest, lost>>

ForgetVictim(a) ==
  /\ At(a, "forget")
  /\ Forget(me[a].victim) /\ Go(a, <<>>)
  /\ Know(a, [me[a] EXCEPT !.victim = 0])
  /\ UNCHANGED <<worker, lease, slock, rest, lost>>

(* ---- Retiring a worker by its lease: service-process.ts ---- *)

LiveLease == lease # None /\ Live(lease.pid)
RemoveLease(by) ==
  /\ lease' = None
  /\ lost' = (lost \/ (LiveLease /\ lease.pid # by))

Unreadable(l) == l \notin [pid : Workers, written : {TRUE}]

(* "retire" spares the registered process, "retire-all" spares none. *)
Retiring(a) == At(a, "retire") \/ At(a, "retire-all")
Spared(a) ==
  /\ At(a, "retire") /\ me[a].seen # None
  /\ lease.pid = me[a].seen.pid /\ Live(lease.pid)

RetireUnreadable(a) ==
  /\ Retiring(a) /\ Unreadable(lease)
  /\ Go(a, <<"drop">>)
  /\ UNCHANGED <<worker, files, lease, slock, me, rest, lost>>

RetireRegistered(a) ==
  /\ Retiring(a) /\ ~Unreadable(lease) /\ Spared(a)
  /\ Go(a, <<>>)
  /\ UNCHANGED <<worker, files, lease, slock, me, rest, lost>>

RetireOther(a) ==
  /\ Retiring(a) /\ ~Unreadable(lease) /\ ~Spared(a)
  /\ Know(a, [me[a] EXCEPT !.victim = lease.pid])
  /\ Terminated(lease.pid)
  /\ Go(a, (IF Live(lease.pid) THEN <<"reap">> ELSE <<>>) \o <<"drop", "forget">>)
  /\ UNCHANGED <<files, lease, slock, rest, lost>>

DropLease(a) ==
  /\ At(a, "drop")
  /\ RemoveLease(0) /\ Go(a, <<>>)
  /\ UNCHANGED <<worker, files, slock, me, rest>>

(* ---- stopProjectRuntime: service-control.ts ---- *)

(* The lifecycle becomes stopping, whatever it is by now. *)
Stop(a) ==
  /\ At(a, "stop") /\ entry # None
  /\ LET p == entry.pid IN
     /\ Know(a, [me[a] EXCEPT !.victim = p])
     /\ IF Live(p) THEN Write([entry EXCEPT !.st = "stopping"], {}) ELSE UNCHANGED files
     /\ Terminated(p)
     /\ Go(a, (IF Live(p) THEN <<"reap">> ELSE <<>>) \o <<"forget", "retire-all", "break-idle">>)
  /\ UNCHANGED <<lease, slock, rest, lost>>

StopUnregistered(a) ==
  /\ At(a, "stop") /\ entry = None
  /\ Go(a, <<"break-idle", "retire-all">>)
  /\ UNCHANGED <<worker, files, lease, slock, me, rest, lost>>

(* ---- startProjectRuntime: service-start.ts ---- *)

Choose(a) ==
  /\ At(a, "choose")
  /\ LET verdict == me[a].verdict IN
     /\ IF verdict \in {"failed", "stale"} THEN Write(None, {}) ELSE UNCHANGED files
     /\ Go(a, CASE verdict = "running"   -> <<>>
                [] verdict = "starting"  -> <<"await-other">>
                [] verdict = "unhealthy" -> <<"stop", "retire-all", "spawn">>
                [] OTHER                 -> <<"retire-all", "spawn">>)
     /\ Look(a, IF verdict = "starting" THEN me[a].seen ELSE None, "none")
  /\ UNCHANGED <<worker, lease, slock, rest, lost>>

(* Another start spawned it. It becomes running, unless somebody wrote it. *)
OtherIsReady(a) ==
  /\ At(a, "await-other") /\ Answers(me[a].seen.pid)
  /\ IF a \in current
     THEN /\ Write([me[a].seen EXCEPT !.st = "running", !.att = 0], {a})
          /\ Go(a, <<>>) /\ UNCHANGED me
     ELSE Throw(a) /\ Know(a, [me[a] EXCEPT !.ok = FALSE]) /\ UNCHANGED files
  /\ UNCHANGED <<worker, lease, slock, rest, lost>>

OtherIsNot(a) ==
  /\ At(a, "await-other") /\ ~Answers(me[a].seen.pid)
  /\ Go(a, <<"stop", "retire-all", "spawn">>)
  /\ Look(a, None, "none")
  /\ UNCHANGED <<worker, files, lease, slock, rest, lost>>

Unborn == {p \in Workers : worker[p] = "unborn"}
Spawn(a) ==
  /\ At(a, "spawn")
  /\ \E p \in Unborn :
     /\ \A q \in Unborn : p <= q
     /\ worker' = [worker EXCEPT ![p] = "boot"]
     /\ Know(a, [me[a] EXCEPT !.kid = p, !.tries = @ + 1])
  /\ Go(a, <<"register">>)
  /\ UNCHANGED <<files, lease, slock, rest, lost>>

SpawnFails(a) ==
  /\ At(a, "spawn") /\ Unborn = {}
  /\ Throw(a) /\ Know(a, [me[a] EXCEPT !.ok = FALSE])
  /\ UNCHANGED <<worker, files, lease, slock, rest, lost>>

Register(a) ==
  /\ At(a, "register")
  /\ Write([pid |-> me[a].kid, st |-> "starting", att |-> 0], {})
  /\ Go(a, <<"await">>)
  /\ UNCHANGED <<worker, lease, slock, me, rest, lost>>

KidIsReady(a) ==
  /\ At(a, "await") /\ Answers(me[a].kid)
  /\ Go(a, <<"confirm">>)
  /\ UNCHANGED <<worker, files, lease, slock, me, rest, lost>>

(* What was spawned is terminated, and the start fails. *)
Discard(a) ==
  /\ Know(a, [me[a] EXCEPT !.ok = FALSE, !.victim = me[a].kid])
  /\ Terminated(me[a].kid)
  /\ todo' = [todo EXCEPT ![a] = <<"reap", "unlock">> \o Finish(a)]

(* setRuntimeLifecycleForLease: the process must be the same, the lifecycle not. *)
Confirm(a) ==
  /\ At(a, "confirm")
  /\ IF Registered(me[a].kid)
     THEN /\ Write([entry EXCEPT !.st = "running", !.att = 0], {})
          /\ Go(a, <<>>) /\ UNCHANGED <<me, worker>>
     ELSE Discard(a) /\ UNCHANGED files
  /\ UNCHANGED <<lease, slock, rest, lost>>

(* Another port is tried after an exit, unless the problem will not go away. *)
KidExited(a) ==
  /\ At(a, "await") /\ ~Live(me[a].kid)
  /\ Forget(me[a].kid)
  /\ \/ /\ me[a].tries < Attempts
        /\ Go(a, <<"spawn">>) /\ UNCHANGED me
     \/ Throw(a) /\ Know(a, [me[a] EXCEPT !.ok = FALSE])
  /\ UNCHANGED <<worker, lease, slock, rest, lost>>

(* Mutant: the health of what was spawned is awaited until it exits. *)
MutantKidIsLate(a) ==
  /\ At(a, "await") /\ Live(me[a].kid) /\ worker[me[a].kid] \in {"ending", "leaving"}
  /\ Forget(me[a].kid) /\ Discard(a)
  /\ UNCHANGED <<lease, slock, rest, lost>>

KidIsLate(a) ==
  /\ At(a, "await") /\ Live(me[a].kid) /\ ~Answers(me[a].kid)
  /\ Forget(me[a].kid) /\ Discard(a)
  /\ UNCHANGED <<lease, slock, rest, lost>>

Call(c) ==
  /\ c \notin called
  /\ called' = called \cup {c}
  /\ \/ c \in Starters /\ todo' = [todo EXCEPT ![c] = StartSteps]
     \/ c \in Stoppers /\ todo' = [todo EXCEPT ![c] = <<"stop", "return">>]
  /\ UNCHANGED <<worker, files, lease, slock, me, deaths, faults, lost>>

Stopping(a) == \E k \in DOMAIN todo[a] : todo[a][k] = "return"
Dies == deaths < MaxDeaths /\ deaths' = deaths + 1

Killed(c) ==
  /\ Stopping(c) /\ Dies
  /\ End(c)
  /\ UNCHANGED <<worker, entry, ripe, lease, slock, called, faults, lost>>

(* The service dies, with the reconciler and the starts it was asked for; whoever
   asked finds its connection closed. Another service takes its place.        *)
ServiceDies ==
  /\ Dies
  /\ todo' = [a \in Actors |-> IF Stopping(a) THEN todo[a] ELSE <<>>]
  /\ me' = [a \in Actors |-> IF Stopping(a) THEN me[a] ELSE Blank]
  /\ slock' = (IF slock = None THEN None ELSE Orphaned)
  /\ current' = {}
  /\ UNCHANGED <<worker, entry, ripe, lease, called, faults, lost>>

Return(a) ==
  /\ At(a, "return") /\ End(a)
  /\ UNCHANGED <<worker, entry, ripe, lease, slock, rest, lost>>

(* ---- reconcileProjectRuntimes: service-reconcile.ts ---- *)

Reconcile ==
  /\ todo[Service] = <<>>
  /\ todo' = [todo EXCEPT ![Service] =
       <<"keep", "peers", "cull", "read", "retire", "judge">>]
  /\ UNCHANGED <<worker, files, lease, slock, me, rest, lost>>

(* Who is registered is read before, and kept while, processes are listed and
   terminated one after another. *)
KeepRegistered ==
  /\ At(Service, "keep")
  /\ Know(Service, [me[Service] EXCEPT !.keep = {p \in Workers : Registered(p) /\ Live(p)}])
  /\ Go(Service, <<>>)
  /\ UNCHANGED <<worker, files, lease, slock, rest, lost>>

(* Mutant: only peers that answer are listed. *)
MutantListPeers ==
  /\ At(Service, "peers")
  /\ Know(Service, [me[Service] EXCEPT !.keep = {p \in Workers : Answers(p)} \ @])
  /\ Go(Service, <<>>)
  /\ UNCHANGED <<worker, files, lease, slock, rest, lost>>

(* keep becomes the set of those to be retired. *)
ListPeers ==
  /\ At(Service, "peers")
  /\ Know(Service, [me[Service] EXCEPT !.keep = {p \in Workers : Live(p)} \ @])
  /\ Go(Service, <<>>)
  /\ UNCHANGED <<worker, files, lease, slock, rest, lost>>

Cull(p) ==
  /\ At(Service, "cull") /\ p \in me[Service].keep
  /\ Know(Service, [me[Service] EXCEPT !.keep = @ \ {p}, !.victim = p])
  /\ Terminated(p)
  /\ Go(Service, IF Live(p) THEN <<"reap", "cull">> ELSE <<"cull">>)
  /\ UNCHANGED <<files, lease, slock, rest, lost>>

Culled ==
  /\ At(Service, "cull") /\ me[Service].keep = {}
  /\ Know(Service, [me[Service] EXCEPT !.victim = 0])
  /\ Go(Service, <<>>)
  /\ UNCHANGED <<worker, files, lease, slock, rest, lost>>

(* runtimeFailureLifecycle: earlier failures count if they are recent. *)
Failures(e, final) ==
  {[e EXCEPT !.att = n, !.st = IF final \/ n > RestartMaxAttempts THEN "failed" ELSE "backing"] :
     n \in {1, IF e.att <= RestartMaxAttempts THEN e.att + 1 ELSE e.att}}

Restart(e) ==
  /\ me' = [me EXCEPT ![Service] = [Blank EXCEPT !.held = e]]
  /\ todo' = [todo EXCEPT ![Service] = StartSteps \o <<"restarted">>]
Remembered == current' = (IF Service \in current THEN current \cup {Held} ELSE current \ {Held})

Confirming(e) == e.st = "unhealthy"
Judging == At(Service, "judge")
Deadline(e) == e.st \in {"starting", "backing", "unhealthy"}

(* Running, failed, or still within its deadline. *)
JudgeFine ==
  /\ Judging
  /\ LET seen == me[Service].seen  verdict == me[Service].verdict IN
     \/ verdict \in {"running", "failed"}
     \/ /\ FALSE \in Passed(Service)
        /\ seen.st \in {"starting", "backing"} \/ (verdict = "unhealthy" /\ Confirming(seen))
  /\ End(Service)
  /\ UNCHANGED <<worker, entry, ripe, lease, slock, rest, lost>>

(* Mutant: only a confirmed ill health leads to a restart. *)
MutantJudgeDue ==
  /\ Judging /\ me[Service].verdict = "unhealthy"
  /\ TRUE \in Passed(Service) /\ Confirming(me[Service].seen)
  /\ Restart(me[Service].seen)
  /\ Remembered
  /\ UNCHANGED <<worker, entry, ripe, lease, slock, rest, lost>>

(* Its backoff is over, or its ill health is confirmed: replaced as it was read. *)
JudgeDue ==
  /\ Judging /\ me[Service].verdict \notin {"running", "failed"}
  /\ LET seen == me[Service].seen IN
     /\ TRUE \in Passed(Service)
     /\ seen.st = "backing" \/ (me[Service].verdict = "unhealthy" /\ Confirming(seen))
     /\ Restart(seen)
  /\ Remembered
  /\ UNCHANGED <<worker, entry, ripe, lease, slock, rest, lost>>

Overdue ==
  /\ Judging /\ me[Service].verdict \notin {"running", "failed"}
  /\ me[Service].seen.st # "backing"
  /\ me[Service].seen.st = "starting" => TRUE \in Passed(Service)

JudgeUnhealthy ==
  /\ Overdue /\ me[Service].verdict = "unhealthy" /\ ~Confirming(me[Service].seen)
  /\ IF Service \in current
     THEN Write([me[Service].seen EXCEPT !.st = "unhealthy", !.att = 0], {}) /\ Over(Service)
     ELSE End(Service) /\ UNCHANGED <<entry, ripe>>
  /\ UNCHANGED <<worker, lease, slock, rest, lost>>

(* Its process is gone: the first failure is restarted at once. *)
JudgeStale ==
  /\ Overdue /\ me[Service].verdict # "unhealthy"
  /\ IF Service \in current
     THEN \E e \in Failures(me[Service].seen, FALSE) :
            IF e.st = "backing" /\ e.att = 1
            THEN Restart(e) /\ Write(e, {Held})
            ELSE Over(Service) /\ Write(e, {})
     ELSE End(Service) /\ UNCHANGED <<entry, ripe>>
  /\ UNCHANGED <<worker, lease, slock, rest, lost>>

(* A failed restart is written down, for good if the problem will not go away. *)
Restarted ==
  /\ At(Service, "restarted")
  /\ IF ~me[Service].ok /\ Held \in current
     THEN \E final \in BOOLEAN : \E e \in Failures(me[Service].held, final) :
            Write(e, {}) /\ Over(Service)
     ELSE End(Service) /\ UNCHANGED <<entry, ripe>>
  /\ UNCHANGED <<worker, lease, slock, rest, lost>>

(* The deadline may pass while the entry's worker is still awaited: a start makes
   720 attempts, of up to two seconds each when the worker does not answer.   *)
TimePasses ==
  /\ entry # None /\ ~ripe /\ Deadline(entry)
  /\ ripe' = TRUE
  /\ UNCHANGED <<worker, entry, current, lease, slock, todo, me, rest, lost>>

(* ---- The worker: acquireProjectWorkerLease, service by server.ts, cli.ts ---- *)

Becomes(p, stage) == worker' = [worker EXCEPT ![p] = stage]

(* Mutant: the lease file is opened whether or not it exists. *)
MutantCreateLease(p) ==
  /\ worker[p] = "boot"
  /\ lease' = [pid |-> p, written |-> FALSE] /\ Becomes(p, "open")
  /\ UNCHANGED <<files, slock, todo, me, rest, lost>>

CreateLease(p) ==
  /\ worker[p] = "boot" /\ lease = None
  /\ lease' = [pid |-> p, written |-> FALSE] /\ Becomes(p, "open")
  /\ UNCHANGED <<files, slock, todo, me, rest, lost>>

(* The file may be gone, or another's, by now: without one, startup fails. *)
WriteLease(p) ==
  /\ worker[p] = "open"
  /\ lease' = IF lease # None /\ lease.pid = p THEN [lease EXCEPT !.written = TRUE] ELSE lease
  /\ Becomes(p, IF lease = None THEN "dead" ELSE "own")
  /\ UNCHANGED <<files, slock, todo, me, rest, lost>>

FindDeadOwner(p) ==
  /\ worker[p] = "boot" /\ lease # None /\ (Unreadable(lease) \/ ~Live(lease.pid))
  /\ Becomes(p, "break")
  /\ UNCHANGED <<files, lease, slock, todo, me, rest, lost>>

BreakLease(p) ==
  /\ worker[p] = "break"
  /\ RemoveLease(p) /\ Becomes(p, "boot")
  /\ UNCHANGED <<files, slock, todo, me, rest>>

Refused(p) ==
  /\ worker[p] = "boot" /\ ~Unreadable(lease) /\ Live(lease.pid)
  /\ Ended(p)
  /\ UNCHANGED <<files, lease, slock, todo, me, rest, lost>>

Serves(p) ==
  /\ worker[p] = "own" /\ Becomes(p, "serve")
  /\ UNCHANGED <<files, lease, slock, todo, me, rest, lost>>

(* On SIGTERM, or when idle, it first removes its registration. *)
Leaves(p) ==
  /\ Forget(p) /\ Becomes(p, "leaving")
  /\ UNCHANGED <<lease, slock, todo, me, rest, lost>>
LeavesOnSignal(p) == worker[p] = "ending" /\ Leaves(p)
LeavesIdle(p) == worker[p] = "serve" /\ Leaves(p)

(* The lease is released last, by whoever it names. *)
Release(p) == lease' = IF lease # None /\ lease.pid = p /\ lease.written THEN None ELSE lease
Exits(p) ==
  /\ worker[p] = "leaving"
  /\ Release(p) /\ Ended(p)
  /\ UNCHANGED <<files, slock, todo, me, rest, lost>>

Fault == faults < MaxFaults /\ faults' = faults + 1

(* Startup fails: what was opened is closed and the lease released. *)
BootFails(p) ==
  /\ worker[p] = "own" /\ Fault
  /\ Release(p) /\ Ended(p)
  /\ UNCHANGED <<files, slock, todo, me, called, deaths, lost>>

Crashes(p) ==
  /\ Live(p) /\ Fault
  /\ Ended(p)
  /\ UNCHANGED <<files, lease, slock, todo, me, called, deaths, lost>>

Hangs(p) ==
  /\ worker[p] = "serve" /\ Fault
  /\ Becomes(p, "hung")
  /\ UNCHANGED <<files, lease, slock, todo, me, called, deaths, lost>>

(* ---- Specification ---- *)

Step(a) ==
  \/ TakeLock(a) \/ BreakLock(a) \/ GiveUpLock(a) \/ Unlock(a)
  \/ BreakIdleLock(a) \/ Read(a) \/ ReadUnregistered(a)
  \/ ProbeAnswered(a) \/ ProbeFails(a) \/ Reap(a) \/ ForgetVictim(a)
  \/ RetireUnreadable(a) \/ RetireRegistered(a) \/ RetireOther(a) \/ DropLease(a)
  \/ Stop(a) \/ StopUnregistered(a) \/ Choose(a) \/ OtherIsReady(a) \/ OtherIsNot(a)
  \/ Spawn(a) \/ SpawnFails(a) \/ Register(a) \/ KidIsReady(a) \/ Confirm(a)
  \/ KidExited(a) \/ KidIsLate(a) \/ Return(a)
ServiceStep ==
  \/ Reconcile \/ KeepRegistered \/ ListPeers \/ (\E p \in Workers : Cull(p)) \/ Culled \/ JudgeFine
  \/ JudgeDue \/ JudgeUnhealthy \/ JudgeStale \/ Restarted
WorkerStep(p) ==
  \/ CreateLease(p) \/ WriteLease(p) \/ FindDeadOwner(p) \/ BreakLease(p) \/ Refused(p)
  \/ Serves(p) \/ LeavesOnSignal(p) \/ Exits(p)

Next ==
  \/ \E a \in Actors : Step(a)
  \/ ServiceStep
  \/ \E p \in Workers : WorkerStep(p) \/ LeavesIdle(p) \/ BootFails(p) \/ Crashes(p) \/ Hangs(p)
  \/ \E c \in Clients : Call(c) \/ Killed(c)
  \/ ServiceDies \/ TimePasses

Spec == Init /\ [][Next]_vars

(* Every process runs, the timer of the service is set again after each round, a
   service that died is started again, and a worker told to end does.         *)
FairSpec ==
  /\ Spec
  /\ \A c \in Clients : WF_vars(Step(c))
  /\ WF_vars(Step(Service) \/ ServiceStep)
  /\ \A p \in Workers : WF_vars(WorkerStep(p))
  /\ WF_vars(TimePasses)

(* ---- Properties ---- *)

Orphan(p) == Live(p) /\ ~Registered(p)

(* A worker that lost its registration, to a failed start, a death of the service
   or a stop in between, is ended or registered again: retireUnregisteredProject-
   RuntimePeers finds it in a later round.                                    *)
OrphansAreRetired == (\E p \in Workers : Orphan(p)) ~> (\A p \in Workers : ~Orphan(p))

(* A registration whose process is gone is removed, replaced by a live one or marked
   failed, whatever its lifecycle said and whether the service or a client that
   stops it died while working on it.                                         *)
DeadEntriesAreResolved ==
  (entry # None /\ ~Live(entry.pid)) ~> (entry = None \/ Live(entry.pid) \/ entry.st = "failed")

Hung(p) == worker[p] = "hung"

(* A worker that no longer answers is killed: by the start that still awaits it, or
   through a health failure, its confirmation, and a restart that signals it twice.
   The reconciler may judge and restart one that is still awaited.            *)
HungWorkersAreEnded == (\E p \in Workers : Hung(p)) ~> (\A p \in Workers : ~Hung(p))

(* startProjectRuntime and stopProjectRuntime return, whatever the service and
   the workers do: every wait in them is bounded or for a signal that kills.  *)
CallsReturn == \A c \in Clients : todo[c] # <<>> ~> todo[c] = <<>>

Alone == called = Clients /\ \A c \in Clients : todo[c] = <<>>

(* What the lifecycle specification of the runtime says: a project whose running
   worker dies, and that nobody else touches, is served again by another one.
   The reconciler itself forgets it when the dead worker left its lease file. *)
CrashedIsRestarted ==
  \A p \in Workers :
    (Alone /\ Registered(p) /\ ~Live(p) /\ entry.st = "running" /\ Unborn # {}) ~>
      \E q \in Workers \ {p} : worker[q] = "serve"

InSection(a) ==
  /\ \E k \in DOMAIN todo[a] : todo[a][k] = "unlock"
  /\ ~At(a, "lock")

(* The same document: one startup lock serializes a project start. A client that
   stops the project and a service may both find the lock of a service that died;
   the client then removes the one that the service has taken by then.        *)
StartsAreSerialized == \A a, b \in Actors : InSection(a) /\ InSection(b) => a = b
=============================================================================
