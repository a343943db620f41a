---------------------------- MODULE ProtocolEvents ----------------------------
(***************************************************************************)
(* Project events: the durable log with its retention                      *)
(* (crates/opencanon-engine/src/project/protocol_event_store.rs), the      *)
(* broadcaster that appends to it and feeds the open event streams         *)
(* (packages/runtime/src/server-events.ts), the stream endpoint that       *)
(* replays the log after a client's cursor (server-routes.ts), the order   *)
(* in which one publication appends and broadcasts (state-manager.ts), and *)
(* two clients: a watcher that keeps its projections current, and the CLI  *)
(* that follows one check run (packages/cli/src/changes.ts).               *)
(*                                                                         *)
(* The runtime is single threaded: no stream is connected or read while    *)
(* "turn" is not "none", but the process may die there.                    *)
(***************************************************************************)
EXTENDS Naturals, FiniteSets, Sequences, Functions, FiniteSetsExt

CONSTANTS
  Watchers,        \* clients that want every event
  Followers,       \* clients that follow the one check run
  NoCursor,        \* the cursor of a follower that has received nothing
  RetentionCount,  \* ProtocolEventRetentionCount
  RetentionAge,    \* ProtocolEventRetentionMs
  ReplayLimit,     \* the most events one connection replays
  QueueLimit,      \* maxQueuedBytes, in events of equal size
  MaxSequence,     \* bound: events appended
  MaxTime,         \* bound: the clock
  MaxFaults        \* bound: lost connections and runtime restarts

ASSUME EventAssumption ==
  /\ Watchers \cap Followers = {}
  /\ NoCursor \notin Nat
  /\ {RetentionCount, ReplayLimit, QueueLimit} \subseteq Nat \ {0}
  /\ {RetentionAge, MaxSequence, MaxTime, MaxFaults} \subseteq Nat

VARIABLES
  history,   \* every event ever appended, by sequence: its kind and timestamp
  log,       \* the sequences still stored
  now,       \* the wall clock
  turn,      \* what the event loop is in the middle of
  pending,   \* the publication committed but not yet broadcast, 0 when none
  left,      \* progress events finalizePublished has yet to broadcast
  run,       \* the stored status of the check run
  stream,    \* each client's connection
  queue,     \* the events enqueued on it that the client has not received
  pc,        \* where each client is
  cursor,    \* the highest sequence a client has received
  since,     \* the sequence from which a watcher is owed every event
  seen,      \* the sequences a watcher has received
  faults     \* lost connections and restarts so far

Clients == Watchers \cup Followers
Kinds == {"published", "progress", "failure", "operation", "terminal"}
StreamStates == {"closed", "open", "ended", "failed"}
ClientStates == {"reading", "connecting", "streaming", "refreshing", "done"}

logVars == <<history, log>>
publicationVars == <<turn, pending, left>>
streamVars == <<stream, queue>>
clientVars == <<pc, cursor, since, seen>>
vars == <<logVars, now, publicationVars, run, streamVars, clientVars, faults>>

Latest == Len(history)
Wants(c, kind) == c \in Watchers \/ kind \in {"operation", "terminal"}
Live(c) == stream[c] \in {"open", "ended"}

Init ==
  /\ history = <<>> /\ log = {} /\ now = 0
  /\ turn = "none" /\ pending = 0 /\ left = 0
  /\ run = "running"
  /\ stream = [c \in Clients |-> "closed"]
  /\ queue = [c \in Clients |-> <<>>]
  /\ pc = [c \in Clients |-> IF c \in Watchers THEN "connecting" ELSE "reading"]
  /\ cursor = [c \in Clients |-> IF c \in Watchers THEN 0 ELSE NoCursor]
  /\ since = [w \in Watchers |-> 0]
  /\ seen = [w \in Watchers |-> {}]
  /\ faults = 0

-----------------------------------------------------------------------------
(* The durable log: append_protocol_event, in the caller's transaction. *)

Newest(sequences) ==
  {s \in sequences : Cardinality({t \in sequences : t >= s}) <= RetentionCount}

Retained(sequences) ==
  Newest({s \in sequences : history'[s].stamp + RetentionAge >= now})

AppendEvent(k) ==
  /\ Latest < MaxSequence
  /\ history' = Append(history, [kind |-> k, stamp |-> now])
  /\ log' = Retained(log \cup {Latest + 1})

-----------------------------------------------------------------------------
(* Streams: enqueue, broadcastPersisted and connect. *)

(* A stream whose consumer has fallen behind is failed: what it had queued
   is discarded with it. *)
MutantDroppingEnqueue(c, s) ==
  IF Len(queue[c]) < QueueLimit
    THEN [stream |-> "open", queue |-> Append(queue[c], s)]
    ELSE [stream |-> "open", queue |-> queue[c]]
Enqueued(c, s) ==
  IF Len(queue[c]) < QueueLimit
    THEN [stream |-> IF c \in Followers /\ history'[s].kind = "terminal" THEN "ended" ELSE "open",
          queue |-> Append(queue[c], s)]
    ELSE [stream |-> "failed", queue |-> <<>>]

BroadcastPersisted(s) ==
  LET listening == {c \in Clients : stream[c] = "open" /\ Wants(c, history'[s].kind)}
  IN  /\ stream' = [c \in Clients |-> IF c \in listening THEN Enqueued(c, s).stream ELSE stream[c]]
      /\ queue' = [c \in Clients |-> IF c \in listening THEN Enqueued(c, s).queue ELSE queue[c]]

Broadcast(k) == AppendEvent(k) /\ BroadcastPersisted(Latest + 1)

-----------------------------------------------------------------------------
(* The runtime. *)

(* An event of its own: knowledge and activity progress, failures, and the
   check run's output while it runs. *)
BroadcastEvent ==
  /\ turn = "none"
  /\ \E k \in {"progress"} \cup (IF run = "running" THEN {"operation"} ELSE {}) : Broadcast(k)
  /\ UNCHANGED <<now, publicationVars, run, clientVars, faults>>

(* runLoop: commit appends the publication's event with the publication; an
   unchanged project has one progress event to come, a rebuilt one two. *)
CommitPublication ==
  /\ turn = "none"
  /\ AppendEvent("published")
  /\ turn' = "publishing" /\ pending' = Latest + 1
  /\ left' \in {1, 2}
  /\ UNCHANGED <<now, run, streamVars, clientVars, faults>>

(* The project inventory, read after the commit, throws: runLoop reports the
   revision as failed (onRebuildError) and announces no publication. *)
InventoryThrows ==
  /\ turn = "publishing" /\ left > 0 /\ pending = Latest
  /\ Broadcast("failure")
  /\ turn' = "none" /\ pending' = 0 /\ left' = 0
  /\ UNCHANGED <<now, run, clientVars, faults>>

(* candidate.finalizePublished, before the publication itself is announced. *)
FinalizePublished ==
  /\ turn = "publishing" /\ left > 0
  /\ Broadcast("progress")
  /\ left' = left - 1
  /\ UNCHANGED <<now, turn, pending, run, clientVars, faults>>

MutantFinalizeThrows ==
  /\ turn = "publishing" /\ left > 0
  /\ left' = 0 /\ turn' = "none" /\ pending' = 0
  /\ UNCHANGED <<logVars, now, run, streamVars, clientVars, faults>>
(* It throws: the failure is broadcast when that succeeds, and the
   publication is announced all the same. *)
FinalizeThrows ==
  /\ turn = "publishing" /\ left > 0
  /\ left' = 0
  /\ \/ Broadcast("progress")
     \/ UNCHANGED <<logVars, streamVars>>
  /\ UNCHANGED <<now, turn, pending, run, clientVars, faults>>

(* options.onPublished: broadcastPersisted(publication.event). *)
OnPublished ==
  /\ turn = "publishing" /\ left = 0
  /\ UNCHANGED logVars
  /\ BroadcastPersisted(pending)
  /\ turn' = "none" /\ pending' = 0
  /\ UNCHANGED <<now, left, run, clientVars, faults>>

(* The run's terminal status is stored before its terminal event is appended. *)
EndRun ==
  /\ turn = "none" /\ run = "running" /\ Latest < MaxSequence
  /\ run' = "ended" /\ turn' = "ending"
  /\ UNCHANGED <<logVars, now, pending, left, streamVars, clientVars, faults>>

AnnounceEnd ==
  /\ turn = "ending"
  /\ Broadcast("terminal")
  /\ turn' = "none"
  /\ UNCHANGED <<now, pending, left, run, clientVars, faults>>

(* The runtime dies, at any point of a turn, and is started again: streams
   are in its memory, the log and the run's status are not. *)
Restart ==
  /\ faults < MaxFaults /\ faults' = faults + 1
  /\ turn' = "none" /\ pending' = 0 /\ left' = 0
  /\ stream' = [c \in Clients |-> IF Live(c) THEN "failed" ELSE stream[c]]
  /\ queue' = [c \in Clients |-> <<>>]
  /\ UNCHANGED <<logVars, now, run, clientVars>>

(* Time passes; the wall clock is never set back. *)
Tick ==
  /\ now < MaxTime /\ now' = now + 1
  /\ UNCHANGED <<logVars, publicationVars, run, streamVars, clientVars, faults>>

-----------------------------------------------------------------------------
(* The stream endpoint. *)

Replay(c) == {s \in log : cursor[c] # NoCursor /\ s > cursor[c] /\ Wants(c, history[s].kind)}
InOrder(sequences) ==
  CHOOSE q \in [1 .. Cardinality(sequences) -> sequences] :
    \A i, j \in DOMAIN q : i < j => q[i] < q[j]

(* hasProtocolEventRetentionGap, and a replay longer than the limit *)
MutantMustResync(c) == Cardinality(Replay(c)) > ReplayLimit
MustResync(c) ==
  \/ cursor[c] # NoCursor /\ log # {} /\ cursor[c] + 1 < Min(log)
  \/ Cardinality(Replay(c)) > ReplayLimit

MutantCloseAfterReplay(c) == FALSE
CloseAfterReplay(c) == c \in Followers /\ run = "ended" /\ Replay(c) = {}

(* The replay is enqueued in the stream's start, before anything is read. *)
Replayed(c) ==
  IF Cardinality(Replay(c)) > QueueLimit THEN [stream |-> "failed", queue |-> <<>>]
  ELSE [stream |-> IF \/ CloseAfterReplay(c)
                      \/ c \in Followers /\ \E s \in Replay(c) : history[s].kind = "terminal"
                     THEN "ended" ELSE "open",
        queue |-> InOrder(Replay(c))]

Connect(c) ==
  /\ turn = "none" /\ pc[c] = "connecting"
  /\ ~MustResync(c)
  /\ stream' = [stream EXCEPT ![c] = Replayed(c).stream]
  /\ queue' = [queue EXCEPT ![c] = Replayed(c).queue]
  /\ pc' = [pc EXCEPT ![c] = "streaming"]
  /\ UNCHANGED <<logVars, now, publicationVars, run, cursor, since, seen, faults>>

(* 409 resync-required: the client refetches its projections and goes on
   from the latest sequence; the follower reads its run again. *)
Resync(c) ==
  /\ turn = "none" /\ pc[c] = "connecting"
  /\ MustResync(c)
  /\ IF c \in Watchers
       THEN /\ cursor' = [cursor EXCEPT ![c] = Max(log)]
            /\ since' = [since EXCEPT ![c] = Max(log)]
            /\ UNCHANGED pc
       ELSE /\ pc' = [pc EXCEPT ![c] = "reading"]
            /\ UNCHANGED <<cursor, since>>
  /\ UNCHANGED <<logVars, now, publicationVars, run, streamVars, seen, faults>>

-----------------------------------------------------------------------------
(* The clients. *)

Receive(c) ==
  /\ turn = "none" /\ Live(c) /\ queue[c] # <<>>
  /\ LET s == Head(queue[c])
     IN  /\ seen' = [w \in Watchers |-> IF w = c THEN seen[w] \cup {s} ELSE seen[w]]
         /\ cursor' = [cursor EXCEPT ![c] = IF @ = NoCursor THEN s ELSE Max({@, s})]
  /\ queue' = [queue EXCEPT ![c] = Tail(@)]
  /\ pc' = [pc EXCEPT ![c] = IF c \in Followers THEN "refreshing" ELSE @]
  /\ UNCHANGED <<logVars, now, publicationVars, run, stream, since, faults>>

(* The connection breaks; the server drops the stream with its queue. *)
Disconnect(c) ==
  /\ faults < MaxFaults /\ faults' = faults + 1
  /\ turn = "none" /\ Live(c)
  /\ stream' = [stream EXCEPT ![c] = "failed"]
  /\ queue' = [queue EXCEPT ![c] = <<>>]
  /\ UNCHANGED <<logVars, now, publicationVars, run, clientVars>>

StreamEnds(c) ==
  /\ pc[c] = "streaming"
  /\ stream[c] = "failed" \/ (stream[c] = "ended" /\ queue[c] = <<>>)
  /\ stream' = [stream EXCEPT ![c] = "closed"]
  /\ pc' = [pc EXCEPT ![c] = IF c \in Followers THEN "reading" ELSE "connecting"]
  /\ UNCHANGED <<logVars, now, publicationVars, run, queue, cursor, since, seen, faults>>

(* followChangeCheckRun: the run is read before every connection, ... *)
ReadRun(c) ==
  /\ turn = "none" /\ pc[c] = "reading"
  /\ pc' = [pc EXCEPT ![c] = IF run = "ended" THEN "done" ELSE "connecting"]
  /\ UNCHANGED <<logVars, now, publicationVars, run, streamVars, cursor, since, seen, faults>>

(* ... and again for every event of it that arrives (refreshOperation). *)
RefreshRun(c) ==
  /\ turn = "none" /\ pc[c] = "refreshing"
  /\ IF run = "ended"
       THEN /\ pc' = [pc EXCEPT ![c] = "done"]
            /\ stream' = [stream EXCEPT ![c] = "closed"]
            /\ queue' = [queue EXCEPT ![c] = <<>>]
       ELSE pc' = [pc EXCEPT ![c] = "streaming"] /\ UNCHANGED streamVars
  /\ UNCHANGED <<logVars, now, publicationVars, run, cursor, since, seen, faults>>

-----------------------------------------------------------------------------
Publishing == InventoryThrows \/ FinalizePublished \/ FinalizeThrows \/ OnPublished \/ AnnounceEnd

ClientStep(c) ==
  \/ Connect(c)
  \/ Resync(c)
  \/ Receive(c)
  \/ StreamEnds(c)
  \/ ReadRun(c)
  \/ RefreshRun(c)

Next ==
  \/ BroadcastEvent
  \/ CommitPublication
  \/ InventoryThrows
  \/ FinalizePublished
  \/ FinalizeThrows
  \/ OnPublished
  \/ EndRun
  \/ AnnounceEnd
  \/ Restart
  \/ Tick
  \/ \E c \in Clients : Connect(c)
  \/ \E c \in Clients : Resync(c)
  \/ \E c \in Clients : Receive(c)
  \/ \E c \in Clients : Disconnect(c)
  \/ \E c \in Clients : StreamEnds(c)
  \/ \E c \in Followers : ReadRun(c)
  \/ \E c \in Followers : RefreshRun(c)

Spec == Init /\ [][Next]_vars

(* The event loop finishes the turn it is in; a client reads what arrives
   and connects again when its stream ends. Faults are bounded. *)
FairSpec ==
  /\ Spec
  /\ WF_vars(Publishing)
  /\ \A c \in Clients : WF_vars(ClientStep(c))

-----------------------------------------------------------------------------
(* Properties. *)

Unread(c) == Range(queue[c])
Kind(s) == history[s].kind

(* Every variable keeps its type, and no stream queues more than its bound. *)
TypeOK ==
  /\ history \in Seq([kind : Kinds, stamp : 0 .. MaxTime]) /\ Latest <= MaxSequence
  /\ log \subseteq 1 .. Latest
  /\ now \in 0 .. MaxTime
  /\ turn \in {"none", "publishing", "ending"}
  /\ pending \in 0 .. Latest /\ left \in 0 .. 2
  /\ run \in {"running", "ended"}
  /\ stream \in [Clients -> StreamStates]
  /\ \A c \in Clients : Unread(c) \subseteq 1 .. Latest /\ Len(queue[c]) <= QueueLimit
  /\ pc \in [Clients -> ClientStates]
  /\ cursor \in [Clients -> (0 .. Latest) \cup {NoCursor}]
  /\ since \in [Watchers -> 0 .. Latest]
  /\ seen \in [Watchers -> SUBSET (1 .. Latest)]
  /\ faults \in 0 .. MaxFaults

(* A watcher is owed every event since it last fetched its projections. All
   of them but publications are received, queued, or still after its cursor
   and then stored for its next replay or expired behind a resync: a
   connected stream has no hole, and a cursor never passes one. *)
NothingElseIsMissed ==
  \A w \in Watchers : \A s \in since[w] + 1 .. Latest :
    Kind(s) # "published" =>
      \/ s \in seen[w] \cup Unread(w)
      \/ stream[w] # "open" /\ s > cursor[w]

(* A publication can only be missed when it was overtaken by its own
   progress events, of which the watcher received one before its stream was
   lost, or when the failure reported after its commit stands in its place. *)
MissedPublicationWasOvertaken ==
  \A w \in Watchers : \A s \in since[w] + 1 .. Latest :
    (Kind(s) = "published" /\ s \notin seen[w] \cup Unread(w) \cup {pending}) =>
      \/ stream[w] # "open" /\ s > cursor[w]
      \/ Latest > s /\ Kind(s + 1) = "progress" /\ s + 1 \in seen[w]
      \/ Latest > s /\ Kind(s + 1) = "failure"

(* A watcher that may resume without a resync finds every event after its
   cursor stored: history that has expired is never skipped silently. *)
ExpiredHistoryResyncs ==
  \A w \in Watchers :
    (pc[w] = "connecting" /\ ~MustResync(w)) => cursor[w] + 1 .. Latest \subseteq log

(* A replay the endpoint admits and the stream's queue does not hold: every
   connection fails in its start and the next one sends the same cursor. *)
OutgrowsQueue(c) == ~MustResync(c) /\ Cardinality(Replay(c)) > QueueLimit

(* Every event reaches each watcher or is refetched by a resync, unless from
   some moment on the replay the watcher needs outgrows its queue for ever:
   nothing else keeps a watcher behind. *)
WatchersCatchUp ==
  \A w \in Watchers : \A s \in 1 .. MaxSequence :
    (Latest >= s) ~> (cursor[w] >= s \/ []OutgrowsQueue(w))

(* docs/opencanon/specs/domain-protocol-spec.md:71, "reconnect replays unseen
   events once in order", and the advice of the failed stream
   (packages/runtime/src/server-events.ts:91), "reconnect with the last event
   sequence": a watcher that keeps reconnecting gets every event. *)
ReconnectingSuffices ==
  \A w \in Watchers : \A s \in 1 .. MaxSequence : (Latest >= s) ~> (cursor[w] >= s)

(* A follower learns that its run has ended. *)
FollowersFinish ==
  \A f \in Followers : (run = "ended") ~> (pc[f] = "done")

(* docs/opencanon/specs/domain-protocol-spec.md:71, "reconnect replays unseen
   events once in order": a cursor never passes an event the watcher is owed
   and has neither received nor queued. *)
ReconnectReplaysUnseen ==
  \A w \in Watchers : \A s \in since[w] + 1 .. Latest :
    (s <= cursor[w] /\ s # pending) => s \in seen[w] \cup Unread(w)
=============================================================================
