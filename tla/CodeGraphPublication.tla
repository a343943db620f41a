------------------------ MODULE CodeGraphPublication ------------------------
(***************************************************************************)
(* Publication of Project State and its code graph                         *)
(* (crates/opencanon-engine/src/project/publication_store.rs and           *)
(* code_graph_connection.rs, driven by packages/runtime/src/server.ts).    *)
(*                                                                         *)
(* The publication row of the state database names the active generation;  *)
(* every generation is a database file of its own in one directory. Three  *)
(* kinds of process meet there, one at a time through a file lock that the *)
(* operating system releases when its holder dies: the project runtime,    *)
(* which opens the serving store and publishes; analysis workers, which    *)
(* stage the next generation; and knowledge index workers, which open the  *)
(* serving store. Whoever opens or stages removes the inactive             *)
(* generations. A worker outlives a runtime that dies.                     *)
(***************************************************************************)
EXTENDS Naturals, FiniteSets, Functions

CONSTANTS
  Runtime,      \* the project runtime, one at a time (acquireProjectWorkerLease)
  Workers,      \* analysis worker processes
  Indexers,     \* knowledge index worker processes
  Generations,  \* bound: the names of generations
  None,
  Unchanged,    \* the outcome of an analysis whose inputs have not changed
  MaxRevision,  \* bound: the changes observed
  MaxCrashes,   \* bound: deaths of the runtime
  MaxRestarts   \* bound: settings saved, each restarts the store

ASSUME PublicationAssumption ==
  /\ Runtime \notin Workers \cup Indexers /\ Workers \cap Indexers = {}
  /\ None \notin {Runtime} \cup Workers \cup Indexers
  /\ {None, Unchanged} \cap Generations = {} /\ None # Unchanged
  /\ None \notin [revision : Nat, generation : Generations]
  /\ {MaxRevision, MaxCrashes, MaxRestarts} \subseteq Nat

VARIABLES
  publication,  \* the durable publication row, None before the first
  files,        \* what the file of each generation holds
  lock,         \* the holder of .generation.lock
  pc,           \* where each process is
  active,       \* the active generation each process has read under the lock
  staged,       \* what each worker has staged
  graph,        \* the generation the runtime's graph connection reads
  worker,       \* the analysis the runtime waits for
  indexer,      \* the knowledge index worker the runtime waits for
  intent,       \* the revision being analysed or published
  candidate,    \* the outcome the runtime is about to publish
  observed,     \* the newest revision requested of this runtime, 0 while booting
  settled,      \* the newest revision published or failed by this runtime
  crashes, restarts

Processes == {Runtime} \cup Workers \cup Indexers
Places == {"off", "opening", "creating", "recording", "cleaning", "open", "clearing",
           "copying", "indexing", "reported", "publishing", "committed", "failed"}

disk == <<publication, files>>
locking == <<lock, active>>
runtime == <<graph, worker, indexer, intent, candidate, observed, settled>>
bounds == <<crashes, restarts>>
vars == <<disk, locking, pc, staged, runtime, bounds>>

Go(p, place) == pc' = [pc EXCEPT ![p] = place]
Hold(p, g) == lock' = p /\ active' = [active EXCEPT ![p] = g]
Release(p) == lock' = None /\ active' = [active EXCEPT ![p] = None]
Present(g) == files[g] # "absent"
(* A new name (randomUUID, or the nanoseconds of the first opening): one that has
   no file and that nothing refers to, no matter which. *)
Free ==
  {g \in Generations : ~Present(g) /\ g \notin {graph, candidate} \cup Range(staged) \cup Range(active)}
Unused == IF Free = {} THEN {} ELSE {CHOOSE g \in Free : TRUE}
MutantHasSchema(g) == files[g] = "copy"
HasSchema(g) == files[g] \in {"copy", "complete"}

Init ==
  /\ publication = None
  /\ files = [g \in Generations |-> "absent"]
  /\ lock = None
  /\ pc = [p \in Processes |-> "off"]
  /\ active = [p \in Processes |-> None]
  /\ staged = [w \in Workers |-> None]
  /\ graph = None /\ worker = None /\ indexer = None
  /\ intent = 0 /\ candidate = None /\ observed = 0 /\ settled = 0
  /\ crashes = 0 /\ restarts = 0

-----------------------------------------------------------------------------
(* Opening a store: open_code_graph_connection, and for an analysis worker
   open_existing_code_graph_connection, which initializes nothing. *)

OpenActive(p) ==
  /\ publication # None
  /\ IF HasSchema(publication.generation)
       THEN Hold(p, publication.generation) /\ Go(p, "cleaning")
       ELSE UNCHANGED locking /\ Go(p, "failed")
  /\ UNCHANGED disk

OpenFirst(p) ==
  /\ publication = None
  /\ IF p \in Workers
       THEN UNCHANGED <<disk, locking>> /\ Go(p, "failed")
       ELSE \E g \in Unused :
              /\ files' = [files EXCEPT ![g] = "partial"]
              /\ Hold(p, g) /\ Go(p, "creating")
              /\ UNCHANGED publication

Open(p) ==
  /\ pc[p] = "opening" /\ lock = None
  /\ OpenActive(p) \/ OpenFirst(p)
  /\ UNCHANGED <<staged, runtime, bounds>>

MutantInitializeGraph(p) ==
  /\ pc[p] = "creating"
  /\ publication' = [revision |-> 1, generation |-> active[p]]
  /\ Go(p, "recording")
  /\ UNCHANGED <<files, locking, staged, runtime, bounds>>
InitializeGraph(p) ==
  /\ pc[p] = "creating"
  /\ files' = [files EXCEPT ![active[p]] = "complete"]
  /\ Go(p, "recording")
  /\ UNCHANGED <<publication, locking, staged, runtime, bounds>>

RecordInitial(p) ==
  /\ pc[p] = "recording"
  /\ publication' = [revision |-> 1, generation |-> active[p]]
  /\ Go(p, "cleaning")
  /\ UNCHANGED <<files, locking, staged, runtime, bounds>>

(* cleanup_inactive_generations: file by file. *)
RemoveInactive(p) ==
  /\ pc[p] \in {"cleaning", "clearing"}
  /\ \E g \in Generations \ {active[p]} :
       Present(g) /\ files' = [files EXCEPT ![g] = "absent"]
  /\ UNCHANGED <<publication, locking, pc, staged, runtime, bounds>>

Cleaned(p) == \A g \in Generations \ {active[p]} : ~Present(g)

(* The runtime serves from the store it has opened: a new one resumes at the
   durable revision, a restarted store keeps the revisions. *)
Serve ==
  /\ graph' = active[Runtime]
  /\ IF observed = 0
       THEN observed' = publication.revision /\ settled' = publication.revision
       ELSE UNCHANGED <<observed, settled>>

Opened(p) ==
  /\ pc[p] = "cleaning" /\ Cleaned(p)
  /\ Release(p) /\ Go(p, "open")
  /\ IF p = Runtime
       THEN Serve /\ indexer' = IF indexer # None /\ pc[indexer] = "off" THEN None ELSE indexer
       ELSE UNCHANGED <<graph, observed, settled, indexer>>
  /\ UNCHANGED <<disk, staged, worker, intent, candidate, bounds>>

-----------------------------------------------------------------------------
(* An analysis worker: open_staged_code_graph_connection, then the index. *)

(* No input has changed since the accepted analysis: nothing is staged. *)
ReportUnchanged(w) ==
  /\ pc[w] = "open"
  /\ staged' = [staged EXCEPT ![w] = Unchanged]
  /\ Go(w, "reported")
  /\ UNCHANGED <<disk, locking, runtime, bounds>>

Stage(w) ==
  /\ pc[w] = "open" /\ lock = None
  /\ IF Present(publication.generation)
       THEN Hold(w, publication.generation) /\ Go(w, "clearing")
       ELSE UNCHANGED locking /\ Go(w, "failed")
  /\ UNCHANGED <<disk, staged, runtime, bounds>>

(* The copy of the active generation begins; a worker that dies in it leaves
   part of a file. *)
MutantStartCopy(w) ==
  /\ pc[w] = "clearing"
  /\ \E g \in Unused :
       /\ files' = [files EXCEPT ![g] = "partial"]
       /\ staged' = [staged EXCEPT ![w] = g]
  /\ Go(w, "copying")
  /\ UNCHANGED <<publication, locking, runtime, bounds>>
StartCopy(w) ==
  /\ pc[w] = "clearing" /\ Cleaned(w)
  /\ \E g \in Unused :
       /\ files' = [files EXCEPT ![g] = "partial"]
       /\ staged' = [staged EXCEPT ![w] = g]
  /\ Go(w, "copying")
  /\ UNCHANGED <<publication, locking, runtime, bounds>>

EndCopy(w) ==
  /\ pc[w] = "copying"
  /\ files' = [files EXCEPT ![staged[w]] = "copy"]
  /\ Release(w) /\ Go(w, "indexing")
  /\ UNCHANGED <<publication, staged, runtime, bounds>>

(* index_code_graph_with_connection, one transaction and without the lock:
   a file that was removed meanwhile is written to no purpose. *)
Index(w) ==
  /\ pc[w] = "indexing"
  /\ files' = [files EXCEPT ![staged[w]] = IF @ = "absent" THEN @ ELSE "complete"]
  /\ Go(w, "reported")
  /\ UNCHANGED <<publication, locking, staged, runtime, bounds>>

(* A worker whose runtime has died ends without anybody reading its result. *)
OrphanExits(p) ==
  /\ \/ p \in Workers /\ worker # p /\ pc[p] \in {"reported", "failed"}
     \/ p \in Indexers /\ indexer # p /\ pc[p] \in {"open", "failed"}
  /\ Go(p, "off")
  /\ staged' = [w \in Workers |-> IF w = p THEN None ELSE staged[w]]
  /\ UNCHANGED <<disk, locking, runtime, bounds>>

(* A worker is killed, because a newer change superseded it or for any other
   reason, wherever it is. *)
Die(p) ==
  /\ pc[p] # "off"
  /\ Go(p, "off")
  /\ IF lock = p THEN Release(p) ELSE UNCHANGED locking
  /\ staged' = [w \in Workers |-> IF w = p THEN None ELSE staged[w]]
  /\ UNCHANGED <<disk, runtime, bounds>>

-----------------------------------------------------------------------------
(* The runtime. *)

Boot ==
  /\ pc[Runtime] = "off"
  /\ Go(Runtime, "opening")
  /\ UNCHANGED <<disk, locking, staged, runtime, bounds>>

(* Its thread is not inside the engine, and it has a snapshot to serve. *)
Responsive == pc[Runtime] \in {"open", "opening"} /\ observed > 0

RequestRebuild ==
  /\ Responsive /\ observed < MaxRevision
  /\ observed' = observed + 1
  /\ UNCHANGED <<disk, locking, pc, staged, graph, worker, indexer, intent, candidate, settled, bounds>>

StartAnalysis(w) ==
  /\ Responsive
  /\ worker = None /\ indexer = None /\ candidate = None
  /\ settled < observed
  /\ pc[w] = "off"
  /\ Go(w, "opening")
  /\ worker' = w /\ intent' = observed
  /\ UNCHANGED <<disk, locking, staged, graph, indexer, candidate, observed, settled, bounds>>

(* runProjectAnalysisOperation waits for the worker's exit and reads its
   result; an analysis that died or was superseded has none. *)
CollectResult(w) ==
  /\ Responsive /\ worker = w /\ pc[w] \in {"reported", "failed", "off"}
  /\ Go(w, "off")
  /\ staged' = [staged EXCEPT ![w] = None]
  /\ worker' = None
  /\ IF pc[w] = "reported" /\ intent = observed
       THEN candidate' = staged[w] /\ UNCHANGED settled
       ELSE /\ settled' = IF intent = observed THEN observed ELSE settled
            /\ UNCHANGED candidate
  /\ UNCHANGED <<disk, locking, graph, indexer, intent, observed, bounds>>

Discard ==
  /\ Responsive /\ candidate # None /\ intent # observed
  /\ candidate' = None
  /\ UNCHANGED <<disk, locking, pc, staged, graph, worker, indexer, intent, observed, settled, bounds>>

Settle == candidate' = None /\ settled' = observed

(* commit_project_state without a generation takes no generation lock. *)
PublishUnchanged ==
  /\ pc[Runtime] = "open" /\ candidate = Unchanged /\ intent = observed
  /\ publication' = IF observed > publication.revision
                      THEN [publication EXCEPT !.revision = observed] ELSE publication
  /\ Settle
  /\ UNCHANGED <<files, locking, pc, staged, graph, worker, indexer, intent, observed, bounds>>

(* with_staged_code_graph_generation: the lock is held until the publication
   has been committed and the connection replaced. *)
MutantLockForPublication ==
  /\ pc[Runtime] = "open" /\ candidate \in Generations /\ intent = observed /\ lock = None
  /\ IF HasSchema(candidate)
       THEN Go(Runtime, "publishing") /\ UNCHANGED <<locking, candidate, settled>>
       ELSE Settle /\ UNCHANGED <<locking, pc>>
  /\ UNCHANGED <<disk, staged, graph, worker, indexer, intent, observed, bounds>>
LockForPublication ==
  /\ pc[Runtime] = "open" /\ candidate \in Generations /\ intent = observed /\ lock = None
  /\ IF HasSchema(candidate)
       THEN Hold(Runtime, None) /\ Go(Runtime, "publishing") /\ UNCHANGED <<candidate, settled>>
       ELSE Settle /\ UNCHANGED <<locking, pc>>
  /\ UNCHANGED <<disk, staged, graph, worker, indexer, intent, observed, bounds>>

(* The product model, the events, the revision and the generation are one
   transaction; a revision that is not newer is refused. *)
Commit ==
  /\ pc[Runtime] = "publishing"
  /\ IF observed > publication.revision
       THEN /\ publication' = [revision |-> observed, generation |-> candidate]
            /\ Go(Runtime, "committed")
            /\ UNCHANGED <<locking, candidate, settled>>
       ELSE Release(Runtime) /\ Go(Runtime, "open") /\ Settle /\ UNCHANGED publication
  /\ UNCHANGED <<files, staged, graph, worker, indexer, intent, observed, bounds>>

CommitFails ==
  /\ pc[Runtime] = "publishing"
  /\ Release(Runtime) /\ Go(Runtime, "open") /\ Settle
  /\ UNCHANGED <<disk, staged, graph, worker, indexer, intent, observed, bounds>>

SwapGraph ==
  /\ pc[Runtime] = "committed"
  /\ graph' = candidate
  /\ Release(Runtime) /\ Go(Runtime, "open") /\ Settle
  /\ UNCHANGED <<disk, staged, worker, indexer, intent, observed, bounds>>

(* Project Knowledge indexing is an exclusive operation: it waits until no
   change is queued or analysed, and ends when the store it wrote to has been
   opened again. *)
StartIndexing(k) ==
  /\ pc[Runtime] = "open"
  /\ worker = None /\ indexer = None /\ candidate = None /\ settled = observed
  /\ pc[k] = "off"
  /\ Go(k, "opening") /\ indexer' = k
  /\ UNCHANGED <<disk, locking, staged, graph, worker, intent, candidate, observed, settled, bounds>>

MutantEndIndexing(k) ==
  /\ pc[Runtime] = "open" /\ indexer = k /\ pc[k] \in {"open", "failed", "off"}
  /\ pc' = [pc EXCEPT ![k] = "off", ![Runtime] = IF pc[k] = "open" THEN "opening" ELSE @]
  /\ UNCHANGED <<disk, locking, staged, runtime, bounds>>
EndIndexing(k) ==
  /\ pc[Runtime] = "open" /\ indexer = k /\ pc[k] \in {"open", "failed", "off"}
  /\ pc' = [pc EXCEPT ![k] = "off", ![Runtime] = IF pc[k] = "open" THEN "opening" ELSE @]
  /\ indexer' = IF pc[k] = "open" THEN indexer ELSE None
  /\ UNCHANGED <<disk, locking, staged, graph, worker, intent, candidate, observed, settled, bounds>>

(* Saved settings restart the store; an analysis may have begun since the
   route saw the project idle. *)
RestartStore ==
  /\ pc[Runtime] = "open" /\ restarts < MaxRestarts
  /\ restarts' = restarts + 1
  /\ Go(Runtime, "opening")
  /\ UNCHANGED <<disk, locking, staged, runtime, crashes>>

RuntimeDies ==
  /\ pc[Runtime] # "off" /\ crashes < MaxCrashes
  /\ crashes' = crashes + 1
  /\ Go(Runtime, "off")
  /\ IF lock = Runtime THEN Release(Runtime) ELSE UNCHANGED locking
  /\ graph' = None /\ worker' = None /\ indexer' = None
  /\ intent' = 0 /\ candidate' = None /\ observed' = 0 /\ settled' = 0
  /\ UNCHANGED <<disk, staged, restarts>>

-----------------------------------------------------------------------------
Opening(p) == Open(p) \/ InitializeGraph(p) \/ RecordInitial(p) \/ RemoveInactive(p) \/ Opened(p)
Analysing(w) ==
  ReportUnchanged(w) \/ Stage(w) \/ StartCopy(w) \/ EndCopy(w) \/ Index(w)
Publishing ==
  PublishUnchanged \/ LockForPublication \/ Commit \/ CommitFails \/ SwapGraph \/ Discard

Next ==
  \/ \E p \in Processes : Open(p)
  \/ \E p \in Processes : InitializeGraph(p)
  \/ \E p \in Processes : RecordInitial(p)
  \/ \E p \in Processes : RemoveInactive(p)
  \/ \E p \in Processes : Opened(p)
  \/ \E w \in Workers : ReportUnchanged(w)
  \/ \E w \in Workers : Stage(w)
  \/ \E w \in Workers : StartCopy(w)
  \/ \E w \in Workers : EndCopy(w)
  \/ \E w \in Workers : Index(w)
  \/ \E p \in Workers \cup Indexers : OrphanExits(p)
  \/ \E p \in Workers \cup Indexers : Die(p)
  \/ Boot
  \/ RequestRebuild
  \/ \E w \in Workers : StartAnalysis(w)
  \/ \E w \in Workers : CollectResult(w)
  \/ Discard
  \/ PublishUnchanged
  \/ LockForPublication
  \/ Commit
  \/ CommitFails
  \/ SwapGraph
  \/ \E k \in Indexers : StartIndexing(k)
  \/ \E k \in Indexers : EndIndexing(k)
  \/ RestartStore
  \/ RuntimeDies

Spec == Init /\ [][Next]_vars

(* Every process goes on with what it has begun, the runtime collects its
   workers, an orphan ends, and the lock is granted to whoever keeps waiting. *)
FairSpec ==
  /\ Spec
  /\ SF_vars(Opening(Runtime) \/ Publishing)
  /\ \A w \in Workers :
       SF_vars(Opening(w) \/ Analysing(w)) /\ WF_vars(CollectResult(w) \/ OrphanExits(w))
  /\ \A k \in Indexers : SF_vars(Opening(k)) /\ WF_vars(EndIndexing(k) \/ OrphanExits(k))
  /\ WF_vars(\E w \in Workers : StartAnalysis(w))

-----------------------------------------------------------------------------
(* Properties. *)

(* Every variable keeps its type. *)
TypeOK ==
  /\ publication \in [revision : Nat, generation : Generations] \cup {None}
  /\ files \in [Generations -> {"absent", "partial", "copy", "complete"}]
  /\ lock \in Processes \cup {None}
  /\ pc \in [Processes -> Places]
  /\ active \in [Processes -> Generations \cup {None}]
  /\ staged \in [Workers -> Generations \cup {None, Unchanged}]
  /\ graph \in Generations \cup {None}
  /\ worker \in Workers \cup {None} /\ indexer \in Indexers \cup {None}
  /\ intent \in Nat /\ observed \in Nat /\ settled \in Nat
  /\ candidate \in Generations \cup {None, Unchanged}
  /\ crashes \in 0 .. MaxCrashes /\ restarts \in 0 .. MaxRestarts

(* Whatever process died wherever, the published generation is on disk, and
   it is a whole analysis: never removed by a cleanup that began from an
   older publication, never the copy a worker had yet to index. *)
PublishedGraphIsComplete ==
  publication # None => files[publication.generation] = "complete"

(* docs/opencanon/specs/domain-protocol-spec.md:81, "generation cleanup cannot
   remove a staged graph during publication". *)
PublicationIsUndisturbed ==
  pc[Runtime] \in {"publishing", "committed"} => files[candidate] = "complete"

(* Opening or staging never meets a missing or unfinished published
   generation, however the previous opener ended. *)
OpensNeverFail == \A p \in Processes : pc[p] # "failed"

(* Generations do not pile up: once an analysis has been published, there are
   at most the published one and one staged or replaced one, orphans included. *)
AtMostTwoGenerations ==
  (publication # None /\ publication.revision > 1) =>
    Cardinality({g \in Generations : Present(g)}) <= 2

(* Every change a living runtime has observed is published, superseded or
   reported as failed. *)
ChangesSettle ==
  \A r \in 1 .. MaxRevision : (observed >= r) ~> (settled >= r \/ pc[Runtime] = "off")
=============================================================================
