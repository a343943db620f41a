-------------------------- MODULE ProjectKnowledge --------------------------
(* The Project Knowledge index of one project: the rows of the state database
   and a directory of vectors beside it, which no transaction covers together.
   A worker process scans the project, plans a full rebuild or a delta, embeds,
   and publishes both under a file lock and a pending marker. A worker may die
   or meet a failing call at any step, and may outlive the runtime that started
   it. One chunk stands for one source file; a failing call stands for a full
   disk or a busy database.                                                   *)
EXTENDS Naturals, FiniteSets

CONSTANTS
  Chunks,       \* the project's source files, one chunk each
  Workers,      \* index worker processes
  MaxVersion,   \* bound: contents a file takes, one after the other
  MaxFaults,    \* bound: deaths and failing calls
  None, Torn

ASSUME FiniteProject == IsFiniteSet(Chunks)
ASSUME Bounds == MaxVersion \in Nat /\ MaxFaults \in Nat
ASSUME Distinct == None \notin Workers /\ None # Torn

Content == [Chunks -> 0..MaxVersion]
(* A directory holds the vectors that its id map reaches, and the identity of
   the snapshot they were published for. *)
Directory == [vectors : Content \cup {Torn}, marker : Content \cup {None}]
Snapshot == [tree : Content, inventory : Content]
Request == [full : BOOLEAN, scan : Content, changed : SUBSET Chunks,
            tree : Content, hadBackup : BOOLEAN, wasHealthy : BOOLEAN]
ASSUME NoContent == Torn \notin Content /\ None \notin Directory \cup Snapshot \cup Request

VARIABLES
  source,     \* content of each file; 0 before, MaxVersion + 1 after it exists
  inventory,  \* the files table: what the last scan recorded
  snapshot,   \* the knowledge_snapshots row, or None
  rows,       \* the knowledge_chunks rows: content each chunk was made from
  live, staging, backup,   \* the three vector directories
  pending,    \* the pending marker exists
  lock,       \* the worker that holds the publication lock, or None
  owned,      \* the worker that the runtime is waiting for, or None
  pc,         \* where each worker is
  request,    \* what each worker is about to write
  faults,     \* faults so far
  lost        \* history: scanned files whose run failed; all, after an orphan's

database == <<snapshot, rows>>
vectors  == <<live, staging, backup, pending>>
process  == <<lock, owned, pc, request, lost>>
vars     == <<source, inventory, database, vectors, process, faults>>

(* ---- Data ---- *)

Empty == [c \in Chunks |-> 0]
Count(content) == Cardinality({c \in Chunks : content[c] # 0})
OnDisk == [c \in Chunks |-> IF source[c] > MaxVersion THEN 0 ELSE source[c]]

Places == {"idle", "plan", "lock", "mark", "build", "retire", "swap", "vectors",
           "transaction", "dropBackup", "undo", "restore", "unlink", "rename", "unmark"}

TypeOK ==
  /\ source \in [Chunks -> 0..(MaxVersion + 1)]
  /\ inventory \in Content /\ rows \in Content
  /\ snapshot = None \/ snapshot \in Snapshot
  /\ {live, staging, backup} \subseteq Directory \cup {None}
  /\ pending \in BOOLEAN
  /\ {lock, owned} \subseteq Workers \cup {None}
  /\ lock # None => pc[lock] \notin {"idle", "plan", "lock"}
  /\ pc \in [Workers -> Places]
  /\ request \in [Workers -> Request \cup {None}]
  /\ faults \in 0..MaxFaults
  /\ lost \subseteq Chunks

Init ==
  /\ source \in [Chunks -> {0, 1}]
  /\ inventory = Empty /\ rows = Empty /\ snapshot = None
  /\ live = None /\ staging = None /\ backup = None /\ pending = FALSE
  /\ lock = None /\ owned = None
  /\ pc = [w \in Workers |-> "idle"]
  /\ request = [w \in Workers |-> None]
  /\ faults = 0 /\ lost = {}

(* semantic_vector_publication_failure_locked finds nothing, so that the status
   is ready and a search with a vector is answered. *)
Healthy ==
  /\ snapshot # None /\ live # None /\ ~pending
  /\ live.marker = snapshot.tree
  /\ live.vectors # Torn
  /\ Count(live.vectors) = Count(snapshot.tree)

(* A reader takes the lock shared. *)
Searchable == Healthy /\ lock = None

(* ---- Control of a worker ---- *)

Step(w, from, to) == pc[w] = from /\ pc' = [pc EXCEPT ![w] = to]
Advance(w, from, to) == Step(w, from, to) /\ UNCHANGED <<lock, owned, request, lost>>

(* The worker's process ends, having failed. Its lock goes with it. *)
Exit(w) ==
  /\ pc' = [pc EXCEPT ![w] = "idle"]
  /\ request' = [request EXCEPT ![w] = None]
  /\ lock' = IF lock = w THEN None ELSE lock
  /\ owned' = IF owned = w THEN None ELSE owned
  /\ lost' = lost \cup request[w].changed

Fault == faults < MaxFaults /\ faults' = faults + 1

(* The files a run reads, and what it writes a row and a vector for. *)
Touched(w) == IF request[w].full THEN Chunks ELSE request[w].changed
Replaced(w) == {c \in Touched(w) : rows[c] # request[w].tree[c]}

(* ---- The project and its runtime ---- *)

(* A file is created, changed, or removed for good. *)
Edit(c) ==
  /\ source[c] <= MaxVersion
  /\ source' = [source EXCEPT ![c] = @ + 1]
  /\ UNCHANGED <<inventory, database, vectors, process, faults>>

RuntimeDies ==
  /\ owned # None /\ owned' = None
  /\ Fault
  /\ UNCHANGED <<source, inventory, database, vectors, lock, pc, request, lost>>

(* ---- Planning: knowledge-index-manager.ts ---- *)

(* What a scan finds changed, with the paths a watcher hinted at. *)
MutantChanged(hint) == hint
Changed(hint) == {c \in Chunks : OnDisk[c] # inventory[c]} \cup hint

(* The runtime starts a worker for a request, or for a watched change, which
   hints at paths. The scan records what it found before any of it is indexed. *)
Scan(w, force, hint) ==
  /\ owned = None /\ owned' = w
  /\ Step(w, "idle", "plan")
  /\ request' = [request EXCEPT ![w] =
       [full |-> force, scan |-> OnDisk, tree |-> Empty,
        changed |-> Changed(hint),
        hadBackup |-> FALSE, wasHealthy |-> FALSE]]
  /\ inventory' = OnDisk
  /\ UNCHANGED <<source, database, vectors, lock, faults, lost>>

MutantNeedsFull(r) == r.full \/ snapshot = None
NeedsFull(r) == r.full \/ ~Healthy

(* Status and rows are read, and the files again: a scanned file that has gone
   meanwhile yields no chunk. A delta keeps the rows that it does not touch. *)
Plan(w) ==
  /\ lock = None
  /\ Step(w, "plan", "lock")
  /\ LET r == request[w]
         full == NeedsFull(r)
         read(c) == IF r.scan[c] # 0 THEN OnDisk[c] ELSE 0
         touched == IF full THEN Chunks ELSE r.changed
     IN request' = [request EXCEPT ![w] = [r EXCEPT
          !.full = full,
          !.tree = [c \in Chunks |-> IF c \in touched THEN read(c) ELSE rows[c]]]]
  /\ UNCHANGED <<source, inventory, database, vectors, lock, owned, faults, lost>>

(* ---- A full rebuild: write_knowledge_index_json ---- *)

LockFull(w) ==
  /\ pc[w] = "lock" /\ request[w].full
  /\ lock = None /\ lock' = w
  /\ Step(w, "lock", "mark")
  /\ request' = [request EXCEPT ![w].wasHealthy = Healthy]
  /\ staging' = None /\ backup' = None
  /\ UNCHANGED <<source, inventory, database, live, pending, owned, faults, lost>>

MarkPending(w) ==
  /\ Advance(w, "mark", "build")
  /\ pending' = TRUE
  /\ UNCHANGED <<source, inventory, database, live, staging, backup, faults>>

BuildStaging(w) ==
  /\ Advance(w, "build", "retire")
  /\ staging' = [vectors |-> request[w].tree, marker |-> request[w].tree]
  /\ UNCHANGED <<source, inventory, database, live, backup, pending, faults>>

RetireLive(w) ==
  /\ Step(w, "retire", "swap")
  /\ request' = [request EXCEPT ![w].hadBackup = live # None]
  /\ backup' = live /\ live' = None
  /\ UNCHANGED <<source, inventory, database, staging, pending, lock, owned, faults, lost>>

SwapStaging(w) ==
  /\ Advance(w, "swap", "transaction")
  /\ live' = staging /\ staging' = None
  /\ UNCHANGED <<source, inventory, database, backup, pending, faults>>

(* The rename fails; the previous directory is put back, still pending. *)
SwapFails(w) ==
  /\ pc[w] = "swap"
  /\ IF request[w].hadBackup THEN live' = backup /\ backup' = None
                             ELSE UNCHANGED <<live, backup>>
  /\ Exit(w) /\ Fault
  /\ UNCHANGED <<source, inventory, database, staging, pending>>

DropBackup(w) ==
  /\ Advance(w, "dropBackup", "unmark")
  /\ backup' = None
  /\ UNCHANGED <<source, inventory, database, live, staging, pending, faults>>

(* rollback: the previous directory comes back, and with it the marker goes. *)
RemoveUnpublished(w) ==
  /\ pc[w] = "undo"
  /\ live' = None /\ staging' = None
  /\ \/ request[w].hadBackup /\ Advance(w, "undo", "restore")
     \/ ~request[w].hadBackup /\ snapshot = None /\ Advance(w, "undo", "unmark")
     \/ ~request[w].hadBackup /\ snapshot # None /\ Exit(w)
  /\ UNCHANGED <<source, inventory, database, backup, pending, faults>>

MutantRestoreBackup(w) ==    \* the backup is removed
  /\ Advance(w, "restore", "unmark")
  /\ backup' = None
  /\ UNCHANGED <<source, inventory, database, live, staging, pending, faults>>

RestoreBackup(w) ==
  /\ Advance(w, "restore", "unmark")
  /\ live' = backup /\ backup' = None
  /\ UNCHANGED <<source, inventory, database, staging, pending, faults>>

(* ---- A delta: write_knowledge_index_delta_json ---- *)

MutantLockDelta(w) ==    \* no marker
  /\ pc[w] = "lock" /\ ~request[w].full /\ lock = None
  /\ Healthy
  /\ Step(w, "lock", "vectors")
  /\ lock' = w
  /\ UNCHANGED <<source, inventory, database, vectors, owned, request, faults, lost>>

(* Only a healthy index is extended. *)
LockDelta(w) ==
  /\ pc[w] = "lock" /\ ~request[w].full /\ lock = None
  /\ \/ /\ Healthy
        /\ Step(w, "lock", "vectors")
        /\ lock' = w /\ pending' = TRUE
        /\ UNCHANGED <<owned, request, lost>>
     \/ ~Healthy /\ Exit(w) /\ UNCHANGED pending
  /\ UNCHANGED <<source, inventory, database, live, staging, backup, faults>>

(* The vector of a chunk whose row has the planned content already is reused,
   the others are written in place. *)
WriteVectors(w) ==
  LET written == [c \in Chunks |-> IF c \in Replaced(w) THEN request[w].tree[c]
                                                        ELSE live.vectors[c]]
  IN /\ pc[w] = "vectors"
     /\ live' = [live EXCEPT !.vectors = written]
     /\ IF Count(written) = Count(request[w].tree)
          THEN Advance(w, "vectors", "transaction") ELSE Exit(w)
     /\ UNCHANGED <<source, inventory, database, staging, backup, pending, faults>>

(* What a writer that dies leaves: an unreadable directory, or some of the
   deletions that come first. *)
WritingFails(w) ==
  /\ pc[w] = "vectors"
  /\ \/ live' = [live EXCEPT !.vectors = Torn]
     \/ \E deleted \in SUBSET Replaced(w) :
          live' = [live EXCEPT !.vectors =
            [c \in Chunks |-> IF c \in deleted THEN 0 ELSE @[c]]]
  /\ Exit(w) /\ Fault
  /\ UNCHANGED <<source, inventory, database, staging, backup, pending>>

UnlinkMarker(w) ==
  /\ Advance(w, "unlink", "rename")
  /\ live' = [live EXCEPT !.marker = None]
  /\ UNCHANGED <<source, inventory, database, staging, backup, pending, faults>>

RenameMarker(w) ==
  /\ Advance(w, "rename", "unmark")
  /\ live' = [live EXCEPT !.marker = request[w].tree]
  /\ UNCHANGED <<source, inventory, database, staging, backup, pending, faults>>

(* ---- Both ---- *)

(* A full rebuild replaces all rows, a delta those of the paths it touched. *)
NewRows(w) ==
  [c \in Chunks |-> IF c \in Touched(w) THEN request[w].tree[c] ELSE rows[c]]

(* The transaction checks the number of chunks before it commits. *)
Transaction(w) ==
  /\ pc[w] = "transaction" /\ Count(NewRows(w)) = Count(request[w].tree)
  /\ Step(w, "transaction", IF request[w].full THEN "dropBackup" ELSE "unlink")
  /\ rows' = NewRows(w)
  /\ snapshot' = [tree |-> request[w].tree, inventory |-> request[w].scan]
  /\ lost' = IF owned = w THEN lost \ Touched(w) ELSE Chunks
  /\ request' = [request EXCEPT ![w].changed = {}]
  /\ UNCHANGED <<source, inventory, vectors, lock, owned, faults>>

TransactionFails(w) ==
  /\ pc[w] = "transaction"
  /\ \/ Fault
     \/ Count(NewRows(w)) # Count(request[w].tree) /\ UNCHANGED faults
  /\ IF request[w].full THEN Advance(w, "transaction", "undo") ELSE Exit(w)
  /\ UNCHANGED <<source, inventory, database, vectors>>

(* The marker goes and the worker ends. It reports an error if the rebuild was
   rolled back. *)
Unmark(w) ==
  /\ pc[w] = "unmark"
  /\ pending' = FALSE
  /\ Exit(w)
  /\ UNCHANGED <<source, inventory, database, live, staging, backup, faults>>

(* The worker is killed, or a call that nothing undoes fails: embedding, a file
   operation. *)
Abandon(w) ==
  /\ pc[w] # "idle"
  /\ Exit(w) /\ Fault
  /\ UNCHANGED <<source, inventory, database, vectors>>

Publish(w) ==
  \/ Plan(w) \/ LockFull(w) \/ MarkPending(w) \/ BuildStaging(w) \/ RetireLive(w)
  \/ SwapStaging(w) \/ RemoveUnpublished(w) \/ RestoreBackup(w) \/ DropBackup(w)
  \/ LockDelta(w) \/ WriteVectors(w) \/ Transaction(w) \/ TransactionFails(w)
  \/ UnlinkMarker(w) \/ RenameMarker(w) \/ Unmark(w)

Next ==
  \/ \E c \in Chunks : Edit(c)
  \/ RuntimeDies
  \/ \E w \in Workers :
       \/ \E force \in BOOLEAN, hint \in SUBSET Chunks : Scan(w, force, hint)
       \/ Publish(w) \/ SwapFails(w) \/ WritingFails(w) \/ Abandon(w)

Spec == Init /\ [][Next]_vars

(* The operating system runs the workers, and indexing is asked for again: by
   the watcher on the next change, or by the user. *)
FairSpec ==
  /\ Spec
  /\ WF_vars(\E w \in Workers : Scan(w, FALSE, {}))
  /\ \A w \in Workers : WF_vars(Publish(w) /\ faults' = faults)

(* ---- Properties ---- *)

(* A search with a vector is only answered from vectors that were made from the
   chunks it will return: readers never see a publication half done, nor one
   that a death or a failing call cut short (semantic_vector_store.rs). *)
SearchMatchesRows == Searchable => live.vectors = rows

(* A rebuild that comes to its end, rolled back or not, leaves a searchable
   index if there was one when it began (FullSemanticVectorPublication). *)
RebuildKeepsServing ==
  [][\A w \in Workers :
       (pc[w] = "unmark" /\ pc'[w] = "idle" /\ faults' = faults
          /\ request[w].full /\ request[w].wasHealthy) => Healthy']_vars

(* When the index says it was made from the present sources, a file can only be
   missing from it if a run that had scanned the file failed or is still at
   work, or the worker of a dead runtime has published: nothing else loses a
   change between the scan, which records it at once, and the index
   (scan_and_diff_json, index). *)
MissesOnlyLostScans ==
  (Searchable /\ snapshot.inventory = OnDisk) =>
    \A c \in Chunks : rows[c] # OnDisk[c] =>
      \/ c \in lost
      \/ \E w \in Workers : request[w] # None /\ c \in request[w].changed

(* Whatever a death or a failure left behind, the index becomes searchable again
   as long as indexing is asked for (index falls back to a full rebuild). *)
BecomesSearchableAgain == []<>Searchable

(* docs/opencanon-architecture.md:237: "Watcher events are hints, not the source
   of truth. The source of truth is the next scan plus content-hash diff against
   SQLite state." An index that is ready and names the inventory of the present
   sources would then hold the present sources. *)
ReadyIndexIsCurrent ==
  (Searchable /\ snapshot.inventory = OnDisk) => rows = OnDisk

=============================================================================
