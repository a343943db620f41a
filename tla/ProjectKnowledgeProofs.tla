------------------------- MODULE ProjectKnowledgeProofs -------------------------
(* Proofs about ProjectKnowledge, for any number of files, contents, workers and
   faults.

   That a rebuild never costs the index its health is seen at its last step, but
   depends on what every earlier one left where: the directory that serves is
   live until it is retired, the backup until the transaction has committed or
   failed, and then whichever of the two was kept. IInv follows it there, beside
   workers that die, time out of the runtime's sight, or scan at the same time.

   Three invariants stand on it. StoredInv types what is stored, and with IInv
   makes TypeOK. ScanInv follows a file from the scan that records it to the rows
   that are made of it. AgreeInv follows the vectors of the rows, as IInv follows
   the directory that serves, and counts the faults it takes to part them.      *)
EXTENDS ProjectKnowledge, TLAPS

(* The directory is one that readers accept for the present snapshot. *)
Serves(d) ==
  /\ snapshot # None /\ d # None
  /\ d.marker = snapshot.tree
  /\ d.vectors # Torn
  /\ Count(d.vectors) = Count(snapshot.tree)

Holding == Places \ {"idle", "plan", "lock"}
Built(w) == [vectors |-> request[w].tree, marker |-> request[w].tree]
WasHealthy(w) == request[w].full /\ request[w].wasHealthy

Types ==
  /\ source \in [Chunks -> 0..(MaxVersion + 1)]
  /\ rows \in Content
  /\ pc \in [Workers -> Places]
  /\ request \in [Workers -> Request \cup {None}]
  /\ \A w \in Workers : pc[w] # "idle" => request[w] \in Request
  /\ faults \in Nat

HoldersHold == \A w \in Workers : pc[w] \in Holding => lock = w

(* Where the vectors are that a rebuild has made, and those it may go back to. *)
Stage(w) ==
  /\ pc[w] \in {"vectors", "unlink", "rename"} => ~request[w].full
  /\ request[w].full /\ pc[w] \in {"retire", "swap"} => staging = Built(w)
  /\ request[w].full /\ pc[w] = "transaction" => live = Built(w)
  /\ WasHealthy(w) /\ pc[w] \in {"mark", "build", "retire", "dropBackup", "unmark"} => Serves(live)
  /\ WasHealthy(w) /\ pc[w] \in {"swap", "transaction", "undo", "restore"} =>
       request[w].hadBackup /\ Serves(backup)

IInv == Types /\ HoldersHold /\ \A w \in Workers : Stage(w)

(* ---- Data ---- *)

(* What is on disk is content. *)
LEMMA OnDiskContent ==
  ASSUME Types
  PROVE  OnDisk \in Content
BY Bounds DEF Types, OnDisk, Content

LEMMA EmptyContent == Empty \in Content
BY Bounds DEF Empty, Content

(* A healthy index has a directory that serves. *)
LEMMA HealthyServes == Healthy <=> Serves(live) /\ ~pending
BY DEF Healthy, Serves

(* The directory that a rebuild has built serves once its transaction commits. *)
LEMMA BuiltServes ==
  ASSUME NEW tree \in Content, NEW scan \in Content,
         snapshot' = [tree |-> tree, inventory |-> scan],
         live' = [vectors |-> tree, marker |-> tree]
  PROVE  Serves(live)'
<1>1. snapshot' \in Snapshot /\ live' \in Directory
  BY DEF Snapshot, Directory
<1>2. snapshot' # None /\ live' # None /\ tree # Torn
  BY <1>1, NoContent
<1>3. snapshot'.tree = tree /\ live'.marker = tree /\ live'.vectors = tree
  OBVIOUS
<1>4. QED
  BY <1>2, <1>3 DEF Serves

(* ---- Steps of a worker: what they do to the others, and to itself ---- *)

(* Every step of v is of this form. *)
Moves(v, to) == pc' = [pc EXCEPT ![v] = to]

(* A worker that holds no lock has nothing at stake. *)
LEMMA IdleStage ==
  ASSUME NEW w \in Workers, pc[w] \in Places, pc[w] \notin Holding
  PROVE  Stage(w)
BY DEF Stage, Holding

LEMMA IdleStageNext ==
  ASSUME NEW w \in Workers, pc'[w] \notin Holding, pc'[w] \in Places
  PROVE  Stage(w)'
BY DEF Stage, Holding

(* Only the holder of the lock changes what the stage of a rebuild is about. *)
LEMMA OthersStage ==
  ASSUME IInv, NEW v \in Workers, NEW w \in Workers, w # v,
         pc'[w] = pc[w], request'[w] = request[w],
         UNCHANGED <<database, vectors>> \/ pc[v] \in Holding \/ lock = None
  PROVE  Stage(w)'
<1>1. CASE UNCHANGED <<database, vectors>>
  <2>1. Stage(w)
    BY DEF IInv
  <2>2. QED
    BY <1>1, <2>1 DEF Stage, Serves, Built, WasHealthy, database, vectors
<1>2. CASE pc[v] \in Holding \/ lock = None
  <2>1. pc[w] \notin Holding
    BY <1>2, Distinct DEF IInv, HoldersHold
  <2>2. pc'[w] \notin Holding /\ pc'[w] \in Places
    BY <2>1 DEF IInv, Types
  <2>3. QED
    BY <2>2, IdleStageNext
<1>3. QED
  BY <1>1, <1>2

(* A step of v preserves the invariant if it has the right types, keeps the lock
   with its holder, and leaves v where it should be.                          *)
LEMMA WorkerKeeps ==
  ASSUME IInv, NEW v \in Workers, NEW to \in Places, NEW r \in Request \cup {None},
         pc' = [pc EXCEPT ![v] = to], request' = [request EXCEPT ![v] = r],
         to # "idle" => r \in Request,
         source' = source, rows' \in Content, faults' \in Nat,
         UNCHANGED <<database, vectors>> \/ pc[v] \in Holding \/ lock = None,
         lock' = lock \/ (lock = None /\ lock' = v) \/ (lock = v /\ lock' = None),
         to \in Holding => lock' = v,
         Stage(v)'
  PROVE  IInv'
<1>1. /\ pc'[v] = to /\ request'[v] = r
      /\ \A w \in Workers : w # v => pc'[w] = pc[w] /\ request'[w] = request[w]
  BY DEF IInv, Types
<1>2. Types'
  BY <1>1 DEF IInv, Types
<1>3. HoldersHold'
  BY <1>1, Distinct DEF IInv, HoldersHold
<1>4. ASSUME NEW w \in Workers PROVE Stage(w)'
  <2>1. CASE w = v
    BY <2>1
  <2>2. CASE w # v
    BY <1>1, <2>2, OthersStage
  <2>3. QED
    BY <2>1, <2>2
<1>5. QED
  BY <1>2, <1>3, <1>4 DEF IInv

(* The end of a worker, from wherever it is. *)
LEMMA ExitKeeps ==
  ASSUME IInv, NEW v \in Workers, Exit(v), source' = source, rows' = rows, faults' \in Nat,
         UNCHANGED <<database, vectors>> \/ pc[v] \in Holding \/ lock = None
  PROVE  IInv'
<1>1. /\ pc' = [pc EXCEPT ![v] = "idle"] /\ request' = [request EXCEPT ![v] = None]
      /\ lock' = lock \/ (lock = v /\ lock' = None)
  BY DEF Exit
<1>2. pc'[v] = "idle" /\ "idle" \in Places
  BY <1>1 DEF IInv, Types, Places
<1>3. Stage(v)'
  BY <1>2, IdleStageNext DEF Holding
<1>4. rows' \in Content /\ "idle" \notin Holding
  BY DEF IInv, Types, Holding
<1>5. QED
  BY <1>1, <1>2, <1>3, <1>4, WorkerKeeps

(* A holder goes on to another place without a change to its request. *)
LEMMA AdvanceKeeps ==
  ASSUME IInv, NEW v \in Workers, NEW from \in Holding, NEW to \in Holding, Advance(v, from, to),
         source' = source, rows' \in Content, faults' \in Nat, Stage(v)'
  PROVE  IInv'
<1>1. pc[v] = from /\ pc' = [pc EXCEPT ![v] = to] /\ request' = request /\ lock' = lock
  BY DEF Advance, Step
<1>2. pc[v] \in Holding /\ lock = v /\ to \in Places
  BY <1>1 DEF IInv, HoldersHold, Holding
<1>3. request' = [request EXCEPT ![v] = request[v]] /\ request[v] \in Request
  BY <1>1, <1>2 DEF IInv, Types, Holding
<1>4. QED
  BY <1>1, <1>2, <1>3, WorkerKeeps

(* ---- The invariant ---- *)

LEMMA InitIInv == Init => IInv
<1> SUFFICES ASSUME Init PROVE IInv
  OBVIOUS
<1>1. source \in [Chunks -> 0..(MaxVersion + 1)]
  BY Bounds DEF Init
<1>2. Types
  BY <1>1, EmptyContent DEF Init, Types, Places
<1>3. \A w \in Workers : pc[w] \notin Holding /\ pc[w] \in Places
  BY DEF Init, Holding, Places
<1>4. QED
  BY <1>2, <1>3, IdleStage DEF IInv, HoldersHold

(* The steps before a worker takes the lock, and those that take it. *)
LEMMA AcquireIInv ==
  ASSUME IInv, NEW w \in Workers,
         (\E force \in BOOLEAN, hint \in SUBSET Chunks : Scan(w, force, hint))
           \/ Plan(w) \/ LockFull(w) \/ LockDelta(w)
  PROVE  IInv'
<1>0. Types /\ faults \in Nat /\ rows \in Content
  BY DEF IInv, Types
<1>1. ASSUME NEW force \in BOOLEAN, NEW hint \in SUBSET Chunks, Scan(w, force, hint) PROVE IInv'
  <2> DEFINE r == [full |-> force, scan |-> OnDisk, tree |-> Empty, changed |-> Changed(hint),
                   hadBackup |-> FALSE, wasHealthy |-> FALSE]
  <2>1. r \in Request
    <3>1. Changed(hint) \in SUBSET Chunks
      BY DEF Changed
    <3>2. QED
      BY <1>0, <3>1, OnDiskContent, EmptyContent DEF Request
  <2>2. /\ request' = [request EXCEPT ![w] = r] /\ pc' = [pc EXCEPT ![w] = "plan"]
        /\ UNCHANGED <<source, database, vectors, lock, faults>>
    BY <1>1 DEF Scan, Step
  <2>3. pc'[w] = "plan" /\ "plan" \in Places \ Holding
    BY <2>2, <1>0 DEF Types, Places, Holding
  <2>4. Stage(w)'
    BY <2>3, IdleStageNext
  <2>5. rows' = rows /\ lock' = lock /\ source' = source /\ faults' = faults
    BY <2>2 DEF database
  <2> HIDE DEF r
  <2>6. QED
    BY <1>0, <2>1, <2>2, <2>3, <2>4, <2>5, WorkerKeeps
<1>2. CASE Plan(w)
  <2> DEFINE full == NeedsFull(request[w])
             read(c) == IF request[w].scan[c] # 0 THEN OnDisk[c] ELSE 0
             touched == IF full THEN Chunks ELSE request[w].changed
             tree == [c \in Chunks |-> IF c \in touched THEN read(c) ELSE rows[c]]
             r == [request[w] EXCEPT !.full = full, !.tree = tree]
  <2>1. request[w] \in Request
    BY <1>2, <1>0 DEF Plan, Step, Types
  <2>2. tree \in Content
    <3>1. OnDisk \in Content
      BY <1>0, OnDiskContent
    <3>2. \A c \in Chunks : OnDisk[c] \in 0..MaxVersion /\ rows[c] \in 0..MaxVersion /\ 0 \in 0..MaxVersion
      BY <1>0, <3>1, Bounds DEF Content
    <3>3. \A c \in Chunks : read(c) \in 0..MaxVersion
      BY <3>2
    <3> HIDE DEF read, touched
    <3>4. QED
      BY <3>2, <3>3 DEF Content
  <2>3. full \in BOOLEAN
    BY <2>1 DEF NeedsFull, Healthy, Request
  <2>4. r \in Request
    <3> HIDE DEF full, tree
    <3>1. QED
      BY <2>1, <2>2, <2>3 DEF Request
  <2>5. /\ request' = [request EXCEPT ![w] = r] /\ pc' = [pc EXCEPT ![w] = "lock"]
        /\ UNCHANGED <<source, database, vectors, lock, faults>>
    BY <1>2 DEF Plan, Step
  <2>6. pc'[w] = "lock" /\ "lock" \in Places \ Holding
    BY <2>5, <1>0 DEF Types, Places, Holding
  <2>7. Stage(w)'
    BY <2>6, IdleStageNext
  <2>8. rows' = rows /\ lock' = lock /\ source' = source /\ faults' = faults
    BY <2>5 DEF database
  <2> HIDE DEF r
  <2>9. QED
    BY <1>0, <2>4, <2>5, <2>6, <2>7, <2>8, WorkerKeeps
<1>3. CASE LockFull(w)
  <2> DEFINE r == [request[w] EXCEPT !.wasHealthy = Healthy]
  <2>1. request[w] \in Request
    BY <1>3, <1>0 DEF LockFull, Step, Types
  <2>2. r \in Request /\ (r.wasHealthy <=> Healthy)
    BY <2>1 DEF Request, Healthy
  <2>3. /\ request' = [request EXCEPT ![w] = r] /\ pc' = [pc EXCEPT ![w] = "mark"]
        /\ lock = None /\ lock' = w /\ live' = live /\ UNCHANGED <<source, snapshot, rows, faults>>
    BY <1>3 DEF LockFull, Step, database
  <2>4. pc'[w] = "mark" /\ request'[w] = r /\ "mark" \in Places \cap Holding
    BY <2>3, <1>0 DEF Types, Places, Holding
  <2>5. Healthy => Serves(live)'
    BY <2>3, HealthyServes DEF Serves
  <2> HIDE DEF r
  <2>6. Stage(w)'
    BY <2>2, <2>4, <2>5 DEF Stage, WasHealthy
  <2>7. QED
    BY <1>0, <2>2, <2>3, <2>4, <2>6, WorkerKeeps
<1>4. CASE LockDelta(w)
  <2>1. CASE Exit(w) /\ UNCHANGED pending
    <3>1. UNCHANGED <<source, database, vectors, faults>> /\ rows' = rows
      BY <1>4, <2>1 DEF LockDelta, vectors, database
    <3>2. QED
      BY <1>0, <2>1, <3>1, ExitKeeps
  <2>2. CASE Step(w, "lock", "vectors") /\ lock' = w /\ request' = request
    <3>1. /\ lock = None /\ ~request[w].full /\ UNCHANGED <<source, database, faults>>
          /\ pc[w] = "lock" /\ pc' = [pc EXCEPT ![w] = "vectors"] /\ rows' = rows
      BY <1>4, <2>2 DEF LockDelta, Step, database
    <3>2. pc'[w] = "vectors" /\ "vectors" \in Places \cap Holding
      BY <3>1, <1>0 DEF Types, Places, Holding
    <3>3. request' = [request EXCEPT ![w] = request[w]] /\ request[w] \in Request
      BY <2>2, <3>1, <1>0 DEF Types
    <3>4. Stage(w)'
      BY <2>2, <3>1, <3>2 DEF Stage, WasHealthy
    <3>5. QED
      BY <1>0, <2>2, <3>1, <3>2, <3>3, <3>4, WorkerKeeps
  <2>3. QED
    BY <1>4, <2>1, <2>2 DEF LockDelta
<1>5. QED
  BY <1>1, <1>2, <1>3, <1>4

(* The steps of a full rebuild up to its transaction, and its rollback. *)
LEMMA RebuildIInv ==
  ASSUME IInv, NEW w \in Workers,
         MarkPending(w) \/ BuildStaging(w) \/ RetireLive(w) \/ SwapStaging(w)
           \/ RemoveUnpublished(w) \/ RestoreBackup(w) \/ DropBackup(w)
  PROVE  IInv'
<1>0. Types /\ faults \in Nat /\ rows \in Content /\ Stage(w) /\ pc \in [Workers -> Places]
  BY DEF IInv, Types
<1>1. CASE MarkPending(w)
  <2>1. /\ Advance(w, "mark", "build") /\ pc[w] = "mark" /\ pc'[w] = "build" /\ request' = request
        /\ live' = live /\ UNCHANGED <<source, snapshot, rows, faults>>
    BY <1>1, <1>0 DEF MarkPending, Advance, Step, database
  <2>2. Stage(w)'
    BY <1>0, <2>1 DEF Stage, Serves, WasHealthy
  <2>3. QED
    BY <1>0, <2>1, <2>2, AdvanceKeeps DEF Holding, Places
<1>2. CASE BuildStaging(w)
  <2>1. /\ Advance(w, "build", "retire") /\ pc[w] = "build" /\ pc'[w] = "retire" /\ request' = request
        /\ live' = live /\ staging' = Built(w) /\ UNCHANGED <<source, snapshot, rows, faults>>
    BY <1>2, <1>0 DEF BuildStaging, Advance, Step, database, Built
  <2>2. Stage(w)'
    BY <1>0, <2>1 DEF Stage, Serves, WasHealthy, Built
  <2>3. QED
    BY <1>0, <2>1, <2>2, AdvanceKeeps DEF Holding, Places
<1>3. CASE RetireLive(w)
  <2> DEFINE r == [request[w] EXCEPT !.hadBackup = live # None]
  <2>1. /\ pc[w] = "retire" /\ pc' = [pc EXCEPT ![w] = "swap"] /\ request' = [request EXCEPT ![w] = r]
        /\ backup' = live /\ staging' = staging /\ lock' = lock
        /\ UNCHANGED <<source, snapshot, rows, faults>>
    BY <1>3 DEF RetireLive, Step, database
  <2>2. request[w] \in Request /\ lock = w
    BY <2>1 DEF IInv, Types, HoldersHold, Holding, Places
  <2>3. /\ r \in Request /\ (r.hadBackup <=> live # None) /\ r.tree = request[w].tree
        /\ r.full = request[w].full /\ r.wasHealthy = request[w].wasHealthy
    BY <2>2 DEF Request
  <2>4. pc'[w] = "swap" /\ request'[w] = r /\ "swap" \in Places /\ "retire" \in Holding
    BY <2>1, <1>0 DEF Types, Places, Holding
  <2>5. Serves(live) => Serves(backup)' /\ live # None
    BY <2>1 DEF Serves
  <2> HIDE DEF r
  <2>6. Stage(w)'
    BY <1>0, <2>1, <2>3, <2>4, <2>5 DEF Stage, WasHealthy, Built
  <2>7. QED
    BY <1>0, <2>1, <2>2, <2>3, <2>4, <2>6, WorkerKeeps
<1>4. CASE SwapStaging(w)
  <2>1. /\ Advance(w, "swap", "transaction") /\ pc[w] = "swap" /\ pc'[w] = "transaction" /\ request' = request
        /\ live' = staging /\ backup' = backup /\ UNCHANGED <<source, snapshot, rows, faults>>
    BY <1>4, <1>0 DEF SwapStaging, Advance, Step, database
  <2>2. Stage(w)'
    BY <1>0, <2>1 DEF Stage, Serves, WasHealthy, Built
  <2>3. QED
    BY <1>0, <2>1, <2>2, AdvanceKeeps DEF Holding, Places
<1>5. CASE RemoveUnpublished(w)
  <2>1. pc[w] = "undo" /\ backup' = backup /\ UNCHANGED <<source, snapshot, rows, faults>>
    BY <1>5 DEF RemoveUnpublished, database
  <2>2. CASE Exit(w)
    BY <1>0, <2>1, <2>2, ExitKeeps DEF Holding, Places
  <2>3. CASE request[w].hadBackup /\ Advance(w, "undo", "restore")
    <3>1. pc'[w] = "restore" /\ request' = request
      BY <2>3, <1>0 DEF Advance, Step
    <3>2. Stage(w)'
      BY <1>0, <2>1, <2>3, <3>1 DEF Stage, Serves, WasHealthy
    <3>3. QED
      BY <1>0, <2>1, <2>3, <3>2, AdvanceKeeps DEF Holding, Places
  <2>4. CASE ~request[w].hadBackup /\ Advance(w, "undo", "unmark")
    <3>1. pc'[w] = "unmark" /\ request' = request
      BY <2>4, <1>0 DEF Advance, Step
    <3>2. Stage(w)'
      BY <1>0, <2>1, <2>4, <3>1 DEF Stage, WasHealthy
    <3>3. QED
      BY <1>0, <2>1, <2>4, <3>2, AdvanceKeeps DEF Holding, Places
  <2>5. QED
    BY <1>5, <2>2, <2>3, <2>4 DEF RemoveUnpublished
<1>6. CASE RestoreBackup(w)
  <2>1. /\ Advance(w, "restore", "unmark") /\ pc[w] = "restore" /\ pc'[w] = "unmark" /\ request' = request
        /\ live' = backup /\ UNCHANGED <<source, snapshot, rows, faults>>
    BY <1>6, <1>0 DEF RestoreBackup, Advance, Step, database
  <2>2. Stage(w)'
    BY <1>0, <2>1 DEF Stage, Serves, WasHealthy
  <2>3. QED
    BY <1>0, <2>1, <2>2, AdvanceKeeps DEF Holding, Places
<1>7. CASE DropBackup(w)
  <2>1. /\ Advance(w, "dropBackup", "unmark") /\ pc[w] = "dropBackup" /\ pc'[w] = "unmark" /\ request' = request
        /\ live' = live /\ UNCHANGED <<source, snapshot, rows, faults>>
    BY <1>7, <1>0 DEF DropBackup, Advance, Step, database
  <2>2. Stage(w)'
    BY <1>0, <2>1 DEF Stage, Serves, WasHealthy
  <2>3. QED
    BY <1>0, <2>1, <2>2, AdvanceKeeps DEF Holding, Places
<1>8. QED
  BY <1>1, <1>2, <1>3, <1>4, <1>5, <1>6, <1>7

(* The transaction of either kind, and a delta's own steps. *)
LEMMA CommitIInv ==
  ASSUME IInv, NEW w \in Workers,
         Transaction(w) \/ TransactionFails(w) \/ WriteVectors(w) \/ UnlinkMarker(w) \/ RenameMarker(w)
  PROVE  IInv'
<1>0. Types /\ faults \in Nat /\ rows \in Content /\ Stage(w) /\ pc \in [Workers -> Places]
  BY DEF IInv, Types
<1>1. CASE Transaction(w)
  <2> DEFINE r == [request[w] EXCEPT !.changed = {}]
             to == IF request[w].full THEN "dropBackup" ELSE "unlink"
  <2>1. /\ pc[w] = "transaction" /\ pc' = [pc EXCEPT ![w] = to] /\ request' = [request EXCEPT ![w] = r]
        /\ rows' = NewRows(w) /\ live' = live /\ lock' = lock
        /\ snapshot' = [tree |-> request[w].tree, inventory |-> request[w].scan]
        /\ UNCHANGED <<source, faults>>
    BY <1>1 DEF Transaction, Step, vectors
  <2>2. request[w] \in Request /\ lock = w
    BY <2>1 DEF IInv, Types, HoldersHold, Holding, Places
  <2>3. r \in Request /\ r.full = request[w].full /\ r.tree = request[w].tree
    BY <2>2 DEF Request
  <2>4. to \in Places \cap Holding /\ "transaction" \in Holding /\ to # "idle"
    BY DEF Places, Holding
  <2>5. pc'[w] = to /\ request'[w] = r
    BY <2>1, <1>0 DEF Types
  <2>6. rows' \in Content
    BY <2>1, <2>2, <1>0 DEF NewRows, Request, Content
  <2>7. ASSUME request[w].full PROVE Serves(live)'
    <3>1. live' = [vectors |-> request[w].tree, marker |-> request[w].tree]
      BY <1>0, <2>1, <2>7 DEF Stage, Built
    <3>2. request[w].tree \in Content /\ request[w].scan \in Content
      BY <2>2 DEF Request
    <3>3. QED
      BY <2>1, <3>1, <3>2, BuiltServes
  <2>8. Stage(w)'
    <3> HIDE DEF r
    <3>1. CASE request[w].full
      BY <2>3, <2>5, <2>7, <3>1 DEF Stage, WasHealthy
    <3>2. CASE ~request[w].full
      BY <2>3, <2>5, <3>2 DEF Stage, WasHealthy
    <3>3. QED
      BY <3>1, <3>2
  <2> HIDE DEF r, to
  <2>9. QED
    BY <1>0, <2>1, <2>2, <2>3, <2>4, <2>6, <2>8, WorkerKeeps
<1>2. CASE TransactionFails(w)
  <2>1. /\ pc[w] = "transaction" /\ faults' \in Nat
        /\ UNCHANGED <<source, database, vectors>> /\ rows' = rows
    BY <1>2, <1>0 DEF TransactionFails, Fault, database
  <2>2. CASE Exit(w)
    BY <1>0, <2>1, <2>2, ExitKeeps
  <2>3. CASE Advance(w, "transaction", "undo")
    <3>1. pc'[w] = "undo" /\ request' = request
      BY <2>3, <1>0 DEF Advance, Step
    <3>2. Stage(w)'
      BY <1>0, <2>1, <3>1 DEF Stage, Serves, WasHealthy, database, vectors
    <3>3. QED
      BY <1>0, <2>1, <2>3, <3>2, AdvanceKeeps DEF Holding, Places
  <2>4. QED
    BY <1>2, <2>2, <2>3 DEF TransactionFails
<1>3. CASE WriteVectors(w)
  <2>1. pc[w] = "vectors" /\ UNCHANGED <<source, rows, faults>>
    BY <1>3 DEF WriteVectors, database
  <2>2. CASE Exit(w)
    BY <1>0, <2>1, <2>2, ExitKeeps DEF Holding, Places
  <2>3. CASE Advance(w, "vectors", "transaction")
    <3>1. pc'[w] = "transaction" /\ request' = request
      BY <2>3, <1>0 DEF Advance, Step
    <3>2. Stage(w)'
      BY <1>0, <2>1, <3>1 DEF Stage, WasHealthy
    <3>3. QED
      BY <1>0, <2>1, <2>3, <3>2, AdvanceKeeps DEF Holding, Places
  <2>4. QED
    BY <1>3, <2>2, <2>3 DEF WriteVectors
<1>4. CASE UnlinkMarker(w)
  <2>1. /\ Advance(w, "unlink", "rename") /\ pc[w] = "unlink" /\ pc'[w] = "rename" /\ request' = request
        /\ UNCHANGED <<source, rows, faults>>
    BY <1>4, <1>0 DEF UnlinkMarker, Advance, Step, database
  <2>2. Stage(w)'
    BY <1>0, <2>1 DEF Stage, WasHealthy
  <2>3. QED
    BY <1>0, <2>1, <2>2, AdvanceKeeps DEF Holding, Places
<1>5. CASE RenameMarker(w)
  <2>1. /\ Advance(w, "rename", "unmark") /\ pc[w] = "rename" /\ pc'[w] = "unmark" /\ request' = request
        /\ UNCHANGED <<source, rows, faults>>
    BY <1>5, <1>0 DEF RenameMarker, Advance, Step, database
  <2>2. Stage(w)'
    BY <1>0, <2>1 DEF Stage, WasHealthy
  <2>3. QED
    BY <1>0, <2>1, <2>2, AdvanceKeeps DEF Holding, Places
<1>6. QED
  BY <1>1, <1>2, <1>3, <1>4, <1>5

(* A worker's last step, whatever brought it about. *)
LEMMA EndIInv ==
  ASSUME IInv, NEW w \in Workers, Unmark(w) \/ SwapFails(w) \/ WritingFails(w) \/ Abandon(w)
  PROVE  IInv'
<1>0. Types /\ faults \in Nat
  BY DEF IInv, Types
<1>1. Exit(w) /\ source' = source /\ rows' = rows /\ faults' \in Nat
  BY <1>0 DEF Unmark, SwapFails, WritingFails, Abandon, Fault, database
<1>2. UNCHANGED <<database, vectors>> \/ pc[w] \in Holding
  BY DEF Unmark, SwapFails, WritingFails, Abandon, Holding, Places
<1>3. QED
  BY <1>1, <1>2, ExitKeeps

(* Steps that no worker takes part in. *)
LEMMA QuietIInv ==
  ASSUME IInv, (\E c \in Chunks : Edit(c)) \/ RuntimeDies \/ UNCHANGED vars
  PROVE  IInv'
<1>0. Types
  BY DEF IInv
<1>1. source' \in [Chunks -> 0..(MaxVersion + 1)]
  BY <1>0, Bounds DEF Types, Edit, RuntimeDies, vars
<1>2. UNCHANGED <<database, vectors, lock, pc, request>> /\ faults' \in Nat
  BY <1>0 DEF Types, Edit, RuntimeDies, Fault, vars, process
<1>3. rows' = rows /\ snapshot' = snapshot /\ live' = live /\ backup' = backup /\ staging' = staging
  BY <1>2 DEF database, vectors
<1>4. Types' /\ HoldersHold'
  BY <1>0, <1>1, <1>2, <1>3 DEF IInv, Types, HoldersHold
<1>5. ASSUME NEW w \in Workers PROVE Stage(w)'
  <2>1. Stage(w)
    BY DEF IInv
  <2>2. QED
    BY <2>1, <1>2, <1>3 DEF Stage, Serves, Built, WasHealthy
<1>6. QED
  BY <1>4, <1>5 DEF IInv

LEMMA NextIInv == IInv /\ [Next]_vars => IInv'
<1> SUFFICES ASSUME IInv, [Next]_vars PROVE IInv'
  OBVIOUS
<1>1. CASE (\E c \in Chunks : Edit(c)) \/ RuntimeDies \/ UNCHANGED vars
  BY <1>1, QuietIInv
<1>2. ASSUME NEW w \in Workers,
             (\E force \in BOOLEAN, hint \in SUBSET Chunks : Scan(w, force, hint))
               \/ Publish(w) \/ SwapFails(w) \/ WritingFails(w) \/ Abandon(w)
      PROVE  IInv'
  BY <1>2, AcquireIInv, RebuildIInv, CommitIInv, EndIInv DEF Publish
<1>3. QED
  BY <1>1, <1>2 DEF Next

(* ---- The property of the runs ---- *)

(* The only way from the last step to the end without a fault is to remove the
   marker.                                                                     *)
LEMMA OnlyUnmarkEnds ==
  ASSUME IInv, [Next]_vars, NEW w \in Workers, pc[w] = "unmark", pc'[w] = "idle", faults' = faults
  PROVE  Unmark(w)
<1>0. pc \in [Workers -> Places] /\ faults \in Nat
  BY DEF IInv, Types
<1>1. ~Fault
  BY <1>0 DEF Fault
<1>2. pc' # pc
  OBVIOUS
<1>3. ~RuntimeDies /\ ~UNCHANGED vars /\ \A c \in Chunks : ~Edit(c)
  BY <1>1, <1>2 DEF RuntimeDies, vars, Edit, process
<1>4. PICK v \in Workers :
        (\E force \in BOOLEAN, hint \in SUBSET Chunks : Scan(v, force, hint))
          \/ Publish(v) \/ SwapFails(v) \/ WritingFails(v) \/ Abandon(v)
  BY <1>3 DEF Next
<1>5. \E to \in Places : pc' = [pc EXCEPT ![v] = to]
  BY <1>4 DEF Scan, Publish, SwapFails, WritingFails, Abandon, Plan, LockFull, MarkPending, BuildStaging,
     RetireLive, SwapStaging, RemoveUnpublished, RestoreBackup, DropBackup, LockDelta, WriteVectors,
     Transaction, TransactionFails, UnlinkMarker, RenameMarker, Unmark, Exit, Advance, Step, Places
<1>6. v = w
  BY <1>0, <1>5
<1>7. QED
  BY <1>1, <1>4, <1>6 DEF Scan, Publish, SwapFails, WritingFails, Abandon, Plan, LockFull, MarkPending,
     BuildStaging, RetireLive, SwapStaging, RemoveUnpublished, RestoreBackup, DropBackup, LockDelta,
     WriteVectors, Transaction, TransactionFails, UnlinkMarker, RenameMarker, Advance, Step

(* A full rebuild that comes to its end, rolled back or not, leaves a healthy
   index if there was one when it began.                                      *)
THEOREM RebuildsKeepServing == Spec => RebuildKeepsServing
<1>1. ASSUME IInv, [Next]_vars, NEW w \in Workers, pc[w] = "unmark", pc'[w] = "idle", faults' = faults,
             request[w].full, request[w].wasHealthy
      PROVE  Healthy'
  <2>1. Unmark(w)
    BY <1>1, OnlyUnmarkEnds
  <2>2. Serves(live)
    BY <1>1 DEF IInv, Stage, WasHealthy
  <2>3. pending' = FALSE /\ live' = live /\ snapshot' = snapshot
    BY <2>1 DEF Unmark, database
  <2>4. QED
    BY <2>2, <2>3 DEF Serves, Healthy
<1>2. IInv /\ [Next]_vars =>
        [\A w \in Workers :
           (pc[w] = "unmark" /\ pc'[w] = "idle" /\ faults' = faults
              /\ request[w].full /\ request[w].wasHealthy) => Healthy']_vars
  BY <1>1
<1>3. QED
  BY InitIInv, NextIInv, <1>2, PTL DEF Spec, RebuildKeepsServing

(* ---- Types of what is stored, and what a holder of the lock finds ---- *)

Stored ==
  /\ inventory \in Content /\ snapshot \in Snapshot \cup {None}
  /\ live \in Directory \cup {None} /\ staging \in Directory \cup {None} /\ backup \in Directory \cup {None}
  /\ pending \in BOOLEAN
  /\ lock \in Workers \cup {None} /\ owned \in Workers \cup {None}
  /\ lock # None => pc[lock] \in Holding
  /\ faults \in 0..MaxFaults
  /\ lost \in SUBSET Chunks

(* A rebuild's steps are a rebuild's, and a delta writes into a directory that is
   there and can be read. *)
Writable(w) ==
  /\ pc[w] \in {"mark", "build", "retire", "swap", "undo", "restore", "dropBackup"} => request[w].full
  /\ pc[w] = "vectors" => Serves(live)
  /\ pc[w] \in {"transaction", "unlink", "rename"} => live # None /\ live.vectors # Torn

StoredInv == Stored /\ \A w \in Workers : Writable(w)

LEMMA InitStored == Init => StoredInv
<1> SUFFICES ASSUME Init PROVE StoredInv
  OBVIOUS
<1>1. Stored
  <2>1. 0 \in 0..MaxFaults
    BY Bounds
  <2>2. QED
    BY <2>1, EmptyContent DEF Init, Stored
<1>2. \A w \in Workers : pc[w] = "idle"
  BY DEF Init
<1>3. QED
  BY <1>1, <1>2 DEF StoredInv, Writable

(* A content is not torn, and is no directory. *)
LEMMA ContentIsWhole ==
  /\ \A content \in Content : content # Torn
  /\ \A d \in Directory : d # None /\ (d.vectors # Torn => d.vectors \in Content)
  /\ \A s \in Snapshot : s # None
  /\ \A r \in Request : r # None
BY NoContent DEF Directory

LEMMA ScanStored ==
  ASSUME IInv, StoredInv, NEW v \in Workers,
         (\E force \in BOOLEAN, hint \in SUBSET Chunks : Scan(v, force, hint)) \/ Plan(v)
  PROVE  Stored'
<1> USE DEF StoredInv, Stored, IInv, Types, database, vectors, Step, Holding
<1>1. CASE Plan(v)
  BY <1>1 DEF Plan
<1>2. ASSUME NEW force \in BOOLEAN, NEW hint \in SUBSET Chunks, Scan(v, force, hint) PROVE Stored'
  <2>1. OnDisk \in Content
    BY OnDiskContent
  <2>2. QED
    BY <1>2, <2>1 DEF Scan
<1>3. QED
  BY <1>1, <1>2

LEMMA ExitStored ==
  ASSUME IInv, StoredInv, NEW v \in Workers, Exit(v), pc[v] # "idle"
  PROVE  /\ lock' \in Workers \cup {None} /\ owned' \in Workers \cup {None}
         /\ lock' # None => pc'[lock'] \in Holding
         /\ lost' \in SUBSET Chunks
<1>1. request[v].changed \in SUBSET Chunks
  BY DEF IInv, Types, Request
<1>2. QED
  BY <1>1 DEF StoredInv, Stored, IInv, Types, Exit

LEMMA RebuildStored ==
  ASSUME IInv, StoredInv, NEW v \in Workers,
         LockFull(v) \/ MarkPending(v) \/ BuildStaging(v) \/ RetireLive(v) \/ SwapStaging(v)
           \/ RemoveUnpublished(v) \/ RestoreBackup(v) \/ DropBackup(v) \/ SwapFails(v)
  PROVE  Stored'
<1> USE DEF StoredInv, Stored, IInv, Types, database, vectors, Step, Advance, Holding, Places
<1>1. CASE LockFull(v)
  BY <1>1 DEF LockFull
<1>2. CASE MarkPending(v)
  BY <1>2 DEF MarkPending
<1>3. CASE BuildStaging(v)
  <2>1. request[v].tree \in Content
    BY <1>3 DEF BuildStaging, Request
  <2>2. [vectors |-> request[v].tree, marker |-> request[v].tree] \in Directory
    BY <2>1 DEF Directory
  <2>3. QED
    BY <1>3, <2>2 DEF BuildStaging
<1>4. CASE RetireLive(v)
  BY <1>4 DEF RetireLive
<1>5. CASE SwapStaging(v)
  BY <1>5 DEF SwapStaging
<1>6. CASE RemoveUnpublished(v)
  BY <1>6, ExitStored DEF RemoveUnpublished
<1>7. CASE RestoreBackup(v)
  BY <1>7 DEF RestoreBackup
<1>8. CASE DropBackup(v)
  BY <1>8 DEF DropBackup
<1>9. CASE SwapFails(v)
  BY <1>9, ExitStored, Bounds DEF SwapFails, Fault
<1>10. QED
  BY <1>1, <1>2, <1>3, <1>4, <1>5, <1>6, <1>7, <1>8, <1>9

(* What a delta writes. *)
Written(w) ==
  [c \in Chunks |-> IF c \in Replaced(w) THEN request[w].tree[c] ELSE live.vectors[c]]

LEMMA WrittenIsContent ==
  ASSUME IInv, StoredInv, NEW v \in Workers, pc[v] = "vectors"
  PROVE  live \in Directory /\ live.vectors \in Content /\ Written(v) \in Content
<1>1. live \in Directory /\ live.vectors \in Content
  BY ContentIsWhole DEF StoredInv, Stored, Writable, Serves
<1>2. request[v].tree \in Content
  BY DEF IInv, Types, Request
<1>3. QED
  BY <1>1, <1>2 DEF Written, Content

LEMMA CommitStored ==
  ASSUME IInv, StoredInv, NEW v \in Workers,
         LockDelta(v) \/ WriteVectors(v) \/ WritingFails(v) \/ UnlinkMarker(v) \/ RenameMarker(v)
           \/ Transaction(v) \/ TransactionFails(v) \/ Unmark(v) \/ Abandon(v)
  PROVE  Stored'
<1> USE DEF StoredInv, Stored, IInv, Types, database, vectors, Step, Advance, Holding, Places
<1>0. pc[v] # "idle" => request[v] \in Request /\ request[v].tree \in Content /\ request[v].scan \in Content
  BY DEF Request
<1>1. CASE LockDelta(v)
  BY <1>1, ExitStored DEF LockDelta
<1>2. CASE WriteVectors(v)
  <2>1. live \in Directory /\ Written(v) \in Content
    BY <1>2, WrittenIsContent DEF WriteVectors
  <2>2. live' = [live EXCEPT !.vectors = Written(v)]
    BY <1>2 DEF WriteVectors, Written
  <2>4. live' \in Directory
    BY <2>1, <2>2 DEF Directory
  <2>5. QED
    BY <1>2, <2>4, ExitStored DEF WriteVectors
<1>3. CASE WritingFails(v)
  <2>1. live \in Directory /\ live.vectors \in Content
    BY <1>3, WrittenIsContent DEF WritingFails
  <2>2. ASSUME NEW deleted \in SUBSET Replaced(v) PROVE [c \in Chunks |-> IF c \in deleted THEN 0 ELSE live.vectors[c]] \in Content
    BY <2>1, Bounds DEF Content
  <2>3. \E d \in Content \cup {Torn} : live' = [live EXCEPT !.vectors = d]
    BY <1>3, <2>2 DEF WritingFails
  <2>4. live' \in Directory
    BY <2>1, <2>3 DEF Directory
  <2>5. QED
    BY <1>3, <2>4, ExitStored, Bounds DEF WritingFails, Fault
<1>4. CASE UnlinkMarker(v)
  <2>1. live \in Directory
    BY <1>4 DEF UnlinkMarker, Writable
  <2>2. live' \in Directory
    BY <1>4, <2>1 DEF UnlinkMarker, Directory
  <2>3. QED
    BY <1>4, <2>2 DEF UnlinkMarker
<1>5. CASE RenameMarker(v)
  <2>1. live \in Directory
    BY <1>5 DEF RenameMarker, Writable
  <2>2. live' \in Directory
    BY <1>0, <1>5, <2>1 DEF RenameMarker, Directory
  <2>3. QED
    BY <1>5, <2>2 DEF RenameMarker
<1>6. CASE Transaction(v)
  <2>1. snapshot' \in Snapshot
    BY <1>0, <1>6 DEF Transaction, Snapshot
  <2>2. lost' \in SUBSET Chunks
    BY <1>6 DEF Transaction
  <2>3. QED
    BY <1>6, <2>1, <2>2 DEF Transaction
<1>7. CASE TransactionFails(v)
  BY <1>7, ExitStored, Bounds DEF TransactionFails, Fault
<1>8. CASE Unmark(v)
  BY <1>8, ExitStored DEF Unmark
<1>9. CASE Abandon(v)
  BY <1>9, ExitStored, Bounds DEF Abandon, Fault
<1>10. QED
  BY <1>1, <1>2, <1>3, <1>4, <1>5, <1>6, <1>7, <1>8, <1>9

LEMMA QuietStored ==
  ASSUME IInv, StoredInv, (\E c \in Chunks : Edit(c)) \/ RuntimeDies \/ UNCHANGED vars
  PROVE  Stored'
BY Bounds DEF StoredInv, Stored, Edit, RuntimeDies, Fault, vars, database, vectors, process

(* ---- The directory a delta writes into ---- *)

(* The steps of one worker do not take a directory from under another. *)
LEMMA OthersWrite ==
  ASSUME IInv, StoredInv, NEW v \in Workers, NEW w \in Workers, w # v,
         pc'[w] = pc[w], request'[w] = request[w],
         UNCHANGED <<database, vectors>> \/ pc[v] \in Holding \/ lock = None
  PROVE  Writable(w)'
<1>1. CASE UNCHANGED <<database, vectors>>
  BY <1>1 DEF StoredInv, Writable, Serves, database, vectors
<1>2. CASE pc[v] \in Holding \/ lock = None
  <2>1. pc[w] \notin Holding
    BY <1>2, Distinct DEF IInv, HoldersHold
  <2>2. QED
    BY <2>1 DEF Writable, Holding, IInv, Types, Places
<1>3. QED
  BY <1>1, <1>2

(* A worker's steps: the others stay where they are, and only the holder of the
   lock, or the one that takes it, writes to the index.                        *)
Turn(v) ==
  \/ \E force \in BOOLEAN, hint \in SUBSET Chunks : Scan(v, force, hint)
  \/ Publish(v) \/ SwapFails(v) \/ WritingFails(v) \/ Abandon(v)

LEMMA TurnIsLocal ==
  ASSUME IInv, NEW v \in Workers, Turn(v)
  PROVE  /\ \E to \in Places : pc' = [pc EXCEPT ![v] = to]
         /\ \E r : request' = [request EXCEPT ![v] = r]
         /\ UNCHANGED <<database, vectors>> \/ pc[v] \in Holding \/ lock = None
         /\ source' = source
<1> USE DEF Turn, Publish, Scan, SwapFails, WritingFails, Abandon, Plan, LockFull, MarkPending, BuildStaging,
     RetireLive, SwapStaging, RemoveUnpublished, RestoreBackup, DropBackup, LockDelta, WriteVectors,
     Transaction, TransactionFails, UnlinkMarker, RenameMarker, Unmark, Exit, Advance, Step
<1>1. \E to \in Places : pc' = [pc EXCEPT ![v] = to]
  BY DEF Places
<1>2. \E r : request' = [request EXCEPT ![v] = r]
  <2>1. request = [request EXCEPT ![v] = request[v]]
    BY DEF IInv, Types
  <2>2. QED
    BY <2>1
<1>3. UNCHANGED <<database, vectors>> \/ pc[v] \in Holding \/ lock = None
  BY DEF Holding, Places
<1>4. source' = source
  OBVIOUS
<1>5. QED
  BY <1>1, <1>2, <1>3, <1>4

LEMMA OthersUntouched ==
  ASSUME IInv, NEW v \in Workers, Turn(v), NEW w \in Workers, w # v
  PROVE  pc'[w] = pc[w] /\ request'[w] = request[w]
BY TurnIsLocal DEF IInv, Types

LEMMA OwnWrite ==
  ASSUME IInv, StoredInv, NEW v \in Workers, Turn(v)
  PROVE  Writable(v)'
<1> USE DEF IInv, Types, Step, Advance, Exit, Places
<1>0. Stage(v) /\ Writable(v)
  BY DEF StoredInv
<1>a. pc'[v] \in {"mark", "build", "retire", "swap", "undo", "restore", "dropBackup"} => request'[v].full
  BY <1>0 DEF Writable, Request, Turn, Publish, Scan, SwapFails, WritingFails, Abandon, Plan, LockFull, LockDelta,
     MarkPending, BuildStaging, RetireLive, SwapStaging, RemoveUnpublished, RestoreBackup, DropBackup,
     WriteVectors, UnlinkMarker, Transaction, TransactionFails, RenameMarker, Unmark
<1> DEFINE Reads == /\ pc'[v] = "vectors" => Serves(live)'
                    /\ pc'[v] \in {"transaction", "unlink", "rename"} => live' # None /\ live'.vectors # Torn
<1>1. ASSUME pc'[v] \notin {"vectors", "transaction", "unlink", "rename"} PROVE Reads
  BY <1>1
<1>2. ASSUME LockDelta(v) PROVE Reads
  BY <1>2, HealthyServes DEF LockDelta, Serves, database
<1>3. ASSUME SwapStaging(v) PROVE Reads
  <2>1. request[v].full /\ request[v].tree \in Content
    BY <1>0, <1>3 DEF SwapStaging, Writable, Request
  <2>2. live' = Built(v)
    BY <1>0, <1>3, <2>1 DEF SwapStaging, Stage
  <2>3. live' \in Directory /\ live'.vectors = request[v].tree
    BY <2>1, <2>2 DEF Directory, Built
  <2>4. QED
    BY <1>3, <2>1, <2>3, ContentIsWhole DEF SwapStaging
<1>4. ASSUME WriteVectors(v) PROVE Reads
  <2>1. live \in Directory /\ Written(v) \in Content
    BY <1>4, WrittenIsContent DEF WriteVectors
  <2>2. live' \in Directory /\ live'.vectors = Written(v)
    BY <1>4, <2>1 DEF WriteVectors, Written, Directory
  <2>3. QED
    BY <1>4, <2>1, <2>2, ContentIsWhole DEF WriteVectors
<1>5. ASSUME Transaction(v) PROVE Reads
  BY <1>0, <1>5 DEF Transaction, Writable, vectors
<1>6. ASSUME UnlinkMarker(v) PROVE Reads
  <2>1. live \in Directory
    BY <1>0, <1>6 DEF UnlinkMarker, Writable, StoredInv, Stored
  <2>2. live' \in Directory /\ live'.vectors = live.vectors
    BY <1>6, <2>1 DEF UnlinkMarker, Directory
  <2>3. QED
    BY <1>0, <1>6, <2>2, ContentIsWhole DEF UnlinkMarker, Writable
<1>7. Reads
  BY <1>1, <1>2, <1>3, <1>4, <1>5, <1>6 DEF Turn, Publish, Scan, SwapFails, WritingFails, Abandon, Plan,
     LockFull, MarkPending, BuildStaging, RetireLive, RemoveUnpublished, RestoreBackup, DropBackup,
     TransactionFails, RenameMarker, Unmark
<1>8. QED
  BY <1>a, <1>7 DEF Writable

LEMMA NextStored == IInv /\ StoredInv /\ [Next]_vars => StoredInv'
<1> SUFFICES ASSUME IInv, StoredInv, [Next]_vars PROVE StoredInv'
  OBVIOUS
<1>1. CASE (\E c \in Chunks : Edit(c)) \/ RuntimeDies \/ UNCHANGED vars
  <2>1. Stored'
    BY <1>1, QuietStored
  <2>2. UNCHANGED <<database, vectors, pc, request>>
    BY <1>1 DEF Edit, RuntimeDies, vars, process
  <2>3. QED
    BY <2>1, <2>2 DEF StoredInv, Writable, Serves, database, vectors
<1>2. ASSUME NEW v \in Workers, Turn(v) PROVE StoredInv'
  <2>1. Stored'
    BY <1>2, ScanStored, RebuildStored, CommitStored DEF Turn, Publish
  <2>2. ASSUME NEW w \in Workers PROVE Writable(w)'
    <3>1. CASE w = v
      BY <1>2, <3>1, OwnWrite
    <3>2. CASE w # v
      BY <1>2, <3>2, TurnIsLocal, OthersUntouched, OthersWrite
    <3>3. QED
      BY <3>1, <3>2
  <2>3. QED
    BY <2>1, <2>2 DEF StoredInv
<1>3. QED
  BY <1>1, <1>2 DEF Next, Turn

(* The type invariant. *)
THEOREM TypeCorrect == Spec => []TypeOK
<1>1. IInv /\ StoredInv => TypeOK
  BY DEF IInv, Types, StoredInv, Stored, TypeOK, Holding
<1>2. QED
  BY InitIInv, NextIInv, InitStored, NextStored, <1>1, PTL DEF Spec

(* ---- What a scan records, and what the rows were made from ---- *)

(* What was read of a file after the scan: what the scan saw, or a later content
   than the one it saw. *)
Read(content, scan, c) == content[c] = scan[c] \/ (scan[c] # 0 /\ scan[c] < source[c])

Excused(c) == c \in lost \/ \E w \in Workers : request[w] # None /\ c \in request[w].changed

Scanned(w) ==
  /\ pc[w] = "idle" => request[w] = None
  /\ pc[w] # "idle" =>
       /\ \A c \in Chunks : request[w].scan[c] <= source[c]
       /\ owned = w => request[w].scan = inventory
  /\ pc[w] \notin {"idle", "plan"} => \A c \in Touched(w) : Read(request[w].tree, request[w].scan, c)

(* A file that no run has lost or is at work on: its row was read at or after the
   last scan, and the snapshot names that scan. *)
KeptUp(c) ==
  \/ Excused(c)
  \/ Read(rows, inventory, c) /\ (snapshot # None => snapshot.inventory[c] = inventory[c])

ScanInv ==
  /\ \A w \in Workers : Scanned(w)
  /\ \A c \in Chunks : inventory[c] <= source[c] /\ KeptUp(c)

LEMMA InitScan == Init => ScanInv
<1> SUFFICES ASSUME Init PROVE ScanInv
  OBVIOUS
<1>1. \A w \in Workers : Scanned(w)
  BY DEF Init, Scanned
<1>2. ASSUME NEW c \in Chunks PROVE inventory[c] <= source[c] /\ KeptUp(c)
  BY DEF Init, KeptUp, Read, Empty
<1>3. QED
  BY <1>1, <1>2 DEF ScanInv

(* A content that was read stays read: sources do not return to a content. *)
LEMMA ReadStays ==
  ASSUME NEW c \in Chunks, source[c] \in Nat, source'[c] \in Nat, source[c] <= source'[c],
         NEW content, NEW scan, scan[c] \in Nat,
         Read(content, scan, c)
  PROVE  content[c] = scan[c] \/ (scan[c] # 0 /\ scan[c] < source'[c])
BY DEF Read

LEMMA OnDiskRead ==
  ASSUME Types, NEW c \in Chunks, NEW s \in 0..MaxVersion, s <= source[c], NEW r,
         r = IF s # 0 THEN OnDisk[c] ELSE 0
  PROVE  r = s \/ (s # 0 /\ s < source[c])
BY Bounds DEF Types, OnDisk

(* The steps by which a request, once planned, is carried out. *)
LEMMA WorkScan ==
  ASSUME IInv, StoredInv, ScanInv, NEW v \in Workers, Turn(v),
         pc[v] \notin {"idle", "plan"} \/ Abandon(v), ~Transaction(v)
  PROVE  ScanInv'
<1> USE DEF IInv, Types, Step, Advance, Exit
<1>1. UNCHANGED <<source, inventory, snapshot, rows>>
  BY DEF Turn, Publish, Scan, SwapFails, WritingFails, Abandon, Plan, LockFull, LockDelta, database,
     MarkPending, BuildStaging, RetireLive, SwapStaging, RemoveUnpublished, RestoreBackup, DropBackup,
     WriteVectors, UnlinkMarker, TransactionFails, RenameMarker, Unmark
<1>2. \/ Exit(v)
      \/ /\ pc[v] \notin {"idle", "plan"}
         /\ \E to \in Places \ {"idle", "plan"} : pc' = [pc EXCEPT ![v] = to]
         /\ \/ request' = request
            \/ \E b \in BOOLEAN : request' = [request EXCEPT ![v].wasHealthy = b]
            \/ \E b \in BOOLEAN : request' = [request EXCEPT ![v].hadBackup = b]
         /\ owned' = owned /\ lost' = lost
  <2>1. Healthy \in BOOLEAN
    BY DEF Healthy
  <2>2. QED
  BY <2>1 DEF Turn, Publish, Scan, SwapFails, WritingFails, Abandon, Plan, LockFull, LockDelta, Places,
     MarkPending, BuildStaging, RetireLive, SwapStaging, RemoveUnpublished, RestoreBackup, DropBackup,
     WriteVectors, UnlinkMarker, TransactionFails, RenameMarker, Unmark

<1>3. request[v] \in Request
  BY DEF Abandon
<1>4. CASE Exit(v)
  <2>1. pc'[v] = "idle" /\ request'[v] = None
    BY <1>4
  <2>2. \A w \in Workers : w # v => pc'[w] = pc[w] /\ request'[w] = request[w]
    BY <1>4
  <2>3. \A w \in Workers : owned' = w => owned = w \/ w = None
    BY <1>4
  <2>4. ASSUME NEW w \in Workers PROVE Scanned(w)'
    BY <1>1, <2>1, <2>2, <2>3, Distinct DEF ScanInv, Scanned, Touched, Read
  <2>5. \A c \in Chunks : Excused(c) => Excused(c)'
    BY <1>4, <2>2 DEF Excused
  <2>6. QED
    BY <1>1, <2>4, <2>5 DEF ScanInv, KeptUp, Read
<1>5. CASE ~Exit(v)
  <2>1. /\ pc[v] \notin {"idle", "plan"} /\ pc'[v] \notin {"idle", "plan"} /\ owned' = owned /\ lost' = lost /\ request'[v] \in Request
        /\ request'[v].full = request[v].full /\ request'[v].scan = request[v].scan
        /\ request'[v].tree = request[v].tree /\ request'[v].changed = request[v].changed
    BY <1>2, <1>3, <1>5 DEF Request
  <2>2. \A w \in Workers : w # v => pc'[w] = pc[w] /\ request'[w] = request[w]
    BY OthersUntouched
  <2>3. ASSUME NEW w \in Workers PROVE Scanned(w)'
    BY <1>1, <2>1, <2>2 DEF ScanInv, Scanned, Touched, Read
  <2>4. \A c \in Chunks : Excused(c) => Excused(c)'
    BY <2>1, <2>2, ContentIsWhole DEF Excused
  <2>5. QED
    BY <1>1, <2>1, <2>3, <2>4 DEF ScanInv, KeptUp, Read
<1>6. QED
  BY <1>4, <1>5

LEMMA PlanScan ==
  ASSUME IInv, IInv', StoredInv, ScanInv, NEW v \in Workers,
         Plan(v) \/ \E force \in BOOLEAN, hint \in SUBSET Chunks : Scan(v, force, hint)
  PROVE  ScanInv'
<1> USE DEF IInv, Types, Step
<1>1. /\ UNCHANGED <<source, snapshot, rows, lost>> /\ pc'[v] # "idle"
      /\ \A w \in Workers : w # v => pc'[w] = pc[w] /\ request'[w] = request[w]
  BY DEF Plan, Scan, database
<1>2. CASE Plan(v)
  <2> DEFINE full == NeedsFull(request[v])
             touched == IF full THEN Chunks ELSE request[v].changed
             tree == [c \in Chunks |-> IF c \in touched
                                         THEN IF request[v].scan[c] # 0 THEN OnDisk[c] ELSE 0
                                         ELSE rows[c]]
  <2>1. request[v] \in Request /\ pc[v] = "plan" /\ inventory' = inventory /\ owned' = owned
    BY <1>2 DEF Plan
  <2>2. request' = [request EXCEPT ![v] = [request[v] EXCEPT !.full = full, !.tree = tree]]
    BY <1>2 DEF Plan
  <2> HIDE DEF full, tree
  <2>3. /\ request'[v] \in [full : {full}, scan : Content, changed : SUBSET Chunks, tree : {tree},
                            hadBackup : BOOLEAN, wasHealthy : BOOLEAN]
        /\ request'[v].full = full /\ request'[v].tree = tree
        /\ request'[v].scan = request[v].scan /\ request'[v].changed = request[v].changed
    BY <2>1, <2>2 DEF Request
  <2>4. ASSUME NEW c \in Chunks, c \in touched
        PROVE  tree[c] = request[v].scan[c] \/ (request[v].scan[c] # 0 /\ request[v].scan[c] < source[c])
    <3>1. request[v].scan[c] \in 0..MaxVersion /\ request[v].scan[c] <= source[c]
      BY <2>1 DEF ScanInv, Scanned, Request, Content
    <3>2. tree[c] = IF request[v].scan[c] # 0 THEN OnDisk[c] ELSE 0
      BY <2>4 DEF tree
    <3>3. QED
      BY <3>1, <3>2, OnDiskRead
  <2>5. Scanned(v)'
    BY <1>1, <2>1, <2>3, <2>4 DEF ScanInv, Scanned, Touched, Read
  <2>6. ASSUME NEW w \in Workers, w # v PROVE Scanned(w)'
    BY <1>1, <2>1, <2>6 DEF ScanInv, Scanned, Touched, Read
  <2>7. \A c \in Chunks : Excused(c) => Excused(c)'
    <3>1. request'[v] # None
      BY <1>1, ContentIsWhole
    <3>2. QED
      BY <1>1, <2>3, <3>1 DEF Excused
  <2>8. QED
    BY <1>1, <2>1, <2>5, <2>6, <2>7 DEF ScanInv, KeptUp, Read
<1>3. ASSUME NEW force \in BOOLEAN, NEW hint \in SUBSET Chunks, Scan(v, force, hint) PROVE ScanInv'

  <2> DEFINE r == [full |-> force, scan |-> OnDisk, tree |-> Empty, changed |-> Changed(hint),
                   hadBackup |-> FALSE, wasHealthy |-> FALSE]
  <2>1. /\ owned' = v /\ inventory' = OnDisk /\ pc[v] = "idle" /\ pc'[v] = "plan"
        /\ request'[v] = r /\ request[v] = None
    BY <1>3 DEF Scan, ScanInv, Scanned
  <2>2. r.scan = OnDisk /\ r.changed = Changed(hint) /\ request'[v] # None
    BY <2>1, <1>1, ContentIsWhole
  <2>3. \A c \in Chunks : OnDisk[c] <= source[c]
    BY Bounds DEF OnDisk
  <2> HIDE DEF r
  <2>4. ASSUME NEW w \in Workers PROVE Scanned(w)'
    BY <1>1, <2>1, <2>2, <2>3 DEF ScanInv, Scanned, Touched, Read
  <2>5. ASSUME NEW c \in Chunks PROVE KeptUp(c)'
    <3>1. CASE Excused(c)
      BY <1>1, <2>1, <3>1 DEF Excused, KeptUp
    <3>2. CASE c \in Changed(hint)
      BY <2>1, <2>2, <3>2 DEF Excused, KeptUp
    <3>3. CASE ~Excused(c) /\ c \notin Changed(hint)
      BY <1>1, <2>1, <3>3 DEF Changed, ScanInv, KeptUp, Read
    <3>4. QED
      BY <3>1, <3>2, <3>3
  <2>6. QED
    BY <1>1, <2>1, <2>3, <2>4, <2>5 DEF ScanInv
<1>4. QED
  BY <1>2, <1>3

LEMMA TransactionScan ==
  ASSUME IInv, StoredInv, ScanInv, NEW v \in Workers, Transaction(v)
  PROVE  ScanInv'
<1> USE DEF IInv, Types, Step
<1>1. /\ UNCHANGED <<source, inventory, owned>> /\ pc[v] = "transaction" /\ request[v] \in Request
      /\ pc'[v] \in {"dropBackup", "unlink"}
      /\ \A w \in Workers : w # v => pc'[w] = pc[w] /\ request'[w] = request[w]
  BY DEF Transaction
<1>2. /\ request'[v] \in Request /\ request'[v].full = request[v].full /\ request'[v].changed = {}
      /\ request'[v].scan = request[v].scan /\ request'[v].tree = request[v].tree
  BY <1>1 DEF Transaction, Request
<1>3. rows' = NewRows(v) /\ snapshot' # None /\ snapshot'.inventory = request[v].scan
  <2>1. [tree |-> request[v].tree, inventory |-> request[v].scan] \in Snapshot
    BY <1>1 DEF Request, Snapshot
  <2>2. QED
    BY <2>1, ContentIsWhole DEF Transaction
<1>4. ASSUME NEW w \in Workers PROVE Scanned(w)'
  BY <1>1, <1>2 DEF ScanInv, Scanned, Touched, Read
<1>5. ASSUME NEW c \in Chunks PROVE KeptUp(c)'
  <2>1. CASE owned # v
    BY <2>1 DEF Transaction, Excused, KeptUp
  <2>2. CASE owned = v
    <3>1. request[v].scan = inventory
      BY <1>1, <2>2 DEF ScanInv, Scanned
    <3>2. lost' = lost \ Touched(v)
      BY <2>2 DEF Transaction
    <3>3. CASE c \in Touched(v)
      <4>1. Read(request[v].tree, request[v].scan, c)
        BY <1>1, <3>3 DEF ScanInv, Scanned
      <4>2. rows'[c] = request[v].tree[c]
        BY <1>3, <3>3 DEF NewRows
      <4>3. QED
        BY <1>1, <1>3, <3>1, <4>1, <4>2 DEF KeptUp, Read
    <3>4. CASE c \notin Touched(v)
      <4>1. rows'[c] = rows[c]
        BY <1>3, <3>4 DEF NewRows
      <4>2. CASE Excused(c)
        <5>1. Excused(c)'
          BY <1>1, <3>2, <3>4, <4>2 DEF Excused, Touched
        <5>2. QED
          BY <5>1 DEF KeptUp
      <4>3. CASE ~Excused(c)
        BY <1>1, <1>3, <3>1, <4>1, <4>3 DEF ScanInv, KeptUp, Read
      <4>4. QED
        BY <4>2, <4>3
    <3>5. QED
      BY <3>3, <3>4
  <2>3. QED
    BY <2>1, <2>2
<1>6. QED
  BY <1>1, <1>4, <1>5 DEF ScanInv

LEMMA QuietScan ==
  ASSUME IInv, IInv', StoredInv, ScanInv, (\E c \in Chunks : Edit(c)) \/ RuntimeDies \/ UNCHANGED vars
  PROVE  ScanInv'
<1>1. /\ UNCHANGED <<inventory, database, pc, request, lost>> /\ owned' \in {owned, None}
      /\ \A c \in Chunks : source[c] \in Nat /\ source'[c] \in Nat /\ source[c] <= source'[c]
  BY Bounds DEF Edit, RuntimeDies, vars, process, IInv, Types
<1>2. \A content, scan : \A c \in Chunks : scan \in Content /\ Read(content, scan, c) => Read(content, scan, c)'
  BY <1>1 DEF Read, Content
<1>3. ASSUME NEW w \in Workers PROVE Scanned(w)'
  <2>1. owned' = w => owned = w
    BY <1>1, Distinct
  <2>2. pc[w] # "idle" => request[w].scan \in Content /\ request[w].tree \in Content
    BY DEF IInv, Types, Request
  <2>3. pc[w] # "idle" => \A c \in Chunks : request[w].scan[c] <= source[c] => request[w].scan[c] <= source'[c]
    BY <1>1, <2>2 DEF Content
  <2>4. pc[w] \notin {"idle", "plan"} => \A c \in Chunks :
          Read(request[w].tree, request[w].scan, c) => Read(request[w].tree, request[w].scan, c)'
    BY <1>1, <2>2 DEF Read, Content
  <2>5. pc' = pc /\ request' = request /\ inventory' = inventory /\ Scanned(w)
    BY <1>1 DEF ScanInv
  <2>6. Touched(w)' = Touched(w)
    BY <2>5 DEF Touched
  <2>7. pc[w] # "idle" => Touched(w) \subseteq Chunks
    BY DEF IInv, Types, Request, Touched
  <2>8. QED
    BY <2>1, <2>3, <2>4, <2>5, <2>6, <2>7 DEF Scanned
<1>4. ASSUME NEW c \in Chunks PROVE (inventory[c] <= source[c] /\ KeptUp(c))'
  <2>1. inventory[c] \in Nat
    BY DEF StoredInv, Stored, Content
  <2>2. QED
    BY <1>1, <2>1 DEF ScanInv, KeptUp, Excused, Read, database
<1>5. QED
  BY <1>3, <1>4 DEF ScanInv

LEMMA NextScan == IInv /\ IInv' /\ StoredInv /\ ScanInv /\ [Next]_vars => ScanInv'
<1> SUFFICES ASSUME IInv, IInv', StoredInv, ScanInv, [Next]_vars PROVE ScanInv'
  OBVIOUS
<1>1. CASE (\E c \in Chunks : Edit(c)) \/ RuntimeDies \/ UNCHANGED vars
  BY <1>1, QuietScan
<1>2. ASSUME NEW v \in Workers, Turn(v) PROVE ScanInv'
  <2>1. pc[v] \in {"idle", "plan"} =>
          Plan(v) \/ (\E force \in BOOLEAN, hint \in SUBSET Chunks : Scan(v, force, hint)) \/ Abandon(v)
    BY <1>2 DEF Turn, Publish, Scan, SwapFails, WritingFails, Plan, LockFull, LockDelta, Step, Advance,
       MarkPending, BuildStaging, RetireLive, SwapStaging, RemoveUnpublished, RestoreBackup, DropBackup,
       WriteVectors, UnlinkMarker, Transaction, TransactionFails, RenameMarker, Unmark
  <2>2. QED
    BY <1>2, <2>1, WorkScan, PlanScan, TransactionScan
<1>3. QED
  BY <1>1, <1>2 DEF Next, Turn

(* When the index says it was made from the present sources, a file is missing
   from it only if the run that had scanned it failed or is at work, or an
   orphan has published. *)
THEOREM OnlyLostScansAreMissed == Spec => []MissesOnlyLostScans
<1>1. ASSUME IInv, ScanInv PROVE MissesOnlyLostScans
  <2> SUFFICES ASSUME Searchable, snapshot.inventory = OnDisk, NEW c \in Chunks, rows[c] # OnDisk[c]
               PROVE  Excused(c)
    BY DEF MissesOnlyLostScans, Excused
  <2>1. snapshot # None
    BY DEF Searchable, Healthy
  <2>2. SUFFICES ASSUME ~Excused(c) PROVE FALSE
    OBVIOUS
  <2>3. inventory[c] = OnDisk[c] /\ Read(rows, inventory, c)
    BY <1>1, <2>1, <2>2 DEF ScanInv, KeptUp
  <2>4. QED
    BY <1>1, <2>3, Bounds DEF Read, OnDisk, IInv, Types
<1>2. QED
  BY InitIInv, NextIInv, InitStored, NextStored, InitScan, NextScan, <1>1, PTL DEF Spec

(* ---- Searches and rows ---- *)

(* If readers accept the directory, its vectors are those of the rows. *)
Agrees(d) == Serves(d) => d.vectors = rows

(* With the lock free, an index that differs from its rows is marked, and the
   mark is the trace of a fault. *)
AtRest ==
  lock = None => /\ pending \/ Agrees(live) \/ faults >= 2
                 /\ pending => faults >= 1

(* Where the vectors of the rows are while a worker holds the lock. A rebuild
   that was begun over a marked directory may come back to it: that takes the
   fault that left the mark and the one that undoes the rebuild. *)
Agreement(w) ==
  /\ pc[w] = "mark" => (pending \/ Agrees(live) \/ faults >= 2) /\ (pending => faults >= 1)
  /\ pc[w] \in Holding \ {"mark"} => pending
  /\ pc[w] \in {"build", "retire"} => faults >= 1 \/ Agrees(live)
  /\ request[w].full /\ pc[w] \in {"swap", "transaction"} => faults >= 1 \/ Agrees(backup)
  /\ pc[w] \in {"undo", "restore"} => faults >= 2 \/ (faults = 1 /\ Agrees(backup))
  /\ pc[w] = "dropBackup" => live.vectors = rows
  /\ pc[w] \in {"vectors", "unlink", "rename"} => faults >= 2 \/ live.vectors = rows
  /\ ~request[w].full /\ pc[w] = "transaction" => faults >= 2 \/ live.vectors = NewRows(w)
  /\ pc[w] = "unmark" => faults >= 2 \/ Agrees(live)

(* Before the first fault there is one worker, and no row changes under it. *)
Calm(w) ==
  faults = 0 =>
    /\ pc[w] # "idle" => owned = w
    /\ pc[w] \in {"lock", "vectors", "transaction"} =>
         \A c \in Chunks \ Touched(w) : rows[c] = request[w].tree[c]

AgreeInv == AtRest /\ \A w \in Workers : Agreement(w) /\ Calm(w)

LEMMA InitAgree == Init => AgreeInv
BY DEF Init, AgreeInv, AtRest, Agreement, Calm, Agrees, Serves, Holding

LEMMA FaultsGrow ==
  ASSUME IInv, [Next]_vars
  PROVE  faults \in Nat /\ faults' \in Nat /\ faults <= faults'
<1>1. faults \in Nat
  BY DEF IInv, Types
<1>2. faults' = faults \/ faults' = faults + 1
  BY DEF Next, Edit, RuntimeDies, vars, Publish, Scan, SwapFails, WritingFails, Abandon, Fault, Plan, LockFull, LockDelta,
     MarkPending, BuildStaging, RetireLive, SwapStaging, RemoveUnpublished, RestoreBackup, DropBackup,
     WriteVectors, UnlinkMarker, Transaction, TransactionFails, RenameMarker, Unmark
<1>3. QED
  BY <1>1, <1>2

LEMMA TurnIsNext == ASSUME NEW v \in Workers, Turn(v) PROVE [Next]_vars
BY DEF Turn, Next

LEMMA OthersAgree ==
  ASSUME IInv, StoredInv, AgreeInv, NEW v \in Workers, Turn(v), NEW w \in Workers, w # v
  PROVE  Agreement(w)' /\ Calm(w)'
<1>1. pc'[w] = pc[w] /\ request'[w] = request[w]
  BY OthersUntouched
<1>2. faults \in Nat /\ faults' \in Nat /\ faults <= faults'
  BY TurnIsNext, FaultsGrow
<1>3. Agreement(w)'
  <2>1. CASE UNCHANGED <<database, vectors>>
    <3>1. UNCHANGED <<snapshot, rows, live, backup, pending>> /\ Agreement(w)
      BY <2>1 DEF database, vectors, AgreeInv
    <3>2. NewRows(w)' = NewRows(w)
      BY <1>1, <3>1 DEF NewRows, Touched
    <3>3. QED
      BY <1>1, <1>2, <3>1, <3>2 DEF Agreement, Agrees, Serves
  <2>2. CASE pc[v] \in Holding \/ lock = None
    <3>1. pc[w] \notin Holding
      BY <2>2, Distinct DEF IInv, HoldersHold
    <3>2. QED
      BY <1>1, <3>1 DEF Agreement, Holding, IInv, Types, Places
  <2>3. QED
    BY <2>1, <2>2, TurnIsLocal
<1>4. Calm(w)'
  <2>1. CASE pc[w] = "idle" \/ faults' # 0
    BY <1>1, <2>1 DEF Calm
  <2>2. CASE pc[w] # "idle" /\ faults' = 0
    <3>1. faults = 0 /\ owned = w
      BY <1>2, <2>2 DEF AgreeInv, Calm
    <3>2. pc[v] = "idle" /\ owned # None
      BY <3>1, Distinct DEF AgreeInv, Calm
    <3>3. FALSE
      BY <3>2 DEF Turn, Publish, Scan, SwapFails, WritingFails, Abandon, Plan, LockFull, LockDelta, Step, Advance,
         MarkPending, BuildStaging, RetireLive, SwapStaging, RemoveUnpublished, RestoreBackup, DropBackup,
         WriteVectors, UnlinkMarker, Transaction, TransactionFails, RenameMarker, Unmark
    <3>4. QED
      BY <3>3
  <2>3. QED
    BY <2>1, <2>2
<1>5. QED
  BY <1>3, <1>4

(* The plan of a worker that nothing has disturbed makes the rows its tree. *)
LEMMA CalmCounts ==
  ASSUME IInv, NEW v \in Workers, Calm(v), pc[v] \in {"vectors", "transaction"},
         faults = 0 \/ request[v].full
  PROVE  NewRows(v) = request[v].tree
<1>1. request[v].tree \in Content
  BY DEF IInv, Types, Request
<1>2. \A c \in Chunks \ Touched(v) : rows[c] = request[v].tree[c]
  BY DEF Calm, Touched
<1>3. QED
  BY <1>1, <1>2 DEF NewRows, Content

LEMMA WrittenIsNewRows ==
  ASSUME IInv, StoredInv, NEW v \in Workers, pc[v] = "vectors", live.vectors = rows
  PROVE  Written(v) = NewRows(v)
BY DEF Written, NewRows, Replaced, Touched, IInv, Types, Request

(* The end of a worker leaves a mark, unless there was none to leave. *)
LEMMA ExitAgree ==
  ASSUME IInv, StoredInv, AgreeInv, NEW v \in Workers, Exit(v), pc[v] # "idle",
         faults' \in Nat, faults <= faults',
         rows' = rows, snapshot' = snapshot, pending' = pending,
         live' = live \/ (pc[v] \in Holding \ {"mark"} /\ faults' >= 1),
         pc[v] \in Holding => faults' >= 1
  PROVE  AtRest' /\ Agreement(v)' /\ Calm(v)'
<1>1. pc'[v] = "idle" /\ request'[v] = None
  BY DEF Exit, IInv, Types
<1>2. Agreement(v)' /\ Calm(v)'
  BY <1>1 DEF Agreement, Calm, Holding
<1>3. AtRest'
  <2>1. CASE lock = None /\ live' = live
    BY <2>1 DEF AgreeInv, AtRest, Agrees, Serves, IInv, Types
  <2>2. CASE lock = None /\ live' # live
    BY <2>2, Distinct DEF IInv, HoldersHold
  <2>3. CASE lock # None /\ lock' = None
    <3>1. lock = v
      BY <2>3 DEF Exit
    <3>2. pc[v] \in Holding
      BY <2>3, <3>1 DEF StoredInv, Stored
    <3>3. pending' \/ Agrees(live)' \/ faults' >= 2
      <4>1. CASE pc[v] = "mark"
        BY <4>1 DEF AgreeInv, Agreement, Agrees, Serves, IInv, Types
      <4>2. CASE pc[v] # "mark"
        BY <3>2, <4>2 DEF AgreeInv, Agreement
      <4>3. QED
        BY <4>1, <4>2
    <3>4. QED
      BY <3>2, <3>3 DEF AtRest
  <2>4. CASE lock' # None
    BY <2>4 DEF AtRest
  <2>5. QED
    BY <2>1, <2>2, <2>3, <2>4 DEF Exit
<1>4. QED
  BY <1>2, <1>3

(* A step that leaves the lock with its holder has to account for the holder only. *)
LEMMA HeldAtRest ==
  ASSUME NEW v \in Workers, lock' = v
  PROVE  AtRest'
BY Distinct DEF AtRest

LEMMA AcquireAgree ==
  ASSUME IInv, StoredInv, AgreeInv, NEW v \in Workers,
         (\E force \in BOOLEAN, hint \in SUBSET Chunks : Scan(v, force, hint))
           \/ Plan(v) \/ LockFull(v) \/ LockDelta(v)
  PROVE  AtRest' /\ Agreement(v)' /\ Calm(v)'
<1> USE DEF IInv, Types, Step, database, vectors, Holding
<1>0. AtRest /\ Agreement(v) /\ Calm(v)
  BY DEF AgreeInv
<1>1. CASE \E force \in BOOLEAN, hint \in SUBSET Chunks : Scan(v, force, hint)
  <2>1. pc'[v] = "plan" /\ owned' = v /\ UNCHANGED <<snapshot, rows, live, pending, lock, faults>>
    BY <1>1 DEF Scan
  <2>2. QED
    BY <1>0, <2>1 DEF AtRest, Agreement, Calm, Agrees, Serves
<1>2. CASE Plan(v)
  <2> DEFINE full == NeedsFull(request[v])
             touched == IF full THEN Chunks ELSE request[v].changed
             tree == [c \in Chunks |-> IF c \in touched
                                         THEN IF request[v].scan[c] # 0 THEN OnDisk[c] ELSE 0
                                         ELSE rows[c]]
  <2>1. request[v] \in Request /\ pc'[v] = "lock" /\ UNCHANGED <<snapshot, rows, live, pending, lock, owned, faults>>
    BY <1>2 DEF Plan
  <2>2. request' = [request EXCEPT ![v] = [request[v] EXCEPT !.full = full, !.tree = tree]]
    BY <1>2 DEF Plan
  <2> HIDE DEF full, tree
  <2>3. request'[v].full = full /\ request'[v].tree = tree /\ request'[v].changed = request[v].changed
    BY <2>1, <2>2 DEF Request
  <2>4. \A c \in Chunks \ touched : tree[c] = rows[c]
    BY DEF tree
  <2>5. Calm(v)'
    BY <1>0, <1>2, <2>1, <2>3, <2>4 DEF Calm, Touched, Plan
  <2>6. QED
    BY <1>0, <2>1, <2>5 DEF AtRest, Agreement, Agrees, Serves
<1>3. CASE LockFull(v)
  <2>1. pc'[v] = "mark" /\ lock = None /\ lock' = v /\ UNCHANGED <<snapshot, rows, live, pending, owned, faults>>
    BY <1>3 DEF LockFull
  <2>2. QED
    BY <1>0, <1>3, <2>1, HeldAtRest DEF AtRest, Agreement, Calm, Agrees, Serves, LockFull
<1>4. CASE LockDelta(v)
  <2>1. CASE Exit(v) /\ UNCHANGED pending
    BY <1>4, <2>1, ExitAgree DEF LockDelta
  <2>2. CASE Healthy /\ lock' = v /\ pending' = TRUE /\ pc' = [pc EXCEPT ![v] = "vectors"] /\ UNCHANGED <<owned, request>>
    <3>1. pc'[v] = "vectors" /\ lock = None /\ pc[v] = "lock" /\ UNCHANGED <<snapshot, rows, live, faults>>
      BY <1>4, <2>2 DEF LockDelta
    <3>2. faults' >= 2 \/ live'.vectors = rows'
      BY <1>0, <2>2, <3>1, HealthyServes DEF AtRest, Agrees
    <3>3. Calm(v)'
      BY <1>0, <2>2, <3>1 DEF Calm, Touched
    <3>4. QED
      BY <2>2, <3>1, <3>2, <3>3, HeldAtRest DEF Agreement
  <2>3. QED
    BY <1>4, <2>1, <2>2 DEF LockDelta
<1>5. QED
  BY <1>1, <1>2, <1>3, <1>4

LEMMA RebuildAgree ==
  ASSUME IInv, StoredInv, AgreeInv, NEW v \in Workers,
         MarkPending(v) \/ BuildStaging(v) \/ RetireLive(v) \/ SwapStaging(v) \/ SwapFails(v)
           \/ RemoveUnpublished(v) \/ RestoreBackup(v) \/ DropBackup(v)
  PROVE  AtRest' /\ Agreement(v)' /\ Calm(v)'
<1> USE DEF IInv, Types, Step, Advance, database, vectors, Holding, Places
<1>0. Agreement(v) /\ Calm(v) /\ Writable(v) /\ Stage(v) /\ lock = v /\ request[v].full
  BY DEF AgreeInv, StoredInv, Writable, HoldersHold, MarkPending, BuildStaging, RetireLive, SwapStaging, SwapFails,
     RemoveUnpublished, RestoreBackup, DropBackup
<1>1. CASE MarkPending(v)
  <2>1. pc'[v] = "build" /\ pending' = TRUE /\ UNCHANGED <<snapshot, rows, live, faults, request, owned, lock>>
    BY <1>1 DEF MarkPending
  <2>2. QED
    BY <1>0, <1>1, <2>1, HeldAtRest DEF MarkPending, Agreement, Calm, Agrees, Serves
<1>2. CASE BuildStaging(v)
  <2>1. pc'[v] = "retire" /\ UNCHANGED <<snapshot, rows, live, pending, faults, request, owned, lock>>
    BY <1>2 DEF BuildStaging
  <2>2. QED
    BY <1>0, <1>2, <2>1, HeldAtRest DEF BuildStaging, Agreement, Calm, Agrees, Serves
<1>3. CASE RetireLive(v)
  <2>1. pc'[v] = "swap" /\ backup' = live /\ UNCHANGED <<snapshot, rows, pending, faults, owned, lock>>
    BY <1>3 DEF RetireLive
  <2>2. QED
    BY <1>0, <1>3, <2>1, HeldAtRest DEF RetireLive, Agreement, Calm, Agrees, Serves
<1>4. CASE SwapStaging(v)
  <2>1. pc'[v] = "transaction" /\ UNCHANGED <<snapshot, rows, backup, pending, faults, request, owned, lock>>
    BY <1>4 DEF SwapStaging
  <2>2. QED
    BY <1>0, <1>4, <2>1, HeldAtRest DEF SwapStaging, Agreement, Calm, Agrees, Serves, Touched
<1>5. CASE SwapFails(v)
  BY <1>5, ExitAgree DEF SwapFails, Fault
<1>6. CASE RemoveUnpublished(v)
  <2>1. UNCHANGED <<snapshot, rows, backup, pending, faults>> /\ live' = None
    BY <1>6 DEF RemoveUnpublished
  <2>2. CASE Exit(v)
    BY <1>0, <1>6, <2>1, <2>2, ExitAgree DEF RemoveUnpublished, Agreement
  <2>3. CASE Advance(v, "undo", "restore")
    BY <1>0, <2>1, <2>3, HeldAtRest DEF Agreement, Calm, Agrees, Serves
  <2>4. CASE Advance(v, "undo", "unmark")
    BY <1>0, <2>1, <2>4, HeldAtRest DEF Agreement, Calm, Agrees, Serves
  <2>5. QED
    BY <1>6, <2>2, <2>3, <2>4 DEF RemoveUnpublished
<1>7. CASE RestoreBackup(v)
  <2>1. pc'[v] = "unmark" /\ live' = backup /\ UNCHANGED <<snapshot, rows, pending, faults, request, owned, lock>>
    BY <1>7 DEF RestoreBackup
  <2>2. QED
    BY <1>0, <1>7, <2>1, HeldAtRest DEF RestoreBackup, Agreement, Calm, Agrees, Serves
<1>8. CASE DropBackup(v)
  <2>1. pc'[v] = "unmark" /\ UNCHANGED <<snapshot, rows, live, pending, faults, request, owned, lock>>
    BY <1>8 DEF DropBackup
  <2>2. QED
    BY <1>0, <1>8, <2>1, HeldAtRest DEF DropBackup, Agreement, Calm, Agrees, Serves
<1>9. QED
  BY <1>1, <1>2, <1>3, <1>4, <1>5, <1>6, <1>7, <1>8

LEMMA CommitAgree ==
  ASSUME IInv, StoredInv, AgreeInv, NEW v \in Workers,
         WriteVectors(v) \/ WritingFails(v) \/ UnlinkMarker(v) \/ RenameMarker(v) \/ Transaction(v)
           \/ TransactionFails(v) \/ Unmark(v) \/ Abandon(v)
  PROVE  AtRest' /\ Agreement(v)' /\ Calm(v)'
<1> USE DEF IInv, Types, Step, Advance, database, vectors, Holding, Places
<1>0. Agreement(v) /\ Calm(v) /\ Writable(v) /\ Stage(v) /\ (pc[v] \in Holding => lock = v)
  BY DEF AgreeInv, StoredInv, HoldersHold
<1>1. CASE WriteVectors(v)
  <2>1. /\ pc[v] = "vectors" /\ live \in Directory /\ ~request[v].full
        /\ live' = [live EXCEPT !.vectors = Written(v)] /\ UNCHANGED <<snapshot, rows, pending, faults>>
    BY <1>0, <1>1, WrittenIsContent DEF WriteVectors, Written, Stage
  <2>2. live'.vectors = Written(v)
    BY <2>1 DEF Directory
  <2>3. faults >= 2 \/ live'.vectors = NewRows(v)
    BY <1>0, <2>1, <2>2, WrittenIsNewRows DEF Agreement
  <2>4. CASE Exit(v)
    <3>1. Count(Written(v)) # Count(request[v].tree)
      BY <1>1, <2>1, <2>4 DEF WriteVectors, Written, Exit
    <3>2. faults >= 1
      BY <1>0, <2>1, <2>2, <2>3, <3>1, CalmCounts
    <3>3. QED
      BY <2>1, <2>4, <3>2, ExitAgree
  <2>5. CASE Advance(v, "vectors", "transaction")
    <3>1. NewRows(v)' = NewRows(v)
      BY <2>1, <2>5 DEF NewRows, Touched
    <3>2. QED
      BY <1>0, <2>1, <2>3, <2>5, <3>1, HeldAtRest DEF Agreement, Calm, Touched
  <2>6. QED
    BY <1>1, <2>4, <2>5 DEF WriteVectors
<1>2. CASE WritingFails(v)
  BY <1>2, ExitAgree DEF WritingFails, Fault
<1>3. CASE UnlinkMarker(v)
  <2>1. live \in Directory /\ pc'[v] = "rename" /\ UNCHANGED <<rows, pending, faults, request, owned, lock>>
    BY <1>0, <1>3 DEF UnlinkMarker, Writable, StoredInv, Stored
  <2>2. live'.vectors = live.vectors
    BY <1>3, <2>1 DEF UnlinkMarker, Directory
  <2>3. QED
    BY <1>0, <1>3, <2>1, <2>2, HeldAtRest DEF UnlinkMarker, Agreement, Calm
<1>4. CASE RenameMarker(v)
  <2>1. live \in Directory /\ pc'[v] = "unmark" /\ UNCHANGED <<rows, pending, faults, request, owned, lock>>
    BY <1>0, <1>4 DEF RenameMarker, Writable, StoredInv, Stored
  <2>2. live'.vectors = live.vectors
    BY <1>4, <2>1 DEF RenameMarker, Directory
  <2>3. QED
    BY <1>0, <1>4, <2>1, <2>2, HeldAtRest DEF RenameMarker, Agreement, Calm, Agrees
<1>5. CASE Transaction(v)
  <2>1. /\ pc[v] = "transaction" /\ rows' = NewRows(v) /\ live' = live
        /\ UNCHANGED <<pending, faults, owned, lock>>
        /\ pc'[v] = IF request[v].full THEN "dropBackup" ELSE "unlink"
    BY <1>5 DEF Transaction
  <2>2. request[v].full => live.vectors = NewRows(v)
    BY <1>0, <2>1, CalmCounts DEF Stage, Built
  <2>3. QED
    BY <1>0, <2>1, <2>2, HeldAtRest DEF Agreement, Calm
<1>6. CASE TransactionFails(v)
  <2>1. pc[v] = "transaction" /\ UNCHANGED <<snapshot, rows, live, backup, pending>>
    BY <1>6 DEF TransactionFails
  <2>2. faults' \in Nat /\ faults <= faults' /\ faults' >= 1 /\ (request[v].full => faults' = faults + 1)
    BY <1>0, <1>6, <2>1, CalmCounts DEF TransactionFails, Fault
  <2>3. CASE Exit(v)
    BY <2>1, <2>2, <2>3, ExitAgree
  <2>4. CASE request[v].full /\ Advance(v, "transaction", "undo")
    <3>1. pc'[v] = "undo" /\ lock' = v
      BY <1>0, <2>4
    <3>2. faults' >= 2 \/ (faults' = 1 /\ Agrees(backup)')
      BY <1>0, <2>1, <2>2, <2>4 DEF Agreement, Agrees, Serves
    <3>3. QED
      BY <1>0, <2>1, <2>2, <3>1, <3>2, HeldAtRest DEF Agreement, Calm
  <2>5. QED
    BY <1>6, <2>3, <2>4 DEF TransactionFails
<1>7. CASE Unmark(v)
  <2>1. pc'[v] = "idle" /\ pending' = FALSE /\ UNCHANGED <<snapshot, rows, live, faults>>
    BY <1>7 DEF Unmark, Exit
  <2>2. faults' >= 2 \/ Agrees(live)'
    BY <1>0, <1>7, <2>1 DEF Unmark, Agreement, Agrees, Serves
  <2>3. QED
    BY <2>1, <2>2 DEF AtRest, Agreement, Calm
<1>8. CASE Abandon(v)
  BY <1>8, ExitAgree DEF Abandon, Fault
<1>9. QED
  BY <1>1, <1>2, <1>3, <1>4, <1>5, <1>6, <1>7, <1>8

LEMMA NextAgree == IInv /\ StoredInv /\ AgreeInv /\ [Next]_vars => AgreeInv'
<1> SUFFICES ASSUME IInv, StoredInv, AgreeInv, [Next]_vars PROVE AgreeInv'
  OBVIOUS
<1>1. CASE (\E c \in Chunks : Edit(c)) \/ RuntimeDies \/ UNCHANGED vars
  <2>1. /\ UNCHANGED <<snapshot, rows, live, backup, pending, lock, pc, request>>
        /\ (faults' = faults /\ owned' = owned) \/ faults' = faults + 1
        /\ faults \in Nat
    BY <1>1 DEF Edit, RuntimeDies, Fault, vars, database, vectors, process, IInv, Types
  <2>2. AtRest'
    BY <2>1 DEF AgreeInv, AtRest, Agrees, Serves
  <2>3. ASSUME NEW w \in Workers PROVE Agreement(w)' /\ Calm(w)'
    <3>1. NewRows(w)' = NewRows(w) /\ Touched(w)' = Touched(w)
      BY <2>1 DEF NewRows, Touched
    <3>2. QED
      BY <2>1, <3>1 DEF AgreeInv, Agreement, Calm, Agrees, Serves
  <2>4. QED
    BY <2>2, <2>3 DEF AgreeInv
<1>2. ASSUME NEW v \in Workers, Turn(v) PROVE AgreeInv'
  <2>1. AtRest' /\ Agreement(v)' /\ Calm(v)'
    BY <1>2, AcquireAgree, RebuildAgree, CommitAgree DEF Turn, Publish
  <2>2. \A w \in Workers : w # v => Agreement(w)' /\ Calm(w)'
    BY <1>2, OthersAgree
  <2>3. QED
    BY <2>1, <2>2 DEF AgreeInv
<1>3. QED
  BY <1>1, <1>2 DEF Next, Turn

(* A search with a vector is only answered from the vectors of the rows, as long
   as no more than one fault has happened: a second one may undo a rebuild that
   was to repair what the first one left. *)
THEOREM SearchesMatchRows == Spec => [](faults <= 1 => SearchMatchesRows)
<1>1. IInv /\ AgreeInv => (faults <= 1 => SearchMatchesRows)
  BY HealthyServes DEF AgreeInv, AtRest, Agrees, SearchMatchesRows, Searchable, IInv, Types
<1>2. QED
  BY InitIInv, NextIInv, InitStored, NextStored, InitAgree, NextAgree, <1>1, PTL DEF Spec
=============================================================================
