----------------------------- MODULE VectorStore -----------------------------
(* The embedded vector database of crates/opencanon-vector: a memory-mapped file
   of vectors, a graph and an id map that are saved whole, a write-ahead log for
   what was not saved yet, and a compaction that builds new files and moves them
   into place. The process may be killed between any two steps. Pages written
   through the map survive it, records still in the log's write buffer do not.
   One compaction runs at a time.                                             *)
EXTENDS Naturals, Sequences, FiniteSets, SequencesExt

CONSTANTS
  Ids,           \* external ids
  SegmentSize,   \* records that fit a log segment
  MaxWrites,     \* bound: inserts and deletes
  MaxFlushes,    \* bound: flushes and compactions asked for
  MaxCrashes,    \* bound: kills
  None, Torn

VARIABLES
  main, temp, backup,  \* the three directories: vectors.bin, hnsw.db, idmap.db
  sealed,      \* full segments of the log
  active,      \* the segment it is written to, with what its writer buffers
  spilled,     \* records of that segment that are in its file
  lsn,         \* current_lsn
  checkpoint,  \* the checkpoint file
  memory,      \* graph, id map and deleted set of the open database, or None
  pc, next,    \* where the process is; what follows the flush
  at, changed, \* the record that recovery has come to; whether it applied any
  copy,        \* what the background compaction has copied, or None
  writes, flushes, crashes,
  since,       \* history: contents each id has had since the last whole flush
  latest,      \* history: what the last write of each id left
  raced,       \* history: a write while a background compaction copied
  interrupted, \* history: a kill while files were out of place
  halfSaved    \* history: a kill while the graph or the id map was being saved

files    == <<main, temp, backup>>
wal      == <<sealed, active, spilled, lsn, checkpoint>>
recovery == <<at, changed>>
ghost    == <<since, latest, raced, interrupted, halfSaved>>
count    == <<writes, flushes, crashes>>
vars     == <<files, wal, memory, pc, next, recovery, copy, count, ghost>>

(* ---- Data ---- *)

(* A vector is named by the id and the insert that brought it; internal ids are
   positions in the file. The graph has a node for every position up to some. *)
Vector  == Ids \X Nat
Index   == [map : [Ids -> Nat], deleted : SUBSET Nat]
Files   == [vectors : Seq(Vector) \cup {None}, graph : Nat \cup {None, Torn},
            ids : Index \cup {None, Torn}]
Memory  == [graph : Nat, map : [Ids -> Nat], deleted : SUBSET Nat]
Record  == [lsn : Nat, insert : SUBSET Ids, delete : SUBSET Ids, value : Nat]
Segment == [start : Nat, records : Seq(Record)]
Places  == {"closed", "restore", "load", "replay", "ready", "graph", "ids", "log",
            "mark", "truncate", "build", "retire", "install", "reload"}

ASSUME Sizes == SegmentSize \in Nat \ {0} /\ IsFiniteSet(Ids)
ASSUME Bounds == MaxWrites \in Nat /\ MaxFlushes \in Nat /\ MaxCrashes \in Nat
ASSUME Marks ==
  /\ None # Torn
  /\ None \notin Seq(Vector) \cup Nat \cup Index \cup Memory \cup Files
  /\ Torn \notin Nat \cup Index

Nothing == [vectors |-> None, graph |-> None, ids |-> None]
NoIds == [map |-> [i \in Ids |-> 0], deleted |-> {}]

TypeOK ==
  /\ {main, temp, backup} \subseteq Files
  /\ sealed \subseteq Segment /\ active \in Segment
  /\ spilled \in 0..Len(active.records)
  /\ lsn \in Nat /\ checkpoint \in Nat
  /\ memory \in Memory \cup {None}
  /\ (memory = None) = (pc \in {"closed", "restore", "load"})
  /\ pc \in Places /\ next \in {"ready", "build"}
  /\ at \in Nat /\ changed \in BOOLEAN
  /\ copy \in Files \cup {None}
  /\ {writes, flushes, crashes} \subseteq Nat
  /\ since \in [Ids -> SUBSET Nat] /\ latest \in [Ids -> Nat]
  /\ {raced, interrupted, halfSaved} \subseteq BOOLEAN

Init ==
  /\ main = [vectors |-> <<>>, graph |-> None, ids |-> None]
  /\ temp = Nothing /\ backup = Nothing
  /\ sealed = {} /\ active = [start |-> 0, records |-> <<>>] /\ spilled = 0
  /\ lsn = 0 /\ checkpoint = 0
  /\ memory = [graph |-> 0, map |-> NoIds.map, deleted |-> {}]
  /\ pc = "ready" /\ next = "ready" /\ at = 0 /\ changed = FALSE /\ copy = None
  /\ writes = 0 /\ flushes = 0 /\ crashes = 0
  /\ since = [i \in Ids |-> {0}] /\ latest = [i \in Ids |-> 0]
  /\ raced = FALSE /\ interrupted = FALSE /\ halfSaved = FALSE

Content(vectors, m, i) == IF m.map[i] \in DOMAIN vectors THEN vectors[m.map[i]][2] ELSE 0
Value(m, i) == Content(main.vectors, m, i)

(* ---- The write-ahead log: wal.rs ---- *)

Records == UNION {Range(s.records) : s \in sealed \cup {active}}
Synced == Len(active.records)
Surviving == [start |-> active.start, records |-> SubSeq(active.records, 1, spilled)]
LastLsn(s) == IF s.records = <<>> THEN s.start ELSE s.records[Len(s.records)].lsn

(* A full segment is synced, and the next one begins with the record's number. *)
Logged(insert, delete, value) ==
  LET record == [lsn |-> lsn + 1, insert |-> insert, delete |-> delete, value |-> value]
  IN /\ lsn' = lsn + 1
     /\ IF Synced < SegmentSize
          THEN active' = [active EXCEPT !.records = Append(@, record)] /\ sealed' = sealed
          ELSE /\ active' = [start |-> lsn + 1, records |-> <<record>>]
               /\ sealed' = sealed \cup {active}

(* The buffer is full. Part of a record counts as none when it is read again. *)
Spill ==
  /\ memory # None /\ spilled < Synced
  /\ spilled' = spilled + 1
  /\ UNCHANGED <<files, sealed, active, lsn, checkpoint, memory, pc, next, recovery,
                 copy, count, ghost>>

(* ---- Writes: insert, insert_batch, delete ---- *)

(* Positions for the ids that a record brings, after those taken. *)
Placed(ids, taken) ==
  [i \in ids |-> taken + CHOOSE k \in 1..Cardinality(ids) : SetToSeq(ids)[k] = i]
Rows(ids, value) == [k \in 1..Cardinality(ids) |-> <<SetToSeq(ids)[k], value>>]

(* What inserting and deleting do to the open database. *)
Inserted(m, ids, taken) ==
  [graph   |-> IF ids = {} THEN m.graph ELSE taken + Cardinality(ids),
   map     |-> [i \in Ids |-> IF i \in ids THEN Placed(ids, taken)[i] ELSE m.map[i]],
   deleted |-> m.deleted]
Deleted(m, ids) ==
  [graph   |-> m.graph,
   map     |-> [i \in Ids |-> IF i \in ids THEN 0 ELSE m.map[i]],
   deleted |-> m.deleted \cup {m.map[i] : i \in ids}]

Wrote(insert, delete, value) ==
  LET ids == insert \cup delete IN
  /\ writes' = writes + 1
  /\ Logged(insert, delete, value)
  /\ spilled' = IF Synced < SegmentSize THEN spilled ELSE 0
  /\ since' = [i \in Ids |-> IF i \in ids THEN since[i] \cup {value} ELSE since[i]]
  /\ latest' = [i \in Ids |-> IF i \in ids THEN value ELSE latest[i]]
  /\ raced' = (raced \/ copy # None)
  /\ UNCHANGED <<temp, backup, checkpoint, pc, next, recovery, copy, flushes, crashes,
                 interrupted, halfSaved>>

Insert(ids) ==
  /\ pc = "ready" /\ writes < MaxWrites
  /\ \A i \in ids : memory.map[i] = 0
  /\ main' = [main EXCEPT !.vectors = @ \o Rows(ids, writes + 1)]
  /\ memory' = Inserted(memory, ids, Len(main.vectors))
  /\ Wrote(ids, {}, writes + 1)

Delete(i) ==
  /\ pc = "ready" /\ writes < MaxWrites
  /\ memory.map[i] # 0
  /\ memory' = Deleted(memory, {i})
  /\ Wrote({}, {i}, 0)
  /\ UNCHANGED main

(* ---- Flush ---- *)

Go(from, to) == pc = from /\ pc' = to

(* Both files are truncated and written in place. *)
StartFlush(after) ==
  /\ Go("ready", "graph") /\ next' = after
  /\ after = "build" => copy = None
  /\ flushes < MaxFlushes /\ flushes' = flushes + 1
  /\ main' = [main EXCEPT !.graph = Torn]
  /\ UNCHANGED <<temp, backup, wal, memory, recovery, copy, writes, crashes, ghost>>

SaveGraph ==
  /\ Go("graph", "ids")
  /\ main' = [main EXCEPT !.graph = memory.graph, !.ids = Torn]
  /\ UNCHANGED <<temp, backup, wal, memory, next, recovery, copy, count, ghost>>

SaveIds ==
  /\ Go("ids", "log")
  /\ main' = [main EXCEPT !.ids = [map |-> memory.map, deleted |-> memory.deleted]]
  /\ UNCHANGED <<temp, backup, wal, memory, next, recovery, copy, count, ghost>>

(* Wal::checkpoint logs a record and syncs; then the number is put in place, and
   segments that begin before it are removed. *)

LogCheckpoint ==
  /\ Go("log", "mark")
  /\ Logged({}, {}, 0) /\ spilled' = Len(active'.records)
  /\ UNCHANGED <<files, checkpoint, memory, next, recovery, copy, count, ghost>>

MarkCheckpoint ==
  /\ Go("mark", "truncate")
  /\ checkpoint' = lsn - 1
  /\ UNCHANGED <<files, sealed, active, spilled, lsn, memory, next, recovery, copy, count,
                 ghost>>

Truncate ==
  /\ Go("truncate", next)
  /\ sealed' = {s \in sealed : s.start >= checkpoint}
  /\ since' = [i \in Ids |-> {Value(memory, i)}]
  /\ UNCHANGED <<files, active, spilled, lsn, checkpoint, memory, next, recovery, copy,
                 count, latest, raced, interrupted, halfSaved>>

(* ---- Compaction: compaction.rs ---- *)

(* New files for some ids, numbered afresh in the order of the old positions. *)
Rank(live, i) == Cardinality({j \in live : memory.map[j] <= memory.map[i]})
Renumbered(live) ==
  [vectors |-> [k \in 1..Cardinality(live) |->
                  main.vectors[memory.map[CHOOSE i \in live : Rank(live, i) = k]]],
   graph   |-> Cardinality(live),
   ids     |-> [map |-> [i \in Ids |-> IF i \in live THEN Rank(live, i) ELSE 0],
                deleted |-> {}]]

MutantCompacted == Renumbered({i \in Ids : memory.map[i] \in 1..(Len(main.vectors) - 1)})
Compacted == Renumbered({i \in Ids : memory.map[i] # 0})

(* compact, after its flush. *)
BuildNewFiles ==
  /\ pc = "build"
  /\ IF memory.deleted = {} THEN pc' = "ready" /\ UNCHANGED temp
                            ELSE pc' = "retire" /\ temp' = Compacted
  /\ UNCHANGED <<main, backup, wal, memory, next, recovery, copy, count, ghost>>

(* compact_async: what is there now will be copied, with the database open. *)
StartCopy ==
  /\ pc = "ready" /\ copy = None /\ memory.deleted # {}
  /\ flushes < MaxFlushes /\ flushes' = flushes + 1
  /\ copy' = Compacted
  /\ UNCHANGED <<files, wal, memory, pc, next, recovery, writes, crashes, ghost>>

(* The copy is done and the database is locked for the swap. *)
EndCopy ==
  /\ copy # None /\ Go("ready", "retire")
  /\ temp' = copy /\ next' = "ready"
  /\ UNCHANGED <<main, backup, wal, memory, recovery, copy, count, ghost>>

(* move_db_files, one rename after the other, between two directories. *)
Without(from) ==
  CASE from.vectors # None -> [from EXCEPT !.vectors = None]
    [] from.vectors = None /\ from.graph # None -> [from EXCEPT !.graph = None]
    [] OTHER -> [from EXCEPT !.ids = None]
With(to, from) ==
  CASE from.vectors # None -> [to EXCEPT !.vectors = from.vectors]
    [] from.vectors = None /\ from.graph # None -> [to EXCEPT !.graph = from.graph]
    [] OTHER -> [to EXCEPT !.ids = from.ids]

Retire ==
  /\ pc = "retire"
  /\ IF main = Nothing
       THEN pc' = "install" /\ UNCHANGED <<main, backup>>
       ELSE UNCHANGED pc /\ main' = Without(main) /\ backup' = With(backup, main)
  /\ UNCHANGED <<temp, wal, memory, next, recovery, copy, count, ghost>>

Install ==
  /\ pc = "install"
  /\ IF temp = Nothing
       THEN pc' = "reload" /\ backup' = Nothing /\ UNCHANGED <<main, temp>>
       ELSE UNCHANGED <<pc, backup>> /\ temp' = Without(temp) /\ main' = With(main, temp)
  /\ UNCHANGED <<wal, memory, next, recovery, copy, count, ghost>>

MutantReload ==    \* what was deleted stays marked
  /\ pc = "reload"
  /\ memory' = [graph |-> main.graph, map |-> main.ids.map, deleted |-> memory.deleted]
  /\ IF copy = None
       THEN pc' = "graph" /\ next' = "ready" /\ main' = [main EXCEPT !.graph = Torn]
       ELSE pc' = "ready" /\ UNCHANGED <<main, next>>
  /\ copy' = None
  /\ UNCHANGED <<temp, backup, wal, recovery, count, ghost>>

(* compact flushes once more, compact_async does not. *)
Reload ==
  /\ pc = "reload"
  /\ memory' = [graph |-> main.graph, map |-> main.ids.map, deleted |-> {}]
  /\ IF copy = None
       THEN pc' = "graph" /\ next' = "ready" /\ main' = [main EXCEPT !.graph = Torn]
       ELSE pc' = "ready" /\ UNCHANGED <<main, next>>
  /\ copy' = None
  /\ UNCHANGED <<temp, backup, wal, recovery, count, ghost>>

(* ---- The end of the process, and the next open ---- *)

(* The next recovery takes the directory for whole, with files still elsewhere. *)
OutOfPlace ==
  /\ main.vectors # None
  /\ \/ main.graph = None /\ backup.graph # None
     \/ main.ids = None /\ backup.ids # None

Ends ==
  /\ memory' = None /\ copy' = None /\ pc' = "closed" /\ next' = "ready"
  /\ at' = 0 /\ changed' = FALSE
  /\ UNCHANGED <<files, sealed, lsn, checkpoint, writes, flushes, since, latest, raced>>

Crash ==
  /\ pc # "closed" /\ crashes < MaxCrashes /\ crashes' = crashes + 1
  /\ active' = Surviving /\ spilled' = spilled
  /\ interrupted' = (interrupted \/ OutOfPlace)
  /\ halfSaved' = (halfSaved \/ pc \in {"graph", "ids"})
  /\ Ends

(* Dropped without a flush; the log's buffer is written. *)
Close ==
  /\ pc = "ready" /\ crashes < MaxCrashes /\ crashes' = crashes + 1
  /\ spilled' = Synced
  /\ Ends
  /\ UNCHANGED <<active, interrupted, halfSaved>>

MutantOpen ==    \* no recovery
  /\ Go("closed", "load")
  /\ UNCHANGED <<files, wal, memory, next, recovery, copy, count, ghost>>

(* recover_compaction: with no vectors in place, the backup goes back. *)
Open ==
  /\ Go("closed", IF main.vectors = None THEN "restore" ELSE "load")
  /\ UNCHANGED <<files, wal, memory, next, recovery, copy, count, ghost>>

Restore ==
  /\ pc = "restore"
  /\ IF backup = Nothing
       THEN pc' = "load" /\ UNCHANGED <<main, backup>>
       ELSE UNCHANGED pc /\ backup' = Without(backup) /\ main' = With(main, backup)
  /\ UNCHANGED <<temp, wal, memory, next, recovery, copy, count, ghost>>

Loaded ==
  LET ids == IF main.ids = None THEN NoIds ELSE main.ids
  IN [graph |-> IF main.graph = None THEN 0 ELSE main.graph,
      map |-> ids.map, deleted |-> ids.deleted]

(* A file that was being saved cannot be read, and the open fails. *)
Load ==
  /\ pc = "load"
  /\ temp' = Nothing /\ backup' = Nothing
  /\ main' = [main EXCEPT !.vectors = IF @ = None THEN <<>> ELSE @]
  /\ IF Torn \in {main.graph, main.ids}
       THEN pc' = "closed" /\ UNCHANGED <<memory, lsn, at>>
       ELSE pc' = "replay" /\ memory' = Loaded /\ lsn' = LastLsn(active) /\ at' = checkpoint
  /\ UNCHANGED <<sealed, active, spilled, checkpoint, next, changed, copy, count, ghost>>

(* replay_wal, record after record: ids that are there already are not inserted
   again, ids that are gone are not deleted again. *)
Ahead == {r \in Records : r.lsn > at}

Replay(r) ==
  /\ pc = "replay"
  /\ \A q \in Ahead : r.lsn <= q.lsn
  /\ LET new  == {i \in r.insert : memory.map[i] = 0}
         with == Inserted(memory, new, Len(main.vectors))
         gone == {i \in r.delete : with.map[i] # 0}
     IN /\ main' = [main EXCEPT !.vectors = @ \o Rows(new, r.value)]
        /\ memory' = Deleted(with, gone)
        /\ changed' = (changed \/ new # {} \/ gone # {})
  /\ at' = r.lsn
  /\ UNCHANGED <<temp, backup, wal, pc, next, copy, count, ghost>>

(* What replay added is flushed. *)
EndReplay ==
  /\ pc = "replay" /\ Ahead = {}
  /\ pc' = (IF changed THEN "graph" ELSE "ready")
  /\ main' = [main EXCEPT !.graph = IF changed THEN Torn ELSE @]
  /\ latest' = [i \in Ids |-> Value(memory, i)]
  /\ at' = 0 /\ changed' = FALSE
  /\ UNCHANGED <<temp, backup, wal, memory, next, copy, count, since, raced, interrupted, halfSaved>>

Next ==
  \/ \E ids \in SUBSET Ids \ {{}} : Insert(ids)
  \/ \E i \in Ids : Delete(i)
  \/ Spill
  \/ \E after \in {"ready", "build"} : StartFlush(after)
  \/ SaveGraph \/ SaveIds \/ LogCheckpoint \/ MarkCheckpoint \/ Truncate
  \/ BuildNewFiles \/ StartCopy \/ EndCopy \/ Retire \/ Install \/ Reload
  \/ Crash \/ Close \/ Open \/ Restore \/ Load
  \/ \E r \in Ahead : Replay(r)
  \/ EndReplay

Spec == Init /\ [][Next]_vars

(* ---- Properties ---- *)

(* Once a flush has returned, its contents survive every kill but one inside a
   later save, which leaves a file that no open can read, and one inside the swap:
   otherwise the files can be read, and what an id has after recovery is what it
   had then or after a later write, wherever the log was cut and although it is
   replayed over files that may be newer. A write that raced a background
   compaction is excepted (flush, load, replay_wal, recover_compaction). *)
FlushedSurvives ==
  /\ (memory = None /\ ~halfSaved) => Torn \notin {main.graph, main.ids}
  /\ (pc = "ready" /\ ~interrupted /\ ~raced) => \A i \in Ids : Value(memory, i) \in since[i]

(* An open database answers with what was last written, across flushes and
   compactions, unless the write raced a background compaction. *)
ReadsSeeWrites ==
  (pc = "ready" /\ ~raced) => \A i \in Ids : Value(memory, i) = latest[i]

(* Whatever else was interrupted, an id leads to a vector of its own that the graph
   holds and that no search skips as deleted. *)
MappedIdsAreSearchable ==
  (pc = "ready" /\ ~interrupted) => \A i \in Ids : memory.map[i] # 0 =>
    /\ memory.map[i] \in 1..Len(main.vectors)
    /\ main.vectors[memory.map[i]][1] = i
    /\ memory.map[i] <= memory.graph
    /\ memory.map[i] \notin memory.deleted

(* crates/opencanon-vector/src/compaction.rs:98: "This operation is crash-safe. If
   interrupted: - Old data remains intact". *)
CompactionIsCrashSafe ==
  (pc = "ready" /\ ~raced) => \A i \in Ids : Value(memory, i) \in since[i]

(* crates/opencanon-vector/src/wal.rs:29: "On startup, the WAL is replayed from the
   last checkpoint LSN to recover any operations that were not persisted to the
   main data files". An open that is not killed comes to that replay. *)
StartupReplays == [][Load => pc' = "replay"]_vars

(* compaction.rs:321: "Writes are blocked during compaction". What was written is
   then still there when the compaction has ended. *)
WritesSurviveCompaction ==
  (pc = "ready" /\ ~interrupted) => \A i \in Ids : Value(memory, i) = latest[i]

=============================================================================
