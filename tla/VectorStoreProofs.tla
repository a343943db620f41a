------------------------- MODULE VectorStoreProofs -------------------------
(* Proofs about VectorStore, for any set of ids, sizes, writes and kills.

   None of the three invariants is inductive: each speaks of an open database at rest,
   and what it needs lies in the files and the log while a step is half done. IInv says
   what they hold then, in two parts.

   LogInv is about the log. Its records are numbered upwards (Ordered), and the counter
   and the checkpoint mark follow them wherever a kill may cut the log (Numbered,
   Marked); what a replay can apply beyond the checkpoint was written since the last
   flush (Recoverable), so a replay over files that are newer than the log does no harm.

   DataInv is about the files. Every file that a recovery may open is complete or known
   to be torn, fits its index, and holds what an id had at the last flush or later
   (Whole). It says so for the main directory while the database is open (OpenInv) or
   being saved (SaveInv), for the two directories together while a compaction swaps
   them (RetireInv, InstallInv, ReloadInv) and after a kill (RestInv); and it says what
   a compaction is about to install (CopyInv, LatestInv).

   That a file is torn only by a kill inside a save follows from IInv (ReadableInv). *)
EXTENDS VectorStore, FiniteSetTheorems, TLAPS

Fits(v, m) ==
  /\ \A i \in Ids : m.map[i] # 0 =>
       m.map[i] \in 1..Len(v) /\ v[m.map[i]][1] = i /\ m.map[i] \notin m.deleted
  /\ m.deleted \subseteq 1..Len(v)
Reaches(g, m) == \A i \in Ids : m.map[i] <= g

(* ---- Positions ---- *)

(* SetToSeq lists each member of a finite set once. *)
LEMMA ListedOnce ==
  ASSUME NEW S, IsFiniteSet(S)
  PROVE  /\ Cardinality(S) \in Nat
         /\ SetToSeq(S) \in [1..Cardinality(S) -> S]
         /\ \A x \in S : \E k \in 1..Cardinality(S) : SetToSeq(S)[k] = x
         /\ \A j, k \in 1..Cardinality(S) : SetToSeq(S)[j] = SetToSeq(S)[k] => j = k
<1> DEFINE n == Cardinality(S)
<1>1. n \in Nat /\ ExistsBijection(1..n, S)
  BY FS_CardinalityType
<1>2. PICK f \in Bijection(1..n, S) : TRUE
  BY <1>1 DEF ExistsBijection
<1>3. f \in [1..n -> S] /\ IsInjective(f)
  BY <1>2 DEF Bijection, Injection
<1>4. SetToSeq(S) \in [1..n -> S] /\ IsInjective(SetToSeq(S))
  BY <1>3 DEF SetToSeq
<1>5. IsFiniteSet(1..n) /\ Cardinality(1..n) = n
  BY <1>1, FS_Interval
<1>6. SetToSeq(S) \in Injection(1..n, S)
  BY <1>4 DEF Injection
<1>7. SetToSeq(S) \in Surjection(1..n, S)
  BY <1>5, <1>6, FS_Injection
<1>8. \A x \in S : \E k \in 1..n : SetToSeq(S)[k] = x
  BY <1>7 DEF Surjection
<1>9. \A j, k \in 1..n : SetToSeq(S)[j] = SetToSeq(S)[k] => j = k
  BY <1>4 DEF IsInjective
<1>10. QED
  BY <1>1, <1>4, <1>8, <1>9

(* What an insertion appends to the file, and where. *)
LEMMA RowsArePlaced ==
  ASSUME NEW ids \in SUBSET Ids, NEW value \in Nat, NEW taken \in Nat
  PROVE  /\ Cardinality(ids) \in Nat
         /\ Rows(ids, value) \in Seq(Vector) /\ Len(Rows(ids, value)) = Cardinality(ids)
         /\ \A i \in ids : /\ Placed(ids, taken)[i] \in (taken + 1)..(taken + Cardinality(ids))
                           /\ Rows(ids, value)[Placed(ids, taken)[i] - taken] = <<i, value>>
<1>0. IsFiniteSet(ids)
  BY Sizes, FS_Subset
<1> DEFINE n == Cardinality(ids)
           s == SetToSeq(ids)
<1>1. /\ n \in Nat /\ s \in [1..n -> ids]
      /\ \A x \in ids : \E k \in 1..n : s[k] = x
  BY <1>0, ListedOnce
<1> HIDE DEF n, s
<1>2. Rows(ids, value) = [k \in 1..n |-> <<s[k], value>>]
  BY DEF Rows, n, s
<1>3. \A k \in 1..n : <<s[k], value>> \in Vector
  BY <1>1 DEF Vector
<1>4. Rows(ids, value) \in Seq(Vector) /\ Len(Rows(ids, value)) = n
  BY <1>1, <1>2, <1>3
<1>5. ASSUME NEW i \in ids
      PROVE  /\ Placed(ids, taken)[i] \in (taken + 1)..(taken + n)
             /\ Rows(ids, value)[Placed(ids, taken)[i] - taken] = <<i, value>>
  <2> DEFINE k == CHOOSE k \in 1..n : s[k] = i
  <2>1. k \in 1..n /\ s[k] = i
    BY <1>1
  <2>2. Placed(ids, taken)[i] = taken + k
    BY DEF Placed, n, s
  <2> HIDE DEF k
  <2>3. QED
    BY <1>1, <1>2, <2>1, <2>2
<1>6. QED
  BY <1>1, <1>4, <1>5 DEF n

(* ---- What inserting and deleting do ---- *)

(* Appended vectors move no one. *)
LEMMA AppendKeeps ==
  ASSUME NEW v \in Seq(Vector), NEW w \in Seq(Vector), NEW m, m.map \in [Ids -> Nat], Fits(v, m)
  PROVE  /\ Fits(v \o w, m)
         /\ \A i \in Ids : Content(v \o w, m, i) = Content(v, m, i)
<1>1. /\ v \o w \in Seq(Vector) /\ Len(v \o w) = Len(v) + Len(w)
      /\ Len(v) \in Nat /\ Len(w) \in Nat
      /\ \A k \in 1..Len(v) : (v \o w)[k] = v[k]
  OBVIOUS
<1>2. DOMAIN v = 1..Len(v) /\ DOMAIN (v \o w) = 1..Len(v \o w)
  BY <1>1
<1> DEFINE x == v \o w
<1> HIDE DEF x
<1>3. QED
  BY <1>1, <1>2 DEF Fits, Content, x

LEMMA InsertedFits ==
  ASSUME NEW v \in Seq(Vector), NEW m \in Memory, Fits(v, m),
         NEW ids \in SUBSET Ids, \A i \in ids : m.map[i] = 0, NEW value \in Nat
  PROVE  LET w == v \o Rows(ids, value)
             n == Inserted(m, ids, Len(v))
         IN /\ w \in Seq(Vector) /\ n \in Memory
            /\ Fits(w, n)
            /\ Reaches(m.graph, m) => Reaches(n.graph, n)
            /\ \A i \in Ids : Content(w, n, i) = IF i \in ids THEN value ELSE Content(v, m, i)
            /\ \A i \in Ids : (n.map[i] # 0) = (i \in ids \/ m.map[i] # 0)
<1> DEFINE rows == Rows(ids, value)
           w == v \o rows
           n == Inserted(m, ids, Len(v))
           c == Cardinality(ids)
           p == Placed(ids, Len(v))
<1>1. Len(v) \in Nat
  OBVIOUS
<1>2. /\ c \in Nat /\ rows \in Seq(Vector) /\ Len(rows) = c
      /\ \A i \in ids : p[i] \in (Len(v) + 1)..(Len(v) + c) /\ rows[p[i] - Len(v)] = <<i, value>>
  BY <1>1, RowsArePlaced
<1>3. /\ n.map = [i \in Ids |-> IF i \in ids THEN p[i] ELSE m.map[i]]
      /\ n.graph = IF ids = {} THEN m.graph ELSE Len(v) + c
      /\ n.deleted = m.deleted
      /\ n = [graph |-> n.graph, map |-> n.map, deleted |-> n.deleted]
  BY DEF Inserted, Memory
<1> HIDE DEF n, p, c, rows
<1>4. /\ w \in Seq(Vector) /\ Len(w) = Len(v) + c
      /\ DOMAIN w = 1..(Len(v) + c) /\ DOMAIN v = 1..Len(v)
      /\ \A k \in 1..Len(v) : w[k] = v[k]
      /\ \A k \in (Len(v) + 1)..(Len(v) + c) : w[k] = rows[k - Len(v)]
  BY <1>1, <1>2
<1> HIDE DEF w
<1>5. n \in Memory
  BY <1>1, <1>2, <1>3 DEF Memory
<1>6. ASSUME NEW i \in ids
      PROVE  /\ w[p[i]] = <<i, value>> /\ p[i] \in 1..Len(w)
             /\ p[i] # 0 /\ p[i] > Len(v) /\ p[i] <= Len(v) + c
  <2>1. p[i] \in (Len(v) + 1)..(Len(v) + c) /\ rows[p[i] - Len(v)] = <<i, value>>
    BY <1>2
  <2>2. w[p[i]] = rows[p[i] - Len(v)]
    BY <1>4, <2>1
  <2>3. QED
    BY <1>1, <1>2, <1>4, <2>1, <2>2
<1>7. m.deleted \subseteq 1..Len(v) /\ m.map \in [Ids -> Nat]
  BY DEF Fits, Memory
<1>8. Fits(w, n)
  <2>1. n.deleted \subseteq 1..Len(w)
    BY <1>1, <1>2, <1>3, <1>4, <1>7
  <2>2. ASSUME NEW i \in Ids, n.map[i] # 0
        PROVE  n.map[i] \in 1..Len(w) /\ w[n.map[i]][1] = i /\ n.map[i] \notin n.deleted
    <3>1. CASE i \in ids
      BY <1>1, <1>3, <1>6, <1>7, <3>1
    <3>2. CASE i \notin ids
      <4>1. n.map[i] = m.map[i]
        BY <1>3, <3>2
      <4>2. m.map[i] \in 1..Len(v) /\ v[m.map[i]][1] = i /\ m.map[i] \notin m.deleted
        BY <2>2, <4>1 DEF Fits
      <4>3. QED
        BY <1>1, <1>2, <1>3, <1>4, <4>1, <4>2
    <3>3. QED
      BY <3>1, <3>2
  <2>3. QED
    BY <2>1, <2>2 DEF Fits
<1>9. ASSUME Reaches(m.graph, m)
      PROVE  Reaches(n.graph, n)
  <2> SUFFICES ASSUME NEW i \in Ids
               PROVE  n.map[i] <= n.graph
    BY DEF Reaches
  <2>1. CASE i \in ids
    BY <1>3, <1>6, <2>1
  <2>2. CASE i \notin ids
    <3>1. n.map[i] = m.map[i] /\ m.map[i] \in Nat /\ m.map[i] <= m.graph
      BY <1>3, <1>7, <1>9, <2>2 DEF Reaches
    <3>2. m.map[i] <= Len(v)
      BY <1>1, <3>1 DEF Fits
    <3>3. QED
      BY <1>1, <1>2, <1>3, <3>1, <3>2
  <2>3. QED
    BY <2>1, <2>2
<1>10. ASSUME NEW i \in Ids
       PROVE  Content(w, n, i) = IF i \in ids THEN value ELSE Content(v, m, i)
  <2>1. CASE i \in ids
    BY <1>3, <1>4, <1>6, <2>1 DEF Content
  <2>2. CASE i \notin ids
    <3>1. n.map[i] = m.map[i]
      BY <1>3, <2>2
    <3>2. m.map[i] = 0 \/ m.map[i] \in 1..Len(v)
      BY DEF Fits
    <3>3. QED
      BY <1>1, <1>2, <1>4, <2>2, <3>1, <3>2 DEF Content
  <2>3. QED
    BY <2>1, <2>2
<1>11. \A i \in Ids : (n.map[i] # 0) = (i \in ids \/ m.map[i] # 0)
  BY <1>3, <1>6
<1>12. QED
  BY <1>4, <1>5, <1>8, <1>9, <1>10, <1>11 DEF w, n, rows

LEMMA DeletedFits ==
  ASSUME NEW v \in Seq(Vector), NEW m \in Memory, Fits(v, m),
         NEW ids \in SUBSET Ids, \A i \in ids : m.map[i] # 0
  PROVE  LET n == Deleted(m, ids)
         IN /\ n \in Memory /\ Fits(v, n) /\ n.graph = m.graph
            /\ Reaches(m.graph, m) => Reaches(n.graph, n)
            /\ \A i \in Ids : Content(v, n, i) = IF i \in ids THEN 0 ELSE Content(v, m, i)
<1> DEFINE n == Deleted(m, ids)
<1>1. /\ n.map = [i \in Ids |-> IF i \in ids THEN 0 ELSE m.map[i]]
      /\ n.graph = m.graph
      /\ n.deleted = m.deleted \cup {m.map[i] : i \in ids}
      /\ n = [graph |-> n.graph, map |-> n.map, deleted |-> n.deleted]
  BY DEF Deleted, Memory
<1> HIDE DEF n
<1>2. /\ m.map \in [Ids -> Nat] /\ m.graph \in Nat /\ m.deleted \subseteq 1..Len(v)
      /\ \A i \in Ids : m.map[i] # 0 => m.map[i] \in 1..Len(v) /\ v[m.map[i]][1] = i
                                        /\ m.map[i] \notin m.deleted
      /\ Len(v) \in Nat /\ DOMAIN v = 1..Len(v)
  BY DEF Fits, Memory
<1>3. n.deleted \subseteq 1..Len(v)
  BY <1>1, <1>2
<1>4. n \in Memory
  <2>1. n.map \in [Ids -> Nat]
    BY <1>1, <1>2
  <2>2. n.deleted \in SUBSET Nat
    BY <1>2, <1>3
  <2>3. QED
    BY <1>1, <1>2, <2>1, <2>2 DEF Memory
<1>5. Fits(v, n)
  <2> SUFFICES ASSUME NEW i \in Ids, n.map[i] # 0
               PROVE  n.map[i] \in 1..Len(v) /\ v[n.map[i]][1] = i /\ n.map[i] \notin n.deleted
    BY <1>3 DEF Fits
  <2>1. i \notin ids /\ n.map[i] = m.map[i]
    BY <1>1
  <2>2. \A j \in ids : m.map[j] # m.map[i]
    BY <1>2, <2>1
  <2>3. QED
    BY <1>1, <1>2, <2>1, <2>2
<1>6. ASSUME Reaches(m.graph, m)
      PROVE  Reaches(n.graph, n)
  BY <1>1, <1>2, <1>6 DEF Reaches
<1>7. \A i \in Ids : Content(v, n, i) = IF i \in ids THEN 0 ELSE Content(v, m, i)
  BY <1>1, <1>2 DEF Content
<1>8. QED
  BY <1>1, <1>4, <1>5, <1>6, <1>7 DEF n

(* ---- What a compaction writes ---- *)

Copy(d) ==
  /\ d \in Files /\ d.vectors # None /\ d.graph \in Nat /\ d.ids \in Index
  /\ Fits(d.vectors, d.ids) /\ Reaches(d.graph, d.ids)

(* The ids that are numbered afresh are numbered 1, 2, ... without a gap. *)
LEMMA RanksNumber ==
  ASSUME NEW live \in SUBSET Ids, memory \in Memory,
         \A i, j \in live : memory.map[i] = memory.map[j] => i = j
  PROVE  /\ Cardinality(live) \in Nat
         /\ \A i \in live : Rank(live, i) \in 1..Cardinality(live)
         /\ \A i, j \in live : Rank(live, i) = Rank(live, j) => i = j
         /\ \A k \in 1..Cardinality(live) : \E i \in live : Rank(live, i) = k
<1> DEFINE n == Cardinality(live)
           upTo(i) == {j \in live : memory.map[j] <= memory.map[i]}
           f == [i \in live |-> Rank(live, i)]
<1>1. memory.map \in [Ids -> Nat]
  BY DEF Memory
<1>2. IsFiniteSet(live) /\ n \in Nat
  BY Sizes, FS_Subset, FS_CardinalityType
<1>3. ASSUME NEW i \in live
      PROVE  IsFiniteSet(upTo(i)) /\ Rank(live, i) = Cardinality(upTo(i)) /\ Rank(live, i) \in 1..n
  <2>1. upTo(i) \in SUBSET live /\ i \in upTo(i)
    BY <1>1
  <2>2. IsFiniteSet(upTo(i)) /\ Cardinality(upTo(i)) <= n
    BY <1>2, <2>1, FS_Subset
  <2>3. Cardinality(upTo(i)) \in Nat /\ Cardinality(upTo(i)) # 0
    BY <2>1, <2>2, FS_CardinalityType, FS_EmptySet
  <2>4. Rank(live, i) = Cardinality(upTo(i))
    BY DEF Rank
  <2> HIDE DEF upTo, n
  <2>5. QED
    BY <1>2, <2>2, <2>3, <2>4
<1>4. ASSUME NEW i \in live, NEW j \in live, Rank(live, i) = Rank(live, j)
      PROVE  memory.map[i] <= memory.map[j]
  <2> SUFFICES ASSUME memory.map[j] < memory.map[i]
               PROVE  FALSE
    BY <1>1
  <2>1. upTo(j) \in SUBSET upTo(i) /\ i \in upTo(i) /\ i \notin upTo(j)
    BY <1>1
  <2>2. Cardinality(upTo(i)) = Cardinality(upTo(j)) /\ IsFiniteSet(upTo(i))
    BY <1>3, <1>4
  <2> HIDE DEF upTo
  <2>3. upTo(i) = upTo(j)
    BY <2>1, <2>2, FS_Subset
  <2>4. QED
    BY <2>1, <2>3
<1>5. ASSUME NEW i \in live, NEW j \in live, Rank(live, i) = Rank(live, j)
      PROVE  i = j
  <2>1. memory.map[i] <= memory.map[j] /\ memory.map[j] <= memory.map[i]
    BY <1>4, <1>5
  <2>2. memory.map[i] \in Nat /\ memory.map[j] \in Nat
    BY <1>1
  <2>3. memory.map[i] = memory.map[j]
    BY <2>1, <2>2
  <2>4. QED
    BY <2>3
<1>6. IsFiniteSet(1..n) /\ Cardinality(1..n) = n
  BY <1>2, FS_Interval
<1>7. f \in Injection(live, 1..n)
  BY <1>3, <1>5 DEF Injection, IsInjective
<1>8. f \in Surjection(live, 1..n)
  BY <1>6, <1>7, FS_Injection
<1>9. \A k \in 1..n : \E i \in live : Rank(live, i) = k
  BY <1>8 DEF Surjection
<1>10. QED
  BY <1>2, <1>3, <1>5, <1>9

(* A compaction copies every id that is there, with what it holds. *)
LEMMA CompactedIsCopy ==
  ASSUME main \in Files, main.vectors # None, memory \in Memory, Fits(main.vectors, memory)
  PROVE  /\ Copy(Compacted)
         /\ \A i \in Ids : Content(Compacted.vectors, Compacted.ids, i) = Value(memory, i)
<1> DEFINE live == {i \in Ids : memory.map[i] # 0}
           n == Cardinality(live)
           at0(k) == CHOOSE i \in live : Rank(live, i) = k
           v == main.vectors
           d == Compacted
<1>1. v \in Seq(Vector) /\ Len(v) \in Nat /\ DOMAIN v = 1..Len(v)
  BY DEF Files
<1>2. memory.map \in [Ids -> Nat]
  BY DEF Memory
<1>3. \A i \in live : memory.map[i] \in 1..Len(v) /\ v[memory.map[i]][1] = i
  BY DEF Fits
<1>4. \A i, j \in live : memory.map[i] = memory.map[j] => i = j
  BY <1>3
<1>5. /\ n \in Nat
      /\ \A i \in live : Rank(live, i) \in 1..n
      /\ \A i, j \in live : Rank(live, i) = Rank(live, j) => i = j
      /\ \A k \in 1..n : \E i \in live : Rank(live, i) = k
  BY <1>4, RanksNumber
<1>6. /\ d.vectors = [k \in 1..n |-> v[memory.map[at0(k)]]]
      /\ d.graph = n
      /\ d.ids = [map |-> [i \in Ids |-> IF i \in live THEN Rank(live, i) ELSE 0], deleted |-> {}]
      /\ d = [vectors |-> d.vectors, graph |-> d.graph, ids |-> d.ids]
  BY DEF Compacted, Renumbered
<1>7. \A k \in 1..n : at0(k) \in live /\ Rank(live, at0(k)) = k
  BY <1>5
<1>8. \A i \in live : at0(Rank(live, i)) = i
  BY <1>5, <1>7
<1>0. live \in SUBSET Ids /\ \A i \in Ids : i \notin live => memory.map[i] = 0
  OBVIOUS
<1> HIDE DEF at0, d, n, v, live
<1>9. d.vectors \in Seq(Vector) /\ Len(d.vectors) = n /\ DOMAIN d.vectors = 1..n
  <2>1. \A k \in 1..n : memory.map[at0(k)] \in 1..Len(v)
    BY <1>3, <1>7
  <2>2. \A k \in 1..Len(v) : v[k] \in Vector
    BY <1>1
  <2>3. \A k \in 1..n : v[memory.map[at0(k)]] \in Vector
    BY <2>1, <2>2
  <2>4. QED
    BY <1>5, <1>6, <2>3
<1>10. ASSUME NEW i \in live
       PROVE  /\ d.ids.map[i] = Rank(live, i) /\ Rank(live, i) \in 1..n
              /\ d.vectors[Rank(live, i)] = v[memory.map[i]]
  <2>1. d.ids.map[i] = Rank(live, i) /\ Rank(live, i) \in 1..n
    BY <1>0, <1>5, <1>6
  <2>2. d.vectors[Rank(live, i)] = v[memory.map[at0(Rank(live, i))]]
    BY <1>6, <2>1
  <2>3. QED
    BY <1>8, <2>1, <2>2
<1>11. \A i \in Ids : i \notin live => d.ids.map[i] = 0 /\ memory.map[i] = 0
  BY <1>0, <1>6
<1>12. d.ids \in Index /\ d.ids.deleted = {}
  BY <1>5, <1>6, <1>10 DEF Index
<1>13. d \in Files /\ d.vectors # None
  <2>1. d.graph \in Nat
    BY <1>5, <1>6
  <2>2. QED
    BY <1>6, <1>9, <1>12, <2>1, Marks DEF Files
<1>14. Fits(d.vectors, d.ids)
  <2>1. \A i \in Ids : d.ids.map[i] # 0 => i \in live
    BY <1>11
  <2>2. QED
    BY <1>3, <1>9, <1>10, <1>12, <2>1 DEF Fits
<1>15. Reaches(d.graph, d.ids)
  BY <1>5, <1>6, <1>10, <1>11 DEF Reaches
<1>16. ASSUME NEW i \in Ids
       PROVE  Content(d.vectors, d.ids, i) = Value(memory, i)
  <2>1. CASE i \in live
    BY <1>1, <1>3, <1>9, <1>10, <2>1 DEF Content, Value, v
  <2>2. CASE i \notin live
    BY <1>1, <1>9, <1>11, <2>2 DEF Content, Value, v
  <2>3. QED
    BY <2>1, <2>2
<1>17. QED
  BY <1>5, <1>6, <1>12, <1>13, <1>14, <1>15, <1>16 DEF Copy, d

(* ---- Renames between two directories ---- *)

(* The files of both, where those of the second replace the first's. *)
Merged(to, from) ==
  [vectors |-> IF from.vectors # None THEN from.vectors ELSE to.vectors,
   graph   |-> IF from.graph # None THEN from.graph ELSE to.graph,
   ids     |-> IF from.ids # None THEN from.ids ELSE to.ids]
Apart(d, e) ==
  /\ d.vectors = None \/ e.vectors = None
  /\ d.graph = None \/ e.graph = None
  /\ d.ids = None \/ e.ids = None

(* One rename takes the first file that is there. *)
LEMMA OneRename ==
  ASSUME NEW to \in Files, NEW from \in Files
  PROVE  /\ Without(from) \in Files /\ With(to, from) \in Files
         /\ from.vectors # None =>
              /\ Without(from) = [vectors |-> None, graph |-> from.graph, ids |-> from.ids]
              /\ With(to, from) = [vectors |-> from.vectors, graph |-> to.graph, ids |-> to.ids]
         /\ from.vectors = None /\ from.graph # None =>
              /\ Without(from) = [vectors |-> None, graph |-> None, ids |-> from.ids]
              /\ With(to, from) = [vectors |-> to.vectors, graph |-> from.graph, ids |-> to.ids]
         /\ from.vectors = None /\ from.graph = None =>
              /\ Without(from) = Nothing
              /\ With(to, from) = [vectors |-> to.vectors, graph |-> to.graph, ids |-> from.ids]
<1>1. CASE from.vectors # None
  BY <1>1 DEF Without, With, Files
<1>2. CASE from.vectors = None /\ from.graph # None
  BY <1>2 DEF Without, With, Files
<1>3. CASE from.vectors = None /\ from.graph = None
  BY <1>3 DEF Without, With, Files, Nothing
<1>4. QED
  BY <1>1, <1>2, <1>3

(* Between directories that share no file, a rename changes neither what both have
   together nor that. *)
LEMMA RenameKeeps ==
  ASSUME NEW to \in Files, NEW from \in Files, from # Nothing, Apart(to, from)
  PROVE  /\ Merged(With(to, from), Without(from)) = Merged(to, from)
         /\ Merged(Without(from), With(to, from)) = Merged(from, to)
         /\ Apart(With(to, from), Without(from))
         /\ Apart(Without(from), With(to, from))
<1> DEFINE t == With(to, from)
           f == Without(from)
<1>1. CASE from.vectors # None
  <2>1. /\ f = [vectors |-> None, graph |-> from.graph, ids |-> from.ids]
        /\ t = [vectors |-> from.vectors, graph |-> to.graph, ids |-> to.ids]
    BY <1>1, OneRename
  <2> HIDE DEF t, f
  <2>2. to.vectors = None
    BY <1>1 DEF Apart
  <2>3. Merged(t, f) = Merged(to, from) /\ Merged(f, t) = Merged(from, to)
    BY <1>1, <2>1, <2>2 DEF Merged
  <2>4. QED
    BY <2>1, <2>3 DEF Apart, t, f
<1>2. CASE from.vectors = None /\ from.graph # None
  <2>1. /\ f = [vectors |-> None, graph |-> None, ids |-> from.ids]
        /\ t = [vectors |-> to.vectors, graph |-> from.graph, ids |-> to.ids]
    BY <1>2, OneRename
  <2> HIDE DEF t, f
  <2>2. to.graph = None
    BY <1>2 DEF Apart
  <2>3. Merged(t, f) = Merged(to, from) /\ Merged(f, t) = Merged(from, to)
    BY <1>2, <2>1, <2>2 DEF Merged
  <2>4. QED
    BY <2>1, <2>3 DEF Apart, t, f
<1>3. CASE from.vectors = None /\ from.graph = None
  <2>1. /\ f = [vectors |-> None, graph |-> None, ids |-> None]
        /\ t = [vectors |-> to.vectors, graph |-> to.graph, ids |-> from.ids]
    BY <1>3, OneRename DEF Nothing
  <2> HIDE DEF t, f
  <2>2. from.ids # None /\ to.ids = None
    BY <1>3 DEF Apart, Files, Nothing
  <2>3. Merged(t, f) = Merged(to, from) /\ Merged(f, t) = Merged(from, to)
    BY <1>3, <2>1, <2>2 DEF Merged
  <2>4. QED
    BY <2>1, <2>3 DEF Apart, t, f
<1>4. QED
  BY <1>1, <1>2, <1>3

LEMMA MergedType ==
  ASSUME NEW to \in Files, NEW from \in Files
  PROVE  /\ Merged(to, from) \in Files
         /\ Merged(to, Nothing) = to
         /\ Apart(to, Nothing) /\ Apart(Nothing, to)
         /\ Apart(to, from) => Merged(to, from) = Merged(from, to)
BY DEF Merged, Apart, Files, Nothing

(* ---- The invariant ---- *)

Serving  == {"ready", "graph", "ids", "log", "mark", "truncate", "build"}
Swapping == {"retire", "install", "reload"}
Up == pc \notin {"closed", "restore", "load"}

(* Records are numbered upwards, from one segment to the next. *)
Ordered ==
  /\ \A k \in 1..Len(active.records) : active.start <= active.records[k].lsn
  /\ \A j, k \in 1..Len(active.records) :
       j < k => active.records[j].lsn < active.records[k].lsn
  /\ \A s \in sealed : \A k \in 1..Len(s.records) : s.records[k].lsn < active.start

(* The counter follows the last record, and no end of the process takes it back to
   before the checkpoint.                                                       *)
Numbered ==
  /\ Up => lsn = LastLsn(active)
  /\ ~Up \/ pc = "mark" => spilled = Len(active.records)
  /\ checkpoint <= LastLsn(Surviving)
  /\ pc = "replay" => checkpoint <= at

Empty(r) == r.insert = {} /\ r.delete = {}
Marked ==
  /\ pc = "mark" => lsn > 0 /\ \A r \in Records : r.lsn = lsn => Empty(r)
  /\ pc = "truncate" => \A r \in Records : r.lsn > checkpoint => Empty(r)

(* What replay can apply was there since the last flush. *)
Recoverable ==
  \A r \in Records : r.lsn > checkpoint =>
    /\ \A i \in r.insert : r.value \in since[i]
    /\ \A i \in r.delete : 0 \in since[i]

LogInv == Ordered /\ Numbered /\ Marked /\ Recoverable

(* ---- The log ---- *)

AllIn(S, a) == UNION {Range(s.records) : s \in S \cup {a}}

LEMMA RecordsOf ==
  ASSUME NEW S \in SUBSET Segment, NEW a \in Segment
  PROVE  \A r : r \in AllIn(S, a) <=>
                \/ \E k \in 1..Len(a.records) : r = a.records[k]
                \/ \E s \in S : \E k \in 1..Len(s.records) : r = s.records[k]
<1>1. \A s \in S \cup {a} : s.records \in Seq(Record) /\ DOMAIN s.records = 1..Len(s.records)
  BY DEF Segment
<1>2. \A r : r \in AllIn(S, a) <=> \E s \in S \cup {a} : r \in Range(s.records)
  BY DEF AllIn
<1>3. \A r : r \in AllIn(S, a) <=>
                \E s \in S \cup {a} : \E k \in 1..Len(s.records) : r = s.records[k]
  BY <1>1, <1>2 DEF Range
<1>4. QED
  BY <1>3

LEMMA RecordsAreIn ==
  /\ Records = AllIn(sealed, active)
  /\ Records' = AllIn(sealed', active')
BY DEF Records, AllIn

LEMMA RecordsType ==
  ASSUME sealed \subseteq Segment, active \in Segment
  PROVE  /\ \A r \in Records : r \in Record /\ r.lsn \in Nat
         /\ \A k \in 1..Len(active.records) : active.records[k] \in Record
                                            /\ active.records[k].lsn \in Nat
         /\ \A r : r \in Records <=>
              \/ \E k \in 1..Len(active.records) : r = active.records[k]
              \/ \E s \in sealed : \E k \in 1..Len(s.records) : r = s.records[k]
<1>1. \A s \in sealed \cup {active} : s.records \in Seq(Record)
  BY DEF Segment
<1>2. \A r : r \in Records <=>
         \/ \E k \in 1..Len(active.records) : r = active.records[k]
         \/ \E s \in sealed : \E k \in 1..Len(s.records) : r = s.records[k]
  <2>1. sealed \in SUBSET Segment
    OBVIOUS
  <2>2. \A r : r \in AllIn(sealed, active) <=>
           \/ \E k \in 1..Len(active.records) : r = active.records[k]
           \/ \E s \in sealed : \E k \in 1..Len(s.records) : r = s.records[k]
    BY <2>1, RecordsOf
  <2>3. QED
    BY <2>2, RecordsAreIn
<1>3. \A s \in sealed \cup {active} : \A k \in 1..Len(s.records) : s.records[k] \in Record
  BY <1>1
<1>4. \A r \in Record : r.lsn \in Nat
  BY DEF Record
<1>5. QED
  BY <1>2, <1>3, <1>4

LEMMA NextRecords ==
  ASSUME sealed' \subseteq Segment, active' \in Segment
  PROVE  \A r : r \in Records' <=>
            \/ \E k \in 1..Len(active'.records) : r = active'.records[k]
            \/ \E s \in sealed' : \E k \in 1..Len(s.records) : r = s.records[k]
<1>1. sealed' \in SUBSET Segment
  OBVIOUS
<1>2. \A r : r \in AllIn(sealed', active') <=>
         \/ \E k \in 1..Len(active'.records) : r = active'.records[k]
         \/ \E s \in sealed' : \E k \in 1..Len(s.records) : r = s.records[k]
  BY <1>1, RecordsOf
<1>3. QED
  BY <1>2, RecordsAreIn

(* A segment that is cut ends with the last record left, or where it begins. *)
Cut(a, n) == [start |-> a.start, records |-> SubSeq(a.records, 1, n)]

LEMMA LastOfCut ==
  ASSUME NEW a \in Segment, NEW n \in 0..Len(a.records)
  PROVE  /\ Cut(a, n) \in Segment /\ Cut(a, n).start = a.start
         /\ Len(Cut(a, n).records) = n
         /\ \A k \in 1..n : Cut(a, n).records[k] = a.records[k]
         /\ LastLsn(Cut(a, n)) = IF n = 0 THEN a.start ELSE a.records[n].lsn
         /\ LastLsn(Cut(a, n)) \in Nat
<1>1. a.records \in Seq(Record) /\ Len(a.records) \in Nat /\ a.start \in Nat
  BY DEF Segment
<1> DEFINE p == SubSeq(a.records, 1, n)
<1>2. p \in Seq(Record) /\ Len(p) = n /\ \A k \in 1..n : p[k] = a.records[k]
  BY <1>1
<1>3. Cut(a, n) = [start |-> a.start, records |-> p]
  BY DEF Cut
<1> HIDE DEF p
<1>4. Cut(a, n).records = p /\ Cut(a, n).start = a.start /\ Cut(a, n) \in Segment
  BY <1>1, <1>2, <1>3 DEF Segment
<1>5. p = <<>> <=> n = 0
  BY <1>2
<1>6. LastLsn(Cut(a, n)) = IF n = 0 THEN a.start ELSE a.records[n].lsn
  BY <1>2, <1>4, <1>5 DEF LastLsn
<1>7. n # 0 => a.records[n] \in Record
  BY <1>1
<1>8. LastLsn(Cut(a, n)) \in Nat
  BY <1>1, <1>6, <1>7 DEF Record
<1>9. QED
  BY <1>2, <1>4, <1>6, <1>8

LEMMA LastOfSegment ==
  ASSUME NEW a \in Segment
  PROVE  /\ LastLsn(a) = IF Len(a.records) = 0 THEN a.start ELSE a.records[Len(a.records)].lsn
         /\ LastLsn(a) \in Nat
<1>1. a.records \in Seq(Record) /\ Len(a.records) \in Nat /\ a.start \in Nat
  BY DEF Segment
<1>2. a.records = <<>> <=> Len(a.records) = 0
  BY <1>1
<1>3. Len(a.records) # 0 => a.records[Len(a.records)] \in Record
  BY <1>1
<1>4. QED
  BY <1>1, <1>2, <1>3 DEF LastLsn, Record

LEMMA SurvivingIsCut == Surviving = Cut(active, spilled) /\ Surviving' = Cut(active', spilled')
BY DEF Surviving, Cut

(* No record has a larger number than the last. *)
LEMMA NoneIsLater ==
  ASSUME sealed \subseteq Segment, active \in Segment, spilled \in 0..Len(active.records), Ordered
  PROVE  /\ \A r \in Records : r.lsn <= LastLsn(active)
         /\ active.start <= LastLsn(active)
         /\ LastLsn(Surviving) <= LastLsn(active)
<1>1. /\ Len(active.records) \in Nat /\ active.start \in Nat
      /\ \A k \in 1..Len(active.records) : active.records[k].lsn \in Nat
  BY RecordsType DEF Segment
<1>2. \A k \in 1..Len(active.records) :
        active.records[k].lsn <= LastLsn(active) /\ active.start <= LastLsn(active)
  <2> DEFINE n == Len(active.records)
  <2> SUFFICES ASSUME NEW k \in 1..n
               PROVE  active.records[k].lsn <= LastLsn(active) /\ active.start <= LastLsn(active)
    OBVIOUS
  <2>1. n \in 1..n /\ LastLsn(active) = active.records[n].lsn
    BY <1>1, LastOfSegment
  <2>2. /\ k < n => active.records[k].lsn < active.records[n].lsn
        /\ active.start <= active.records[n].lsn
    BY <2>1 DEF Ordered
  <2>3. active.records[k].lsn \in Nat /\ active.records[n].lsn \in Nat
    BY <1>1, <2>1
  <2>4. k = n \/ k < n
    BY <1>1
  <2> HIDE DEF n
  <2>5. QED
    BY <2>1, <2>2, <2>3, <2>4
<1>3. active.start <= LastLsn(active)
  BY <1>1, <1>2, LastOfSegment
<1>4. ASSUME NEW r \in Records
      PROVE  r.lsn <= LastLsn(active)
  <2>1. CASE \E k \in 1..Len(active.records) : r = active.records[k]
    BY <1>2, <2>1
  <2>2. CASE \E s \in sealed : \E k \in 1..Len(s.records) : r = s.records[k]
    <3>1. r.lsn < active.start /\ r.lsn \in Nat
      BY <2>2, RecordsType DEF Ordered, Record
    <3>2. QED
      BY <1>1, <1>3, <3>1, LastOfSegment
  <2>3. QED
    BY <2>1, <2>2, RecordsType
<1>5. LastLsn(Surviving) <= LastLsn(active)
  BY <1>1, <1>2, <1>3, LastOfCut, SurvivingIsCut
<1>6. QED
  BY <1>3, <1>4, <1>5

NumberedRecord(insert, delete, value) ==
  [lsn |-> lsn + 1, insert |-> insert, delete |-> delete, value |-> value]

(* What appending a record does. *)
LEMMA LoggedKeeps ==
  ASSUME sealed \subseteq Segment, active \in Segment, spilled \in 0..Len(active.records),
         Ordered, lsn \in Nat, lsn = LastLsn(active),
         NEW insert \in SUBSET Ids, NEW delete \in SUBSET Ids, NEW value \in Nat,
         Logged(insert, delete, value)
  PROVE  /\ sealed' \subseteq Segment /\ active' \in Segment /\ lsn' = lsn + 1
         /\ Ordered'
         /\ LastLsn(active') = lsn' /\ Len(active'.records) \in Nat \ {0}
         /\ \A r \in Records' : r = NumberedRecord(insert, delete, value) \/ r \in Records
         /\ Synced < SegmentSize =>
              /\ active'.start = active.start
              /\ Len(active'.records) = Len(active.records) + 1
              /\ \A k \in 1..Len(active.records) : active'.records[k] = active.records[k]
         /\ ~(Synced < SegmentSize) => active'.start = lsn + 1
<1> DEFINE record == [lsn |-> lsn + 1, insert |-> insert, delete |-> delete, value |-> value]
           n == Len(active.records)
<1>1. record \in Record /\ record.lsn = lsn + 1
  BY DEF Record
<1>2. /\ active.records \in Seq(Record) /\ n \in Nat /\ active.start \in Nat
      /\ active = [start |-> active.start, records |-> active.records]
      /\ \A k \in 1..n : active.records[k].lsn \in Nat
  BY RecordsType DEF Segment
<1>3. /\ \A r \in Records : r.lsn <= lsn
      /\ active.start <= lsn
  BY NoneIsLater
<1>4. \A k \in 1..n : active.records[k].lsn <= lsn
  BY <1>3, RecordsType
<1>5. CASE Synced < SegmentSize
  <2> DEFINE q == Append(active.records, record)
  <2>1. /\ q \in Seq(Record) /\ Len(q) = n + 1 /\ q[n + 1] = record
        /\ \A k \in 1..n : q[k] = active.records[k]
    BY <1>1, <1>2
  <2>2. /\ active' = [start |-> active.start, records |-> q] /\ sealed' = sealed /\ lsn' = lsn + 1
    BY <1>2, <1>5 DEF Logged
  <2> HIDE DEF record, NumberedRecord, q, n
  <2>3. active' \in Segment /\ active'.records = q /\ active'.start = active.start
    BY <1>2, <2>1, <2>2 DEF Segment
  <2>4. LastLsn(active') = lsn' /\ Len(active'.records) \in Nat \ {0}
    BY <1>1, <1>2, <2>1, <2>2, <2>3 DEF LastLsn
  <2>5. Ordered'
    <3>1. \A k \in 1..(n + 1) : active.start <= q[k].lsn
      BY <1>1, <1>2, <1>3, <2>1 DEF Ordered, n
    <3>2. \A j, k \in 1..(n + 1) : j < k => q[j].lsn < q[k].lsn
      <4> SUFFICES ASSUME NEW j \in 1..(n + 1), NEW k \in 1..(n + 1), j < k
                   PROVE  q[j].lsn < q[k].lsn
        OBVIOUS
      <4>1. CASE k = n + 1
        <5>1. q[k].lsn = lsn + 1
          BY <1>1, <2>1, <4>1
        <5>2. j \in 1..n /\ q[j].lsn = active.records[j].lsn
          BY <1>2, <2>1, <4>1
        <5>3. q[j].lsn <= lsn /\ q[j].lsn \in Nat
          BY <1>2, <1>4, <5>2
        <5>4. QED
          BY <5>1, <5>3
      <4>2. CASE k # n + 1
        BY <1>2, <2>1, <4>2 DEF Ordered, n
      <4>3. QED
        BY <4>1, <4>2
    <3>3. QED
      BY <2>1, <2>2, <2>3, <3>1, <3>2 DEF Ordered
  <2>6. \A r \in Records' : r = record \/ r \in Records
    <3> SUFFICES ASSUME NEW r \in Records'
                 PROVE  r = record \/ r \in Records
      OBVIOUS
    <3>1. \/ \E k \in 1..(n + 1) : r = q[k]
          \/ \E s \in sealed : \E k \in 1..Len(s.records) : r = s.records[k]
      <4>1. sealed' \subseteq Segment /\ active' \in Segment
        BY <2>2, <2>3
      <4>2. \A x : x \in Records' <=>
              \/ \E k \in 1..Len(active'.records) : x = active'.records[k]
              \/ \E s \in sealed' : \E k \in 1..Len(s.records) : x = s.records[k]
        BY <4>1, NextRecords
      <4>3. QED
        BY <2>1, <2>2, <2>3, <4>2
    <3>2. \A k \in 1..n : q[k] \in Records
      BY <2>1, RecordsType DEF n
    <3>3. \A k \in 1..(n + 1) : q[k] = record \/ q[k] \in Records
      BY <1>2, <2>1, <3>2
    <3>4. QED
      BY <3>1, <3>3, RecordsType
  <2>7. QED
    BY <1>5, <2>1, <2>2, <2>3, <2>4, <2>5, <2>6 DEF n, record, NumberedRecord
<1>6. CASE ~(Synced < SegmentSize)
  <2>1. /\ active' = [start |-> lsn + 1, records |-> <<record>>]
        /\ sealed' = sealed \cup {active} /\ lsn' = lsn + 1
    BY <1>6 DEF Logged
  <2> HIDE DEF record, NumberedRecord, n
  <2>2. /\ <<record>> \in Seq(Record) /\ Len(<<record>>) = 1 /\ <<record>>[1] = record
    BY <1>1
  <2>3. active' \in Segment /\ active'.records = <<record>> /\ active'.start = lsn + 1
    BY <2>1, <2>2 DEF Segment
  <2>4. LastLsn(active') = lsn' /\ Len(active'.records) \in Nat \ {0}
    BY <1>1, <2>1, <2>2, <2>3 DEF LastLsn
  <2>5. \A s \in sealed' : \A k \in 1..Len(s.records) : s.records[k].lsn < lsn + 1
    <3> SUFFICES ASSUME NEW s \in sealed', NEW k \in 1..Len(s.records)
                 PROVE  s.records[k].lsn < lsn + 1
      OBVIOUS
    <3>1. s.records[k] \in Records
      BY <2>1, RecordsType
    <3>2. s.records[k].lsn \in Nat /\ s.records[k].lsn <= lsn
      BY <1>3, <3>1, RecordsType DEF Record
    <3>3. QED
      BY <3>2
  <2>6. Ordered'
    BY <1>1, <2>2, <2>3, <2>5 DEF Ordered
  <2>7. \A r \in Records' : r = record \/ r \in Records
    <3>1. sealed' \subseteq Segment /\ active' \in Segment
      BY <2>1, <2>3
    <3>2. \A x : x \in Records' <=>
            \/ \E k \in 1..Len(active'.records) : x = active'.records[k]
            \/ \E s \in sealed' : \E k \in 1..Len(s.records) : x = s.records[k]
      BY <3>1, NextRecords
    <3>3. QED
      BY <2>1, <2>2, <2>3, <3>2, RecordsType
  <2>8. QED
    BY <1>6, <2>1, <2>3, <2>4, <2>6, <2>7 DEF record, NumberedRecord
<1>7. QED
  BY <1>5, <1>6

(* Steps that leave the log alone. *)
LEMMA QuietKeepsLog ==
  ASSUME LogInv, UNCHANGED <<wal, since>>, Up' = Up,
         pc' \in {"mark", "truncate"} => pc' = pc, pc' = "replay" => checkpoint <= at'
  PROVE  LogInv'
<1>1. Ordered' /\ Records' = Records
  BY DEF LogInv, Ordered, Records, wal
<1>2. LastLsn(active)' = LastLsn(active) /\ LastLsn(Surviving)' = LastLsn(Surviving)
  BY DEF LastLsn, Surviving, wal
<1>3. Numbered'
  BY <1>2 DEF LogInv, Numbered, wal
<1>4. Marked'
  BY <1>1 DEF LogInv, Marked, wal
<1>5. Recoverable'
  BY <1>1 DEF LogInv, Recoverable, wal
<1>6. QED
  BY <1>1, <1>3, <1>4, <1>5 DEF LogInv

LEMMA SpillKeepsLog ==
  ASSUME TypeOK, LogInv, Spill
  PROVE  LogInv'
<1>1. /\ UNCHANGED <<sealed, active, lsn, checkpoint, pc, at, since>>
      /\ spilled < Len(active.records) /\ spilled' = spilled + 1
  BY DEF Spill, Synced, recovery, ghost
<1>2. Up /\ pc # "mark"
  BY <1>1 DEF Spill, TypeOK, LogInv, Numbered, Up
<1>3. /\ active \in Segment /\ sealed \subseteq Segment
      /\ spilled \in 0..Len(active.records) /\ Len(active.records) \in Nat
      /\ active.start \in Nat /\ checkpoint \in Nat
  BY DEF TypeOK, Segment
<1>4. /\ LastLsn(Surviving) = IF spilled = 0 THEN active.start ELSE active.records[spilled].lsn
      /\ LastLsn(Surviving) \in Nat
  BY <1>3, LastOfCut, SurvivingIsCut
<1>5. /\ LastLsn(Surviving') = active.records[spilled + 1].lsn
      /\ LastLsn(Surviving') \in Nat
  BY <1>1, <1>3, LastOfCut, SurvivingIsCut
<1>6. /\ active.start <= active.records[spilled + 1].lsn
      /\ spilled # 0 => active.records[spilled].lsn < active.records[spilled + 1].lsn
  BY <1>1, <1>3 DEF LogInv, Ordered
<1>7. spilled # 0 => active.records[spilled].lsn \in Nat
  BY <1>3, RecordsType
<1>8. checkpoint <= LastLsn(Surviving')
  BY <1>3, <1>4, <1>5, <1>6, <1>7 DEF LogInv, Numbered
<1>9. Ordered' /\ Records' = Records
  BY <1>1 DEF LogInv, Ordered, Records
<1>10. Numbered'
  BY <1>1, <1>2, <1>8 DEF LogInv, Numbered, Up, LastLsn
<1>11. Marked' /\ Recoverable'
  BY <1>1, <1>2, <1>9 DEF LogInv, Marked, Recoverable
<1>12. QED
  BY <1>9, <1>10, <1>11 DEF LogInv

LEMMA WroteKeepsLog ==
  ASSUME TypeOK, LogInv, pc = "ready",
         NEW insert \in SUBSET Ids, NEW delete \in SUBSET Ids, NEW value \in Nat,
         delete # {} => value = 0, Wrote(insert, delete, value)
  PROVE  LogInv'
<1> DEFINE record == NumberedRecord(insert, delete, value)
<1>1. /\ active \in Segment /\ sealed \subseteq Segment /\ spilled \in 0..Len(active.records)
      /\ lsn \in Nat /\ checkpoint \in Nat /\ lsn = LastLsn(active) /\ Ordered
      /\ Len(active.records) \in Nat /\ checkpoint <= LastLsn(Surviving)
  BY DEF TypeOK, LogInv, Numbered, Up, Segment
<1>2. /\ Logged(insert, delete, value) /\ pc' = "ready" /\ checkpoint' = checkpoint
      /\ spilled' = IF Synced < SegmentSize THEN spilled ELSE 0
      /\ since' = [i \in Ids |-> IF i \in insert \cup delete THEN since[i] \cup {value} ELSE since[i]]
  BY DEF Wrote
<1>3. /\ sealed' \subseteq Segment /\ active' \in Segment /\ lsn' = lsn + 1 /\ Ordered'
      /\ LastLsn(active') = lsn' /\ Len(active'.records) \in Nat \ {0}
      /\ \A r \in Records' : r = record \/ r \in Records
      /\ Synced < SegmentSize =>
           /\ active'.start = active.start
           /\ Len(active'.records) = Len(active.records) + 1
           /\ \A k \in 1..Len(active.records) : active'.records[k] = active.records[k]
      /\ ~(Synced < SegmentSize) => active'.start = lsn + 1
  <2>1. /\ active \in Segment /\ sealed \subseteq Segment /\ spilled \in 0..Len(active.records)
        /\ lsn \in Nat /\ lsn = LastLsn(active) /\ Ordered /\ Logged(insert, delete, value)
    BY <1>1, <1>2
  <2>2. QED
    BY <2>1, LoggedKeeps
<1>4. checkpoint <= lsn
  <2>1. LastLsn(Surviving) <= lsn /\ LastLsn(Surviving) \in Nat
    BY <1>1, NoneIsLater, LastOfCut, SurvivingIsCut
  <2>2. QED
    BY <1>1, <2>1
<1>5. checkpoint' <= LastLsn(Surviving')
  <2>1. CASE Synced < SegmentSize
    <3>1. spilled' = spilled /\ spilled' \in 0..Len(active'.records)
      BY <1>1, <1>2, <1>3, <2>1
    <3>2. LastLsn(Surviving') = IF spilled = 0 THEN active'.start ELSE active'.records[spilled].lsn
      BY <1>3, <3>1, LastOfCut, SurvivingIsCut
    <3>3. LastLsn(Surviving) = IF spilled = 0 THEN active.start ELSE active.records[spilled].lsn
      BY <1>1, LastOfCut, SurvivingIsCut
    <3>4. LastLsn(Surviving') = LastLsn(Surviving)
      BY <1>1, <1>3, <2>1, <3>2, <3>3
    <3>5. QED
      BY <1>1, <1>2, <3>4
  <2>2. CASE ~(Synced < SegmentSize)
    <3>1. spilled' = 0 /\ 0 \in 0..Len(active'.records)
      BY <1>2, <1>3, <2>2
    <3>2. LastLsn(Surviving') = lsn + 1
      BY <1>3, <2>2, <3>1, LastOfCut, SurvivingIsCut
    <3>3. QED
      BY <1>1, <1>2, <1>4, <3>2
  <2>3. QED
    BY <2>1, <2>2
<1>6. Numbered' /\ Marked'
  BY <1>2, <1>3, <1>5 DEF Numbered, Marked, Up
<1>7. Recoverable'
  <2> SUFFICES ASSUME NEW r \in Records', r.lsn > checkpoint
               PROVE  /\ \A i \in r.insert : r.value \in since'[i]
                      /\ \A i \in r.delete : 0 \in since'[i]
    BY <1>2 DEF Recoverable
  <2>1. CASE r = record
    BY <1>2, <2>1 DEF NumberedRecord
  <2>2. CASE r \in Records
    <3>1. r \in Record
      BY <1>1, <2>2, RecordsType
    <3>2. r.insert \subseteq Ids /\ r.delete \subseteq Ids
      BY <3>1 DEF Record
    <3>3. QED
      BY <1>2, <2>2, <3>2 DEF LogInv, Recoverable
  <2>3. QED
    BY <1>3, <2>1, <2>2
<1>8. QED
  BY <1>3, <1>6, <1>7 DEF LogInv

LEMMA LogCheckpointKeepsLog ==
  ASSUME TypeOK, LogInv, LogCheckpoint
  PROVE  LogInv'
<1> DEFINE record == NumberedRecord({}, {}, 0)
<1>1. /\ active \in Segment /\ sealed \subseteq Segment /\ spilled \in 0..Len(active.records)
      /\ lsn \in Nat /\ checkpoint \in Nat /\ lsn = LastLsn(active) /\ Ordered
      /\ checkpoint <= LastLsn(Surviving)
  BY DEF TypeOK, LogInv, Numbered, Up, LogCheckpoint, Go
<1>2. /\ Logged({}, {}, 0) /\ pc' = "mark" /\ checkpoint' = checkpoint
      /\ spilled' = Len(active'.records) /\ since' = since
  BY DEF LogCheckpoint, Go, ghost
<1>3. /\ sealed' \subseteq Segment /\ active' \in Segment /\ lsn' = lsn + 1 /\ Ordered'
      /\ LastLsn(active') = lsn' /\ Len(active'.records) \in Nat \ {0}
      /\ \A r \in Records' : r = record \/ r \in Records
  <2>1. {} \in SUBSET Ids /\ 0 \in Nat
    OBVIOUS
  <2>2. QED
    BY <1>1, <1>2, <2>1, LoggedKeeps
<1>4. \A r \in Records : r.lsn <= lsn /\ r.lsn \in Nat
  BY <1>1, NoneIsLater, RecordsType
<1>5. checkpoint' <= LastLsn(Surviving')
  <2>1. LastLsn(Surviving) <= lsn /\ LastLsn(Surviving) \in Nat
    BY <1>1, NoneIsLater, LastOfCut, SurvivingIsCut
  <2>2. LastLsn(Surviving') = LastLsn(active')
    BY <1>2, <1>3, LastOfCut, LastOfSegment, SurvivingIsCut
  <2>3. QED
    BY <1>1, <1>2, <1>3, <2>1, <2>2
<1>6. Numbered'
  BY <1>2, <1>3, <1>5 DEF Numbered, Up
<1>7. Marked'
  BY <1>1, <1>2, <1>3, <1>4 DEF Marked, Empty, NumberedRecord
<1>8. Recoverable'
  BY <1>2, <1>3 DEF LogInv, Recoverable, NumberedRecord
<1>9. QED
  BY <1>3, <1>6, <1>7, <1>8 DEF LogInv

LEMMA MarkCheckpointKeepsLog ==
  ASSUME TypeOK, LogInv, MarkCheckpoint
  PROVE  LogInv'
<1>1. /\ pc = "mark" /\ pc' = "truncate" /\ checkpoint' = lsn - 1
      /\ UNCHANGED <<sealed, active, spilled, lsn, since>>
  BY DEF MarkCheckpoint, Go, ghost
<1>2. /\ active \in Segment /\ sealed \subseteq Segment /\ lsn \in Nat /\ lsn = LastLsn(active)
      /\ spilled = Len(active.records) /\ lsn > 0 /\ spilled \in 0..Len(active.records) /\ Ordered
      /\ checkpoint <= LastLsn(Surviving) /\ checkpoint \in Nat
      /\ \A r \in Records : r.lsn = lsn => Empty(r)
  BY <1>1 DEF TypeOK, LogInv, Numbered, Marked, Up
<1>3. \A r \in Records : r.lsn <= lsn /\ r.lsn \in Nat
  BY <1>2, NoneIsLater, RecordsType
<1>4. Ordered' /\ Records' = Records
  BY <1>1 DEF LogInv, Ordered, Records
<1>5. LastLsn(Surviving') = lsn
  <2>1. LastLsn(Surviving) = LastLsn(active)
    BY <1>2, LastOfCut, LastOfSegment, SurvivingIsCut
  <2>2. Surviving' = Surviving
    BY <1>1 DEF Surviving
  <2>3. QED
    BY <1>2, <2>1, <2>2
<1>6. Numbered'
  BY <1>1, <1>2, <1>5 DEF Numbered, Up, LastLsn
<1>7. \A r \in Records : r.lsn > lsn - 1 => Empty(r)
  BY <1>2, <1>3
<1>8. Marked'
  BY <1>1, <1>4, <1>7 DEF Marked
<1>9. Recoverable'
  BY <1>1, <1>4, <1>7 DEF Recoverable, Empty
<1>10. QED
  BY <1>4, <1>6, <1>8, <1>9 DEF LogInv

LEMMA TruncateKeepsLog ==
  ASSUME TypeOK, LogInv, Truncate
  PROVE  LogInv'
<1>1. /\ pc = "truncate" /\ pc' \in {"ready", "build"} /\ sealed' \subseteq sealed
      /\ UNCHANGED <<active, spilled, lsn, checkpoint>>
  BY DEF Truncate, Go, TypeOK
<1>2. active \in Segment /\ sealed \subseteq Segment
  BY DEF TypeOK
<1>3. \A r \in Records' : r \in Records
  BY <1>1, <1>2, RecordsType, NextRecords
<1>4. Ordered'
  BY <1>1 DEF LogInv, Ordered
<1>5. Numbered'
  BY <1>1 DEF LogInv, Numbered, Up, LastLsn, Surviving
<1>6. Marked'
  BY <1>1 DEF Marked
<1>7. Recoverable'
  BY <1>1, <1>3 DEF LogInv, Marked, Recoverable, Empty
<1>8. QED
  BY <1>4, <1>5, <1>6, <1>7 DEF LogInv

(* The end of the process: what was buffered is lost, or written. *)
LEMMA EndKeepsLog ==
  ASSUME TypeOK, LogInv, Crash \/ Close
  PROVE  LogInv'
<1>1. /\ pc' = "closed" /\ UNCHANGED <<sealed, lsn, checkpoint, since>>
  BY DEF Crash, Close, Ends
<1>2. /\ active \in Segment /\ sealed \subseteq Segment /\ spilled \in 0..Len(active.records) /\ Ordered
      /\ checkpoint <= LastLsn(Surviving) /\ Len(active.records) \in Nat /\ checkpoint \in Nat
  BY DEF TypeOK, LogInv, Numbered, Segment
<1>3. PICK n \in 0..Len(active.records) :
        /\ \/ active' = Cut(active, n)
           \/ active' = active /\ n = Len(active.records)
        /\ spilled' = n /\ n >= spilled
  <2>1. CASE Crash
    <3>1. active' = Cut(active, spilled) /\ spilled' = spilled /\ spilled >= spilled
      BY <1>2, <2>1, SurvivingIsCut DEF Crash
    <3>2. spilled \in 0..Len(active.records)
      BY <1>2
    <3>3. QED
      BY <3>1, <3>2, Zenon
  <2>2. CASE Close
    BY <1>2, <2>2 DEF Close, Synced
  <2>3. QED
    BY <2>1, <2>2
<1>4. /\ active' \in Segment /\ active'.start = active.start /\ Len(active'.records) = n
      /\ \A k \in 1..n : active'.records[k] = active.records[k]
  <2>1. CASE active' = Cut(active, n)
    BY <1>2, <2>1, LastOfCut
  <2>2. CASE active' = active /\ n = Len(active.records)
    BY <1>2, <2>2
  <2>3. QED
    BY <1>3, <2>1, <2>2
<1>5. \A r \in Records' : r \in Records
  <2> SUFFICES ASSUME NEW r \in Records'
               PROVE  r \in Records
    OBVIOUS
  <2>1. sealed' \subseteq Segment
    BY <1>1, <1>2
  <2>2. \/ \E k \in 1..n : r = active'.records[k]
        \/ \E s \in sealed : \E k \in 1..Len(s.records) : r = s.records[k]
    BY <1>1, <1>4, <2>1, NextRecords
  <2>3. CASE \E k \in 1..n : r = active'.records[k]
    <3>1. \E k \in 1..Len(active.records) : r = active.records[k]
      BY <1>2, <1>4, <2>3
    <3>2. QED
      BY <1>2, <3>1, RecordsType
  <2>4. CASE \E s \in sealed : \E k \in 1..Len(s.records) : r = s.records[k]
    BY <1>2, <2>4, RecordsType
  <2>5. QED
    BY <2>2, <2>3, <2>4
<1>6. Ordered'
  <2>1. 1..n \subseteq 1..Len(active.records)
    BY <1>2
  <2>2. /\ \A k \in 1..n : active.start <= active.records[k].lsn
        /\ \A j, k \in 1..n : j < k => active.records[j].lsn < active.records[k].lsn
    BY <1>2, <2>1 DEF Ordered
  <2>3. QED
    BY <1>1, <1>2, <1>4, <2>2 DEF Ordered
<1>7. checkpoint <= LastLsn(Surviving')
  <2>1. LastLsn(Surviving') = IF n = 0 THEN active.start ELSE active.records[n].lsn
    <3>1. Surviving' = Cut(active', n)
      BY <1>3, SurvivingIsCut
    <3>2. n \in 0..Len(active'.records)
      BY <1>2, <1>4
    <3>3. LastLsn(Cut(active', n)) = IF n = 0 THEN active'.start ELSE active'.records[n].lsn
      BY <1>4, <3>2, LastOfCut
    <3>4. n # 0 => n \in 1..n
      BY <1>2
    <3>5. QED
      BY <1>4, <3>1, <3>3, <3>4
  <2>2. LastLsn(Surviving) = IF spilled = 0 THEN active.start ELSE active.records[spilled].lsn
    BY <1>2, LastOfCut, SurvivingIsCut
  <2>3. /\ active.start \in Nat
        /\ \A k \in 1..Len(active.records) : active.records[k].lsn \in Nat
    BY <1>2, RecordsType DEF Segment
  <2>4. LastLsn(Surviving) <= LastLsn(Surviving')
    BY <1>2, <1>3, <2>1, <2>2, <2>3 DEF Ordered
  <2>5. QED
    BY <1>2, <1>3, <2>1, <2>2, <2>3, <2>4
<1>8. Numbered'
  BY <1>1, <1>3, <1>4, <1>7 DEF Numbered, Up
<1>9. Marked'
  BY <1>1 DEF Marked
<1>10. Recoverable'
  BY <1>1, <1>5 DEF LogInv, Recoverable
<1>11. QED
  BY <1>6, <1>8, <1>9, <1>10 DEF LogInv

LEMMA LoadKeepsLog ==
  ASSUME TypeOK, LogInv, Load
  PROVE  LogInv'
<1>1. /\ pc = "load" /\ UNCHANGED <<sealed, active, spilled, checkpoint, since>>
      /\ \/ pc' = "closed" /\ lsn' = lsn
         \/ pc' = "replay" /\ lsn' = LastLsn(active) /\ at' = checkpoint
  BY DEF Load, ghost
<1>2. spilled = Len(active.records) /\ checkpoint \in Nat
  BY <1>1 DEF TypeOK, LogInv, Numbered, Up
<1>3. Ordered' /\ Records' = Records
  BY <1>1 DEF LogInv, Ordered, Records
<1>4. Numbered'
  BY <1>1, <1>2 DEF LogInv, Numbered, Up, LastLsn, Surviving
<1>5. Marked' /\ Recoverable'
  BY <1>1, <1>3 DEF LogInv, Marked, Recoverable
<1>6. QED
  BY <1>3, <1>4, <1>5 DEF LogInv

LEMMA LogKeeps ==
  ASSUME TypeOK, LogInv, [Next]_vars
  PROVE  LogInv'
<1>1. ASSUME NEW ids \in SUBSET Ids, Insert(ids)
      PROVE  LogInv'
  <2>1. pc = "ready" /\ Wrote(ids, {}, writes + 1) /\ writes + 1 \in Nat
    BY <1>1 DEF Insert, TypeOK
  <2>2. {} \in SUBSET Ids
    OBVIOUS
  <2>3. QED
    BY <2>1, <2>2, WroteKeepsLog
<1>2. ASSUME NEW i \in Ids, Delete(i)
      PROVE  LogInv'
  <2>1. pc = "ready" /\ Wrote({}, {i}, 0)
    BY <1>2 DEF Delete
  <2>2. {} \in SUBSET Ids /\ {i} \in SUBSET Ids /\ 0 \in Nat
    OBVIOUS
  <2>3. QED
    BY <2>1, <2>2, WroteKeepsLog
<1>3. ASSUME NEW r \in Ahead, Replay(r)
      PROVE  LogInv'
  <2>1. pc = "replay" /\ pc' = pc /\ UNCHANGED <<wal, since>> /\ at' = r.lsn /\ r.lsn > at /\ r \in Records
    BY <1>3 DEF Replay, Ahead, ghost
  <2>2. r.lsn \in Nat
    BY <2>1, RecordsType DEF TypeOK
  <2>3. checkpoint <= at'
    BY <2>1, <2>2 DEF TypeOK, LogInv, Numbered
  <2>4. QED
    BY <2>1, <2>3, QuietKeepsLog DEF Up
<1>4. CASE Spill
  BY <1>4, SpillKeepsLog
<1>5. CASE LogCheckpoint
  BY <1>5, LogCheckpointKeepsLog
<1>6. CASE MarkCheckpoint
  BY <1>6, MarkCheckpointKeepsLog
<1>7. CASE Truncate
  BY <1>7, TruncateKeepsLog
<1>8. CASE Crash \/ Close
  BY <1>8, EndKeepsLog
<1>9. CASE Load
  BY <1>9, LoadKeepsLog
<1>10. CASE (\E after \in {"ready", "build"} : StartFlush(after)) \/ SaveGraph \/ SaveIds
  BY <1>10, QuietKeepsLog DEF StartFlush, SaveGraph, SaveIds, Go, Up, ghost
<1>11. CASE BuildNewFiles \/ StartCopy \/ EndCopy
  BY <1>11, QuietKeepsLog DEF BuildNewFiles, StartCopy, EndCopy, Go, Up, ghost
<1>12. CASE Retire \/ Install \/ Reload
  BY <1>12, QuietKeepsLog DEF Retire, Install, Reload, Go, Up, ghost
<1>13. CASE Open \/ Restore \/ EndReplay
  BY <1>13, QuietKeepsLog DEF Open, Restore, EndReplay, Go, Up, ghost
<1>14. CASE UNCHANGED vars
  <2>1. pc = "replay" => checkpoint <= at
    BY DEF LogInv, Numbered
  <2>2. QED
    BY <1>14, <2>1, QuietKeepsLog DEF vars, Up, ghost, recovery
<1>15. QED
  BY <1>1, <1>2, <1>3, <1>4, <1>5, <1>6, <1>7, <1>8, <1>9, <1>10, <1>11, <1>12, <1>13, <1>14 DEF Next

(* ---- What is on disk and what is open ---- *)

IndexOf(d) == IF d.ids = None THEN NoIds ELSE d.ids
GraphOf(d) == IF d.graph = None THEN 0 ELSE d.graph
Readable(d) == d.graph # Torn /\ d.ids # Torn

DiskFits(d) == d.vectors # None /\ (d.ids # Torn => Fits(d.vectors, IndexOf(d)))
DiskReaches(d) == Readable(d) => Reaches(GraphOf(d), IndexOf(d))
DiskKeeps(d, s) == Readable(d) => \A i \in Ids : Content(d.vectors, IndexOf(d), i) \in s[i]

(* Files that a recovery may open. *)
WholeFor(d, s, cut, lost) ==
  /\ DiskFits(d)
  /\ ~cut => DiskReaches(d)
  /\ ~cut /\ ~lost => DiskKeeps(d, s)
Whole(d) == WholeFor(d, since, interrupted, raced)

(* Files that a compaction may put in their place. *)
NewFiles(d) == Copy(d) /\ (~raced => \A i \in Ids : Content(d.vectors, d.ids, i) = latest[i])

OpenInv ==
  pc \in Serving \cup {"replay"} =>
    /\ temp = Nothing /\ backup = Nothing
    /\ Whole(main)
    /\ Fits(main.vectors, memory)
    /\ ~interrupted => Reaches(memory.graph, memory)
    /\ ~interrupted /\ ~raced => \A i \in Ids : Value(memory, i) \in since[i]
ReadInv == pc \in Serving /\ ~raced => \A i \in Ids : Value(memory, i) = latest[i]
LatestInv ==
  pc \in Swapping /\ ~interrupted /\ ~raced => \A i \in Ids : latest[i] \in since[i]
SaveInv ==
  /\ pc \in {"replay", "ready", "build", "log", "mark", "truncate"} => Readable(main)
  /\ pc = "ids" => main.graph = memory.graph
  /\ pc \in {"log", "mark", "truncate"} => main.ids # None /\ main.ids.map = memory.map
CopyInv == copy # None => NewFiles(copy) /\ pc \in Serving \cup Swapping
RetireInv ==
  pc = "retire" =>
    /\ NewFiles(temp)
    /\ Apart(main, backup) /\ (main.vectors # None => backup = Nothing)
    /\ Whole(Merged(main, backup)) /\ Readable(Merged(main, backup))
InstallInv ==
  pc = "install" =>
    /\ NewFiles(Merged(main, temp)) /\ Apart(main, temp)
    /\ main.graph # None => main.vectors # None
    /\ main.ids # None => main.graph # None
    /\ Whole(backup) /\ Readable(backup)
ReloadInv == pc = "reload" => temp = Nothing /\ backup = Nothing /\ NewFiles(main)
RestInv ==
  ~Up =>
    /\ main.vectors = None \/ pc = "restore" => Apart(main, backup) /\ Whole(Merged(main, backup))
    /\ main.vectors # None /\ pc # "restore" => Whole(main)
    /\ pc = "load" => main.vectors # None

DataInv ==
  /\ OpenInv /\ ReadInv /\ LatestInv /\ SaveInv /\ CopyInv
  /\ RetireInv /\ InstallInv /\ ReloadInv /\ RestInv
IInv == TypeOK /\ LogInv /\ DataInv

LEMMA IndexType ==
  ASSUME NEW d \in Files, d.ids # Torn
  PROVE  IndexOf(d) \in Index /\ IndexOf(d).map \in [Ids -> Nat]
<1>1. NoIds \in Index
  BY DEF NoIds, Index
<1>2. d.ids \in Index \cup {None}
  BY DEF Files
<1>3. IndexOf(d) \in Index
  BY <1>1, <1>2 DEF IndexOf
<1>4. QED
  BY <1>3 DEF Index

(* What a compaction wrote can be opened. *)
LEMMA NewIsWhole ==
  ASSUME NEW d, NewFiles(d), ~interrupted /\ ~raced => \A i \in Ids : latest[i] \in since[i]
  PROVE  Whole(d) /\ Readable(d) /\ IndexOf(d) = d.ids /\ GraphOf(d) = d.graph
<1>1. /\ d.vectors # None /\ d.graph \in Nat /\ d.ids \in Index
      /\ Fits(d.vectors, d.ids) /\ Reaches(d.graph, d.ids)
  BY DEF NewFiles, Copy
<1>2. Readable(d) /\ IndexOf(d) = d.ids /\ GraphOf(d) = d.graph
  BY <1>1, Marks DEF Readable, IndexOf, GraphOf
<1>3. DiskFits(d) /\ DiskReaches(d)
  BY <1>1, <1>2 DEF DiskFits, DiskReaches
<1>4. ~interrupted /\ ~raced => DiskKeeps(d, since)
  BY <1>2 DEF DiskKeeps, NewFiles
<1>5. QED
  BY <1>2, <1>3, <1>4 DEF Whole, WholeFor

(* Files without an id map hold nothing. *)
LEMMA WithoutIds ==
  ASSUME NEW d \in Files, d.vectors # None, d.ids = None
  PROVE  /\ DiskFits(d) /\ DiskReaches(d)
         /\ \A i \in Ids : Content(d.vectors, IndexOf(d), i) = 0
<1>1. IndexOf(d) = NoIds /\ NoIds.deleted = {} /\ NoIds.map = [i \in Ids |-> 0]
  BY DEF IndexOf, NoIds
<1>2. d.vectors \in Seq(Vector) /\ DOMAIN d.vectors = 1..Len(d.vectors)
  BY DEF Files
<1>3. DiskFits(d)
  BY <1>1 DEF DiskFits, Fits
<1>4. DiskReaches(d)
  <2>1. Readable(d) => GraphOf(d) \in Nat
    BY DEF Readable, GraphOf, Files
  <2>2. QED
    BY <1>1, <2>1 DEF DiskReaches, Reaches
<1>5. \A i \in Ids : Content(d.vectors, IndexOf(d), i) = 0
  BY <1>1, <1>2 DEF Content
<1>6. QED
  BY <1>3, <1>4, <1>5

(* ---- Writes ---- *)

(* Vectors are only appended, and an id has at least the contents it had. *)
LEMMA AppendIsWhole ==
  ASSUME TypeOK, Whole(main), NEW w \in Seq(Vector), main' = [main EXCEPT !.vectors = @ \o w],
         \A i \in Ids : since[i] \subseteq since'[i],
         interrupted' = interrupted, raced => raced'
  PROVE  Whole(main)' /\ (Readable(main) => Readable(main)')
<1> DEFINE v == main.vectors
<1>1. /\ main \in Files /\ v # None
  BY DEF TypeOK, Whole, WholeFor, DiskFits
<1>2. v \in Seq(Vector) /\ v \o w \in Seq(Vector)
  BY <1>1 DEF Files
<1>3. /\ main'.vectors = v \o w /\ main'.graph = main.graph /\ main'.ids = main.ids
      /\ v \o w # None
  <2>1. v \o w # None
    BY <1>2, Marks
  <2>2. QED
    BY <1>1, <2>1 DEF Files
<1>4. IndexOf(main') = IndexOf(main) /\ GraphOf(main') = GraphOf(main)
      /\ (Readable(main') <=> Readable(main))
  BY <1>3 DEF IndexOf, GraphOf, Readable
<1>5. ASSUME main.ids # Torn
      PROVE  /\ Fits(v \o w, IndexOf(main))
             /\ \A i \in Ids : Content(v \o w, IndexOf(main), i) = Content(v, IndexOf(main), i)
  <2>1. IndexOf(main).map \in [Ids -> Nat]
    BY <1>1, <1>5, IndexType
  <2>2. Fits(v, IndexOf(main))
    BY <1>5 DEF Whole, WholeFor, DiskFits
  <2>3. QED
    BY <1>2, <2>1, <2>2, AppendKeeps
<1> HIDE DEF v
<1>6. DiskFits(main')
  BY <1>3, <1>4, <1>5 DEF DiskFits
<1>7. ~interrupted => DiskReaches(main')
  BY <1>4 DEF Whole, WholeFor, DiskReaches
<1>8. ASSUME ~interrupted, ~raced', Readable(main'), NEW i \in Ids
      PROVE  Content(main'.vectors, IndexOf(main'), i) \in since'[i]
  <2>1. Content(v, IndexOf(main), i) \in since[i]
    BY <1>4, <1>8 DEF Whole, WholeFor, DiskKeeps, v
  <2>2. main.ids # Torn
    BY <1>4, <1>8 DEF Readable
  <2>3. QED
    BY <1>3, <1>4, <1>5, <2>1, <2>2
<1>9. QED
  BY <1>4, <1>6, <1>7, <1>8 DEF Whole, WholeFor, DiskKeeps

LEMMA InsertKeepsData ==
  ASSUME IInv, NEW ids \in SUBSET Ids, Insert(ids)
  PROVE  DataInv' /\ main' \in Files /\ memory' \in Memory
<1> DEFINE v == main.vectors
           value == writes + 1
           w == Rows(ids, value)
           n == Inserted(memory, ids, Len(v))
<1>1. /\ pc = "ready" /\ pc' = "ready" /\ \A i \in ids : memory.map[i] = 0
      /\ main' = [main EXCEPT !.vectors = @ \o w] /\ memory' = n
      /\ UNCHANGED <<temp, backup, copy, interrupted>>
      /\ since' = [i \in Ids |-> IF i \in ids THEN since[i] \cup {value} ELSE since[i]]
      /\ latest' = [i \in Ids |-> IF i \in ids THEN value ELSE latest[i]]
      /\ raced' = (raced \/ copy # None)
  BY DEF Insert, Wrote
<1>2. /\ main \in Files /\ memory \in Memory /\ value \in Nat
      /\ since \in [Ids -> SUBSET Nat]
  BY <1>1 DEF IInv, TypeOK
<1> HIDE DEF value
<1>3. /\ temp = Nothing /\ backup = Nothing /\ Whole(main) /\ Fits(v, memory)
      /\ ~interrupted => Reaches(memory.graph, memory)
      /\ ~interrupted /\ ~raced => \A i \in Ids : Content(v, memory, i) \in since[i]
      /\ ~raced => \A i \in Ids : Content(v, memory, i) = latest[i]
      /\ Readable(main)
  BY <1>1 DEF IInv, DataInv, OpenInv, ReadInv, SaveInv, Serving, Value
<1>4. v \in Seq(Vector)
  BY <1>2, <1>3 DEF Whole, WholeFor, DiskFits, Files
<1>5. w \in Seq(Vector)
  <2>1. 0 \in Nat
    OBVIOUS
  <2>2. QED
    BY <1>2, <2>1, RowsArePlaced
<1>6. /\ v \o w \in Seq(Vector) /\ n \in Memory /\ Fits(v \o w, n)
      /\ Reaches(memory.graph, memory) => Reaches(n.graph, n)
      /\ \A i \in Ids : Content(v \o w, n, i) = IF i \in ids THEN value ELSE Content(v, memory, i)
  <2>1. Fits(v, memory) /\ \A i \in ids : memory.map[i] = 0
    BY <1>1, <1>3
  <2> HIDE DEF v
  <2>2. QED
    BY <1>2, <1>4, <2>1, InsertedFits
<1> HIDE DEF w, n, v
<1>7. main'.vectors = v \o w /\ main' \in Files
  BY <1>1, <1>2, <1>6 DEF Files, v
<1>8. Whole(main)' /\ Readable(main)'
  <2>1. \A i \in Ids : since[i] \subseteq since'[i]
    BY <1>1, <1>2
  <2>2. QED
    BY <1>1, <1>3, <1>5, <2>1, AppendIsWhole DEF IInv
<1>9. OpenInv'
  <2>1. temp' = Nothing /\ backup' = Nothing
    BY <1>1, <1>3
  <2>2. Fits(main'.vectors, memory') /\ (~interrupted' => Reaches(memory'.graph, memory'))
    BY <1>1, <1>3, <1>6, <1>7
  <2>3. ASSUME ~interrupted', ~raced', NEW i \in Ids
        PROVE  Content(main'.vectors, memory', i) \in since'[i]
    <3>1. Content(main'.vectors, memory', i) = IF i \in ids THEN value ELSE Content(v, memory, i)
      BY <1>1, <1>6, <1>7
    <3>2. Content(v, memory, i) \in since[i]
      BY <1>1, <1>3, <2>3
    <3>3. since'[i] = IF i \in ids THEN since[i] \cup {value} ELSE since[i]
      BY <1>1
    <3>4. QED
      BY <3>1, <3>2, <3>3
  <2>4. QED
    BY <1>8, <2>1, <2>2, <2>3 DEF OpenInv, Value
<1>10. ReadInv'
  BY <1>1, <1>3, <1>6, <1>7 DEF ReadInv, Value
<1>11. SaveInv' /\ LatestInv' /\ RetireInv' /\ InstallInv' /\ ReloadInv' /\ RestInv'
  BY <1>1, <1>8 DEF SaveInv, LatestInv, RetireInv, InstallInv, ReloadInv, RestInv, Swapping, Up
<1>12. CopyInv'
  BY <1>1 DEF IInv, DataInv, CopyInv, NewFiles, Serving
<1>13. QED
  BY <1>1, <1>6, <1>7, <1>9, <1>10, <1>11, <1>12 DEF DataInv

LEMMA DeleteKeepsData ==
  ASSUME IInv, NEW i \in Ids, Delete(i)
  PROVE  DataInv' /\ memory' \in Memory
<1> DEFINE v == main.vectors
           n == Deleted(memory, {i})
<1>1. /\ pc = "ready" /\ pc' = "ready" /\ memory.map[i] # 0
      /\ main' = main /\ memory' = n
      /\ UNCHANGED <<temp, backup, copy, interrupted>>
      /\ since' = [j \in Ids |-> IF j \in {i} THEN since[j] \cup {0} ELSE since[j]]
      /\ latest' = [j \in Ids |-> IF j \in {i} THEN 0 ELSE latest[j]]
      /\ raced' = (raced \/ copy # None)
  BY DEF Delete, Wrote
<1>2. main \in Files /\ memory \in Memory
  BY <1>1 DEF IInv, TypeOK
<1>3. /\ temp = Nothing /\ backup = Nothing /\ Whole(main) /\ Fits(v, memory)
      /\ ~interrupted => Reaches(memory.graph, memory)
      /\ ~interrupted /\ ~raced => \A j \in Ids : Content(v, memory, j) \in since[j]
      /\ ~raced => \A j \in Ids : Content(v, memory, j) = latest[j]
      /\ Readable(main)
  BY <1>1 DEF IInv, DataInv, OpenInv, ReadInv, SaveInv, Serving, Value
<1>4. v \in Seq(Vector)
  BY <1>2, <1>3 DEF Whole, WholeFor, DiskFits, Files
<1>5. /\ n \in Memory /\ Fits(v, n)
      /\ Reaches(memory.graph, memory) => Reaches(n.graph, n)
      /\ \A j \in Ids : Content(v, n, j) = IF j \in {i} THEN 0 ELSE Content(v, memory, j)
  <2>1. {i} \in SUBSET Ids /\ \A j \in {i} : memory.map[j] # 0
    BY <1>1
  <2>2. QED
    BY <1>2, <1>3, <1>4, <2>1, DeletedFits
<1> HIDE DEF n
<1>6. \A j \in Ids : since[j] \subseteq since'[j]
  BY <1>1
<1>7. WholeFor(main, since', interrupted, raced')
  <2>1. WholeFor(main, since, interrupted, raced) /\ (raced => raced')
    BY <1>1, <1>3 DEF Whole
  <2>2. QED
    BY <1>6, <2>1 DEF WholeFor, DiskKeeps
<1>8. OpenInv'
  <2>1. ASSUME ~interrupted, ~raced', NEW j \in Ids
        PROVE  Content(v, n, j) \in since'[j]
    <3>1. Content(v, n, j) = IF j \in {i} THEN 0 ELSE Content(v, memory, j)
      BY <1>5
    <3>2. Content(v, memory, j) \in since[j]
      BY <1>1, <1>3, <2>1
    <3>3. since'[j] = IF j \in {i} THEN since[j] \cup {0} ELSE since[j]
      BY <1>1
    <3>4. QED
      BY <3>1, <3>2, <3>3
  <2>2. QED
    BY <1>1, <1>3, <1>5, <1>7, <2>1 DEF OpenInv, Whole, Value
<1>9. ReadInv'
  BY <1>1, <1>3, <1>5 DEF ReadInv, Value
<1>10. SaveInv' /\ LatestInv' /\ RetireInv' /\ InstallInv' /\ ReloadInv' /\ RestInv'
  BY <1>1, <1>3 DEF SaveInv, LatestInv, RetireInv, InstallInv, ReloadInv, RestInv, Swapping, Up
<1>11. CopyInv'
  BY <1>1 DEF IInv, DataInv, CopyInv, NewFiles, Serving
<1>12. QED
  BY <1>1, <1>5, <1>8, <1>9, <1>10, <1>11 DEF DataInv

(* ---- Flush ---- *)

(* Steps that touch the log only. *)
LEMMA QuietKeepsData ==
  ASSUME IInv, UNCHANGED <<files, memory, copy, ghost>>,
         \/ pc' = pc
         \/ pc \in {"log", "mark"} /\ pc' \in {"mark", "truncate"}
         \/ pc = "build" /\ pc' = "ready"
  PROVE  DataInv'
<1>1. UNCHANGED <<main, temp, backup, memory, copy, since, latest, raced, interrupted>>
  BY DEF files, ghost
<1>2. OpenInv' /\ ReadInv' /\ LatestInv'
  BY <1>1 DEF IInv, DataInv, OpenInv, ReadInv, LatestInv, Serving, Swapping, Whole, Value
<1>3. SaveInv' /\ CopyInv'
  BY <1>1 DEF IInv, DataInv, SaveInv, CopyInv, NewFiles, Serving, Swapping
<1>4. RetireInv' /\ InstallInv' /\ ReloadInv'
  BY <1>1 DEF IInv, DataInv, RetireInv, InstallInv, ReloadInv, NewFiles, Whole
<1>5. RestInv'
  BY <1>1 DEF IInv, DataInv, RestInv, Up, Whole
<1>6. QED
  BY <1>2, <1>3, <1>4, <1>5 DEF DataInv

(* While the graph or the id map is written, no one can open the files. *)
LEMMA SavingIsWhole ==
  ASSUME NEW d \in Files, NEW e \in Files, NEW s, NEW cut, NEW lost,
         WholeFor(d, s, cut, lost), e.vectors = d.vectors, e.ids = d.ids \/ e.ids = Torn, ~Readable(e)
  PROVE  WholeFor(e, s, cut, lost)
BY DEF WholeFor, DiskFits, DiskReaches, DiskKeeps, IndexOf

LEMMA SaveKeepsData ==
  ASSUME IInv, (\E after \in {"ready", "build"} : StartFlush(after)) \/ SaveGraph
  PROVE  DataInv' /\ main' \in Files
<1>1. /\ UNCHANGED <<temp, backup, memory, copy, since, latest, raced, interrupted>>
      /\ \/ pc = "ready" /\ pc' = "graph" /\ main' = [main EXCEPT !.graph = Torn]
         \/ pc = "graph" /\ pc' = "ids"
            /\ main' = [main EXCEPT !.graph = memory.graph, !.ids = Torn]
  BY DEF StartFlush, SaveGraph, Go, ghost
<1>2. main \in Files /\ memory \in Memory
  BY <1>1 DEF IInv, TypeOK
<1>3. /\ main' \in Files /\ main'.vectors = main.vectors /\ ~Readable(main')
      /\ main'.ids = main.ids \/ main'.ids = Torn
      /\ pc' = "ids" => main'.graph = memory.graph
  BY <1>1, <1>2 DEF Files, Memory, Readable
<1>4. pc \in Serving /\ pc' \in Serving
  BY <1>1 DEF Serving
<1>5. OpenInv /\ ReadInv /\ CopyInv
  BY DEF IInv, DataInv
<1>6. WholeFor(main', since, interrupted, raced)
  BY <1>2, <1>3, <1>4, <1>5, SavingIsWhole DEF OpenInv, Whole
<1>7. OpenInv' /\ ReadInv'
  BY <1>1, <1>3, <1>4, <1>5, <1>6 DEF OpenInv, ReadInv, Whole, Value
<1>8. SaveInv' /\ CopyInv'
  BY <1>1, <1>3, <1>4, <1>5 DEF SaveInv, CopyInv, NewFiles
<1>9. LatestInv' /\ RetireInv' /\ InstallInv' /\ ReloadInv' /\ RestInv'
  BY <1>1 DEF LatestInv, RetireInv, InstallInv, ReloadInv, RestInv, Swapping, Up
<1>10. QED
  BY <1>3, <1>7, <1>8, <1>9 DEF DataInv

LEMMA SaveIdsKeepsData ==
  ASSUME IInv, SaveIds
  PROVE  DataInv' /\ main' \in Files
<1> DEFINE x == [map |-> memory.map, deleted |-> memory.deleted]
<1>1. /\ UNCHANGED <<temp, backup, memory, copy, since, latest, raced, interrupted>>
      /\ pc = "ids" /\ pc' = "log" /\ main' = [main EXCEPT !.ids = x]
  BY DEF SaveIds, Go, ghost
<1>2. main \in Files /\ memory \in Memory
  BY <1>1 DEF IInv, TypeOK
<1>3. x \in Index /\ x # None /\ x # Torn /\ memory.graph \in Nat
  BY <1>2, Marks DEF Index, Memory
<1>4. /\ main' \in Files /\ main'.vectors = main.vectors /\ main'.ids = x /\ main'.graph = main.graph
  BY <1>1, <1>2, <1>3 DEF Files
<1>5. OpenInv /\ ReadInv /\ CopyInv /\ main.graph = memory.graph
  BY <1>1 DEF IInv, DataInv, SaveInv
<1>6. /\ Whole(main) /\ Fits(main.vectors, memory)
      /\ ~interrupted => Reaches(memory.graph, memory)
      /\ ~interrupted /\ ~raced => \A i \in Ids : Content(main.vectors, memory, i) \in since[i]
  BY <1>1, <1>5 DEF OpenInv, Serving, Value
<1>7. Readable(main') /\ IndexOf(main') = x /\ GraphOf(main') = memory.graph
  BY <1>3, <1>4, <1>5, Marks DEF Readable, IndexOf, GraphOf
<1>8. WholeFor(main', since, interrupted, raced)
  <2>1. DiskFits(main')
    BY <1>4, <1>6, <1>7 DEF DiskFits, Fits, Whole, WholeFor
  <2>2. ~interrupted => DiskReaches(main')
    BY <1>6, <1>7 DEF DiskReaches, Reaches
  <2>3. ~interrupted /\ ~raced => DiskKeeps(main', since)
    BY <1>4, <1>6, <1>7 DEF DiskKeeps, Content
  <2>4. QED
    BY <2>1, <2>2, <2>3 DEF WholeFor
<1>9. OpenInv' /\ ReadInv'
  BY <1>1, <1>4, <1>5, <1>8 DEF OpenInv, ReadInv, Whole, Value, Serving
<1>10. SaveInv' /\ CopyInv'
  BY <1>1, <1>3, <1>4, <1>5, <1>7 DEF SaveInv, CopyInv, NewFiles, Serving
<1>11. LatestInv' /\ RetireInv' /\ InstallInv' /\ ReloadInv' /\ RestInv'
  BY <1>1 DEF LatestInv, RetireInv, InstallInv, ReloadInv, RestInv, Swapping, Up
<1>12. QED
  BY <1>4, <1>9, <1>10, <1>11 DEF DataInv

LEMMA TruncateKeepsData ==
  ASSUME IInv, Truncate
  PROVE  DataInv'
<1>1. /\ UNCHANGED <<main, temp, backup, memory, copy, latest, raced, interrupted>>
      /\ pc = "truncate" /\ pc' = next /\ since' = [i \in Ids |-> {Value(memory, i)}]
      /\ next \in {"ready", "build"}
  BY DEF IInv, TypeOK, Truncate, Go, files
<1>2. main \in Files /\ memory \in Memory
  BY <1>1 DEF IInv, TypeOK
<1>3. OpenInv /\ ReadInv /\ CopyInv /\ Readable(main) /\ main.ids # None /\ main.ids.map = memory.map
  BY <1>1 DEF IInv, DataInv, SaveInv
<1>4. \A i \in Ids : Value(memory, i) \in since'[i]
  BY <1>1
<1>5. WholeFor(main, since', interrupted, raced)
  <2>1. Whole(main)
    BY <1>1, <1>3 DEF OpenInv, Serving
  <2>2. DiskKeeps(main, since')
    BY <1>3, <1>4 DEF DiskKeeps, IndexOf, Content, Value
  <2>3. QED
    BY <2>1, <2>2 DEF Whole, WholeFor
<1>6. OpenInv' /\ ReadInv'
  BY <1>1, <1>3, <1>4, <1>5 DEF OpenInv, ReadInv, Whole, Value, Serving
<1>7. SaveInv' /\ CopyInv'
  BY <1>1, <1>3 DEF SaveInv, CopyInv, NewFiles, Serving
<1>8. LatestInv' /\ RetireInv' /\ InstallInv' /\ ReloadInv' /\ RestInv'
  BY <1>1 DEF LatestInv, RetireInv, InstallInv, ReloadInv, RestInv, Swapping, Up
<1>9. QED
  BY <1>6, <1>7, <1>8 DEF DataInv

(* ---- Compaction ---- *)

LEMMA MergedIsOne ==
  ASSUME NEW d \in Files
  PROVE  /\ Nothing \in Files
         /\ Merged(d, Nothing) = d /\ Merged(Nothing, d) = d
         /\ Apart(d, Nothing) /\ Apart(Nothing, d)
BY DEF Merged, Apart, Files, Nothing

(* New files beside an open database that holds the same. *)
LEMMA SwapBegins ==
  ASSUME IInv, pc \in {"ready", "build"}, pc' = "retire", NewFiles(temp'),
         UNCHANGED <<main, backup, memory, copy, ghost>>
  PROVE  DataInv'
<1>1. UNCHANGED <<main, backup, memory, copy, since, latest, raced, interrupted>>
  BY DEF ghost
<1>2. /\ main \in Files /\ backup = Nothing /\ Whole(main) /\ Readable(main)
      /\ ~interrupted /\ ~raced => \A i \in Ids : Value(memory, i) \in since[i]
      /\ ~raced => \A i \in Ids : Value(memory, i) = latest[i]
      /\ CopyInv
  BY DEF IInv, TypeOK, DataInv, OpenInv, SaveInv, ReadInv, Serving
<1>3. LatestInv'
  BY <1>1, <1>2 DEF LatestInv
<1>4. CopyInv'
  BY <1>1, <1>2 DEF CopyInv, NewFiles, Swapping
<1>5. RetireInv'
  <2>1. Merged(main, backup) = main /\ Apart(main, backup)
    BY <1>2, MergedIsOne
  <2>2. NewFiles(temp)'
    BY <1>1 DEF NewFiles
  <2>3. Whole(Merged(main, backup))' /\ Readable(Merged(main', backup'))
    BY <1>1, <1>2, <2>1 DEF Whole
  <2>4. QED
    BY <1>1, <1>2, <2>1, <2>2, <2>3 DEF RetireInv
<1>6. OpenInv' /\ ReadInv' /\ SaveInv' /\ InstallInv' /\ ReloadInv' /\ RestInv'
  BY DEF OpenInv, ReadInv, SaveInv, InstallInv, ReloadInv, RestInv, Serving, Up
<1>7. QED
  BY <1>3, <1>4, <1>5, <1>6 DEF DataInv

(* What a compaction of the open database writes. *)
LEMMA CompactedIsNew ==
  ASSUME IInv, pc \in {"ready", "build"}
  PROVE  NewFiles(Compacted) /\ Compacted \in Files
<1>1. /\ main \in Files /\ memory \in Memory /\ main.vectors # None /\ Fits(main.vectors, memory)
      /\ ~raced => \A i \in Ids : Value(memory, i) = latest[i]
  BY DEF IInv, TypeOK, DataInv, OpenInv, ReadInv, Serving, Whole, WholeFor, DiskFits
<1>2. /\ Copy(Compacted)
      /\ \A i \in Ids : Content(Compacted.vectors, Compacted.ids, i) = Value(memory, i)
  BY <1>1, CompactedIsCopy
<1>3. QED
  BY <1>1, <1>2 DEF NewFiles, Copy

LEMMA BuildKeepsData ==
  ASSUME IInv, BuildNewFiles
  PROVE  DataInv' /\ temp' \in Files
<1>1. /\ pc = "build" /\ UNCHANGED <<main, backup, memory, copy, ghost>>
      /\ \/ pc' = "ready" /\ temp' = temp
         \/ pc' = "retire" /\ temp' = Compacted
  BY DEF BuildNewFiles
<1>2. NewFiles(Compacted) /\ Compacted \in Files
  BY <1>1, CompactedIsNew
<1>3. temp \in Files
  BY DEF IInv, TypeOK
<1>4. CASE pc' = "ready" /\ temp' = temp
  BY <1>1, <1>3, <1>4, QuietKeepsData DEF files
<1>5. CASE pc' = "retire" /\ temp' = Compacted
  BY <1>1, <1>2, <1>5, SwapBegins
<1>6. QED
  BY <1>1, <1>4, <1>5

LEMMA StartCopyKeepsData ==
  ASSUME IInv, StartCopy
  PROVE  DataInv' /\ copy' \in Files
<1>1. /\ pc = "ready" /\ pc' = "ready" /\ copy' = Compacted
      /\ UNCHANGED <<main, temp, backup, memory, since, latest, raced, interrupted>>
  BY DEF StartCopy, files, ghost
<1>2. NewFiles(Compacted) /\ Compacted \in Files
  BY <1>1, CompactedIsNew
<1>3. CopyInv'
  <2>1. NewFiles(copy)'
    BY <1>1, <1>2 DEF NewFiles
  <2>2. QED
    BY <1>1, <2>1 DEF CopyInv, Serving
<1>4. OpenInv' /\ ReadInv' /\ SaveInv'
  BY <1>1 DEF IInv, DataInv, OpenInv, ReadInv, SaveInv, Whole, Value
<1>5. LatestInv' /\ RetireInv' /\ InstallInv' /\ ReloadInv' /\ RestInv'
  BY <1>1 DEF LatestInv, RetireInv, InstallInv, ReloadInv, RestInv, Swapping, Up
<1>6. QED
  BY <1>1, <1>2, <1>3, <1>4, <1>5 DEF DataInv

LEMMA EndCopyKeepsData ==
  ASSUME IInv, EndCopy
  PROVE  DataInv' /\ temp' \in Files
<1>1. /\ pc = "ready" /\ pc' = "retire" /\ copy # None /\ temp' = copy
      /\ UNCHANGED <<main, backup, memory, copy, ghost>>
  BY DEF EndCopy, Go
<1>2. NewFiles(copy) /\ copy \in Files
  BY <1>1 DEF IInv, TypeOK, DataInv, CopyInv
<1>3. QED
  BY <1>1, <1>2, SwapBegins

LEMMA RetireKeepsData ==
  ASSUME IInv, Retire
  PROVE  DataInv' /\ main' \in Files /\ backup' \in Files
<1>1. /\ pc = "retire" /\ UNCHANGED <<temp, memory, copy, since, latest, raced, interrupted>>
      /\ \/ main = Nothing /\ pc' = "install" /\ main' = main /\ backup' = backup
         \/ main # Nothing /\ pc' = "retire" /\ main' = Without(main) /\ backup' = With(backup, main)
  BY DEF Retire, ghost
<1>2. /\ main \in Files /\ backup \in Files /\ temp \in Files
      /\ NewFiles(temp) /\ Apart(main, backup)
      /\ Whole(Merged(main, backup)) /\ Readable(Merged(main, backup))
      /\ CopyInv /\ LatestInv
  BY <1>1 DEF IInv, TypeOK, DataInv, RetireInv
<1>3. /\ pc \in Swapping /\ pc' \in Swapping /\ NewFiles(temp)'
      /\ LatestInv' /\ CopyInv'
  BY <1>1, <1>2 DEF LatestInv, CopyInv, NewFiles, Swapping
<1>4. OpenInv' /\ ReadInv' /\ SaveInv' /\ ReloadInv' /\ RestInv'
  BY <1>1 DEF OpenInv, ReadInv, SaveInv, ReloadInv, RestInv, Serving, Up
<1>5. CASE main = Nothing
  <2>1. /\ pc' = "install" /\ main' = Nothing /\ backup' = backup /\ temp' = temp
    BY <1>1, <1>5
  <2>2. Merged(main, backup) = backup /\ Merged(Nothing, temp) = temp /\ Apart(Nothing, temp)
    BY <1>2, <1>5, MergedIsOne
  <2>3. Whole(backup)' /\ Readable(backup')
    BY <1>1, <1>2, <2>1, <2>2 DEF Whole
  <2>4. NewFiles(Merged(main, temp))' /\ Apart(main', temp')
    BY <1>1, <1>3, <2>1, <2>2 DEF NewFiles
  <2>5. main'.graph = None /\ main'.ids = None
    BY <2>1 DEF Nothing
  <2>6. InstallInv' /\ RetireInv'
    BY <2>1, <2>3, <2>4, <2>5 DEF InstallInv, RetireInv
  <2>7. QED
    BY <1>2, <1>3, <1>4, <1>5, <2>1, <2>6 DEF DataInv
<1>6. CASE main # Nothing
  <2>1. pc' = "retire" /\ main' = Without(main) /\ backup' = With(backup, main)
    BY <1>1, <1>6
  <2>2. main' \in Files /\ backup' \in Files /\ main'.vectors = None
    <3>1. Without(main) \in Files /\ With(backup, main) \in Files
      BY <1>2, OneRename
    <3>2. Without(main).vectors = None
      BY <1>2 DEF Without, Files
    <3>3. QED
      BY <2>1, <3>1, <3>2
  <2>3. Apart(backup, main)
    BY <1>2 DEF Apart
  <2>4. Merged(main', backup') = Merged(main, backup) /\ Apart(main', backup')
    BY <1>2, <1>6, <2>1, <2>3, RenameKeeps
  <2>5. Whole(Merged(main, backup))' /\ Readable(Merged(main', backup'))
    BY <1>1, <1>2, <2>4 DEF Whole
  <2>6. RetireInv' /\ InstallInv'
    BY <1>3, <2>1, <2>2, <2>4, <2>5 DEF RetireInv, InstallInv
  <2>7. QED
    BY <1>3, <1>4, <2>2, <2>6 DEF DataInv
<1>7. QED
  BY <1>5, <1>6

LEMMA InstallKeepsData ==
  ASSUME IInv, Install
  PROVE  DataInv' /\ main' \in Files /\ temp' \in Files /\ backup' \in Files
<1>1. /\ pc = "install" /\ UNCHANGED <<memory, copy, since, latest, raced, interrupted>>
      /\ \/ temp = Nothing /\ pc' = "reload" /\ backup' = Nothing /\ main' = main /\ temp' = temp
         \/ temp # Nothing /\ pc' = "install" /\ backup' = backup
            /\ temp' = Without(temp) /\ main' = With(main, temp)
  BY DEF Install, ghost
<1>2. /\ main \in Files /\ backup \in Files /\ temp \in Files
      /\ NewFiles(Merged(main, temp)) /\ Apart(main, temp)
      /\ main.graph # None => main.vectors # None
      /\ main.ids # None => main.graph # None
      /\ Whole(backup) /\ Readable(backup)
      /\ CopyInv /\ LatestInv
  BY <1>1 DEF IInv, TypeOK, DataInv, InstallInv
<1>3. pc \in Swapping /\ pc' \in Swapping /\ LatestInv' /\ CopyInv'
  BY <1>1, <1>2 DEF LatestInv, CopyInv, NewFiles, Swapping
<1>4. OpenInv' /\ ReadInv' /\ SaveInv' /\ RetireInv' /\ RestInv'
  BY <1>1 DEF OpenInv, ReadInv, SaveInv, RetireInv, RestInv, Serving, Up
<1>5. CASE temp = Nothing
  <2>1. pc' = "reload" /\ backup' = Nothing /\ main' = main /\ temp' = Nothing
    BY <1>1, <1>5
  <2>2. Merged(main, temp) = main /\ Nothing \in Files
    BY <1>2, <1>5, MergedIsOne
  <2>3. ReloadInv' /\ InstallInv'
    BY <1>1, <1>2, <2>1, <2>2 DEF ReloadInv, InstallInv, NewFiles
  <2>4. QED
    BY <1>2, <1>3, <1>4, <2>1, <2>2, <2>3 DEF DataInv
<1>6. CASE temp # Nothing
  <2>1. pc' = "install" /\ backup' = backup /\ temp' = Without(temp) /\ main' = With(main, temp)
    BY <1>1, <1>6
  <2>2. main' \in Files /\ temp' \in Files
    BY <1>2, <2>1, OneRename
  <2>3. Merged(main', temp') = Merged(main, temp) /\ Apart(main', temp')
    BY <1>2, <1>6, <2>1, RenameKeeps
  <2>4. /\ main'.graph # None => main'.vectors # None
        /\ main'.ids # None => main'.graph # None
    <3>1. Merged(main, temp).vectors # None /\ Merged(main, temp).graph # None
      BY <1>2, Marks DEF NewFiles, Copy
    <3>2. /\ temp.vectors = None => main.vectors # None
          /\ temp.graph = None => main.graph # None
      BY <3>1 DEF Merged
    <3>3. \/ temp.vectors # None
             /\ main' = [vectors |-> temp.vectors, graph |-> main.graph, ids |-> main.ids]
          \/ temp.vectors = None /\ temp.graph # None
             /\ main' = [vectors |-> main.vectors, graph |-> temp.graph, ids |-> main.ids]
          \/ temp.vectors = None /\ temp.graph = None
             /\ main' = [vectors |-> main.vectors, graph |-> main.graph, ids |-> temp.ids]
      BY <1>2, <2>1 DEF With, Files
    <3>4. QED
      BY <1>2, <3>2, <3>3
  <2>5. NewFiles(Merged(main, temp))' /\ Whole(backup)'
    BY <1>1, <1>2, <2>1, <2>3 DEF NewFiles, Whole
  <2>6. InstallInv' /\ ReloadInv'
    BY <1>2, <2>1, <2>3, <2>4, <2>5 DEF InstallInv, ReloadInv
  <2>7. QED
    BY <1>2, <1>3, <1>4, <2>1, <2>2, <2>6 DEF DataInv
<1>7. QED
  BY <1>5, <1>6

LEMMA ReloadKeepsData ==
  ASSUME IInv, Reload
  PROVE  DataInv' /\ main' \in Files /\ memory' \in Memory
<1>1. /\ pc = "reload" /\ UNCHANGED <<temp, backup, since, latest, raced, interrupted>>
      /\ memory' = [graph |-> main.graph, map |-> main.ids.map, deleted |-> {}]
      /\ \/ pc' = "graph" /\ main' = [main EXCEPT !.graph = Torn]
         \/ pc' = "ready" /\ main' = main
      /\ copy' = None
  BY DEF Reload, ghost
<1>2. /\ main \in Files /\ temp = Nothing /\ backup = Nothing /\ NewFiles(main)
      /\ ~interrupted /\ ~raced => \A i \in Ids : latest[i] \in since[i]
  BY <1>1 DEF IInv, TypeOK, DataInv, ReloadInv, LatestInv, Swapping
<1>3. Whole(main) /\ Readable(main)
  BY <1>2, NewIsWhole
<1>4. /\ main.graph \in Nat /\ main.ids \in Index
      /\ Fits(main.vectors, main.ids) /\ Reaches(main.graph, main.ids)
      /\ ~raced => \A i \in Ids : Content(main.vectors, main.ids, i) = latest[i]
  BY <1>2 DEF NewFiles, Copy
<1>5. memory' \in Memory
  BY <1>1, <1>4 DEF Memory, Index
<1>6. /\ Fits(main.vectors, memory') /\ Reaches(memory'.graph, memory')
      /\ ~raced => \A i \in Ids : Content(main.vectors, memory', i) = latest[i]
  BY <1>1, <1>4 DEF Fits, Reaches, Content
<1>7. /\ main' \in Files /\ main'.vectors = main.vectors
      /\ WholeFor(main', since, interrupted, raced)
      /\ pc' = "ready" => Readable(main')
  <2>1. CASE main' = main /\ pc' = "ready"
    BY <1>2, <1>3, <2>1 DEF Whole
  <2>2. CASE main' = [main EXCEPT !.graph = Torn] /\ pc' = "graph"
    <3>1. /\ main' \in Files /\ main'.vectors = main.vectors /\ main'.ids = main.ids
          /\ ~Readable(main')
      BY <1>2, <2>2 DEF Files, Readable
    <3>2. QED
      BY <1>2, <1>3, <2>2, <3>1, SavingIsWhole DEF Whole
  <2>3. QED
    BY <1>1, <2>1, <2>2
<1>8. OpenInv'
  <2>1. temp' = Nothing /\ backup' = Nothing
    BY <1>1, <1>2
  <2>2. Whole(main)' /\ Fits(main'.vectors, memory') /\ Reaches(memory'.graph, memory')
    BY <1>1, <1>6, <1>7 DEF Whole
  <2>3. ASSUME ~interrupted', ~raced', NEW i \in Ids
        PROVE  Content(main'.vectors, memory', i) \in since'[i]
    BY <1>1, <1>2, <1>6, <1>7, <2>3
  <2>4. QED
    BY <2>1, <2>2, <2>3 DEF OpenInv, Value
<1>9. ReadInv'
  BY <1>1, <1>6, <1>7 DEF ReadInv, Value
<1>10. SaveInv' /\ CopyInv'
  BY <1>1, <1>7 DEF SaveInv, CopyInv
<1>11. LatestInv' /\ RetireInv' /\ InstallInv' /\ ReloadInv' /\ RestInv'
  BY <1>1 DEF LatestInv, RetireInv, InstallInv, ReloadInv, RestInv, Swapping, Up
<1>12. QED
  BY <1>5, <1>7, <1>8, <1>9, <1>10, <1>11 DEF DataInv

(* ---- The end of the process, and the next open ---- *)

(* A kill that is noticed leaves as little as one that is not. *)
LEMMA EndedIsWhole ==
  ASSUME NEW d, NEW s, NEW cut, NEW more, NEW lost, WholeFor(d, s, cut, lost), cut => more
  PROVE  WholeFor(d, s, more, lost)
BY DEF WholeFor

(* New files without their id map: nothing is found, which is right only of what has
   been empty since the last flush. *)
LEMMA HalfInstalled ==
  ASSUME IInv, pc = "install", main.vectors # None
  PROVE  WholeFor(main, since, interrupted \/ OutOfPlace, raced)
<1> DEFINE d == Merged(main, temp)
           cut == interrupted \/ OutOfPlace
<1>1. /\ main \in Files /\ temp \in Files /\ backup \in Files
      /\ NewFiles(d) /\ Apart(main, temp)
      /\ main.ids # None => main.graph # None
      /\ Whole(backup) /\ Readable(backup)
      /\ ~interrupted /\ ~raced => \A i \in Ids : latest[i] \in since[i]
  BY DEF IInv, TypeOK, DataInv, InstallInv, LatestInv, Swapping
<1>2. CASE main.ids = None
  <2>1. /\ DiskFits(main) /\ DiskReaches(main)
        /\ \A i \in Ids : Content(main.vectors, IndexOf(main), i) = 0
    BY <1>1, <1>2, WithoutIds
  <2>2. ASSUME ~cut, ~raced, NEW i \in Ids
        PROVE  0 \in since[i]
    <3>1. backup.ids = None /\ ~interrupted
      BY <1>2, <2>2 DEF OutOfPlace
    <3>2. backup.vectors # None
      BY <1>1 DEF Whole, WholeFor, DiskFits
    <3>3. Content(backup.vectors, IndexOf(backup), i) = 0
      BY <1>1, <3>1, <3>2, WithoutIds
    <3>4. Content(backup.vectors, IndexOf(backup), i) \in since[i]
      BY <1>1, <2>2, <3>1 DEF Whole, WholeFor, DiskKeeps
    <3>5. QED
      BY <3>3, <3>4
  <2>3. QED
    BY <2>1, <2>2 DEF WholeFor, DiskKeeps
<1>3. CASE main.ids # None
  <2>1. temp.vectors = None /\ temp.graph = None /\ temp.ids = None
    BY <1>1, <1>3 DEF Apart
  <2>2. d = main
    BY <1>1, <2>1 DEF Merged, Files
  <2>3. NewFiles(main)
    BY <1>1, <2>2
  <2>4. Whole(main)
    BY <1>1, <2>3, NewIsWhole
  <2>5. QED
    BY <2>4 DEF Whole, WholeFor
<1>4. QED
  BY <1>2, <1>3

LEMMA HalfRestored ==
  ASSUME IInv, pc = "restore", main.vectors # None
  PROVE  WholeFor(main, since, interrupted \/ OutOfPlace, raced)
<1> DEFINE d == Merged(main, backup)
           cut == interrupted \/ OutOfPlace
<1>1. main \in Files /\ backup \in Files /\ Apart(main, backup) /\ Whole(d)
  BY DEF IInv, TypeOK, DataInv, RestInv, Up
<1>2. d.vectors = main.vectors /\ backup.vectors = None
  BY <1>1 DEF Apart, Merged
<1>3. DiskFits(main)
  <2>1. CASE main.ids = None
    BY <1>1, <2>1, WithoutIds
  <2>2. CASE main.ids # None
    <3>1. d.ids = main.ids
      BY <1>1, <2>2 DEF Apart, Merged
    <3>2. QED
      BY <1>1, <1>2, <3>1 DEF Whole, WholeFor, DiskFits, IndexOf
  <2>3. QED
    BY <2>1, <2>2
<1>4. ASSUME ~cut
      PROVE  d = main
  <2>1. main.graph # None \/ backup.graph = None
    BY <1>4 DEF OutOfPlace
  <2>2. main.ids # None \/ backup.ids = None
    BY <1>4 DEF OutOfPlace
  <2>3. backup.graph = None /\ backup.ids = None
    BY <1>1, <2>1, <2>2 DEF Apart
  <2>4. QED
    BY <1>1, <1>2, <2>3 DEF Merged, Files
<1>5. ~cut => DiskReaches(main) /\ (~raced => DiskKeeps(main, since))
  BY <1>1, <1>4 DEF Whole, WholeFor
<1>6. QED
  BY <1>3, <1>5 DEF WholeFor

LEMMA EndKeepsData ==
  ASSUME IInv, Crash \/ Close
  PROVE  DataInv'
<1>1. /\ UNCHANGED <<main, temp, backup, since, latest, raced>>
      /\ pc # "closed" /\ pc' = "closed" /\ copy' = None
      /\ \/ interrupted' = (interrupted \/ OutOfPlace)
         \/ pc = "ready" /\ interrupted' = interrupted
  <2>1. CASE Crash
    BY <2>1, Zenon DEF Crash, Ends, files
  <2>2. CASE Close
    BY <2>2, Zenon DEF Close, Ends, files
  <2>3. QED
    BY <2>1, <2>2
<1>2. main \in Files /\ backup \in Files /\ pc \in Places
  BY DEF IInv, TypeOK
<1>3. interrupted => interrupted'
  BY <1>1, Zenon
<1>4. SUFFICES /\ main.vectors = None =>
                    Apart(main, backup) /\ WholeFor(Merged(main, backup), since, interrupted', raced)
               /\ main.vectors # None => WholeFor(main, since, interrupted', raced)
  <2>1. RestInv'
    BY <1>1, <1>4 DEF RestInv, Whole
  <2>2. OpenInv' /\ ReadInv' /\ LatestInv' /\ SaveInv' /\ CopyInv'
    BY <1>1 DEF OpenInv, ReadInv, LatestInv, SaveInv, CopyInv, Serving, Swapping
  <2>3. RetireInv' /\ InstallInv' /\ ReloadInv'
    BY <1>1 DEF RetireInv, InstallInv, ReloadInv
  <2>4. QED
    BY <2>1, <2>2, <2>3 DEF DataInv
<1>5. CASE pc \in Serving \cup {"replay", "reload", "load"}
  <2>1. Whole(main)
    <3>1. CASE pc \in Serving \cup {"replay"}
      BY <3>1 DEF IInv, DataInv, OpenInv
    <3>2. CASE pc = "reload"
      <4>1. NewFiles(main) /\ (~interrupted /\ ~raced => \A i \in Ids : latest[i] \in since[i])
        BY <3>2 DEF IInv, DataInv, ReloadInv, LatestInv, Swapping
      <4>2. QED
        BY <4>1, NewIsWhole
    <3>3. CASE pc = "load"
      BY <3>3 DEF IInv, DataInv, RestInv, Up
    <3>4. QED
      BY <1>5, <3>1, <3>2, <3>3
  <2>2. main.vectors # None
    BY <2>1 DEF Whole, WholeFor, DiskFits
  <2>3. QED
    BY <1>3, <2>1, <2>2 DEF Whole, WholeFor
<1>6. CASE pc = "retire"
  <2>1. /\ Apart(main, backup) /\ (main.vectors # None => backup = Nothing)
        /\ Whole(Merged(main, backup))
    BY <1>6 DEF IInv, DataInv, RetireInv
  <2>2. WholeFor(Merged(main, backup), since, interrupted', raced)
    BY <1>3, <2>1 DEF Whole, WholeFor
  <2>3. main.vectors # None => Merged(main, backup) = main
    BY <1>2, <2>1, MergedIsOne
  <2>4. QED
    BY <2>1, <2>2, <2>3
<1>7. CASE pc = "install"
  <2>1. main.vectors # None => WholeFor(main, since, interrupted', raced)
    BY <1>1, <1>7, HalfInstalled
  <2>2. ASSUME main.vectors = None
        PROVE  Apart(main, backup) /\ WholeFor(Merged(main, backup), since, interrupted', raced)
    <3>1. main = Nothing /\ Whole(backup)
      BY <1>2, <1>7, <2>2 DEF IInv, DataInv, InstallInv, Files, Nothing
    <3>2. Apart(main, backup) /\ Merged(main, backup) = backup
      BY <1>2, <3>1, MergedIsOne
    <3>3. QED
      BY <1>3, <3>1, <3>2 DEF Whole, WholeFor
  <2>3. QED
    BY <2>1, <2>2
<1>8. CASE pc = "restore"
  <2>1. main.vectors # None => WholeFor(main, since, interrupted', raced)
    BY <1>1, <1>8, HalfRestored
  <2>2. Apart(main, backup) /\ Whole(Merged(main, backup))
    BY <1>8 DEF IInv, DataInv, RestInv, Up
  <2>3. QED
    BY <1>3, <2>1, <2>2 DEF Whole, WholeFor
<1>9. QED
  BY <1>1, <1>2, <1>5, <1>6, <1>7, <1>8 DEF Places, Serving

LEMMA OpenKeepsData ==
  ASSUME IInv, Open
  PROVE  DataInv'
<1>1. /\ UNCHANGED <<main, temp, backup, copy, since, latest, raced, interrupted>>
      /\ pc = "closed" /\ pc' = (IF main.vectors = None THEN "restore" ELSE "load")
  BY DEF Open, Go, files, ghost
<1>2. RestInv /\ copy = None
  BY <1>1 DEF IInv, DataInv, CopyInv, Serving, Swapping
<1>3. RestInv'
  BY <1>1, <1>2 DEF RestInv, Up, Whole
<1>4. OpenInv' /\ ReadInv' /\ LatestInv' /\ SaveInv' /\ CopyInv'
  BY <1>1, <1>2 DEF OpenInv, ReadInv, LatestInv, SaveInv, CopyInv, Serving, Swapping
<1>5. RetireInv' /\ InstallInv' /\ ReloadInv'
  BY <1>1 DEF RetireInv, InstallInv, ReloadInv
<1>6. QED
  BY <1>3, <1>4, <1>5 DEF DataInv

LEMMA RestoreKeepsData ==
  ASSUME IInv, Restore
  PROVE  DataInv' /\ main' \in Files /\ backup' \in Files
<1>1. /\ UNCHANGED <<temp, copy, since, latest, raced, interrupted>>
      /\ pc = "restore"
      /\ \/ backup = Nothing /\ pc' = "load" /\ main' = main /\ backup' = backup
         \/ backup # Nothing /\ pc' = "restore" /\ backup' = Without(backup) /\ main' = With(main, backup)
  BY DEF Restore, ghost
<1>2. /\ main \in Files /\ backup \in Files /\ copy = None
      /\ Apart(main, backup) /\ Whole(Merged(main, backup))
  BY <1>1 DEF IInv, TypeOK, DataInv, CopyInv, RestInv, Up, Serving, Swapping
<1>3. OpenInv' /\ ReadInv' /\ LatestInv' /\ SaveInv' /\ CopyInv'
  BY <1>1, <1>2 DEF OpenInv, ReadInv, LatestInv, SaveInv, CopyInv, Serving, Swapping
<1>4. RetireInv' /\ InstallInv' /\ ReloadInv'
  BY <1>1 DEF RetireInv, InstallInv, ReloadInv
<1>5. CASE backup = Nothing
  <2>1. Merged(main, backup) = main /\ pc' = "load" /\ main' = main /\ backup' = backup
    BY <1>1, <1>2, <1>5, MergedIsOne
  <2>2. Whole(main)' /\ main'.vectors # None
    BY <1>1, <1>2, <2>1 DEF Whole, WholeFor, DiskFits
  <2>3. RestInv'
    BY <2>1, <2>2 DEF RestInv
  <2>4. QED
    BY <1>2, <1>3, <1>4, <2>1, <2>3 DEF DataInv
<1>6. CASE backup # Nothing
  <2>1. pc' = "restore" /\ backup' = Without(backup) /\ main' = With(main, backup)
    BY <1>1, <1>6
  <2>2. main' \in Files /\ backup' \in Files
    BY <1>2, <2>1, OneRename
  <2>3. Merged(main', backup') = Merged(main, backup) /\ Apart(main', backup')
    BY <1>2, <1>6, <2>1, RenameKeeps
  <2>4. Whole(Merged(main, backup))'
    BY <1>1, <1>2, <2>3 DEF Whole
  <2>5. RestInv'
    BY <2>1, <2>3, <2>4 DEF RestInv
  <2>6. QED
    BY <1>3, <1>4, <2>2, <2>5 DEF DataInv
<1>7. QED
  BY <1>5, <1>6

LEMMA LoadKeepsData ==
  ASSUME IInv, Load
  PROVE  /\ DataInv' /\ main' = main /\ temp' = Nothing /\ backup' = Nothing
         /\ pc' = "replay" => memory' \in Memory
<1>1. /\ UNCHANGED <<copy, since, latest, raced, interrupted>>
      /\ pc = "load" /\ temp' = Nothing /\ backup' = Nothing
      /\ main' = [main EXCEPT !.vectors = IF @ = None THEN <<>> ELSE @]
      /\ \/ pc' = "closed"
         \/ pc' = "replay" /\ memory' = Loaded /\ main.graph # Torn /\ main.ids # Torn
  BY DEF Load, ghost
<1>2. main \in Files /\ Whole(main) /\ main.vectors # None /\ copy = None
  BY <1>1 DEF IInv, TypeOK, DataInv, CopyInv, RestInv, Up, Serving, Swapping
<1>3. main' = main
  BY <1>1, <1>2 DEF Files
<1>4. Whole(main)'
  BY <1>1, <1>2, <1>3 DEF Whole
<1>5. ReadInv' /\ LatestInv' /\ CopyInv' /\ RetireInv' /\ InstallInv' /\ ReloadInv'
  BY <1>1, <1>2 DEF ReadInv, LatestInv, CopyInv, RetireInv, InstallInv, ReloadInv, Serving, Swapping
<1>6. RestInv'
  BY <1>1, <1>2, <1>3, <1>4 DEF RestInv, Up
<1>7. CASE pc' = "closed"
  BY <1>1, <1>3, <1>5, <1>6, <1>7 DEF DataInv, OpenInv, SaveInv, Serving
<1>8. CASE pc' = "replay" /\ memory' = Loaded /\ main.graph # Torn /\ main.ids # Torn
  <2>1. Readable(main)
    BY <1>8 DEF Readable
  <2>2. IndexOf(main) \in Index /\ GraphOf(main) \in Nat
    BY <1>2, <1>8, IndexType DEF GraphOf, Files
  <2>3. memory' = [graph |-> GraphOf(main), map |-> IndexOf(main).map, deleted |-> IndexOf(main).deleted]
    BY <1>8 DEF Loaded, GraphOf, IndexOf
  <2>4. memory' \in Memory
    BY <2>2, <2>3 DEF Memory, Index
  <2>5. Fits(main.vectors, memory')
    BY <1>2, <1>8, <2>3 DEF Whole, WholeFor, DiskFits, Fits
  <2>6. ~interrupted => Reaches(memory'.graph, memory')
    BY <1>2, <2>1, <2>3 DEF Whole, WholeFor, DiskReaches, Reaches
  <2>7. ~interrupted /\ ~raced => \A i \in Ids : Content(main.vectors, memory', i) \in since[i]
    BY <1>2, <2>1, <2>3 DEF Whole, WholeFor, DiskKeeps, Content
  <2>8. OpenInv'
    BY <1>1, <1>3, <1>4, <2>5, <2>6, <2>7 DEF OpenInv, Value
  <2>9. SaveInv'
    BY <1>3, <1>8, <2>1 DEF SaveInv
  <2>10. QED
    BY <1>1, <1>3, <1>5, <1>6, <2>4, <2>8, <2>9 DEF DataInv
<1>9. QED
  BY <1>1, <1>7, <1>8

LEMMA ReplayKeepsData ==
  ASSUME IInv, NEW r \in Ahead, Replay(r)
  PROVE  DataInv' /\ main' \in Files /\ memory' \in Memory
<1> DEFINE v == main.vectors
           new == {i \in r.insert : memory.map[i] = 0}
           w == Rows(new, r.value)
           m == Inserted(memory, new, Len(v))
           gone == {i \in r.delete : m.map[i] # 0}
           n == Deleted(m, gone)
<1>1. /\ pc = "replay" /\ pc' = "replay"
      /\ main' = [main EXCEPT !.vectors = @ \o w] /\ memory' = n
      /\ UNCHANGED <<temp, backup, copy, since, latest, raced, interrupted>>
  BY DEF Replay, ghost
<1>2. main \in Files /\ memory \in Memory /\ since \in [Ids -> SUBSET Nat]
  BY <1>1 DEF IInv, TypeOK
<1>3. /\ temp = Nothing /\ backup = Nothing /\ Whole(main) /\ Fits(v, memory)
      /\ ~interrupted => Reaches(memory.graph, memory)
      /\ ~interrupted /\ ~raced => \A i \in Ids : Content(v, memory, i) \in since[i]
      /\ Readable(main) /\ copy = None
  BY <1>1 DEF IInv, DataInv, OpenInv, SaveInv, CopyInv, Serving, Swapping, Value
<1>4. v \in Seq(Vector)
  BY <1>2, <1>3 DEF Whole, WholeFor, DiskFits, Files
<1>5. r \in Records /\ r \in Record /\ r.lsn \in Nat /\ r.lsn > at /\ at \in Nat /\ checkpoint \in Nat
      /\ checkpoint <= at
  BY <1>1, RecordsType DEF Ahead, IInv, TypeOK, LogInv, Numbered
<1>6. /\ \A i \in r.insert : r.value \in since[i]
      /\ \A i \in r.delete : 0 \in since[i]
  <2>1. r.lsn > checkpoint
    BY <1>5
  <2>2. QED
    BY <1>5, <2>1 DEF IInv, LogInv, Recoverable
<1>7. /\ new \in SUBSET Ids /\ r.value \in Nat /\ r.insert \in SUBSET Ids /\ r.delete \in SUBSET Ids
  BY <1>5 DEF Record
<1>8. w \in Seq(Vector)
  <2>1. 0 \in Nat
    OBVIOUS
  <2>2. QED
    BY <1>7, <2>1, RowsArePlaced
<1>a. (\A i \in new : memory.map[i] = 0) /\ new \subseteq r.insert
  OBVIOUS
<1> HIDE DEF new
<1>9. /\ v \o w \in Seq(Vector) /\ m \in Memory /\ Fits(v \o w, m)
      /\ Reaches(memory.graph, memory) => Reaches(m.graph, m)
      /\ \A i \in Ids : Content(v \o w, m, i) = IF i \in new THEN r.value ELSE Content(v, memory, i)
  BY <1>2, <1>3, <1>4, <1>7, <1>a, InsertedFits
<1>10. gone \subseteq r.delete /\ gone \in SUBSET Ids /\ \A i \in gone : m.map[i] # 0
  BY <1>7
<1> HIDE DEF w, m, v, gone
<1>11. /\ n \in Memory /\ Fits(v \o w, n)
       /\ Reaches(m.graph, m) => Reaches(n.graph, n)
       /\ \A i \in Ids : Content(v \o w, n, i) = IF i \in gone THEN 0 ELSE Content(v \o w, m, i)
  <2> DEFINE x == v \o w
  <2>1. x \in Seq(Vector) /\ Fits(x, m)
    BY <1>9
  <2> HIDE DEF x
  <2>2. /\ n \in Memory /\ Fits(x, n)
        /\ Reaches(m.graph, m) => Reaches(n.graph, n)
        /\ \A i \in Ids : Content(x, n, i) = IF i \in gone THEN 0 ELSE Content(x, m, i)
    BY <1>9, <1>10, <2>1, DeletedFits
  <2>3. QED
    BY <2>2 DEF x
<1> HIDE DEF n
<1>12. main'.vectors = v \o w /\ main' \in Files
  BY <1>1, <1>2, <1>9 DEF Files, v
<1>13. Whole(main)' /\ Readable(main)'
  <2>1. \A i \in Ids : since[i] \subseteq since'[i]
    BY <1>1
  <2>2. QED
    BY <1>1, <1>3, <1>8, <2>1, AppendIsWhole DEF IInv
<1>14. OpenInv'
  <2>1. Fits(main'.vectors, memory') /\ (~interrupted' => Reaches(memory'.graph, memory'))
    BY <1>1, <1>3, <1>9, <1>11, <1>12
  <2>2. ASSUME ~interrupted', ~raced', NEW i \in Ids
        PROVE  Content(main'.vectors, memory', i) \in since'[i]
    <3>1. Content(v, memory, i) \in since[i]
      BY <1>1, <1>3, <2>2
    <3>2. Content(v \o w, m, i) \in since[i]
      BY <1>6, <1>9, <1>a, <3>1
    <3>3. Content(v \o w, n, i) \in since[i]
      BY <1>6, <1>10, <1>11, <3>2
    <3>4. QED
      BY <1>1, <1>12, <3>3
  <2>3. QED
    BY <1>1, <1>3, <1>13, <2>1, <2>2 DEF OpenInv, Value
<1>15. SaveInv' /\ CopyInv'
  BY <1>1, <1>3, <1>13 DEF SaveInv, CopyInv
<1>16. ReadInv' /\ LatestInv' /\ RetireInv' /\ InstallInv' /\ ReloadInv' /\ RestInv'
  BY <1>1 DEF ReadInv, LatestInv, RetireInv, InstallInv, ReloadInv, RestInv, Serving, Swapping, Up
<1>17. QED
  BY <1>1, <1>11, <1>12, <1>14, <1>15, <1>16 DEF DataInv

LEMMA EndReplayKeepsData ==
  ASSUME IInv, EndReplay
  PROVE  DataInv' /\ main' \in Files
<1>1. /\ pc = "replay" /\ UNCHANGED <<temp, backup, memory, copy, since, raced, interrupted>>
      /\ \/ pc' = "graph" /\ main' = [main EXCEPT !.graph = Torn]
         \/ pc' = "ready" /\ main' = [main EXCEPT !.graph = @]
      /\ latest' = [i \in Ids |-> Value(memory, i)]
  BY DEF EndReplay
<1>2. /\ main \in Files /\ OpenInv /\ Whole(main) /\ Readable(main) /\ copy = None
  BY <1>1 DEF IInv, TypeOK, DataInv, OpenInv, SaveInv, CopyInv, Serving, Swapping
<1>3. /\ main' \in Files /\ main'.vectors = main.vectors
      /\ WholeFor(main', since, interrupted, raced)
      /\ pc' = "ready" => Readable(main')
  <2>1. CASE pc' = "ready" /\ main' = [main EXCEPT !.graph = @]
    BY <1>2, <2>1 DEF Whole, Files
  <2>2. CASE pc' = "graph" /\ main' = [main EXCEPT !.graph = Torn]
    <3>1. /\ main' \in Files /\ main'.vectors = main.vectors /\ main'.ids = main.ids
          /\ ~Readable(main')
      BY <1>2, <2>2 DEF Files, Readable
    <3>2. QED
      BY <1>2, <2>2, <3>1, SavingIsWhole DEF Whole
  <2>3. QED
    BY <1>1, <2>1, <2>2
<1>4. OpenInv' /\ ReadInv'
  BY <1>1, <1>2, <1>3 DEF OpenInv, ReadInv, Whole, Value
<1>5. SaveInv' /\ CopyInv'
  BY <1>1, <1>2, <1>3 DEF SaveInv, CopyInv
<1>6. LatestInv' /\ RetireInv' /\ InstallInv' /\ ReloadInv' /\ RestInv'
  BY <1>1 DEF LatestInv, RetireInv, InstallInv, ReloadInv, RestInv, Swapping, Up
<1>7. QED
  BY <1>3, <1>4, <1>5, <1>6 DEF DataInv

(* ---- Every step ---- *)

FilesType == {main, temp, backup} \subseteq Files /\ copy \in Files \cup {None}
LogType ==
  /\ sealed \subseteq Segment /\ active \in Segment
  /\ spilled \in 0..Len(active.records)
  /\ lsn \in Nat /\ checkpoint \in Nat
StageType ==
  /\ memory \in Memory \cup {None}
  /\ (memory = None) = (pc \in {"closed", "restore", "load"})
  /\ pc \in Places /\ next \in {"ready", "build"}
RestType ==
  /\ at \in Nat /\ changed \in BOOLEAN
  /\ {writes, flushes, crashes} \subseteq Nat
  /\ since \in [Ids -> SUBSET Nat] /\ latest \in [Ids -> Nat]
  /\ {raced, interrupted, halfSaved} \subseteq BOOLEAN

LEMMA TypeParts == TypeOK <=> FilesType /\ LogType /\ StageType /\ RestType
BY DEF TypeOK, FilesType, LogType, StageType, RestType

LEMMA DataKeeps ==
  ASSUME IInv, [Next]_vars
  PROVE  DataInv' /\ FilesType' /\ memory' \in Memory \cup {None}
<1>1. /\ main \in Files /\ temp \in Files /\ backup \in Files /\ copy \in Files \cup {None}
      /\ memory \in Memory \cup {None} /\ Nothing \in Files
  BY MergedIsOne DEF IInv, TypeOK
<1>2. SUFFICES /\ DataInv' /\ main' \in Files /\ temp' \in Files /\ backup' \in Files
               /\ copy' \in Files \cup {None} /\ memory' \in Memory \cup {None}
  BY DEF FilesType
<1>3. ASSUME NEW ids \in SUBSET Ids, Insert(ids)
      PROVE  /\ DataInv' /\ main' \in Files /\ temp' \in Files /\ backup' \in Files
             /\ copy' \in Files \cup {None} /\ memory' \in Memory \cup {None}
  BY <1>1, <1>3, InsertKeepsData DEF Insert, Wrote
<1>4. ASSUME NEW i \in Ids, Delete(i)
      PROVE  /\ DataInv' /\ main' \in Files /\ temp' \in Files /\ backup' \in Files
             /\ copy' \in Files \cup {None} /\ memory' \in Memory \cup {None}
  BY <1>1, <1>4, DeleteKeepsData DEF Delete, Wrote
<1>5. ASSUME NEW r \in Ahead, Replay(r)
      PROVE  /\ DataInv' /\ main' \in Files /\ temp' \in Files /\ backup' \in Files
             /\ copy' \in Files \cup {None} /\ memory' \in Memory \cup {None}
  BY <1>1, <1>5, ReplayKeepsData DEF Replay
<1>6. CASE Spill \/ LogCheckpoint \/ MarkCheckpoint
  <2>1. /\ UNCHANGED <<files, memory, copy, ghost>>
        /\ \/ pc' = pc
           \/ pc \in {"log", "mark"} /\ pc' \in {"mark", "truncate"}
    <3>1. CASE Spill
      BY <3>1 DEF Spill
    <3>2. CASE LogCheckpoint
      BY <3>2 DEF LogCheckpoint, Go
    <3>3. CASE MarkCheckpoint
      BY <3>3 DEF MarkCheckpoint, Go
    <3>4. QED
      BY <1>6, <3>1, <3>2, <3>3
  <2>2. DataInv'
    BY <2>1, QuietKeepsData
  <2>3. QED
    BY <1>1, <2>1, <2>2 DEF files
<1>7. CASE (\E after \in {"ready", "build"} : StartFlush(after)) \/ SaveGraph
  BY <1>1, <1>7, SaveKeepsData DEF StartFlush, SaveGraph
<1>8. CASE SaveIds
  BY <1>1, <1>8, SaveIdsKeepsData DEF SaveIds
<1>9. CASE Truncate
  BY <1>1, <1>9, TruncateKeepsData DEF Truncate, files
<1>10. CASE BuildNewFiles
  BY <1>1, <1>10, BuildKeepsData DEF BuildNewFiles
<1>11. CASE StartCopy
  BY <1>1, <1>11, StartCopyKeepsData DEF StartCopy, files
<1>12. CASE EndCopy
  BY <1>1, <1>12, EndCopyKeepsData DEF EndCopy
<1>13. CASE Retire
  BY <1>1, <1>13, RetireKeepsData DEF Retire
<1>14. CASE Install
  BY <1>1, <1>14, InstallKeepsData DEF Install
<1>15. CASE Reload
  BY <1>1, <1>15, ReloadKeepsData DEF Reload
<1>16. CASE Crash \/ Close
  BY <1>1, <1>16, EndKeepsData DEF Crash, Close, Ends, files
<1>17. CASE Open
  BY <1>1, <1>17, OpenKeepsData DEF Open, files
<1>18. CASE Restore
  BY <1>1, <1>18, RestoreKeepsData DEF Restore
<1>19. CASE Load
  BY <1>1, <1>19, LoadKeepsData DEF Load
<1>20. CASE EndReplay
  BY <1>1, <1>20, EndReplayKeepsData DEF EndReplay
<1>21. CASE UNCHANGED vars
  BY <1>1, <1>21, QuietKeepsData DEF vars, files
<1>22. QED
  BY <1>3, <1>4, <1>5, <1>6, <1>7, <1>8, <1>9, <1>10, <1>11, <1>12, <1>13, <1>14, <1>15,
     <1>16, <1>17, <1>18, <1>19, <1>20, <1>21 DEF Next

LEMMA LogTypeKeeps ==
  ASSUME IInv, [Next]_vars
  PROVE  LogType'
<1>1. /\ sealed \subseteq Segment /\ active \in Segment /\ spilled \in 0..Len(active.records)
      /\ lsn \in Nat /\ checkpoint \in Nat /\ Ordered /\ Numbered
      /\ pc \in Serving => lsn = LastLsn(active)
  BY DEF IInv, TypeOK, LogInv, Numbered, Up, Serving
<1>2. Len(active.records) \in Nat
  BY <1>1 DEF Segment
<1>3. ASSUME NEW insert \in SUBSET Ids, NEW delete \in SUBSET Ids, NEW value \in Nat,
             pc \in Serving, Logged(insert, delete, value)
      PROVE  /\ sealed' \subseteq Segment /\ active' \in Segment /\ lsn' \in Nat
             /\ Len(active'.records) \in Nat
             /\ Synced < SegmentSize => Len(active'.records) = Len(active.records) + 1
  <2>1. /\ sealed \subseteq Segment /\ active \in Segment /\ spilled \in 0..Len(active.records)
        /\ lsn \in Nat /\ lsn = LastLsn(active) /\ Ordered
    BY <1>1, <1>3
  <2>2. /\ sealed' \subseteq Segment /\ active' \in Segment /\ lsn' = lsn + 1
        /\ Len(active'.records) \in Nat \ {0}
        /\ Synced < SegmentSize => Len(active'.records) = Len(active.records) + 1
    BY <1>3, <2>1, LoggedKeeps
  <2>3. QED
    BY <2>1, <2>2
<1>4. ASSUME NEW insert \in SUBSET Ids, NEW delete \in SUBSET Ids, NEW value \in Nat,
             pc \in Serving, Wrote(insert, delete, value)
      PROVE  LogType'
  <2>1. /\ Logged(insert, delete, value) /\ checkpoint' = checkpoint
        /\ spilled' = IF Synced < SegmentSize THEN spilled ELSE 0
    BY <1>4 DEF Wrote
  <2>2. /\ sealed' \subseteq Segment /\ active' \in Segment /\ lsn' \in Nat
        /\ Len(active'.records) \in Nat
        /\ Synced < SegmentSize => Len(active'.records) = Len(active.records) + 1
    BY <1>3, <1>4, <2>1
  <2>3. spilled' \in 0..Len(active'.records)
    BY <1>1, <1>2, <2>1, <2>2
  <2>4. QED
    BY <1>1, <2>1, <2>2, <2>3 DEF LogType
<1>5. ASSUME NEW ids \in SUBSET Ids, Insert(ids)
      PROVE  LogType'
  <2>1. Wrote(ids, {}, writes + 1) /\ pc \in Serving /\ writes + 1 \in Nat /\ {} \in SUBSET Ids
    BY <1>5 DEF Insert, Serving, IInv, TypeOK
  <2>2. QED
    BY <1>4, <2>1
<1>6. ASSUME NEW i \in Ids, Delete(i)
      PROVE  LogType'
  <2>1. Wrote({}, {i}, 0) /\ pc \in Serving /\ 0 \in Nat /\ {} \in SUBSET Ids /\ {i} \in SUBSET Ids
    BY <1>6 DEF Delete, Serving
  <2>2. QED
    BY <1>4, <2>1
<1>7. CASE LogCheckpoint
  <2>1. /\ Logged({}, {}, 0) /\ pc \in Serving /\ 0 \in Nat /\ {} \in SUBSET Ids
        /\ checkpoint' = checkpoint /\ spilled' = Len(active'.records)
    BY <1>7 DEF LogCheckpoint, Go, Serving
  <2>2. sealed' \subseteq Segment /\ active' \in Segment /\ lsn' \in Nat /\ Len(active'.records) \in Nat
    BY <1>3, <2>1
  <2>3. QED
    BY <1>1, <2>1, <2>2 DEF LogType
<1>8. CASE Spill
  BY <1>1, <1>2, <1>8 DEF Spill, Synced, LogType
<1>9. CASE MarkCheckpoint
  <2>1. pc = "mark" /\ UNCHANGED <<sealed, active, spilled, lsn>> /\ checkpoint' = lsn - 1
    BY <1>9 DEF MarkCheckpoint, Go
  <2>2. lsn > 0
    BY <2>1 DEF IInv, LogInv, Marked
  <2>3. QED
    BY <1>1, <2>1, <2>2 DEF LogType
<1>10. CASE Truncate
  BY <1>1, <1>10 DEF Truncate, LogType
<1>11. CASE Crash \/ Close
  <2>1. UNCHANGED <<sealed, lsn, checkpoint>>
    BY <1>11 DEF Crash, Close, Ends
  <2>2. \/ active' = Surviving /\ spilled' = spilled
        \/ active' = active /\ spilled' = Len(active.records)
    BY <1>11 DEF Crash, Close, Synced
  <2>3. Surviving \in Segment /\ Len(Surviving.records) = spilled
    BY <1>1, LastOfCut, SurvivingIsCut
  <2>4. QED
    BY <1>1, <1>2, <2>1, <2>2, <2>3 DEF LogType
<1>12. CASE Load
  <2>1. UNCHANGED <<sealed, active, spilled, checkpoint>> /\ (lsn' = lsn \/ lsn' = LastLsn(active))
    BY <1>12 DEF Load
  <2>2. LastLsn(active) \in Nat
    BY <1>1, LastOfSegment
  <2>3. QED
    BY <1>1, <2>1, <2>2 DEF LogType
<1>13. ASSUME UNCHANGED wal
       PROVE  LogType'
  BY <1>1, <1>13 DEF wal, LogType
<1>14. CASE (\E after \in {"ready", "build"} : StartFlush(after)) \/ SaveGraph \/ SaveIds
  BY <1>13, <1>14 DEF StartFlush, SaveGraph, SaveIds
<1>15. CASE BuildNewFiles \/ StartCopy \/ EndCopy \/ Retire \/ Install \/ Reload
  BY <1>13, <1>15 DEF BuildNewFiles, StartCopy, EndCopy, Retire, Install, Reload
<1>16. CASE Open \/ Restore \/ (\E r \in Ahead : Replay(r)) \/ EndReplay
  BY <1>13, <1>16 DEF Open, Restore, Replay, EndReplay
<1>17. CASE UNCHANGED vars
  BY <1>13, <1>17 DEF vars
<1>18. QED
  BY <1>5, <1>6, <1>7, <1>8, <1>9, <1>10, <1>11, <1>12, <1>14, <1>15, <1>16, <1>17 DEF Next

LEMMA StageTypeKeeps ==
  ASSUME IInv, [Next]_vars
  PROVE  StageType'
<1>1. /\ memory \in Memory \cup {None}
      /\ (memory = None) = (pc \in {"closed", "restore", "load"})
      /\ pc \in Places /\ next \in {"ready", "build"}
  BY DEF IInv, TypeOK
<1>2. memory' \in Memory \cup {None} /\ \A m \in Memory : m # None
  BY DataKeeps, Marks
<1>3. CASE \E ids \in SUBSET Ids \ {{}} : Insert(ids)
  <2>1. PICK ids \in SUBSET Ids : Insert(ids)
    BY <1>3
  <2>2. pc = "ready" /\ pc' = pc /\ next' = next /\ memory' \in Memory
    BY <2>1, InsertKeepsData DEF Insert, Wrote
  <2>3. QED
    BY <1>1, <1>2, <2>2 DEF StageType
<1>4. CASE \E i \in Ids : Delete(i)
  <2>1. PICK i \in Ids : Delete(i)
    BY <1>4
  <2>2. pc = "ready" /\ pc' = pc /\ next' = next /\ memory' \in Memory
    BY <2>1, DeleteKeepsData DEF Delete, Wrote
  <2>3. QED
    BY <1>1, <1>2, <2>2 DEF StageType
<1>5. CASE \E r \in Ahead : Replay(r)
  <2>1. PICK r \in Ahead : Replay(r)
    BY <1>5
  <2>2. pc = "replay" /\ pc' = pc /\ next' = next /\ memory' \in Memory
    BY <2>1, ReplayKeepsData DEF Replay
  <2>3. QED
    BY <1>1, <1>2, <2>2 DEF StageType
<1>6. CASE Spill
  BY <1>1, <1>6 DEF Spill, StageType
<1>7. CASE \E after \in {"ready", "build"} : StartFlush(after)
  BY <1>1, <1>7 DEF StartFlush, Go, StageType, Places
<1>8. CASE SaveGraph \/ SaveIds
  BY <1>1, <1>8 DEF SaveGraph, SaveIds, Go, StageType, Places
<1>9. CASE LogCheckpoint
  BY <1>1, <1>9 DEF LogCheckpoint, Go, StageType, Places
<1>10. CASE MarkCheckpoint
  BY <1>1, <1>10 DEF MarkCheckpoint, Go, StageType, Places
<1>11. CASE Truncate
  BY <1>1, <1>11 DEF Truncate, Go, StageType, Places
<1>12. CASE BuildNewFiles
  BY <1>1, <1>12 DEF BuildNewFiles, StageType, Places
<1>13. CASE StartCopy
  BY <1>1, <1>13 DEF StartCopy, StageType, Places
<1>14. CASE EndCopy
  BY <1>1, <1>14 DEF EndCopy, Go, StageType, Places
<1>15. CASE Retire
  BY <1>1, <1>15 DEF Retire, StageType, Places
<1>16. CASE Install
  BY <1>1, <1>16 DEF Install, StageType, Places
<1>17. CASE Reload
  <2>1. pc' \in {"graph", "ready"} /\ next' \in {"ready", "build"} /\ memory' \in Memory
    BY <1>1, <1>17, ReloadKeepsData DEF Reload
  <2>2. QED
    BY <1>2, <2>1 DEF StageType, Places
<1>18. CASE Crash \/ Close
  BY <1>18 DEF Crash, Close, Ends, StageType, Places
<1>19. CASE Open
  BY <1>1, <1>19 DEF Open, Go, StageType, Places
<1>20. CASE Restore
  BY <1>1, <1>20 DEF Restore, StageType, Places
<1>21. CASE Load
  <2>1. /\ pc = "load" /\ next' = next
        /\ \/ pc' = "closed" /\ memory' = memory
           \/ pc' = "replay" /\ memory' \in Memory
    BY <1>21, LoadKeepsData DEF Load
  <2>2. QED
    BY <1>1, <1>2, <2>1 DEF StageType, Places
<1>22. CASE EndReplay
  BY <1>1, <1>22 DEF EndReplay, StageType, Places
<1>23. CASE UNCHANGED vars
  BY <1>1, <1>23 DEF vars, StageType
<1>24. QED
  BY <1>3, <1>4, <1>5, <1>6, <1>7, <1>8, <1>9, <1>10, <1>11, <1>12, <1>13, <1>14, <1>15, <1>16,
     <1>17, <1>18, <1>19, <1>20, <1>21, <1>22, <1>23 DEF Next

LEMMA ValueType ==
  ASSUME IInv, pc \in Serving \cup {"replay"}
  PROVE  \A i \in Ids : Value(memory, i) \in Nat
<1>1. main.vectors \in Seq(Vector)
  BY DEF IInv, TypeOK, DataInv, OpenInv, Whole, WholeFor, DiskFits, Files
<1>2. \A k \in DOMAIN main.vectors : main.vectors[k][2] \in Nat
  BY <1>1 DEF Vector
<1>3. QED
  BY <1>2 DEF Value, Content

LEMMA RestTypeKeeps ==
  ASSUME IInv, [Next]_vars
  PROVE  RestType'
<1>1. /\ at \in Nat /\ changed \in BOOLEAN /\ checkpoint \in Nat
      /\ writes \in Nat /\ flushes \in Nat /\ crashes \in Nat
      /\ since \in [Ids -> SUBSET Nat] /\ latest \in [Ids -> Nat]
      /\ raced \in BOOLEAN /\ interrupted \in BOOLEAN /\ halfSaved \in BOOLEAN
  BY DEF IInv, TypeOK
<1>2. ASSUME NEW insert \in SUBSET Ids, NEW delete \in SUBSET Ids, NEW value \in Nat,
             Wrote(insert, delete, value)
      PROVE  RestType'
  <2>1. /\ writes' = writes + 1
        /\ since' = [i \in Ids |-> IF i \in insert \cup delete THEN since[i] \cup {value} ELSE since[i]]
        /\ latest' = [i \in Ids |-> IF i \in insert \cup delete THEN value ELSE latest[i]]
        /\ raced' \in BOOLEAN
        /\ UNCHANGED <<at, changed, flushes, crashes, interrupted, halfSaved>>
    BY <1>2 DEF Wrote, recovery
  <2>2. since' \in [Ids -> SUBSET Nat] /\ latest' \in [Ids -> Nat]
    BY <1>1, <2>1
  <2>3. QED
    BY <1>1, <2>1, <2>2 DEF RestType
<1>3. CASE \E ids \in SUBSET Ids \ {{}} : Insert(ids)
  <2>1. PICK ids \in SUBSET Ids : Insert(ids)
    BY <1>3
  <2>2. Wrote(ids, {}, writes + 1) /\ writes + 1 \in Nat /\ {} \in SUBSET Ids
    BY <1>1, <2>1 DEF Insert
  <2>3. QED
    BY <1>2, <2>2
<1>4. CASE \E i \in Ids : Delete(i)
  <2>1. PICK i \in Ids : Delete(i)
    BY <1>4
  <2>2. Wrote({}, {i}, 0) /\ 0 \in Nat /\ {} \in SUBSET Ids /\ {i} \in SUBSET Ids
    BY <2>1 DEF Delete
  <2>3. QED
    BY <1>2, <2>2
<1>5. CASE Truncate
  <2>1. pc \in Serving /\ since' = [i \in Ids |-> {Value(memory, i)}]
    BY <1>5 DEF Truncate, Go, Serving
  <2>2. since' \in [Ids -> SUBSET Nat]
    BY <2>1, ValueType
  <2>3. QED
    BY <1>1, <1>5, <2>2 DEF Truncate, RestType, recovery, count
<1>6. CASE EndReplay
  <2>1. pc = "replay" /\ latest' = [i \in Ids |-> Value(memory, i)]
    BY <1>6 DEF EndReplay
  <2>2. latest' \in [Ids -> Nat]
    BY <2>1, ValueType
  <2>3. QED
    BY <1>1, <1>6, <2>2 DEF EndReplay, RestType, count
<1>7. CASE \E r \in Ahead : Replay(r)
  <2>1. PICK r \in Ahead : Replay(r)
    BY <1>7
  <2>2. r.lsn \in Nat
    BY RecordsType DEF Ahead, IInv, TypeOK
  <2>3. changed' \in BOOLEAN /\ at' = r.lsn /\ UNCHANGED <<count, ghost>>
    BY <2>1 DEF Replay
  <2>4. QED
    BY <1>1, <2>2, <2>3 DEF RestType, count, ghost
<1>8. CASE Load
  <2>1. UNCHANGED <<changed, count, ghost>> /\ (at' = at \/ at' = checkpoint)
    BY <1>8 DEF Load
  <2>2. QED
    BY <1>1, <2>1 DEF RestType, count, ghost
<1>9. CASE Crash \/ Close
  <2>1. /\ UNCHANGED <<writes, flushes, since, latest, raced>> /\ crashes' = crashes + 1
        /\ at' = 0 /\ changed' = FALSE
    BY <1>9 DEF Crash, Close, Ends
  <2>2. interrupted' \in BOOLEAN /\ halfSaved' \in BOOLEAN
    <3>1. CASE Crash
      BY <3>1 DEF Crash
    <3>2. CASE Close
      BY <1>1, <3>2 DEF Close
    <3>3. QED
      BY <1>9, <3>1, <3>2
  <2>a. changed' \in BOOLEAN
    BY <2>1, Zenon
  <2>b. raced' \in BOOLEAN
    BY <1>1, <2>1, Zenon
  <2>3. changed' \in BOOLEAN /\ raced' \in BOOLEAN /\ crashes' \in Nat
    BY <1>1, <2>1, <2>a, <2>b
  <2>4. {raced', interrupted', halfSaved'} \subseteq BOOLEAN
    BY <2>2, <2>3
  <2>5. at' \in Nat /\ {writes', flushes', crashes'} \subseteq Nat
        /\ since' \in [Ids -> SUBSET Nat] /\ latest' \in [Ids -> Nat]
    BY <1>1, <2>1, <2>3
  <2>6. QED
    BY <2>3, <2>4, <2>5 DEF RestType
<1>10. ASSUME UNCHANGED <<recovery, writes, crashes, ghost>>, flushes' = flushes \/ flushes' = flushes + 1
       PROVE  RestType'
  BY <1>1, <1>10 DEF RestType, recovery, ghost
<1>11. CASE Spill \/ LogCheckpoint \/ MarkCheckpoint
  BY <1>10, <1>11 DEF Spill, LogCheckpoint, MarkCheckpoint, count
<1>12. CASE (\E after \in {"ready", "build"} : StartFlush(after)) \/ SaveGraph \/ SaveIds
  BY <1>10, <1>12 DEF StartFlush, SaveGraph, SaveIds, count
<1>13. CASE BuildNewFiles \/ StartCopy \/ EndCopy
  BY <1>10, <1>13 DEF BuildNewFiles, StartCopy, EndCopy, count
<1>14. CASE Retire \/ Install \/ Reload \/ Open \/ Restore
  BY <1>10, <1>14 DEF Retire, Install, Reload, Open, Restore, count
<1>15. CASE UNCHANGED vars
  BY <1>10, <1>15 DEF vars, count
<1>16. QED
  BY <1>3, <1>4, <1>5, <1>6, <1>7, <1>8, <1>9, <1>11, <1>12, <1>13, <1>14, <1>15 DEF Next

(* ---- What an open can read ---- *)

(* Only a kill inside a save leaves a file that no open can read. *)
ReadableInv == memory = None => halfSaved \/ (Readable(main) /\ Readable(backup))

LEMMA NothingIsReadable == Readable(Nothing)
BY Marks DEF Readable, Nothing

(* A rename from one whole set of files into another leaves both whole. *)
LEMMA RenamedIsReadable ==
  ASSUME NEW to \in Files, NEW from \in Files, Readable(to), Readable(from)
  PROVE  Readable(With(to, from)) /\ Readable(Without(from))
<1>t. to.graph # Torn /\ to.ids # Torn /\ from.graph # Torn /\ from.ids # Torn
  BY DEF Readable
<1> DEFINE w == With(to, from)
           o == Without(from)
<1>1. CASE from.vectors # None
  <2>1. /\ o = [vectors |-> None, graph |-> from.graph, ids |-> from.ids]
        /\ w = [vectors |-> from.vectors, graph |-> to.graph, ids |-> to.ids]
    BY <1>1, OneRename
  <2> HIDE DEF w, o
  <2>2. w.graph # Torn /\ w.ids # Torn /\ o.graph # Torn /\ o.ids # Torn
    BY <2>1, <1>t
  <2>3. Readable(w) /\ Readable(o)
    BY <2>2 DEF Readable
  <2>4. QED
    BY <2>3 DEF w, o
<1>2. CASE from.vectors = None /\ from.graph # None
  <2>1. /\ o = [vectors |-> None, graph |-> None, ids |-> from.ids]
        /\ w = [vectors |-> to.vectors, graph |-> from.graph, ids |-> to.ids]
    BY <1>2, OneRename
  <2> HIDE DEF w, o
  <2>2. w.graph # Torn /\ w.ids # Torn /\ o.graph # Torn /\ o.ids # Torn
    BY <2>1, <1>t, Marks
  <2>3. Readable(w) /\ Readable(o)
    BY <2>2 DEF Readable
  <2>4. QED
    BY <2>3 DEF w, o
<1>3. CASE from.vectors = None /\ from.graph = None
  <2>1. /\ o = Nothing
        /\ w = [vectors |-> to.vectors, graph |-> to.graph, ids |-> from.ids]
    BY <1>3, OneRename
  <2> HIDE DEF w, o
  <2>2. w.graph # Torn /\ w.ids # Torn
    BY <2>1, <1>t
  <2>3. Readable(w) /\ Readable(o)
    BY <2>1, <2>2, NothingIsReadable DEF Readable
  <2>4. QED
    BY <2>3 DEF w, o
<1>4. QED
  BY <1>1, <1>2, <1>3

(* While the database is open and neither file is being saved, all can be read. *)
LEMMA OpenIsReadable ==
  ASSUME IInv, memory # None, pc \notin {"graph", "ids"}
  PROVE  Readable(main) /\ Readable(backup)
<1>1. /\ pc \in Places \ {"closed", "restore", "load", "graph", "ids"}
      /\ main \in Files /\ temp \in Files /\ backup \in Files
  BY DEF IInv, TypeOK
<1>2. CASE pc \in {"replay", "ready", "build", "log", "mark", "truncate"}
  <2>1. Readable(main)
    BY <1>2 DEF IInv, DataInv, SaveInv
  <2>2. backup = Nothing
    BY <1>2 DEF IInv, DataInv, OpenInv, Serving
  <2>3. QED
    BY <2>1, <2>2, NothingIsReadable
<1>3. CASE pc = "retire"
  <2>1. Readable(Merged(main, backup)) /\ Apart(main, backup)
    BY <1>3 DEF IInv, DataInv, RetireInv
  <2>2. QED
    BY <2>1, Marks DEF Readable, Merged, Apart
<1>4. CASE pc = "install"
  <2>1. Readable(backup) /\ Copy(Merged(main, temp)) /\ Apart(main, temp)
    BY <1>4 DEF IInv, DataInv, InstallInv, NewFiles
  <2>2. Merged(main, temp).graph # Torn /\ Merged(main, temp).ids # Torn
    BY <2>1, Marks DEF Copy
  <2>3. Readable(main)
    BY <2>1, <2>2, Marks DEF Readable, Merged, Apart
  <2>4. QED
    BY <2>1, <2>3
<1>5. CASE pc = "reload"
  <2>1. backup = Nothing /\ Copy(main)
    BY <1>5 DEF IInv, DataInv, ReloadInv, NewFiles
  <2>2. Readable(main)
    BY <2>1, Marks DEF Copy, Readable
  <2>3. QED
    BY <2>1, <2>2, NothingIsReadable
<1>6. QED
  BY <1>1, <1>2, <1>3, <1>4, <1>5 DEF Places

(* An open that fails or is killed tears nothing. *)
LEMMA ReadableStays ==
  ASSUME IInv, ReadableInv, memory = None, Open \/ Restore \/ Load
  PROVE  ReadableInv'
<1>1. main \in Files /\ backup \in Files
  BY DEF IInv, TypeOK
<1>2. CASE Open
  BY <1>2 DEF Open, files, ghost, ReadableInv, Readable
<1>3. CASE Restore
  <2>1. halfSaved' = halfSaved
    BY <1>3 DEF Restore, ghost
  <2>2. CASE UNCHANGED <<main, backup>>
    BY <2>1, <2>2 DEF ReadableInv, Readable
  <2>3. CASE backup' = Without(backup) /\ main' = With(main, backup)
    <3>1. Readable(main) /\ Readable(backup) => Readable(With(main, backup)) /\ Readable(Without(backup))
      BY <1>1, RenamedIsReadable
    <3>2. QED
      BY <2>1, <2>3, <3>1 DEF ReadableInv, Readable
  <2>4. QED
    BY <1>3, <2>2, <2>3 DEF Restore
<1>4. CASE Load
  <2>1. halfSaved' = halfSaved /\ backup' = Nothing /\ main'.graph = main.graph /\ main'.ids = main.ids
    BY <1>1, <1>4 DEF Load, ghost, Files
  <2>2. QED
    BY <2>1, NothingIsReadable DEF ReadableInv, Readable
<1>5. QED
  BY <1>2, <1>3, <1>4

LEMMA ReadableKeeps == IInv /\ ReadableInv /\ [Next]_vars => ReadableInv'
<1> SUFFICES ASSUME IInv, ReadableInv, [Next]_vars PROVE ReadableInv'
  OBVIOUS
<1>1. (memory = None) = (pc \in {"closed", "restore", "load"})
  BY DEF IInv, TypeOK
<1>2. CASE Crash
  <2>1. UNCHANGED <<main, backup>> /\ halfSaved' = (halfSaved \/ pc \in {"graph", "ids"})
    BY <1>2 DEF Crash, Ends, files
  <2>2. CASE memory = None
    BY <2>1, <2>2 DEF ReadableInv, Readable
  <2>3. CASE memory # None
    BY <2>1, <2>3, OpenIsReadable DEF ReadableInv, Readable
  <2>4. QED
    BY <2>2, <2>3
<1>3. CASE Close
  <2>1. UNCHANGED <<main, backup>> /\ pc = "ready"
    BY <1>3 DEF Close, Ends, files
  <2>2. QED
    BY <1>1, <2>1, OpenIsReadable DEF ReadableInv, Readable
<1>4. CASE Open \/ Restore \/ Load
  <2>1. memory = None
    BY <1>1, <1>4 DEF Open, Restore, Load, Go
  <2>2. QED
    BY <1>4, <2>1, ReadableStays
<1>5. CASE UNCHANGED vars
  BY <1>5 DEF vars, files, ghost, ReadableInv, Readable
<1>6. ASSUME Next, ~Crash, ~Close, ~Open, ~Restore, ~Load
      PROVE  memory' # None
  <2>1. pc' \notin {"closed", "restore", "load"}
    <3>1. ASSUME NEW ids, Insert(ids) PROVE pc' = "ready"
      BY <3>1 DEF Insert, Wrote
    <3>2. ASSUME NEW i, Delete(i) PROVE pc' = "ready"
      BY <3>2 DEF Delete, Wrote
    <3>3. CASE Spill
      BY <1>1, <3>3 DEF Spill
    <3>4. ASSUME NEW after, StartFlush(after) PROVE pc' = "graph"
      BY <3>4 DEF StartFlush, Go
    <3>5. CASE SaveGraph \/ SaveIds \/ LogCheckpoint \/ MarkCheckpoint
      BY <3>5 DEF SaveGraph, SaveIds, LogCheckpoint, MarkCheckpoint, Go
    <3>6. CASE Truncate
      BY <3>6 DEF Truncate, Go, IInv, TypeOK
    <3>7. CASE BuildNewFiles \/ StartCopy \/ EndCopy
      BY <3>7 DEF BuildNewFiles, StartCopy, EndCopy, Go
    <3>8. CASE Retire \/ Install \/ Reload
      BY <3>8 DEF Retire, Install, Reload
    <3>9. ASSUME NEW r, Replay(r) PROVE pc' = "replay"
      BY <3>9 DEF Replay
    <3>10. CASE EndReplay
      BY <3>10 DEF EndReplay
    <3>11. QED
      BY <1>6, <3>1, <3>2, <3>3, <3>4, <3>5, <3>6, <3>7, <3>8, <3>9, <3>10 DEF Next
  <2>2. (memory' = None) = (pc' \in {"closed", "restore", "load"})
    BY StageTypeKeeps DEF StageType
  <2>3. QED
    BY <2>1, <2>2
<1>7. QED
  BY <1>2, <1>3, <1>4, <1>5, <1>6 DEF ReadableInv

(* ---- The theorems ---- *)

LEMMA InitHolds == Init => IInv
<1> SUFFICES ASSUME Init
             PROVE  IInv
  OBVIOUS
<1> DEFINE m == [graph |-> 0, map |-> NoIds.map, deleted |-> {}]
           a == [start |-> 0, records |-> <<>>]
<1>1. NoIds.map = [i \in Ids |-> 0] /\ NoIds.deleted = {} /\ NoIds \in Index
  BY DEF NoIds, Index
<1>2. /\ main = [vectors |-> <<>>, graph |-> None, ids |-> None] /\ memory = m
      /\ temp = Nothing /\ backup = Nothing
      /\ sealed = {} /\ active = a /\ spilled = 0
  BY DEF Init
<1>3. main \in Files /\ main.vectors = <<>> /\ Len(main.vectors) = 0 /\ <<>> # None
  <2>1. <<>> \in Seq(Vector)
    OBVIOUS
  <2>2. \A v \in Seq(Vector) : v # None
    BY Marks
  <2>3. <<>> # None
    BY <2>1, <2>2
  <2>4. QED
    BY <1>2, <2>1, <2>3 DEF Files
<1>4. m \in Memory /\ m # None
  <2>1. m \in Memory
    BY <1>1 DEF Memory
  <2>2. QED
    BY <2>1, Marks
<1>5. a \in Segment /\ a.start = 0 /\ a.records = <<>> /\ Len(a.records) = 0
  <2>1. <<>> \in Seq(Record)
    OBVIOUS
  <2>2. QED
    BY <2>1 DEF Segment
<1>6. TypeOK
  <2>1. FilesType
    BY <1>2, <1>3, MergedIsOne DEF Init, FilesType
  <2>2. LogType
    BY <1>2, <1>5 DEF Init, LogType
  <2>3. StageType
    BY <1>2, <1>4 DEF Init, StageType, Places
  <2>4. RestType
    <3>1. /\ at = 0 /\ changed = FALSE /\ raced = FALSE /\ interrupted = FALSE /\ halfSaved = FALSE
          /\ writes = 0 /\ flushes = 0 /\ crashes = 0
          /\ since = [i \in Ids |-> {0}] /\ latest = [i \in Ids |-> 0]
      BY DEF Init
    <3>2. {raced, interrupted, halfSaved} \subseteq BOOLEAN /\ changed \in BOOLEAN
      BY <3>1
    <3>3. since \in [Ids -> SUBSET Nat] /\ latest \in [Ids -> Nat]
      BY <3>1
    <3>4. QED
      BY <3>1, <3>2, <3>3 DEF RestType
  <2>5. QED
    BY <2>1, <2>2, <2>3, <2>4, TypeParts
<1>7. LogInv
  <2>1. Ordered
    BY <1>2, <1>5 DEF Ordered
  <2>2. LastLsn(active) = 0 /\ LastLsn(Surviving) = 0
    <3>1. 0 \in 0..Len(a.records) /\ Len(a.records) = 0
      BY <1>5
    <3>2. LastLsn(Cut(a, 0)) = 0
      BY <1>5, <3>1, LastOfCut
    <3>3. QED
      BY <1>2, <1>5, <3>2, SurvivingIsCut DEF LastLsn
  <2>3. Numbered
    BY <2>2 DEF Init, Numbered, Up
  <2>4. \A r : r \notin Records
    <3>1. sealed \subseteq Segment /\ active \in Segment
      BY <1>2, <1>5
    <3>2. QED
      BY <1>2, <1>5, <3>1, RecordsType
  <2>5. Marked /\ Recoverable
    BY <2>4 DEF Init, Marked, Recoverable
  <2>6. QED
    BY <2>1, <2>3, <2>5 DEF LogInv
<1>8. DataInv
  <2>1. /\ DiskFits(main) /\ DiskReaches(main)
        /\ \A i \in Ids : Content(main.vectors, IndexOf(main), i) = 0
    BY <1>2, <1>3, WithoutIds
  <2>2. Whole(main)
    BY <2>1 DEF Init, Whole, WholeFor, DiskKeeps
  <2>3. /\ Fits(main.vectors, memory) /\ Reaches(memory.graph, memory)
        /\ \A i \in Ids : Value(memory, i) = 0
    BY <1>1, <1>2, <1>3 DEF Fits, Reaches, Value, Content
  <2>4. OpenInv
    BY <1>2, <2>2, <2>3 DEF Init, OpenInv
  <2>5. ReadInv /\ CopyInv
    BY <2>3 DEF Init, ReadInv, CopyInv
  <2>6. SaveInv
    BY <1>2, Marks DEF Init, SaveInv, Readable
  <2>7. LatestInv /\ RetireInv /\ InstallInv /\ ReloadInv /\ RestInv
    BY DEF Init, LatestInv, RetireInv, InstallInv, ReloadInv, RestInv, Swapping, Up
  <2>8. QED
    BY <2>4, <2>5, <2>6, <2>7 DEF DataInv
<1>9. QED
  BY <1>6, <1>7, <1>8 DEF IInv

LEMMA StepKeeps == IInv /\ [Next]_vars => IInv'
<1> SUFFICES ASSUME IInv, [Next]_vars
             PROVE  IInv'
  OBVIOUS
<1>1. DataInv' /\ FilesType'
  BY DataKeeps
<1>2. LogType' /\ StageType' /\ RestType'
  BY LogTypeKeeps, StageTypeKeeps, RestTypeKeeps
<1>3. TypeOK'
  BY <1>1, <1>2 DEF TypeOK, FilesType, LogType, StageType, RestType
<1>4. LogInv'
  BY LogKeeps DEF IInv
<1>5. QED
  BY <1>1, <1>3, <1>4 DEF IInv

(* The inductive invariant holds of every reachable state: whatever a kill leaves, the
   log and one of the two directories have what was flushed. *)
THEOREM Invariance == Spec => []IInv
<1>1. Init => IInv
  BY InitHolds
<1>2. IInv /\ [Next]_vars => IInv'
  BY StepKeeps
<1>3. QED
  BY <1>1, <1>2, PTL DEF Spec

(* Every variable keeps its type. *)
THEOREM TypeCorrect == Spec => []TypeOK
<1>1. IInv => TypeOK
  BY DEF IInv
<1>2. QED
  BY <1>1, Invariance, PTL

(* Once a flush has returned, a kill leaves files that can be read, unless it fell inside
   a later save; and what an id has after a recovery is what it had at the flush or after
   a later write, unless a kill fell inside a swap of directories or a write raced a
   background compaction (flush, load, replay_wal, recover_compaction). *)
THEOREM FlushedDataSurvivesKills == Spec => []FlushedSurvives
<1>1. Init => ReadableInv
  BY Marks DEF Init, ReadableInv, Readable, Nothing
<1>2. IInv /\ ReadableInv => FlushedSurvives
  BY DEF IInv, DataInv, OpenInv, Serving, ReadableInv, Readable, FlushedSurvives
<1>3. Spec => []ReadableInv
  BY <1>1, ReadableKeeps, Invariance, PTL DEF Spec
<1>4. QED
  BY <1>2, <1>3, Invariance, PTL

(* An open database answers with what was last written, or with what the recovery that
   opened it found, through flushes and compactions, unless a write raced a background
   compaction. *)
THEOREM ReadsAnswerTheLatestWrite == Spec => []ReadsSeeWrites
<1>1. IInv => ReadsSeeWrites
  BY DEF IInv, DataInv, ReadInv, Serving, ReadsSeeWrites
<1>2. QED
  BY <1>1, Invariance, PTL

(* What an id leads to is a vector of its own, held by the graph and not skipped as
   deleted, unless a kill fell inside a swap of directories. *)
THEOREM MappedIdsAreFound == Spec => []MappedIdsAreSearchable
<1>1. ASSUME IInv
      PROVE  MappedIdsAreSearchable
  <2>1. pc = "ready" => Fits(main.vectors, memory) /\ (~interrupted => Reaches(memory.graph, memory))
    BY <1>1 DEF IInv, DataInv, OpenInv, Serving
  <2>2. QED
    BY <2>1 DEF MappedIdsAreSearchable, Fits, Reaches
<1>2. QED
  BY <1>1, Invariance, PTL
=============================================================================
