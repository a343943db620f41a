------------------------- MODULE ProtocolEventsProofs -------------------------
(***************************************************************************)
(* Proofs about ProtocolEvents: type correctness and the three invariants  *)
(* about what a watcher receives, for any number of clients and any        *)
(* retention, replay limit and queue limit.                                *)
(*                                                                         *)
(* None of the three is inductive.  The invariant IInv adds to them        *)
(*   LogInv   - the log is an unbroken end of the history and holds the    *)
(*              newest event, for timestamps only grow along it;           *)
(*   TurnInv  - within a publication's turn only progress events follow    *)
(*              the publication's own, and                                 *)
(*   Placed, Ordered, Ahead, of each watcher - its cursor has not reached  *)
(*              a publication still to be announced, its queue is in       *)
(*              order but for publications behind a progress event of      *)
(*              theirs, and the cursor passes a queued event only when it  *)
(*              is such a publication.                                     *)
(***************************************************************************)
EXTENDS ProtocolEvents, FiniteSetTheorems, FunctionTheorems, NaturalsInduction, TLAPS

(* ---- Sets and sequences of sequence numbers ---- *)

LEMMA LeastExists ==
  ASSUME NEW S \in SUBSET Nat, S # {}
  PROVE  \E m \in S : \A s \in S : m <= s
<1> DEFINE less == OpToRel(<, Nat)
<1>1. \E m \in S : \A s \in S : <<s, m>> \notin less
  BY NatLessThanWellFounded, WFMin
<1>2. \A m, s \in Nat : <<s, m>> \notin less => ~(s < m)
  BY Zenon DEF OpToRel
<1>3. \E m \in S : \A s \in S : ~(s < m)
  BY <1>1, <1>2, Zenon
<1>4. QED
  BY <1>3

LEMMA MinIsLeast ==
  ASSUME NEW S \in SUBSET Nat, S # {}
  PROVE  Min(S) \in S /\ \A s \in S : Min(S) <= s
BY LeastExists DEF Min

LEMMA MaxIsGreatest ==
  ASSUME NEW S \in SUBSET Nat, NEW m \in S, \A s \in S : m >= s
  PROVE  Max(S) = m
<1>1. Max(S) \in S /\ \A s \in S : Max(S) >= s
  BY DEF Max
<1>2. Max(S) \in Nat /\ m \in Nat /\ Max(S) >= m /\ m >= Max(S)
  BY <1>1
<1>3. QED
  BY <1>2

(* A finite set of numbers can be put in order: each of its members goes to the
   place that counts the members up to it. *)
LEMMA OrderExists ==
  ASSUME NEW S \in SUBSET Nat, IsFiniteSet(S)
  PROVE  \E q \in [1 .. Cardinality(S) -> S] :
            \A i, j \in DOMAIN q : i < j => q[i] < q[j]
<1> DEFINE n == Cardinality(S)
           UpTo(s) == {t \in S : t <= s}
           rank == [s \in S |-> Cardinality(UpTo(s))]
<1>1. n \in Nat
  BY FS_CardinalityType
<1>2. \A s \in S : IsFiniteSet(UpTo(s)) /\ Cardinality(UpTo(s)) \in Nat /\ Cardinality(UpTo(s)) <= n
  <2>1. \A s \in S : UpTo(s) \in SUBSET S
    OBVIOUS
  <2>2. QED
    BY <2>1, FS_Subset, FS_CardinalityType
<1>3. ASSUME NEW s \in S, NEW t \in S, s < t PROVE rank[s] < rank[t]
  <2>1. UpTo(s) \in SUBSET UpTo(t) /\ t \in UpTo(t) /\ t \notin UpTo(s)
    <3>1. s \in Nat /\ t \in Nat
      OBVIOUS
    <3>2. \A u \in S : u \in Nat /\ (u <= s => u <= t)
      BY <1>3, <3>1
    <3>3. t <= t /\ ~(t <= s)
      BY <1>3, <3>1
    <3>4. QED
      BY <3>2, <3>3
  <2>2. IsFiniteSet(UpTo(t))
    BY <1>2
  <2>3. Cardinality(UpTo(s)) <= Cardinality(UpTo(t)) /\ Cardinality(UpTo(s)) # Cardinality(UpTo(t))
    BY <2>1, <2>2, FS_Subset
  <2>4. QED
    BY <1>2, <2>3
<1>4. \A s \in S : rank[s] \in 1 .. n
  <2>1. ASSUME NEW s \in S PROVE Cardinality(UpTo(s)) # 0
    BY <1>2, FS_EmptySet
  <2>2. QED
    BY <1>1, <1>2, <2>1
<1> HIDE DEF rank, n
<1>5. rank \in [S -> 1 .. n]
  BY <1>4 DEF rank
<1>6. rank \in Injection(S, 1 .. n)
  <2>1. \A s, t \in S : rank[s] = rank[t] => s = t
    <3> SUFFICES ASSUME NEW s \in S, NEW t \in S, rank[s] = rank[t], s # t PROVE FALSE
      OBVIOUS
    <3>1. s \in Nat /\ t \in Nat /\ rank[s] \in Nat
      BY <1>1, <1>4
    <3>2. s < t \/ t < s
      BY <3>1
    <3>3. QED
      BY <1>3, <3>1, <3>2
  <2>2. QED
    BY <1>5, <2>1, Fun_IsInj
<1>7. \A i \in 1 .. n : \E s \in S : rank[s] = i
  <2>1. IsFiniteSet(1 .. n) /\ Cardinality(1 .. n) = n
    BY <1>1, FS_Interval
  <2>2. rank \in Surjection(S, 1 .. n)
    BY <1>6, <2>1, FS_Injection DEF n
  <2>3. QED
    BY <2>2 DEF Surjection
<1> DEFINE q == [i \in 1 .. n |-> CHOOSE s \in S : rank[s] = i]
<1>8. \A i \in 1 .. n : q[i] \in S /\ rank[q[i]] = i
  BY <1>7
<1>9. q \in [1 .. n -> S] /\ DOMAIN q = 1 .. n
  BY <1>8
<1> HIDE DEF q
<1>10. ASSUME NEW i \in 1 .. n, NEW j \in 1 .. n, i < j PROVE q[i] < q[j]
  <2>1. q[i] \in Nat /\ q[j] \in Nat /\ q[i] # q[j]
    <3>1. q[i] \in S /\ q[j] \in S
      BY <1>8
    <3>2. q[i] # q[j]
      BY <1>8, <1>10
    <3>3. QED
      BY <3>1, <3>2
  <2>2. CASE q[j] < q[i]
    <3>1. rank[q[j]] < rank[q[i]]
      BY <1>3, <1>8, <2>2
    <3>2. QED
      BY <1>8, <1>10, <3>1
  <2>3. QED
    BY <2>1, <2>2
<1>11. QED
  BY <1>9, <1>10 DEF n

(* A replay is a sequence of the events it holds, each once, from the oldest on. *)
LEMMA InOrderIsSorted ==
  ASSUME NEW S \in SUBSET Nat, IsFiniteSet(S)
  PROVE  /\ InOrder(S) \in Seq(S) /\ Len(InOrder(S)) = Cardinality(S)
         /\ Range(InOrder(S)) = S
         /\ \A i, j \in DOMAIN InOrder(S) : i < j => InOrder(S)[i] < InOrder(S)[j]
<1> DEFINE n == Cardinality(S)
           q == InOrder(S)
<1>1. n \in Nat
  BY FS_CardinalityType
<1>2. q \in [1 .. n -> S] /\ \A i, j \in DOMAIN q : i < j => q[i] < q[j]
  BY OrderExists DEF InOrder
<1> HIDE DEF n, q
<1>3. q \in Seq(S) /\ Len(q) = n /\ DOMAIN q = 1 .. n
  BY <1>1, <1>2
<1>4. \A i, j \in 1 .. n : q[i] = q[j] => i = j
  <2> SUFFICES ASSUME NEW i \in 1 .. n, NEW j \in 1 .. n, q[i] = q[j], i < j \/ j < i PROVE FALSE
    BY <1>1
  <2>1. q[i] \in Nat
    BY <1>2
  <2>2. QED
    BY <1>2, <1>3, <2>1
<1>5. q \in Injection(1 .. n, S)
  BY <1>2, <1>4, Fun_IsInj
<1>6. IsFiniteSet(1 .. n) /\ Cardinality(1 .. n) = n
  BY <1>1, FS_Interval
<1>7. q \in Surjection(1 .. n, S)
  BY <1>5, <1>6, FS_Injection DEF n
<1>8. Range(q) = S
  BY <1>2, <1>3, <1>7 DEF Range, Surjection
<1>9. QED
  BY <1>2, <1>3, <1>8 DEF q, n

LEMMA ElementIs ==
  ASSUME NEW S, NEW q \in Seq(S)
  PROVE  \A i \in 1 .. Len(q) : q[i] \in S
OBVIOUS

LEMMA SeqWidens ==
  ASSUME NEW S, NEW T, S \subseteq T, NEW q \in Seq(S)
  PROVE  q \in Seq(T)
<1>1. Len(q) \in Nat /\ q = [i \in 1 .. Len(q) |-> q[i]] /\ \A i \in 1 .. Len(q) : q[i] \in T
  BY ElementIs
<1>2. QED
  BY <1>1

LEMMA AppendIs ==
  ASSUME NEW S, NEW q \in Seq(S), NEW e \in S
  PROVE  /\ Append(q, e) \in Seq(S) /\ Len(Append(q, e)) = Len(q) + 1
         /\ \A i \in 1 .. Len(q) : Append(q, e)[i] = q[i]
         /\ Append(q, e)[Len(q) + 1] = e
         /\ Range(Append(q, e)) = Range(q) \cup {e}
<1>1. /\ Append(q, e) \in Seq(S) /\ Len(Append(q, e)) = Len(q) + 1
      /\ \A i \in 1 .. Len(q) : Append(q, e)[i] = q[i]
      /\ Append(q, e)[Len(q) + 1] = e
  OBVIOUS
<1>2. DOMAIN Append(q, e) = (1 .. Len(q)) \cup {Len(q) + 1} /\ DOMAIN q = 1 .. Len(q)
  BY <1>1
<1>3. Range(Append(q, e)) = Range(q) \cup {e}
  BY <1>1, <1>2 DEF Range
<1>4. QED
  BY <1>1, <1>3

LEMMA TailIs ==
  ASSUME NEW S, NEW q \in Seq(S), q # <<>>
  PROVE  /\ Tail(q) \in Seq(S) /\ Len(Tail(q)) = Len(q) - 1 /\ Len(q) \in Nat \ {0}
         /\ Head(q) \in S /\ Head(q) = q[1]
         /\ \A i \in 1 .. Len(q) - 1 : Tail(q)[i] = q[i + 1]
         /\ Range(q) = Range(Tail(q)) \cup {Head(q)}
<1>1. /\ Tail(q) \in Seq(S) /\ Len(Tail(q)) = Len(q) - 1 /\ Len(q) \in Nat \ {0}
      /\ Head(q) \in S /\ Head(q) = q[1]
      /\ \A i \in 1 .. Len(q) - 1 : Tail(q)[i] = q[i + 1]
  OBVIOUS
<1>2. DOMAIN Tail(q) = 1 .. Len(q) - 1 /\ DOMAIN q = 1 .. Len(q)
  BY <1>1
<1>3. ASSUME NEW i \in 1 .. Len(q) PROVE q[i] \in Range(Tail(q)) \cup {Head(q)}
  <2>1. CASE i = 1
    BY <1>1, <2>1
  <2>2. CASE i # 1
    <3>1. i - 1 \in 1 .. Len(q) - 1 /\ Tail(q)[i - 1] = q[i]
      BY <1>1, <2>2
    <3>2. QED
      BY <1>2, <3>1 DEF Range
  <2>3. QED
    BY <2>1, <2>2
<1>4. ASSUME NEW i \in 1 .. Len(q) - 1 PROVE Tail(q)[i] \in Range(q)
  BY <1>1, <1>2 DEF Range
<1>5. Head(q) \in Range(q)
  BY <1>1, <1>2 DEF Range
<1>6. QED
  BY <1>1, <1>2, <1>3, <1>4, <1>5 DEF Range

(* ---- The invariant ---- *)

Events == 1 .. MaxSequence
Queues == queue \in [Clients -> Seq(Events)]

(* What is stored is the end of the history: events expire in the order in which
   they were appended, the newest never. *)
LogInv ==
  /\ \A s, t \in 1 .. Latest : s <= t => history[s].stamp <= history[t].stamp /\ history[t].stamp <= now
  /\ \A s \in log : s .. Latest \subseteq log
  /\ Latest > 0 => Latest \in log

(* Only its own progress events come between a publication and its announcement. *)
TurnInv ==
  /\ turn = "publishing" <=> pending # 0
  /\ pending # 0 => /\ pending \in 1 .. Latest /\ Kind(pending) = "published"
                    /\ \A t \in pending + 1 .. Latest : Kind(t) = "progress"

(* A watcher's stream, and where its cursor is. *)
Placed(w) ==
  /\ stream[w] \in {"closed", "open", "failed"}
  /\ stream[w] # "open" => queue[w] = <<>>
  /\ pc[w] \in {"connecting", "streaming"}
  /\ pc[w] = "connecting" => stream[w] # "open"
  /\ \A s \in Unread(w) : s \in since[w] + 1 .. Latest
  /\ since[w] <= cursor[w] /\ cursor[w] \in 0 .. Latest
  /\ pending # 0 => cursor[w] < pending

Overtaken(s) == Kind(s) = "published" /\ s < Latest /\ Kind(s + 1) = "progress"
Withheld(s) == Kind(s) = "published" /\ s < Latest /\ Kind(s + 1) = "failure"

(* Events are queued in order, except a publication behind its progress events. *)
Ordered(w) ==
  \A i, j \in DOMAIN queue[w] : i < j => queue[w][i] <= queue[w][j] \/ Overtaken(queue[w][j])

(* The cursor only passes a queued event when that is such a publication, and the
   watcher has received the first of its progress events. *)
Ahead(w) ==
  \A s \in Unread(w) \ seen[w] : s > cursor[w] \/ (Overtaken(s) /\ s + 1 \in seen[w])

(* NothingElseIsMissed and MissedPublicationWasOvertaken, of one watcher *)
OthersArrive(w) ==
  \A s \in since[w] + 1 .. Latest :
    Kind(s) # "published" =>
      \/ s \in seen[w] \cup Unread(w)
      \/ stream[w] # "open" /\ s > cursor[w]
PublicationsArrive(w) ==
  \A s \in since[w] + 1 .. Latest :
    (Kind(s) = "published" /\ s \notin seen[w] \cup Unread(w) \cup {pending}) =>
      \/ stream[w] # "open" /\ s > cursor[w]
      \/ Overtaken(s) /\ s + 1 \in seen[w]
      \/ Withheld(s)

Delivery(w) == Placed(w) /\ Ordered(w) /\ Ahead(w) /\ OthersArrive(w) /\ PublicationsArrive(w)

IInv == TypeOK /\ Queues /\ LogInv /\ TurnInv /\ \A w \in Watchers : Delivery(w)

(* ---- The log ---- *)

LEMMA NewestIsUpward ==
  ASSUME NEW S \in SUBSET Nat, IsFiniteSet(S), NEW s \in Newest(S), NEW t \in S, s <= t
  PROVE  t \in Newest(S)
<1> DEFINE from(u) == {v \in S : v >= u}
<1>1. s \in S /\ Cardinality(from(s)) <= RetentionCount
  BY DEF Newest
<1>2. from(t) \in SUBSET from(s) /\ from(s) \in SUBSET S
  <2>1. \A v \in S : v \in Nat /\ (v >= t => v >= s)
    BY <1>1
  <2>2. QED
    BY <2>1
<1>3. IsFiniteSet(from(s)) /\ IsFiniteSet(from(t))
  BY <1>2, FS_Subset
<1>4. Cardinality(from(t)) <= Cardinality(from(s)) /\ Cardinality(from(s)) \in Nat /\ Cardinality(from(t)) \in Nat
  BY <1>2, <1>3, FS_Subset, FS_CardinalityType
<1> HIDE DEF from
<1>5. Cardinality(from(t)) <= RetentionCount
  BY <1>1, <1>4, EventAssumption
<1>6. QED
  BY <1>5 DEF Newest, from

LEMMA NewestHasLast ==
  ASSUME NEW S \in SUBSET Nat, NEW l \in S, \A s \in S : s <= l
  PROVE  l \in Newest(S)
<1>1. {t \in S : t >= l} = {l}
  <2>1. \A t \in S : t >= l => t = l
    OBVIOUS
  <2>2. l >= l
    OBVIOUS
  <2>3. QED
    BY <2>1, <2>2
<1>2. Cardinality({l}) = 1
  BY FS_Singleton
<1>3. QED
  BY <1>1, <1>2, EventAssumption DEF Newest

(* What an append does to the history and to the log. *)
Grows == /\ Latest' \in {Latest, Latest + 1}
         /\ \A s \in 1 .. Latest : history'[s] = history[s]

LEMMA AppendKeepsLog ==
  ASSUME TypeOK, LogInv, NEW k \in Kinds, AppendEvent(k), now' = now
  PROVE  /\ LogInv' /\ Grows /\ Latest' = Latest + 1 /\ Latest' \in Events /\ Latest' <= MaxSequence
         /\ history' \in Seq([kind : Kinds, stamp : 0 .. MaxTime])
         /\ history'[Latest'].kind = k
         /\ log' \subseteq 1 .. Latest'
<1> DEFINE n == Latest + 1
           e == [kind |-> k, stamp |-> now]
           R == {s \in log \cup {n} : history'[s].stamp + RetentionAge >= now}
<1>1. Latest \in Nat /\ MaxSequence \in Nat /\ RetentionAge \in Nat /\ MaxTime \in Nat /\ now \in 0 .. MaxTime
  BY EventAssumption DEF TypeOK, Latest
<1>2. e \in [kind : Kinds, stamp : 0 .. MaxTime]
  BY <1>1
<1>3. /\ history' \in Seq([kind : Kinds, stamp : 0 .. MaxTime]) /\ Latest' = n
      /\ \A s \in 1 .. Latest : history'[s] = history[s]
      /\ history'[n] = e
  BY <1>2, AppendIs DEF AppendEvent, TypeOK, Latest
<1>4. /\ \A s \in 1 .. Latest : history[s].stamp \in Nat
      /\ \A s \in 1 .. n : history'[s].stamp \in Nat
  <2>1. \A s \in 1 .. Latest : history[s] \in [kind : Kinds, stamp : 0 .. MaxTime]
    BY ElementIs DEF TypeOK, Latest
  <2>2. \A s \in 1 .. n : history'[s] \in [kind : Kinds, stamp : 0 .. MaxTime]
    <3>1. history' \in Seq([kind : Kinds, stamp : 0 .. MaxTime]) /\ Len(history') = n
      BY <1>3 DEF Latest
    <3>2. QED
      BY <3>1, ElementIs
  <2>3. \A r \in [kind : Kinds, stamp : 0 .. MaxTime] : r.stamp \in Nat
    BY <1>1
  <2>4. QED
    BY <2>1, <2>2, <2>3
<1>5. \A s, t \in 1 .. n : s <= t => history'[s].stamp <= history'[t].stamp /\ history'[t].stamp <= now
  <2> SUFFICES ASSUME NEW s \in 1 .. n, NEW t \in 1 .. n, s <= t
               PROVE  history'[s].stamp <= history'[t].stamp /\ history'[t].stamp <= now
    OBVIOUS
  <2>1. CASE t \in 1 .. Latest
    <3>1. s \in 1 .. Latest
      BY <1>1, <2>1
    <3>2. QED
      BY <1>3, <2>1, <3>1 DEF LogInv
  <2>2. CASE t = n
    <3>1. history'[t].stamp = now
      BY <1>3, <2>2
    <3>2. CASE s = n
      BY <1>1, <1>3, <3>1, <3>2
    <3>3. CASE s \in 1 .. Latest
      <4>1. history'[s] = history[s]
        BY <1>3, <3>3
      <4>2. history[s].stamp <= now
        <5>1. s <= s
          BY <3>3
        <5>2. QED
          BY <3>3, <5>1 DEF LogInv
      <4>3. now <= now
        BY <1>1
      <4>4. QED
        BY <3>1, <4>1, <4>2, <4>3
    <3>4. QED
      BY <1>1, <3>2, <3>3
  <2>3. QED
    BY <1>1, <2>1, <2>2
<1>6. R \in SUBSET (1 .. n) /\ R \in SUBSET Nat /\ IsFiniteSet(R)
  <2>1. \A s \in log : s \in 1 .. n
    BY <1>1 DEF TypeOK
  <2>2. R \in SUBSET (1 .. n)
    BY <1>1, <2>1
  <2>3. IsFiniteSet(1 .. n) /\ 1 .. n \in SUBSET Nat
    BY <1>1, FS_Interval
  <2> HIDE DEF R, n
  <2>4. QED
    BY <2>2, <2>3, FS_Subset
<1>7. log' = Newest(R)
  BY DEF AppendEvent, Retained
<1>8. n \in R
  BY <1>1, <1>3
<1>9. n \in log' /\ log' \subseteq R
  <2>1. \A s \in R : s <= n
    BY <1>1, <1>6
  <2> HIDE DEF R, n
  <2>2. n \in Newest(R)
    BY <1>6, <1>8, <2>1, NewestHasLast
  <2>3. Newest(R) \subseteq R
    BY DEF Newest
  <2>4. QED
    BY <1>7, <2>2, <2>3
<1>10. ASSUME NEW s \in log', NEW t \in s .. n PROVE t \in log'
  <2>1. s \in R /\ s \in 1 .. n /\ t \in 1 .. n /\ s <= t /\ s \in log \cup {n}
    BY <1>1, <1>6, <1>9
  <2>2. t \in log \cup {n}
    <3>1. CASE s = n
      BY <1>1, <2>1, <3>1
    <3>2. CASE s \in log
      BY <1>1, <2>1, <3>2 DEF LogInv
    <3>3. QED
      BY <2>1, <3>1, <3>2
  <2>3. history'[s].stamp + RetentionAge >= now
    BY <2>1
  <2>4. t \in R
    BY <1>1, <1>4, <1>5, <2>1, <2>2, <2>3
  <2> HIDE DEF R
  <2>5. QED
    BY <1>6, <1>7, <2>1, <2>4, NewestIsUpward
<1> HIDE DEF R, e
<1>11. LogInv'
  BY <1>1, <1>3, <1>5, <1>9, <1>10 DEF LogInv
<1>12. n \in Events /\ n <= MaxSequence
  BY <1>1 DEF AppendEvent, Events
<1>13. QED
  BY <1>3, <1>6, <1>9, <1>11, <1>12 DEF Grows, e

(* ---- A watcher ---- *)

(* What is known of an event does not change. *)
LEMMA KindsStay ==
  ASSUME TypeOK, Grows
  PROVE  /\ Latest \in Nat /\ Latest' \in Nat /\ Latest <= Latest'
         /\ \A s \in 1 .. Latest :
              /\ Kind(s)' = Kind(s)
              /\ (Overtaken(s) => Overtaken(s)') /\ (Withheld(s) => Withheld(s)')
<1>1. Latest \in Nat /\ Latest' \in Nat /\ Latest <= Latest'
  BY DEF TypeOK, Latest, Grows
<1>2. \A s \in 1 .. Latest : Kind(s)' = Kind(s)
  BY DEF Grows, Kind
<1>3. ASSUME NEW s \in 1 .. Latest, Overtaken(s) PROVE Overtaken(s)'
  <2>1. s + 1 \in 1 .. Latest /\ s < Latest'
    BY <1>1, <1>3 DEF Overtaken
  <2>2. QED
    BY <1>2, <1>3, <2>1 DEF Overtaken
<1>4. ASSUME NEW s \in 1 .. Latest, Withheld(s) PROVE Withheld(s)'
  <2>1. s + 1 \in 1 .. Latest /\ s < Latest'
    BY <1>1, <1>4 DEF Withheld
  <2>2. QED
    BY <1>2, <1>4, <2>1 DEF Withheld
<1>5. QED
  BY <1>1, <1>2, <1>3, <1>4

(* The facts about a watcher, with the ranges they speak of. *)
LEMMA WatcherIs ==
  ASSUME IInv, NEW w \in Watchers
  PROVE  /\ w \in Clients /\ w \notin Followers
         /\ queue[w] \in Seq(Events) /\ Len(queue[w]) <= QueueLimit
         /\ since[w] \in 0 .. Latest /\ cursor[w] \in 0 .. Latest /\ since[w] <= cursor[w]
         /\ seen[w] \in SUBSET (1 .. Latest) /\ Unread(w) \in SUBSET (1 .. Latest)
         /\ Delivery(w)
<1>1. w \in Clients /\ w \notin Followers
  BY EventAssumption DEF Clients
<1>2. QED
  BY <1>1 DEF IInv, TypeOK, Queues, Delivery, Placed

(* A watcher whose stream is closed or failed, by this step or before. What it
   had queued is after its cursor, or was overtaken. *)
LEMMA DroppedKeeps ==
  ASSUME IInv, Grows, NEW w \in Watchers,
         stream'[w] \in {"closed", "failed"}, queue'[w] = <<>>, pc'[w] \in {"connecting", "streaming"},
         cursor'[w] = cursor[w], since'[w] = since[w], seen'[w] = seen[w],
         pending' \in {pending, 0, Latest'}, pending' # 0 => cursor[w] < pending'
  PROVE  Delivery(w)'
<1>0. TypeOK /\ Delivery(w) /\ since[w] \in 0 .. Latest /\ cursor[w] \in 0 .. Latest
      /\ seen[w] \in SUBSET (1 .. Latest) /\ Unread(w) \in SUBSET (1 .. Latest)
  BY WatcherIs DEF IInv
<1>1. /\ Latest \in Nat /\ Latest' \in Nat /\ Latest <= Latest' /\ Latest' \in {Latest, Latest + 1}
      /\ \A s \in 1 .. Latest : /\ Kind(s)' = Kind(s)
                              /\ (Overtaken(s) => Overtaken(s)') /\ (Withheld(s) => Withheld(s)')
  BY <1>0, KindsStay DEF Grows
<1>2. Unread(w)' = {} /\ DOMAIN queue'[w] = {}
  BY DEF Unread, Range
<1>3. Placed(w)'
  BY <1>0, <1>1, <1>2 DEF Delivery, Placed
<1>4. Ordered(w)' /\ Ahead(w)'
  BY <1>2 DEF Ordered, Ahead
<1>5. ASSUME NEW s \in since[w] + 1 .. Latest', Kind(s)' # "published", s \notin seen[w] PROVE s > cursor[w]
  <2>1. CASE s > Latest
    BY <1>0, <1>1, <2>1
  <2>2. CASE s \in since[w] + 1 .. Latest
    <3>1. s \in 1 .. Latest /\ Kind(s) # "published"
      BY <1>0, <1>1, <1>5, <2>2
    <3>2. s \in Unread(w) => s > cursor[w]
      BY <1>0, <1>5, <3>1 DEF Delivery, Ahead, Overtaken
    <3>3. QED
      BY <1>0, <1>5, <2>2, <3>1, <3>2 DEF Delivery, OthersArrive
  <2>3. QED
    BY <1>0, <1>1, <2>1, <2>2
<1>6. ASSUME NEW s \in since[w] + 1 .. Latest', Kind(s)' = "published", s \notin seen[w]
      PROVE  s > cursor[w] \/ (Overtaken(s)' /\ s + 1 \in seen[w]) \/ Withheld(s)'
  <2>1. CASE s > Latest
    BY <1>0, <1>1, <2>1
  <2>2. CASE s \in since[w] + 1 .. Latest
    <3>1. s \in 1 .. Latest /\ Kind(s) = "published"
      BY <1>0, <1>1, <1>6, <2>2
    <3>2. CASE s \in Unread(w)
      BY <1>0, <1>1, <1>6, <3>1, <3>2 DEF Delivery, Ahead
    <3>3. CASE s = pending
      BY <1>0, <3>1, <3>3 DEF Delivery, Placed
    <3>4. CASE s \notin Unread(w) /\ s # pending
      BY <1>0, <1>1, <1>6, <2>2, <3>1, <3>4 DEF Delivery, PublicationsArrive
    <3>5. QED
      BY <3>2, <3>3, <3>4
  <2>3. QED
    BY <1>0, <1>1, <2>1, <2>2
<1>7. OthersArrive(w)' /\ PublicationsArrive(w)'
  BY <1>5, <1>6 DEF OthersArrive, PublicationsArrive
<1>8. QED
  BY <1>3, <1>4, <1>7 DEF Delivery

(* A stream that a step does not touch, whatever is appended but not announced. *)
LEMMA UntouchedKeeps ==
  ASSUME IInv, Grows, NEW w \in Watchers, stream[w] = "open",
         stream'[w] = stream[w], queue'[w] = queue[w], pc'[w] = pc[w],
         cursor'[w] = cursor[w], since'[w] = since[w], seen'[w] = seen[w],
         \/ Latest' = Latest /\ pending' = pending
         \/ Latest' = Latest + 1 /\ pending = 0 /\ pending' = Latest' /\ history'[Latest'].kind = "published"
  PROVE  Delivery(w)'
<1>0. TypeOK /\ Delivery(w) /\ since[w] \in 0 .. Latest /\ cursor[w] \in 0 .. Latest
      /\ seen[w] \in SUBSET (1 .. Latest) /\ Unread(w) \in SUBSET (1 .. Latest)
      /\ queue[w] \in Seq(Events)
  BY WatcherIs DEF IInv
<1>1. /\ Latest \in Nat /\ Latest' \in Nat /\ Latest <= Latest'
      /\ \A s \in 1 .. Latest : /\ Kind(s)' = Kind(s)
                              /\ (Overtaken(s) => Overtaken(s)') /\ (Withheld(s) => Withheld(s)')
  BY <1>0, KindsStay
<1>2. Unread(w)' = Unread(w)
  BY DEF Unread
<1>3. Placed(w)'
  BY <1>0, <1>1, <1>2 DEF Delivery, Placed
<1>4. Ordered(w)'
  <2>1. \A i \in DOMAIN queue[w] : queue[w][i] \in 1 .. Latest
    BY <1>0 DEF Unread, Range
  <2>2. QED
    BY <1>0, <1>1, <2>1 DEF Delivery, Ordered
<1>5. Ahead(w)'
  BY <1>0, <1>1, <1>2 DEF Delivery, Ahead
<1>6. \A s \in since[w] + 1 .. Latest' : s \in 1 .. Latest \/ (s = Latest' /\ s = pending' /\ Kind(s)' = "published")
  BY <1>0, <1>1 DEF Kind
<1>7. OthersArrive(w)'
  BY <1>0, <1>1, <1>2, <1>6 DEF Delivery, OthersArrive
<1>8. PublicationsArrive(w)'
  BY <1>0, <1>1, <1>2, <1>6 DEF Delivery, PublicationsArrive
<1>9. QED
  BY <1>3, <1>4, <1>5, <1>7, <1>8 DEF Delivery

(* An event joins an open stream: a new one, or the publication of the turn. *)
LEMMA EnqueuedKeeps ==
  ASSUME IInv, Grows, NEW w \in Watchers, stream[w] = "open", NEW n \in Events,
         stream'[w] = "open", queue'[w] = Append(queue[w], n), pc'[w] = pc[w],
         cursor'[w] = cursor[w], since'[w] = since[w], seen'[w] = seen[w],
         \/ /\ n = Latest + 1 /\ Latest' = Latest + 1 /\ Kind(n)' # "published"
            /\ pending' = pending \/ (pending' = 0 /\ pending = Latest /\ Kind(n)' = "failure")
         \/ n = pending /\ pending # 0 /\ Latest' = Latest /\ pending' = 0
  PROVE  Delivery(w)'
<1>0. TypeOK /\ TurnInv /\ Delivery(w) /\ since[w] \in 0 .. Latest /\ cursor[w] \in 0 .. Latest
      /\ seen[w] \in SUBSET (1 .. Latest) /\ Unread(w) \in SUBSET (1 .. Latest)
      /\ queue[w] \in Seq(Events) /\ since[w] <= cursor[w]
  BY WatcherIs DEF IInv
<1>1. /\ Latest \in Nat /\ Latest' \in Nat /\ Latest <= Latest'
      /\ \A s \in 1 .. Latest : /\ Kind(s)' = Kind(s)
                              /\ (Overtaken(s) => Overtaken(s)') /\ (Withheld(s) => Withheld(s)')
  BY <1>0, KindsStay
<1>2. Unread(w)' = Unread(w) \cup {n}
  BY <1>0, AppendIs DEF Unread
<1>3. n > cursor[w] /\ n \in since[w] + 1 .. Latest'
  BY <1>0, <1>1 DEF TurnInv, Delivery, Placed
<1>4. Placed(w)'
  BY <1>0, <1>1, <1>2, <1>3 DEF Delivery, Placed
<1>5. Ordered(w)'
  <2> DEFINE q == queue[w]
             l == Len(queue[w])
  <2>1. /\ l \in Nat /\ DOMAIN q = 1 .. l /\ \A i \in 1 .. l : q[i] \in 1 .. Latest
    BY <1>0 DEF Unread, Range
  <2>2. /\ DOMAIN queue'[w] = 1 .. l + 1 /\ queue'[w][l + 1] = n
        /\ \A i \in 1 .. l : queue'[w][i] = q[i]
    BY <1>0, AppendIs
  <2>3. ASSUME NEW i \in 1 .. l + 1, NEW j \in 1 .. l + 1, i < j
        PROVE  \E t \in 1 .. Latest' : t = queue'[w][j] /\ (queue'[w][i] <= t \/ Overtaken(t)')
    <3>1. i \in 1 .. l /\ queue'[w][i] = q[i] /\ q[i] \in 1 .. Latest
      BY <2>1, <2>2, <2>3
    <3>2. CASE j \in 1 .. l
      <4>1. q[j] \in 1 .. Latest /\ queue'[w][j] = q[j] /\ (q[i] <= q[j] \/ Overtaken(q[j]))
        BY <1>0, <2>1, <2>2, <2>3, <3>1, <3>2 DEF Delivery, Ordered
      <4>2. QED
        BY <1>1, <3>1, <4>1
    <3>3. CASE j = l + 1 /\ n = Latest + 1
      BY <1>1, <1>3, <2>2, <3>1, <3>3
    <3>4. CASE j = l + 1 /\ n = pending /\ pending # 0
      <4>1. CASE q[i] <= n
        BY <1>3, <2>2, <3>1, <3>4, <4>1
      <4>2. CASE ~(q[i] <= n)
        <5>1. n \in 1 .. Latest /\ n < Latest /\ n + 1 \in pending + 1 .. Latest
          BY <1>0, <1>1, <3>1, <3>4, <4>2 DEF TurnInv
        <5>2. Overtaken(n)
          BY <1>0, <3>4, <5>1 DEF TurnInv, Overtaken
        <5>3. QED
          BY <1>1, <1>3, <2>2, <3>4, <5>1, <5>2
      <4>3. QED
        BY <4>1, <4>2
    <3>5. QED
      BY <2>1, <3>2, <3>3, <3>4
  <2>4. QED
    BY <2>2, <2>3 DEF Ordered
<1>6. Ahead(w)'
  BY <1>0, <1>1, <1>2, <1>3 DEF Delivery, Ahead
<1>7. \A s \in since[w] + 1 .. Latest' : s \in 1 .. Latest \/ s = n
  BY <1>0, <1>1
<1>8. OthersArrive(w)'
  BY <1>0, <1>1, <1>2, <1>7 DEF Delivery, OthersArrive
<1>9. ASSUME NEW s \in 1 .. Latest, s = pending, s # n, pending' # s PROVE Withheld(s)'
  <2>1. n = Latest + 1 /\ n = Latest' /\ s = Latest /\ Kind(n)' = "failure"
    BY <1>9
  <2>2. Kind(s) = "published"
    BY <1>0, <1>1, <1>9 DEF TurnInv
  <2>3. Kind(s)' = "published" /\ s < Latest' /\ s + 1 = n
    BY <1>1, <2>1, <2>2
  <2>4. QED
    BY <2>1, <2>3 DEF Withheld
<1>10. PublicationsArrive(w)'
  BY <1>0, <1>1, <1>2, <1>7, <1>9 DEF Delivery, PublicationsArrive
<1>11. QED
  BY <1>4, <1>5, <1>6, <1>8, <1>10 DEF Delivery

(* The oldest event of a queue is received. *)
LEMMA ReceivedKeeps ==
  ASSUME IInv, NEW w \in Watchers, stream[w] = "open", queue[w] # <<>>, pending = 0, pending' = 0,
         history' = history, stream'[w] = stream[w], queue'[w] = Tail(queue[w]), pc'[w] = pc[w],
         since'[w] = since[w], seen'[w] = seen[w] \cup {Head(queue[w])},
         cursor'[w] = Max({cursor[w], Head(queue[w])})
  PROVE  Delivery(w)'
<1> DEFINE q == queue[w]
           t == Head(queue[w])
           l == Len(queue[w])
<1>0. TypeOK /\ Delivery(w) /\ since[w] \in 0 .. Latest /\ cursor[w] \in 0 .. Latest
      /\ seen[w] \in SUBSET (1 .. Latest) /\ Unread(w) \in SUBSET (1 .. Latest)
      /\ queue[w] \in Seq(Events) /\ since[w] <= cursor[w] /\ Latest \in Nat /\ Latest' = Latest
  <2>1. TypeOK
    BY DEF IInv
  <2>2. Latest \in Nat /\ Latest' = Latest
    BY <2>1 DEF TypeOK, Latest
  <2>3. QED
    BY <2>1, <2>2, WatcherIs
<1>1. /\ Tail(q) \in Seq(Events) /\ Len(Tail(q)) = l - 1 /\ l \in Nat \ {0} /\ t = q[1]
      /\ \A i \in 1 .. l - 1 : Tail(q)[i] = q[i + 1]
      /\ Range(q) = Range(Tail(q)) \cup {t}
  BY <1>0, TailIs
<1>2. Unread(w) = Unread(w)' \cup {t} /\ t \in 1 .. Latest /\ t \in since[w] + 1 .. Latest
  BY <1>0, <1>1 DEF Unread, Delivery, Placed
<1>3. cursor'[w] \in 0 .. Latest /\ cursor'[w] >= cursor[w] /\ cursor'[w] >= t /\ cursor'[w] \in {cursor[w], t}
  <2>1. {cursor[w], t} \in SUBSET Nat /\ {cursor[w], t} # {}
    BY <1>0, <1>2
  <2>2. t \in Nat /\ cursor[w] \in Nat /\ cursor'[w] = Max({cursor[w], t})
    BY <1>0, <1>2
  <2> HIDE DEF t
  <2>3. /\ cursor[w] >= t => Max({cursor[w], t}) = cursor[w]
        /\ t >= cursor[w] => Max({cursor[w], t}) = t
    BY <2>1, <2>2, MaxIsGreatest
  <2>4. QED
    BY <1>0, <1>2, <2>2, <2>3
<1>4. /\ \A s : Kind(s)' = Kind(s) /\ (Overtaken(s)' <=> Overtaken(s))
      /\ DOMAIN q = 1 .. l /\ DOMAIN queue'[w] = 1 .. l - 1
      /\ \A i \in 1 .. l : q[i] \in 1 .. Latest
      /\ \A i, j \in 1 .. l : i < j => q[i] <= q[j] \/ Overtaken(q[j])
  <2>1. \A s : Kind(s)' = Kind(s) /\ (Overtaken(s)' <=> Overtaken(s))
    BY <1>0 DEF Kind, Overtaken
  <2>2. DOMAIN q = 1 .. l /\ DOMAIN queue'[w] = 1 .. l - 1
    BY <1>0, <1>1
  <2>3. \A i \in 1 .. l : q[i] \in 1 .. Latest
    BY <1>0, <2>2 DEF Unread, Range
  <2>4. QED
    BY <1>0, <2>1, <2>2, <2>3 DEF Delivery, Ordered
<1> HIDE DEF t, l, q
<1>5. Placed(w)'
  BY <1>0, <1>1, <1>2, <1>3 DEF Delivery, Placed
<1>6. Ordered(w)'
  <2>1. ASSUME NEW i \in 1 .. l - 1, NEW j \in 1 .. l - 1, i < j
        PROVE  Tail(q)[i] <= Tail(q)[j] \/ Overtaken(Tail(q)[j])
    <3>1. i + 1 \in 1 .. l /\ j + 1 \in 1 .. l /\ i + 1 < j + 1
      BY <1>1, <2>1
    <3>2. QED
      BY <1>1, <1>4, <3>1
  <2>2. \A i, j \in DOMAIN queue'[w] :
          i < j => \E s : s = queue'[w][j] /\ (queue'[w][i] <= s \/ Overtaken(s)')
    BY <1>4, <2>1 DEF q
  <2>3. QED
    BY <2>2 DEF Ordered
<1>7. ASSUME NEW s \in Unread(w)', s \notin seen[w], s # t
      PROVE  s > cursor'[w] \/ (Overtaken(s) /\ s + 1 \in seen[w] \cup {t})
  <2>1. s \in Unread(w) /\ s \in 1 .. Latest
    BY <1>0, <1>2
  <2>2. CASE ~(s > cursor[w]) \/ s > cursor'[w]
    BY <1>0, <1>7, <2>1, <2>2 DEF Delivery, Ahead
  <2>3. CASE s > cursor[w] /\ ~(s > cursor'[w])
    <3>1. s < t
      BY <1>0, <1>2, <1>3, <1>7, <2>1, <2>3
    <3>2. PICK j \in 1 .. l : q[j] = s
      BY <1>4, <2>1 DEF Unread, Range, q
    <3>3. j # 1 /\ 1 < j /\ 1 \in 1 .. l
      BY <1>1, <1>7, <3>2
    <3>4. Overtaken(s)
      BY <1>1, <1>2, <1>4, <2>1, <3>1, <3>2, <3>3
    <3>5. s + 1 \in since[w] + 1 .. Latest /\ Kind(s + 1) # "published"
      BY <1>0, <2>1, <2>3, <3>4 DEF Overtaken
    <3>6. s + 1 \in seen[w] \/ s + 1 \in Unread(w)
      BY <1>0, <3>5 DEF Delivery, OthersArrive
    <3>7. ASSUME s + 1 \in Unread(w) PROVE s + 1 = t
      <4>1. PICK k \in 1 .. l : q[k] = s + 1
        BY <1>4, <3>7 DEF Unread, Range, q
      <4>2. CASE k = 1
        BY <1>1, <4>1, <4>2
      <4>3. CASE k # 1
        <5>1. t <= s + 1
          BY <1>1, <1>4, <3>3, <3>5, <4>1, <4>3 DEF Overtaken
        <5>2. QED
          BY <1>2, <2>1, <3>1, <5>1
      <4>4. QED
        BY <4>2, <4>3
    <3>8. QED
      BY <3>4, <3>6, <3>7
  <2>4. QED
    BY <2>2, <2>3
<1>8. Ahead(w)'
  BY <1>4, <1>7 DEF Ahead, t
<1>9. \A s : s \in seen[w] \cup Unread(w) <=> s \in seen'[w] \cup Unread(w)'
  BY <1>2 DEF t
<1>10. OthersArrive(w)' /\ PublicationsArrive(w)'
  BY <1>0, <1>2, <1>4, <1>9 DEF Delivery, OthersArrive, PublicationsArrive, Withheld, Kind
<1>11. QED
  BY <1>5, <1>6, <1>8, <1>10 DEF Delivery

(* What is stored when no resync is asked for. *)
LEMMA HistoryIsStored ==
  ASSUME IInv, NEW w \in Watchers, ~MustResync(w)
  PROVE  cursor[w] + 1 .. Latest \subseteq log /\ Replay(w) = cursor[w] + 1 .. Latest
<1>1. /\ cursor[w] \in 0 .. Latest /\ Latest \in Nat /\ cursor[w] # NoCursor
      /\ log \subseteq 1 .. Latest /\ LogInv
  <2>1. cursor[w] \in 0 .. Latest /\ LogInv /\ TypeOK
    BY WatcherIs DEF IInv
  <2>2. Latest \in Nat /\ log \subseteq 1 .. Latest
    BY <2>1 DEF TypeOK, Latest
  <2>3. cursor[w] \in Nat
    BY <2>1, <2>2
  <2>4. cursor[w] # NoCursor
    BY <2>3, EventAssumption
  <2>5. QED
    BY <2>1, <2>2, <2>4
<1>2. ASSUME NEW s \in cursor[w] + 1 .. Latest PROVE s \in log
  <2>1. log \in SUBSET Nat /\ log # {}
    BY <1>1 DEF LogInv
  <2>2. Min(log) \in log /\ Min(log) \in Nat
    BY <2>1, MinIsLeast
  <2>3. ~(cursor[w] + 1 < Min(log))
    BY <1>1, <2>1 DEF MustResync
  <2>4. s \in Min(log) .. Latest
    BY <1>1, <2>2, <2>3
  <2>5. QED
    BY <1>1, <2>2, <2>4 DEF LogInv
<1>3. Replay(w) = cursor[w] + 1 .. Latest
  <2>1. \A s \in log : s \in Nat /\ s <= Latest
    BY <1>1
  <2>2. Replay(w) = {s \in log : s > cursor[w]}
    BY <1>1 DEF Replay, Wants
  <2>3. \A s \in log : s > cursor[w] <=> s \in cursor[w] + 1 .. Latest
    BY <1>1, <2>1
  <2>4. QED
    BY <1>2, <2>2, <2>3
<1>4. QED
  BY <1>2, <1>3

(* The stream opens with everything after the cursor. *)
LEMMA ConnectedKeeps ==
  ASSUME IInv, NEW w \in Watchers, pc[w] = "connecting", ~MustResync(w), pending = 0, pending' = 0,
         history' = history, stream'[w] = "open", queue'[w] = InOrder(Replay(w)), pc'[w] = "streaming",
         since'[w] = since[w], seen'[w] = seen[w], cursor'[w] = cursor[w]
  PROVE  Delivery(w)'
<1>0. TypeOK /\ Delivery(w) /\ since[w] \in 0 .. Latest /\ cursor[w] \in 0 .. Latest
      /\ since[w] <= cursor[w] /\ Latest \in Nat /\ Latest' = Latest
  <2>1. TypeOK
    BY DEF IInv
  <2>2. Latest \in Nat /\ Latest' = Latest
    BY <2>1 DEF TypeOK, Latest
  <2>3. QED
    BY <2>1, <2>2, WatcherIs
<1>1. Replay(w) = cursor[w] + 1 .. Latest /\ Replay(w) \in SUBSET Nat /\ IsFiniteSet(Replay(w))
  <2>1. cursor[w] + 1 \in Int /\ Latest \in Int
    BY <1>0
  <2>2. IsFiniteSet(cursor[w] + 1 .. Latest)
    BY <2>1, FS_Interval
  <2>3. cursor[w] + 1 .. Latest \in SUBSET Nat
    BY <1>0
  <2>4. QED
    BY <2>2, <2>3, HistoryIsStored
<1>2. /\ Unread(w)' = cursor[w] + 1 .. Latest /\ queue'[w] \in Seq(Replay(w))
      /\ \A i, j \in DOMAIN queue'[w] : i < j => queue'[w][i] < queue'[w][j]
  BY <1>1, InOrderIsSorted DEF Unread
<1>3. \A s : Kind(s)' = Kind(s) /\ (Overtaken(s)' <=> Overtaken(s))
  BY <1>0 DEF Kind, Overtaken
<1>4. Placed(w)'
  BY <1>0, <1>2 DEF Delivery, Placed
<1>5. Ordered(w)'
  <2>1. \A i \in 1 .. Len(queue'[w]) : queue'[w][i] \in Nat
    BY <1>1, <1>2, ElementIs
  <2>2. QED
    BY <1>2, <2>1 DEF Ordered
<1>6. Ahead(w)'
  BY <1>0, <1>2 DEF Ahead
<1>7. \A s \in since[w] + 1 .. Latest : s > cursor[w] => s \in Unread(w)'
  BY <1>0, <1>2
<1>8. Unread(w) = {}
  BY <1>0 DEF Delivery, Placed, Unread, Range
<1>9. OthersArrive(w)' /\ PublicationsArrive(w)'
  BY <1>0, <1>3, <1>7, <1>8 DEF Delivery, OthersArrive, PublicationsArrive, Withheld, Kind
<1>10. QED
  BY <1>4, <1>5, <1>6, <1>9 DEF Delivery

(* The watcher goes on from the newest event; everything before it is refetched. *)
LEMMA ResyncedKeeps ==
  ASSUME IInv, NEW w \in Watchers, pc[w] = "connecting", MustResync(w), pending = 0, pending' = 0,
         history' = history, stream'[w] = stream[w], queue'[w] = queue[w], pc'[w] = pc[w],
         since'[w] = Max(log), seen'[w] = seen[w], cursor'[w] = Max(log)
  PROVE  Delivery(w)' /\ Max(log) \in 0 .. Latest
<1>0. /\ Placed(w) /\ LogInv /\ Latest \in Nat /\ Latest' = Latest
      /\ log \in SUBSET (1 .. Latest)
  BY WatcherIs DEF IInv, TypeOK, Latest, Delivery
<1>1. log # {}
  <2>1. log = {} => Replay(w) = {}
    BY DEF Replay
  <2>2. ~(Cardinality({}) > ReplayLimit)
    BY FS_EmptySet, EventAssumption
  <2>3. QED
    BY <2>1, <2>2 DEF MustResync
<1>2. Max(log) = Latest
  <2>1. Latest > 0 /\ Latest \in log
    <3>1. PICK s \in log : s \in 1 .. Latest
      BY <1>0, <1>1
    <3>2. Latest > 0
      BY <1>0, <3>1
    <3>3. QED
      BY <1>0, <3>2 DEF LogInv
  <2>2. log \in SUBSET Nat /\ \A s \in log : Latest >= s
    BY <1>0
  <2>3. QED
    BY <2>1, <2>2, MaxIsGreatest
<1>3. stream[w] # "open" /\ queue[w] = <<>>
  BY <1>0 DEF Placed
<1>4. Unread(w)' = {} /\ DOMAIN queue'[w] = {}
  BY <1>3 DEF Unread, Range
<1>5. Placed(w)'
  BY <1>0, <1>2, <1>3, <1>4 DEF Placed
<1>6. Ordered(w)' /\ Ahead(w)'
  BY <1>4 DEF Ordered, Ahead
<1>7. since'[w] + 1 .. Latest' = {}
  BY <1>0, <1>2
<1>8. OthersArrive(w)' /\ PublicationsArrive(w)'
  BY <1>7 DEF OthersArrive, PublicationsArrive
<1>9. QED
  BY <1>0, <1>2, <1>5, <1>6, <1>8 DEF Delivery

(* ---- A broadcast ---- *)

(* What a broadcast does to the streams: a watcher that listens has the event
   queued, or loses its stream. *)
LEMMA BroadcastReaches ==
  ASSUME TypeOK, Queues, NEW s \in Events, BroadcastPersisted(s)
  PROVE  /\ stream' \in [Clients -> StreamStates] /\ Queues'
         /\ \A c \in Clients : Unread(c)' \subseteq Unread(c) \cup {s} /\ Len(queue'[c]) <= QueueLimit
         /\ \A w \in Watchers :
              \/ stream[w] # "open" /\ stream'[w] = stream[w] /\ queue'[w] = queue[w]
              \/ stream[w] = "open" /\ stream'[w] = "open" /\ queue'[w] = Append(queue[w], s)
              \/ stream'[w] = "failed" /\ queue'[w] = <<>>
<1>1. QueueLimit \in Nat /\ Len(<<>>) = 0 /\ Range(<<>>) = {} /\ <<>> \in Seq(Events)
  BY EventAssumption DEF Range
<1>2. ASSUME NEW c \in Clients
      PROVE  /\ stream[c] \in StreamStates /\ queue[c] \in Seq(Events) /\ Len(queue[c]) <= QueueLimit
             /\ Enqueued(c, s).stream \in StreamStates /\ Enqueued(c, s).queue \in Seq(Events)
             /\ Range(Enqueued(c, s).queue) \subseteq Range(queue[c]) \cup {s}
             /\ Len(Enqueued(c, s).queue) <= QueueLimit
  <2>1. stream[c] \in StreamStates /\ queue[c] \in Seq(Events) /\ Len(queue[c]) <= QueueLimit
    BY DEF TypeOK, Queues
  <2>2. /\ Append(queue[c], s) \in Seq(Events) /\ Len(Append(queue[c], s)) = Len(queue[c]) + 1
        /\ Range(Append(queue[c], s)) = Range(queue[c]) \cup {s} /\ Len(queue[c]) \in Nat
    BY <2>1, AppendIs
  <2>3. CASE Len(queue[c]) < QueueLimit
    <3>1. Enqueued(c, s).queue = Append(queue[c], s) /\ Enqueued(c, s).stream \in {"open", "ended"}
      BY <2>3 DEF Enqueued
    <3>2. QED
      BY <1>1, <2>1, <2>2, <2>3, <3>1 DEF StreamStates
  <2>4. CASE ~(Len(queue[c]) < QueueLimit)
    <3>1. Enqueued(c, s).queue = <<>> /\ Enqueued(c, s).stream = "failed"
      BY <2>4 DEF Enqueued
    <3>2. QED
      BY <1>1, <2>1, <3>1 DEF StreamStates
  <2>5. QED
    BY <2>3, <2>4
<1>3. ASSUME NEW c \in Clients
      PROVE  \/ stream'[c] = stream[c] /\ queue'[c] = queue[c]
             \/ stream[c] = "open" /\ stream'[c] = Enqueued(c, s).stream /\ queue'[c] = Enqueued(c, s).queue
  BY DEF BroadcastPersisted
<1>4. stream' = [c \in Clients |-> stream'[c]] /\ queue' = [c \in Clients |-> queue'[c]]
  BY DEF BroadcastPersisted
<1>5. stream' \in [Clients -> StreamStates] /\ Queues'
  <2>1. \A c \in Clients : stream'[c] \in StreamStates /\ queue'[c] \in Seq(Events)
    BY <1>2, <1>3
  <2>2. QED
    BY <1>4, <2>1 DEF Queues, Events
<1>6. \A c \in Clients : Unread(c)' \subseteq Unread(c) \cup {s} /\ Len(queue'[c]) <= QueueLimit
  BY <1>2, <1>3 DEF Unread
<1>7. ASSUME NEW w \in Watchers
      PROVE  \/ stream[w] # "open" /\ stream'[w] = stream[w] /\ queue'[w] = queue[w]
             \/ stream[w] = "open" /\ stream'[w] = "open" /\ queue'[w] = Append(queue[w], s)
             \/ stream'[w] = "failed" /\ queue'[w] = <<>>
  <2>1. w \in Clients /\ w \notin Followers
    BY EventAssumption DEF Clients
  <2>2. CASE stream[w] # "open"
    BY <2>1, <2>2 DEF BroadcastPersisted
  <2>3. CASE stream[w] = "open"
    <3>1. stream'[w] = Enqueued(w, s).stream /\ queue'[w] = Enqueued(w, s).queue
      BY <2>1, <2>3 DEF BroadcastPersisted, Wants
    <3>2. QED
      BY <2>1, <2>3, <3>1 DEF Enqueued
  <2>4. QED
    BY <2>2, <2>3
<1>8. QED
  BY <1>5, <1>6, <1>7

(* Every watcher is served by the broadcast of a new event, and by that of the
   publication of the turn. *)
LEMMA BroadcastDelivers ==
  ASSUME IInv, Grows, NEW n \in Events, BroadcastPersisted(n), UNCHANGED clientVars,
         \/ /\ n = Latest + 1 /\ Latest' = Latest + 1 /\ Kind(n)' # "published"
            /\ pending' = pending \/ (pending' = 0 /\ pending = Latest /\ Kind(n)' = "failure")
         \/ n = pending /\ pending # 0 /\ Latest' = Latest /\ pending' = 0
  PROVE  \A w \in Watchers : Delivery(w)'
<1> SUFFICES ASSUME NEW w \in Watchers PROVE Delivery(w)'
  OBVIOUS
<1>1. Placed(w)
  BY WatcherIs DEF Delivery
<1>2. UNCHANGED <<pc, cursor, since, seen>>
  BY DEF clientVars
<1>3. pc'[w] \in {"connecting", "streaming"} /\ pending' \in {pending, 0} /\ (pending' # 0 => cursor[w] < pending')
  BY <1>1, <1>2 DEF Placed
<1>4. CASE stream[w] # "open" /\ stream'[w] = stream[w] /\ queue'[w] = queue[w]
  <2>1. stream'[w] \in {"closed", "failed"} /\ queue'[w] = <<>>
    BY <1>1, <1>4 DEF Placed
  <2>2. QED
    BY <1>2, <1>3, <2>1, DroppedKeeps
<1>5. CASE stream[w] = "open" /\ stream'[w] = "open" /\ queue'[w] = Append(queue[w], n)
  BY <1>2, <1>5, EnqueuedKeeps
<1>6. CASE stream'[w] = "failed" /\ queue'[w] = <<>>
  BY <1>2, <1>3, <1>6, DroppedKeeps
<1>7. QED
  BY <1>4, <1>5, <1>6, BroadcastReaches DEF IInv

(* The queues and the clients keep their types while the history grows. *)
LEMMA ClientsStay ==
  ASSUME TypeOK, Grows, UNCHANGED clientVars
  PROVE  /\ pc' \in [Clients -> ClientStates]
         /\ cursor' \in [Clients -> (0 .. Latest') \cup {NoCursor}]
         /\ since' \in [Watchers -> 0 .. Latest']
         /\ seen' \in [Watchers -> SUBSET (1 .. Latest')]
<1>1. Latest \in Nat /\ Latest' \in Nat /\ Latest <= Latest' /\ UNCHANGED <<pc, cursor, since, seen>>
  BY KindsStay DEF clientVars
<1>2. 0 .. Latest \subseteq 0 .. Latest' /\ 1 .. Latest \subseteq 1 .. Latest'
  BY <1>1
<1>3. (0 .. Latest) \cup {NoCursor} \subseteq (0 .. Latest') \cup {NoCursor}
      /\ SUBSET (1 .. Latest) \subseteq SUBSET (1 .. Latest')
  BY <1>2
<1>4. QED
  BY <1>1, <1>2, <1>3 DEF TypeOK

(* An event of its own is appended and broadcast. *)
LEMMA BroadcastKeeps ==
  ASSUME IInv, NEW k \in {"progress", "failure", "operation", "terminal"}, Broadcast(k),
         \/ pending' = pending /\ (pending # 0 => k = "progress")
         \/ pending' = 0 /\ pending = Latest /\ k = "failure",
         UNCHANGED <<now, clientVars, faults>>,
         turn' \in {"none", "publishing", "ending"}, turn' = "publishing" <=> pending' # 0,
         left' \in 0 .. 2, run' \in {"running", "ended"}
  PROVE  IInv'
<1>0. PICK n : n = Latest + 1
  OBVIOUS
<1>1. TypeOK /\ Queues /\ LogInv /\ TurnInv /\ k \in Kinds /\ AppendEvent(k) /\ BroadcastPersisted(n)
  BY <1>0 DEF IInv, Broadcast, Kinds
<1>2. /\ LogInv' /\ Grows /\ Latest' = n /\ n \in Events /\ n <= MaxSequence
      /\ history' \in Seq([kind : Kinds, stamp : 0 .. MaxTime])
      /\ history'[n].kind = k /\ Kind(n)' = k /\ log' \subseteq 1 .. n
  <2>1. now' = now
    OBVIOUS
  <2>2. /\ LogInv' /\ Grows /\ Latest' = n /\ Latest' \in Events /\ Latest' <= MaxSequence
        /\ history' \in Seq([kind : Kinds, stamp : 0 .. MaxTime])
        /\ history'[Latest'].kind = k /\ log' \subseteq 1 .. Latest'
    BY <1>0, <1>1, <2>1, AppendKeepsLog
  <2>3. Kind(n)' = history'[n].kind
    BY DEF Kind
  <2>4. QED
    BY <1>0, <2>2, <2>3
<1>3. /\ Latest \in Nat /\ n \in Nat /\ Latest <= n
      /\ \A s \in 1 .. Latest : Kind(s)' = Kind(s)
  BY <1>0, <1>1, <1>2, KindsStay
<1>4. /\ stream' \in [Clients -> StreamStates] /\ Queues'
      /\ \A c \in Clients : Unread(c)' \subseteq Unread(c) \cup {n} /\ Len(queue'[c]) <= QueueLimit
  BY <1>0, <1>1, <1>2, BroadcastReaches
<1>5. \A c \in Clients : Unread(c)' \subseteq 1 .. n
  <2>1. 1 .. Latest \subseteq 1 .. n /\ n \in 1 .. n
    BY <1>0, <1>3
  <2>2. QED
    BY <1>0, <1>1, <1>4, <2>1 DEF TypeOK
<1>6. TypeOK'
  <2>1. now' \in 0 .. MaxTime /\ pending' \in 0 .. n /\ faults' \in 0 .. MaxFaults
    BY <1>0, <1>1, <1>3 DEF TypeOK
  <2>2. QED
    BY <1>0, <1>1, <1>2, <1>4, <1>5, <2>1, ClientsStay DEF TypeOK
<1>7. TurnInv'
  <2>1. \A t \in pending + 1 .. n : pending # 0 => t \in pending + 1 .. Latest \/ t = n
    BY <1>0, <1>1, <1>3 DEF TypeOK
  <2>2. turn' = "publishing" <=> pending' # 0
    OBVIOUS
  <2>3. ASSUME pending' # 0
        PROVE  /\ pending' \in 1 .. n /\ history'[pending'].kind = "published"
               /\ \A t \in pending' + 1 .. n : Kind(t)' = "progress"
    <3>1. pending' = pending /\ pending # 0 /\ pending \in 1 .. Latest /\ k = "progress"
      BY <1>0, <1>1, <2>3 DEF TurnInv
    <3>2. history'[pending].kind = Kind(pending)
      BY <1>2, <3>1 DEF Kind, Grows
    <3>3. pending' \in 1 .. n /\ history'[pending'].kind = "published"
      BY <1>0, <1>1, <1>3, <3>1, <3>2 DEF TurnInv
    <3>4. ASSUME NEW t \in pending' + 1 .. n PROVE history'[t].kind = "progress"
      <4>1. CASE t = n
        BY <1>2, <3>1, <4>1
      <4>2. CASE t \in pending + 1 .. Latest
        <5>1. t \in 1 .. Latest /\ Kind(t) = "progress"
          BY <1>1, <1>3, <3>1, <4>2 DEF TurnInv
        <5>2. QED
          BY <1>2, <5>1 DEF Grows, Kind
      <4>3. QED
        BY <2>1, <3>1, <4>1, <4>2
    <3>5. QED
      BY <3>3, <3>4 DEF Kind
  <2>4. QED
    BY <1>2, <2>2, <2>3 DEF TurnInv, Kind
<1>8. \A w \in Watchers : Delivery(w)'
  <2>1. /\ Kind(n)' # "published" /\ UNCHANGED clientVars
        /\ pending' = pending \/ (pending' = 0 /\ pending = Latest /\ Kind(n)' = "failure")
    BY <1>2
  <2>2. QED
    BY <1>0, <1>1, <1>2, <2>1, BroadcastDelivers
<1>9. QED
  BY <1>4, <1>2, <1>6, <1>7, <1>8 DEF IInv

(* ---- The invariant holds ---- *)

LEMMA InitIInv == Init => IInv
<1> SUFFICES ASSUME Init PROVE IInv
  OBVIOUS
<1>1. /\ history = <<>> /\ Latest = 0 /\ 1 .. Latest = {} /\ Latest <= MaxSequence
      /\ QueueLimit \in Nat /\ MaxTime \in Nat /\ MaxFaults \in Nat
  BY EventAssumption DEF Init, Latest
<1>2. \A c \in Clients : queue[c] = <<>> /\ Unread(c) = {} /\ DOMAIN queue[c] = {} /\ Len(queue[c]) = 0
  BY DEF Init, Unread, Range
<1>3. TypeOK
  <2>1. history \in Seq([kind : Kinds, stamp : 0 .. MaxTime])
    BY <1>1
  <2>2. /\ stream \in [Clients -> StreamStates] /\ pc \in [Clients -> ClientStates]
        /\ cursor \in [Clients -> (0 .. Latest) \cup {NoCursor}]
        /\ since \in [Watchers -> 0 .. Latest] /\ seen \in [Watchers -> SUBSET (1 .. Latest)]
    BY <1>1 DEF Init, StreamStates, ClientStates
  <2>3. QED
    BY <1>1, <1>2, <2>1, <2>2 DEF Init, TypeOK
<1>4. Queues
  BY DEF Init, Queues
<1>5. LogInv /\ TurnInv
  BY <1>1 DEF Init, LogInv, TurnInv
<1>6. ASSUME NEW w \in Watchers PROVE Delivery(w)
  <2>1. w \in Clients /\ queue[w] = <<>> /\ Unread(w) = {} /\ DOMAIN queue[w] = {} /\ since[w] = 0
        /\ since[w] + 1 .. Latest = {}
    BY <1>1, <1>2 DEF Init, Clients
  <2>2. Placed(w)
    BY <1>1, <2>1 DEF Init, Placed
  <2>3. QED
    BY <2>1, <2>2 DEF Delivery, Ordered, Ahead, OthersArrive, PublicationsArrive
<1>7. QED
  BY <1>3, <1>4, <1>5, <1>6 DEF IInv

(* A step that appends nothing. *)
LEMMA LogStays ==
  ASSUME IInv, history' = history
  PROVE  /\ Grows /\ Latest \in Nat /\ Latest' = Latest
         /\ \A s : Kind(s)' = Kind(s)
         /\ log' = log /\ now' = now => LogInv'
<1>1. Latest \in Nat /\ Latest' = Latest
  BY DEF IInv, TypeOK, Latest
<1>2. log' = log /\ now' = now => LogInv'
  BY <1>1 DEF IInv, LogInv
<1>3. QED
  BY <1>1, <1>2 DEF Grows, Kind

(* A step of one client: its stream, and what that client knows. *)
LEMMA ClientKeeps ==
  ASSUME IInv, NEW c \in Clients, UNCHANGED <<history, log, now, turn, pending, left, run>>,
         faults' \in 0 .. MaxFaults,
         stream' = [stream EXCEPT ![c] = stream'[c]], stream'[c] \in StreamStates,
         queue' = [queue EXCEPT ![c] = queue'[c]], queue'[c] \in Seq(Events),
         Unread(c)' \subseteq 1 .. Latest, Len(queue'[c]) <= QueueLimit,
         pc' = [pc EXCEPT ![c] = pc'[c]], pc'[c] \in ClientStates,
         cursor' = [cursor EXCEPT ![c] = cursor'[c]], cursor'[c] \in (0 .. Latest) \cup {NoCursor},
         since' \in [Watchers -> 0 .. Latest], seen' \in [Watchers -> SUBSET (1 .. Latest)],
         \A w \in Watchers : w # c => since'[w] = since[w] /\ seen'[w] = seen[w],
         c \in Watchers => Delivery(c)'
  PROVE  IInv'
<1>1. TypeOK /\ Queues /\ TurnInv
  BY DEF IInv
<1>2. Grows /\ Latest \in Nat /\ Latest' = Latest /\ LogInv' /\ \A s : Kind(s)' = Kind(s)
  BY LogStays
<1>3. \A d \in Clients : d # c => stream'[d] = stream[d] /\ queue'[d] = queue[d] /\ pc'[d] = pc[d] /\ cursor'[d] = cursor[d]
  BY <1>1 DEF TypeOK, Queues
<1>4. /\ stream' \in [Clients -> StreamStates] /\ pc' \in [Clients -> ClientStates]
      /\ cursor' \in [Clients -> (0 .. Latest) \cup {NoCursor}]
      /\ queue' \in [Clients -> Seq(Events)]
  BY <1>1 DEF TypeOK, Queues
<1>5. \A d \in Clients : Unread(d)' \subseteq 1 .. Latest /\ Len(queue'[d]) <= QueueLimit
  BY <1>1, <1>3 DEF TypeOK, Unread
<1>6. TypeOK' /\ Queues'
  BY <1>1, <1>2, <1>4, <1>5 DEF TypeOK, Queues, Events
<1>7. TurnInv'
  BY <1>1, <1>2 DEF TurnInv
<1>8. ASSUME NEW w \in Watchers PROVE Delivery(w)'
  <2>1. w \in Clients /\ Placed(w) /\ pending' = pending /\ (pending # 0 => cursor[w] < pending)
    BY <1>1, WatcherIs DEF Delivery, Placed
  <2>2. CASE w = c
    BY <2>2
  <2>3. CASE w # c /\ stream[w] = "open"
    BY <1>2, <1>3, <2>1, <2>3, UntouchedKeeps
  <2>4. CASE w # c /\ stream[w] # "open"
    <3>1. stream'[w] \in {"closed", "failed"} /\ queue'[w] = <<>> /\ pc'[w] \in {"connecting", "streaming"}
      BY <1>3, <2>1, <2>4 DEF Placed
    <3>2. cursor'[w] = cursor[w] /\ since'[w] = since[w] /\ seen'[w] = seen[w]
      BY <1>3, <2>1, <2>4
    <3>3. QED
      BY <1>2, <2>1, <3>1, <3>2, DroppedKeeps
  <2>5. QED
    BY <2>2, <2>3, <2>4
<1>9. QED
  BY <1>2, <1>6, <1>7, <1>8 DEF IInv

(* A step of the runtime that neither appends nor announces. *)
LEMMA IdleKeeps ==
  ASSUME IInv, UNCHANGED <<history, log, pending, stream, queue, clientVars, faults>>,
         now' \in 0 .. MaxTime, now <= now',
         turn' \in {"none", "publishing", "ending"}, turn' = "publishing" <=> pending # 0,
         left' \in 0 .. 2, run' \in {"running", "ended"}
  PROVE  IInv'
<1>1. TypeOK /\ Queues /\ TurnInv /\ LogInv /\ MaxTime \in Nat
  BY EventAssumption DEF IInv
<1>2. Grows /\ Latest \in Nat /\ Latest' = Latest /\ \A s : Kind(s)' = Kind(s)
  BY LogStays
<1>3. \A c \in Clients : Unread(c)' = Unread(c)
  BY DEF Unread
<1>4. UNCHANGED <<pc, cursor, since, seen>>
  BY DEF clientVars
<1>5. TypeOK' /\ Queues'
  BY <1>1, <1>2, <1>3, <1>4 DEF TypeOK, Queues, Events
<1>6. LogInv'
  <2>1. \A s \in 1 .. Latest : history[s] \in [kind : Kinds, stamp : 0 .. MaxTime]
    BY <1>1, ElementIs DEF TypeOK, Latest
  <2>2. \A r \in [kind : Kinds, stamp : 0 .. MaxTime] : r.stamp \in Nat
    BY <1>1
  <2>3. \A s \in 1 .. Latest : history[s].stamp \in Nat
    BY <2>1, <2>2
  <2>4. now \in Nat /\ now' \in Nat
    BY <1>1 DEF TypeOK
  <2>5. QED
    BY <1>1, <1>2, <2>3, <2>4 DEF LogInv
<1>7. TurnInv'
  BY <1>1, <1>2 DEF TurnInv
<1>8. ASSUME NEW w \in Watchers PROVE Delivery(w)'
  <2>1. w \in Clients /\ Placed(w) /\ pending' = pending /\ (pending # 0 => cursor[w] < pending)
    BY <1>1, WatcherIs DEF Delivery, Placed
  <2>2. CASE stream[w] = "open"
    BY <1>2, <1>4, <2>2, UntouchedKeeps
  <2>3. CASE stream[w] # "open"
    <3>1. stream'[w] \in {"closed", "failed"} /\ queue'[w] = <<>> /\ pc'[w] \in {"connecting", "streaming"}
      BY <1>4, <2>1, <2>3 DEF Placed
    <3>2. QED
      BY <1>2, <1>4, <2>1, <3>1, DroppedKeeps
  <2>4. QED
    BY <2>2, <2>3
<1>9. QED
  BY <1>5, <1>6, <1>7, <1>8 DEF IInv

LEMMA CommitPublicationKeeps == ASSUME IInv, CommitPublication PROVE IInv'
<1>0. PICK n : n = Latest + 1
  OBVIOUS
<1>1. /\ TypeOK /\ Queues /\ LogInv /\ TurnInv /\ pending = 0 /\ pending' = n
      /\ AppendEvent("published") /\ "published" \in Kinds
      /\ UNCHANGED <<now, run, stream, queue, pc, cursor, since, seen, faults>> /\ UNCHANGED clientVars
  BY <1>0 DEF IInv, TurnInv, CommitPublication, Kinds, streamVars, clientVars
<1>2. /\ LogInv' /\ Grows /\ Latest' = n /\ n \in Events /\ n <= MaxSequence
      /\ history' \in Seq([kind : Kinds, stamp : 0 .. MaxTime])
      /\ history'[n].kind = "published" /\ log' \subseteq 1 .. n
  <2>1. /\ LogInv' /\ Grows /\ Latest' = n /\ Latest' \in Events /\ Latest' <= MaxSequence
        /\ history' \in Seq([kind : Kinds, stamp : 0 .. MaxTime])
        /\ history'[Latest'].kind = "published" /\ log' \subseteq 1 .. Latest'
    BY <1>0, <1>1, AppendKeepsLog
  <2>2. QED
    BY <2>1
<1>3. Latest \in Nat /\ n \in Nat /\ Latest <= n
  BY <1>0, <1>1, <1>2, KindsStay
<1>4. \A c \in Clients : Unread(c)' \subseteq 1 .. n
  <2>1. 1 .. Latest \subseteq 1 .. n
    BY <1>3
  <2>2. \A c \in Clients : Unread(c)' = Unread(c)
    BY <1>1 DEF Unread
  <2>3. QED
    BY <1>1, <2>1, <2>2 DEF TypeOK
<1>5. TypeOK'
  <2>1. /\ now' \in 0 .. MaxTime /\ pending' \in 0 .. n /\ faults' \in 0 .. MaxFaults
        /\ turn' \in {"none", "publishing", "ending"} /\ left' \in 0 .. 2 /\ run' \in {"running", "ended"}
    BY <1>1, <1>3 DEF TypeOK, CommitPublication
  <2>2. stream' \in [Clients -> StreamStates] /\ \A c \in Clients : Len(queue'[c]) <= QueueLimit
    BY <1>1 DEF TypeOK
  <2>3. QED
    BY <1>1, <1>2, <1>4, <2>1, <2>2, ClientsStay DEF TypeOK
<1>6. Queues' /\ TurnInv'
  <2>1. n \in 1 .. n /\ n # 0 /\ n + 1 .. n = {}
    BY <1>0, <1>3
  <2>2. turn' = "publishing"
    BY DEF CommitPublication
  <2>3. QED
    BY <1>1, <1>2, <2>1, <2>2 DEF Queues, Events, TurnInv, Kind
<1>7. ASSUME NEW w \in Watchers PROVE Delivery(w)'
  <2>1. w \in Clients /\ Placed(w) /\ cursor[w] < n /\ pending' = Latest'
    BY <1>0, <1>1, <1>2, <1>3, WatcherIs DEF Delivery
  <2>2. CASE stream[w] = "open"
    BY <1>0, <1>1, <1>2, <2>1, <2>2, UntouchedKeeps
  <2>3. CASE stream[w] # "open"
    <3>1. stream'[w] \in {"closed", "failed"} /\ queue'[w] = <<>> /\ pc'[w] \in {"connecting", "streaming"}
      BY <1>1, <2>1, <2>3 DEF Placed
    <3>2. QED
      BY <1>1, <1>2, <2>1, <3>1, DroppedKeeps
  <2>4. QED
    BY <2>2, <2>3
<1>8. QED
  BY <1>2, <1>5, <1>6, <1>7 DEF IInv

LEMMA OnPublishedKeeps == ASSUME IInv, OnPublished PROVE IInv'
<1>1. /\ TypeOK /\ Queues /\ TurnInv /\ BroadcastPersisted(pending) /\ pending # 0 /\ pending' = 0 /\ turn' = "none"
      /\ UNCHANGED <<history, log, now, left, run, pc, cursor, since, seen, faults>> /\ UNCHANGED clientVars
  BY DEF IInv, TurnInv, OnPublished, logVars, clientVars
<1>2. Grows /\ Latest \in Nat /\ Latest' = Latest /\ LogInv'
  BY <1>1, LogStays
<1>3. pending \in 1 .. Latest /\ pending \in Events
  BY <1>1, <1>2, EventAssumption DEF TypeOK, TurnInv, Events
<1>4. /\ stream' \in [Clients -> StreamStates] /\ Queues'
      /\ \A c \in Clients : Unread(c)' \subseteq Unread(c) \cup {pending} /\ Len(queue'[c]) <= QueueLimit
  BY <1>1, <1>3, BroadcastReaches
<1>5. TypeOK'
  <2>1. \A c \in Clients : Unread(c)' \subseteq 1 .. Latest
    BY <1>1, <1>3, <1>4 DEF TypeOK
  <2>2. 0 \in 0 .. Latest
    BY <1>2
  <2>3. QED
    BY <1>1, <1>2, <1>4, <2>1, <2>2 DEF TypeOK
<1>6. TurnInv'
  BY <1>1 DEF TurnInv
<1>7. \A w \in Watchers : Delivery(w)'
  BY <1>1, <1>2, <1>3, BroadcastDelivers
<1>8. QED
  BY <1>2, <1>4, <1>5, <1>6, <1>7 DEF IInv

LEMMA RestartKeeps == ASSUME IInv, Restart PROVE IInv'
<1>1. /\ TypeOK /\ pending' = 0 /\ turn' = "none" /\ left' = 0
      /\ UNCHANGED <<history, log, now, run, pc, cursor, since, seen>>
      /\ queue' = [c \in Clients |-> <<>>]
      /\ stream' = [c \in Clients |-> IF Live(c) THEN "failed" ELSE stream[c]]
  BY DEF IInv, Restart, logVars, clientVars
<1>2. Grows /\ Latest \in Nat /\ Latest' = Latest /\ LogInv'
  BY <1>1, LogStays
<1>3. faults' \in 0 .. MaxFaults /\ QueueLimit \in Nat
  BY EventAssumption DEF IInv, TypeOK, Restart
<1>4. \A c \in Clients : queue'[c] = <<>> /\ Unread(c)' = {} /\ Len(queue'[c]) = 0
  BY <1>1 DEF Unread, Range
<1>5. stream' \in [Clients -> StreamStates] /\ \A c \in Clients : stream'[c] \notin {"open", "ended"}
  BY <1>1 DEF TypeOK, StreamStates, Live
<1>6. TypeOK' /\ Queues' /\ TurnInv'
  <2>1. TypeOK'
    BY <1>1, <1>2, <1>3, <1>4, <1>5 DEF TypeOK
  <2>2. Queues' /\ TurnInv'
    BY <1>1 DEF Queues, TurnInv
  <2>3. QED
    BY <2>1, <2>2
<1>7. ASSUME NEW w \in Watchers PROVE Delivery(w)'
  <2>1. /\ w \in Clients /\ pc'[w] \in {"connecting", "streaming"}
        /\ stream'[w] \in {"closed", "failed"} /\ queue'[w] = <<>>
    BY <1>1, <1>4, <1>5, WatcherIs DEF Delivery, Placed, StreamStates
  <2>2. QED
    BY <1>1, <1>2, <2>1, DroppedKeeps
<1>8. QED
  BY <1>2, <1>6, <1>7 DEF IInv

(* The facts ClientKeeps asks for, of what a step leaves alone. *)
LEMMA ClientIs ==
  ASSUME IInv, NEW c \in Clients
  PROVE  /\ stream[c] \in StreamStates /\ queue[c] \in Seq(Events) /\ Len(queue[c]) <= QueueLimit
         /\ Unread(c) \subseteq 1 .. Latest /\ pc[c] \in ClientStates
         /\ cursor[c] \in (0 .. Latest) \cup {NoCursor}
         /\ stream = [stream EXCEPT ![c] = stream[c]] /\ queue = [queue EXCEPT ![c] = queue[c]]
         /\ pc = [pc EXCEPT ![c] = pc[c]] /\ cursor = [cursor EXCEPT ![c] = cursor[c]]
         /\ since \in [Watchers -> 0 .. Latest] /\ seen \in [Watchers -> SUBSET (1 .. Latest)]
         /\ faults \in 0 .. MaxFaults /\ faults \in Nat /\ MaxFaults \in Nat
         /\ Range(<<>>) = {} /\ <<>> \in Seq(Events) /\ Len(<<>>) = 0 /\ QueueLimit \in Nat
<1>1. /\ stream \in [Clients -> StreamStates] /\ queue \in [Clients -> Seq(Events)] /\ pc \in [Clients -> ClientStates]
      /\ cursor \in [Clients -> (0 .. Latest) \cup {NoCursor}]
  BY DEF IInv, TypeOK, Queues
<1>2. /\ stream = [stream EXCEPT ![c] = stream[c]] /\ queue = [queue EXCEPT ![c] = queue[c]]
      /\ pc = [pc EXCEPT ![c] = pc[c]] /\ cursor = [cursor EXCEPT ![c] = cursor[c]]
  BY <1>1
<1>3. Range(<<>>) = {} /\ <<>> \in Seq(Events) /\ Len(<<>>) = 0
  BY DEF Range
<1>4. /\ Len(queue[c]) <= QueueLimit /\ Unread(c) \subseteq 1 .. Latest
      /\ since \in [Watchers -> 0 .. Latest] /\ seen \in [Watchers -> SUBSET (1 .. Latest)]
      /\ faults \in 0 .. MaxFaults
  BY DEF IInv, TypeOK
<1>5. QueueLimit \in Nat /\ MaxFaults \in Nat
  BY EventAssumption
<1>6. faults \in Nat
  BY <1>4, <1>5
<1>7. QED
  BY <1>1, <1>2, <1>3, <1>4, <1>5, <1>6

LEMMA ConnectKeeps == ASSUME IInv, NEW c \in Clients, Connect(c) PROVE IInv'
<1> DEFINE S == Replay(c)
<1>1. /\ UNCHANGED <<history, log, now, turn, pending, left, run, cursor, since, seen, faults>>
      /\ turn = "none" /\ pc[c] = "connecting" /\ ~MustResync(c)
      /\ stream' = [stream EXCEPT ![c] = Replayed(c).stream]
      /\ queue' = [queue EXCEPT ![c] = Replayed(c).queue]
      /\ pc' = [pc EXCEPT ![c] = "streaming"]
  BY DEF Connect, logVars, publicationVars
<1>2. stream'[c] = Replayed(c).stream /\ queue'[c] = Replayed(c).queue /\ pc'[c] = "streaming"
  BY <1>1 DEF IInv, TypeOK, Queues
<1>3. pending = 0 /\ log \subseteq 1 .. Latest /\ Latest \in Nat /\ Latest <= MaxSequence /\ MaxSequence \in Nat
  BY <1>1, EventAssumption DEF IInv, TypeOK, TurnInv, Latest
<1>4. S \in SUBSET (1 .. Latest) /\ S \in SUBSET Nat /\ S \in SUBSET Events /\ IsFiniteSet(S)
  <2>1. S \in SUBSET (1 .. Latest)
    BY <1>3 DEF Replay
  <2>2. IsFiniteSet(1 .. Latest) /\ 1 .. Latest \in SUBSET Nat /\ 1 .. Latest \in SUBSET Events
    BY <1>3, FS_Interval DEF Events
  <2> HIDE DEF S
  <2>3. QED
    BY <2>1, <2>2, FS_Subset
<1> HIDE DEF S
<1>5. /\ InOrder(S) \in Seq(S) /\ Len(InOrder(S)) = Cardinality(S) /\ Range(InOrder(S)) = S
      /\ Cardinality(S) \in Nat
  BY <1>4, InOrderIsSorted, FS_CardinalityType
<1>6. InOrder(S) \in Seq(Events)
  BY <1>4, <1>5, SeqWidens
<1>7. /\ stream'[c] \in StreamStates /\ queue'[c] \in Seq(Events) /\ Unread(c)' \subseteq 1 .. Latest
      /\ Len(queue'[c]) <= QueueLimit
      /\ \/ stream'[c] = "failed" /\ queue'[c] = <<>>
         \/ queue'[c] = InOrder(S) /\ (c \notin Followers => stream'[c] = "open")
  <2>1. QueueLimit \in Nat /\ Range(<<>>) = {} /\ <<>> \in Seq(Events) /\ Len(<<>>) = 0
    BY ClientIs
  <2>2. CASE Cardinality(S) > QueueLimit
    <3>1. stream'[c] = "failed" /\ queue'[c] = <<>>
      BY <1>2, <2>2 DEF Replayed, S
    <3>2. QED
      BY <2>1, <3>1 DEF StreamStates, Unread
  <2>3. CASE ~(Cardinality(S) > QueueLimit)
    <3>1. /\ stream'[c] \in {"open", "ended"} /\ queue'[c] = InOrder(S)
          /\ c \notin Followers => stream'[c] = "open"
      BY <1>2, <2>3 DEF Replayed, S, CloseAfterReplay
    <3>2. Unread(c)' = S /\ stream'[c] \in StreamStates
      BY <1>5, <3>1 DEF Unread, StreamStates
    <3>3. Len(queue'[c]) <= QueueLimit
      BY <1>5, <2>1, <2>3, <3>1
    <3>4. QED
      BY <1>4, <1>6, <3>1, <3>2, <3>3
  <2>4. QED
    BY <2>2, <2>3
<1>8. ASSUME c \in Watchers PROVE Delivery(c)'
  <2>1. c \notin Followers
    BY <1>8, WatcherIs
  <2>2. CASE stream'[c] = "failed" /\ queue'[c] = <<>>
    BY <1>1, <1>2, <1>3, <1>8, <2>2, DroppedKeeps, LogStays
  <2>3. CASE queue'[c] = InOrder(S) /\ stream'[c] = "open"
    BY <1>1, <1>2, <1>3, <1>8, <2>3, ConnectedKeeps DEF S
  <2>4. QED
    BY <1>7, <2>1, <2>2, <2>3
<1>9. QED
  <2>1. /\ stream' = [stream EXCEPT ![c] = stream'[c]] /\ queue' = [queue EXCEPT ![c] = queue'[c]]
        /\ pc' = [pc EXCEPT ![c] = pc'[c]] /\ pc'[c] \in ClientStates
        /\ cursor' = [cursor EXCEPT ![c] = cursor'[c]] /\ cursor'[c] \in (0 .. Latest) \cup {NoCursor}
    BY <1>1, <1>2, ClientIs DEF ClientStates
  <2>2. /\ since' \in [Watchers -> 0 .. Latest] /\ seen' \in [Watchers -> SUBSET (1 .. Latest)]
        /\ faults' \in 0 .. MaxFaults
    BY <1>1, ClientIs
  <2>3. QED
    BY <1>1, <1>7, <1>8, <2>1, <2>2, ClientKeeps

LEMMA ResyncKeeps == ASSUME IInv, NEW c \in Clients, Resync(c) PROVE IInv'
<1>1. /\ UNCHANGED <<history, log, now, turn, pending, left, run, stream, queue, seen, faults>>
      /\ turn = "none" /\ pc[c] = "connecting" /\ MustResync(c)
  BY DEF Resync, logVars, publicationVars, streamVars
<1>2. pending = 0
  BY <1>1 DEF IInv, TurnInv
<1>3. Unread(c)' = Unread(c) /\ stream'[c] = stream[c] /\ queue'[c] = queue[c]
  BY <1>1 DEF Unread
<1>4. CASE c \in Watchers
  <2>1. /\ cursor' = [cursor EXCEPT ![c] = Max(log)] /\ since' = [since EXCEPT ![c] = Max(log)] /\ pc' = pc
    BY <1>4 DEF Resync
  <2>2. cursor'[c] = Max(log) /\ since'[c] = Max(log)
    BY <1>4, <2>1, ClientIs DEF IInv, TypeOK
  <2>3. Delivery(c)' /\ Max(log) \in 0 .. Latest
    BY <1>1, <1>2, <1>3, <1>4, <2>1, <2>2, ResyncedKeeps
  <2>4. /\ since' \in [Watchers -> 0 .. Latest]
        /\ \A w \in Watchers : w # c => since'[w] = since[w] /\ seen'[w] = seen[w]
    BY <1>1, <2>1, <2>3, ClientIs
  <2>5. QED
    BY <1>1, <1>3, <2>1, <2>2, <2>3, <2>4, ClientIs, ClientKeeps
<1>5. CASE c \notin Watchers
  <2>1. pc' = [pc EXCEPT ![c] = "reading"] /\ UNCHANGED <<cursor, since>>
    BY <1>5 DEF Resync
  <2>2. pc' = [pc EXCEPT ![c] = pc'[c]] /\ pc'[c] \in ClientStates
    BY <2>1, ClientIs DEF IInv, TypeOK, ClientStates
  <2>3. QED
    BY <1>1, <1>3, <1>5, <2>1, <2>2, ClientIs, ClientKeeps
<1>6. QED
  BY <1>4, <1>5

LEMMA ReceiveKeeps == ASSUME IInv, NEW c \in Clients, Receive(c) PROVE IInv'
<1>0. PICK s : s = Head(queue[c])
  OBVIOUS
<1>1. /\ UNCHANGED <<history, log, now, turn, pending, left, run, stream, since, faults>>
      /\ turn = "none" /\ Live(c) /\ queue[c] # <<>>
      /\ seen' = [w \in Watchers |-> IF w = c THEN seen[w] \cup {s} ELSE seen[w]]
      /\ cursor' = [cursor EXCEPT ![c] = IF @ = NoCursor THEN s ELSE Max({@, s})]
      /\ queue' = [queue EXCEPT ![c] = Tail(@)]
      /\ pc' = [pc EXCEPT ![c] = IF c \in Followers THEN "refreshing" ELSE @]
  BY <1>0 DEF Receive, logVars, publicationVars
<1>2. /\ pending = 0 /\ Latest \in Nat /\ queue[c] \in Seq(Events) /\ Len(queue[c]) <= QueueLimit
      /\ Unread(c) \subseteq 1 .. Latest /\ QueueLimit \in Nat /\ cursor[c] \in (0 .. Latest) \cup {NoCursor}
      /\ NoCursor \notin Nat
  <2>1. TypeOK /\ TurnInv /\ NoCursor \notin Nat /\ QueueLimit \in Nat
    BY EventAssumption DEF IInv
  <2>2. pending = 0 /\ Latest \in Nat
    BY <1>1, <2>1 DEF TypeOK, TurnInv, Latest
  <2>3. queue[c] \in Seq(Events) /\ Len(queue[c]) <= QueueLimit /\ Unread(c) \subseteq 1 .. Latest
    BY <1>1, ClientIs DEF IInv
  <2>4. cursor[c] \in (0 .. Latest) \cup {NoCursor}
    BY <2>1 DEF TypeOK
  <2>5. QED
    BY <2>1, <2>2, <2>3, <2>4
<1>3. /\ Tail(queue[c]) \in Seq(Events) /\ Len(Tail(queue[c])) = Len(queue[c]) - 1 /\ Len(queue[c]) \in Nat
      /\ Range(queue[c]) = Range(Tail(queue[c])) \cup {s}
  BY <1>0, <1>1, <1>2, TailIs
<1>4. /\ queue'[c] = Tail(queue[c]) /\ stream'[c] = stream[c]
      /\ pc'[c] = IF c \in Followers THEN "refreshing" ELSE pc[c]
      /\ cursor'[c] = IF cursor[c] = NoCursor THEN s ELSE Max({cursor[c], s})
  BY <1>1 DEF IInv, TypeOK, Queues
<1>5. /\ queue'[c] \in Seq(Events) /\ Len(queue'[c]) <= QueueLimit /\ Unread(c)' \subseteq 1 .. Latest
      /\ s \in 1 .. Latest
  BY <1>2, <1>3, <1>4 DEF Unread
<1>6. cursor'[c] \in (0 .. Latest) \cup {NoCursor}
  <2>1. CASE cursor[c] = NoCursor
    BY <1>2, <1>4, <1>5, <2>1
  <2>2. CASE cursor[c] \in 0 .. Latest
    <3>1. {cursor[c], s} \in SUBSET Nat /\ cursor[c] \in Nat /\ s \in Nat
      BY <1>2, <1>5, <2>2
    <3>2. Max({cursor[c], s}) \in {cursor[c], s}
      <4>1. CASE cursor[c] >= s
        BY <3>1, <4>1, MaxIsGreatest
      <4>2. CASE s >= cursor[c]
        BY <3>1, <4>2, MaxIsGreatest
      <4>3. QED
        BY <3>1, <4>1, <4>2
    <3>3. QED
      BY <1>2, <1>4, <1>5, <2>2, <3>2
  <2>3. QED
    BY <1>2, <2>1, <2>2
<1>7. /\ seen' \in [Watchers -> SUBSET (1 .. Latest)] /\ since' \in [Watchers -> 0 .. Latest]
      /\ \A w \in Watchers : w # c => since'[w] = since[w] /\ seen'[w] = seen[w]
  <2>1. \A w \in Watchers : seen'[w] \in SUBSET (1 .. Latest) /\ (w # c => seen'[w] = seen[w])
    BY <1>1, <1>5, ClientIs
  <2>2. seen' = [w \in Watchers |-> seen'[w]]
    BY <1>1
  <2>3. QED
    BY <1>1, <2>1, <2>2, ClientIs
<1>8. ASSUME c \in Watchers PROVE Delivery(c)'
  <2>1. /\ c \notin Followers /\ stream[c] = "open" /\ cursor[c] # NoCursor
    <3>1. Placed(c) /\ c \notin Followers /\ cursor[c] \in 0 .. Latest
      BY <1>8, WatcherIs DEF Delivery
    <3>2. QED
      BY <1>1, <1>2, <3>1 DEF Placed, Live
  <2>2. seen'[c] = seen[c] \cup {Head(queue[c])} /\ cursor'[c] = Max({cursor[c], Head(queue[c])}) /\ pc'[c] = pc[c]
    BY <1>0, <1>1, <1>4, <1>8, <2>1
  <2>3. QED
    BY <1>1, <1>2, <1>4, <1>8, <2>1, <2>2, ReceivedKeeps
<1>9. QED
  <2>1. /\ stream' = [stream EXCEPT ![c] = stream'[c]] /\ stream'[c] \in StreamStates
        /\ queue' = [queue EXCEPT ![c] = queue'[c]]
        /\ pc' = [pc EXCEPT ![c] = pc'[c]] /\ pc'[c] \in ClientStates
        /\ cursor' = [cursor EXCEPT ![c] = cursor'[c]] /\ faults' \in 0 .. MaxFaults
    BY <1>1, <1>4, ClientIs DEF ClientStates
  <2>2. QED
    BY <1>1, <1>5, <1>6, <1>7, <1>8, <2>1, ClientKeeps

LEMMA DisconnectKeeps == ASSUME IInv, NEW c \in Clients, Disconnect(c) PROVE IInv'
<1>1. /\ UNCHANGED <<history, log, now, turn, pending, left, run, pc, cursor, since, seen>>
      /\ turn = "none" /\ faults < MaxFaults /\ faults' = faults + 1
      /\ stream' = [stream EXCEPT ![c] = "failed"] /\ queue' = [queue EXCEPT ![c] = <<>>]
  BY DEF Disconnect, logVars, publicationVars, clientVars
<1>2. pending = 0 /\ stream'[c] = "failed" /\ queue'[c] = <<>>
  BY <1>1 DEF IInv, TypeOK, Queues, TurnInv
<1>3. /\ stream' = [stream EXCEPT ![c] = stream'[c]] /\ stream'[c] \in StreamStates
      /\ queue' = [queue EXCEPT ![c] = queue'[c]] /\ queue'[c] \in Seq(Events)
      /\ Unread(c)' \subseteq 1 .. Latest /\ Len(queue'[c]) <= QueueLimit
  <2>1. Unread(c)' = {} /\ Len(queue'[c]) = 0 /\ queue'[c] \in Seq(Events)
    BY <1>2, ClientIs DEF Unread
  <2>2. Unread(c)' \subseteq 1 .. Latest /\ Len(queue'[c]) <= QueueLimit
    BY <2>1, ClientIs
  <2>3. stream' = [stream EXCEPT ![c] = stream'[c]] /\ queue' = [queue EXCEPT ![c] = queue'[c]]
    BY <1>1, <1>2
  <2>4. stream'[c] \in StreamStates
    BY <1>2 DEF StreamStates
  <2>5. QED
    BY <2>1, <2>2, <2>3, <2>4
<1>4. ASSUME c \in Watchers PROVE Delivery(c)'
  <2>1. pc[c] \in {"connecting", "streaming"}
    BY <1>4, WatcherIs DEF Delivery, Placed
  <2>2. QED
    BY <1>1, <1>2, <1>4, <2>1, DroppedKeeps, LogStays
<1>5. faults' \in 0 .. MaxFaults
  BY <1>1, ClientIs
<1>6. QED
  BY <1>1, <1>3, <1>4, <1>5, ClientIs, ClientKeeps

LEMMA StreamEndsKeeps == ASSUME IInv, NEW c \in Clients, StreamEnds(c) PROVE IInv'
<1>1. /\ UNCHANGED <<history, log, now, turn, pending, left, run, queue, cursor, since, seen, faults>>
      /\ stream[c] \in {"failed", "ended"} /\ stream' = [stream EXCEPT ![c] = "closed"]
      /\ pc' = [pc EXCEPT ![c] = IF c \in Followers THEN "reading" ELSE "connecting"]
  BY DEF StreamEnds, logVars, publicationVars
<1>2. stream'[c] = "closed" /\ pc'[c] = (IF c \in Followers THEN "reading" ELSE "connecting")
  BY <1>1 DEF IInv, TypeOK
<1>3. /\ stream' = [stream EXCEPT ![c] = stream'[c]] /\ stream'[c] \in StreamStates
      /\ pc' = [pc EXCEPT ![c] = pc'[c]] /\ pc'[c] \in ClientStates
      /\ queue' = [queue EXCEPT ![c] = queue'[c]] /\ queue'[c] \in Seq(Events)
      /\ Unread(c)' \subseteq 1 .. Latest /\ Len(queue'[c]) <= QueueLimit
  BY <1>1, <1>2, ClientIs DEF StreamStates, ClientStates, Unread
<1>4. ASSUME c \in Watchers PROVE Delivery(c)'
  <2>1. c \notin Followers /\ queue[c] = <<>> /\ (pending # 0 => cursor[c] < pending)
    BY <1>1, <1>4, WatcherIs DEF Delivery, Placed
  <2>2. QED
    BY <1>1, <1>2, <1>4, <2>1, DroppedKeeps, LogStays
<1>5. QED
  BY <1>1, <1>3, <1>4, ClientIs, ClientKeeps

(* The steps of a follower alone. *)
LEMMA ReadRunKeeps == ASSUME IInv, NEW c \in Followers, ReadRun(c) PROVE IInv'
<1>1. /\ UNCHANGED <<history, log, now, turn, pending, left, run, stream, queue, cursor, since, seen, faults>>
      /\ pc' = [pc EXCEPT ![c] = IF run = "ended" THEN "done" ELSE "connecting"]
      /\ c \in Clients /\ c \notin Watchers
  BY EventAssumption DEF ReadRun, logVars, publicationVars, streamVars, Clients
<1>2. pc' = [pc EXCEPT ![c] = pc'[c]] /\ pc'[c] \in ClientStates
  BY <1>1 DEF IInv, TypeOK, ClientStates
<1>3. Unread(c)' = Unread(c)
  BY <1>1 DEF Unread
<1>4. QED
  BY <1>1, <1>2, <1>3, ClientIs, ClientKeeps

LEMMA RefreshRunKeeps == ASSUME IInv, NEW c \in Followers, RefreshRun(c) PROVE IInv'
<1>1. /\ UNCHANGED <<history, log, now, turn, pending, left, run, cursor, since, seen, faults>>
      /\ c \in Clients /\ c \notin Watchers
  BY EventAssumption DEF RefreshRun, logVars, publicationVars, Clients
<1>2. CASE run = "ended"
  <2>1. /\ pc' = [pc EXCEPT ![c] = "done"] /\ stream' = [stream EXCEPT ![c] = "closed"]
        /\ queue' = [queue EXCEPT ![c] = <<>>]
    BY <1>2 DEF RefreshRun
  <2>2. pc'[c] = "done" /\ stream'[c] = "closed" /\ queue'[c] = <<>>
    BY <1>1, <2>1 DEF IInv, TypeOK, Queues
  <2>3. /\ stream' = [stream EXCEPT ![c] = stream'[c]] /\ stream'[c] \in StreamStates
        /\ queue' = [queue EXCEPT ![c] = queue'[c]] /\ queue'[c] \in Seq(Events)
        /\ pc' = [pc EXCEPT ![c] = pc'[c]] /\ pc'[c] \in ClientStates
        /\ Unread(c)' \subseteq 1 .. Latest /\ Len(queue'[c]) <= QueueLimit
    <3>1. Unread(c)' = {} /\ Len(queue'[c]) = 0 /\ queue'[c] \in Seq(Events)
      BY <1>1, <2>2, ClientIs DEF Unread
    <3>2. Unread(c)' \subseteq 1 .. Latest /\ Len(queue'[c]) <= QueueLimit
      BY <1>1, <3>1, ClientIs
    <3>3. /\ stream' = [stream EXCEPT ![c] = stream'[c]] /\ queue' = [queue EXCEPT ![c] = queue'[c]]
          /\ pc' = [pc EXCEPT ![c] = pc'[c]]
      BY <2>1, <2>2
    <3>4. stream'[c] \in StreamStates /\ pc'[c] \in ClientStates
      BY <2>2 DEF StreamStates, ClientStates
    <3>5. QED
      BY <3>1, <3>2, <3>3, <3>4
  <2>4. QED
    BY <1>1, <2>3, ClientIs, ClientKeeps
<1>3. CASE run # "ended"
  <2>1. pc' = [pc EXCEPT ![c] = "streaming"] /\ UNCHANGED <<stream, queue>>
    BY <1>3 DEF RefreshRun, streamVars
  <2>2. pc' = [pc EXCEPT ![c] = pc'[c]] /\ pc'[c] \in ClientStates /\ Unread(c)' = Unread(c)
    BY <1>1, <2>1 DEF IInv, TypeOK, ClientStates, Unread
  <2>3. QED
    BY <1>1, <2>1, <2>2, ClientIs, ClientKeeps
<1>4. QED
  BY <1>2, <1>3

(* The steps of the runtime: each is a broadcast, or leaves the log and the streams alone. *)
LEMMA BroadcastStepKeeps ==
  ASSUME IInv, BroadcastEvent \/ InventoryThrows \/ FinalizePublished \/ AnnounceEnd
  PROVE  IInv'
<1>1. /\ turn = "publishing" <=> pending # 0
      /\ turn \in {"none", "publishing", "ending"} /\ left \in 0 .. 2 /\ run \in {"running", "ended"}
  BY DEF IInv, TypeOK, TurnInv
<1>2. CASE BroadcastEvent
  <2>1. PICK k \in {"progress", "operation"} : Broadcast(k)
    BY <1>2 DEF BroadcastEvent
  <2>2. pending = 0 /\ UNCHANGED <<turn, now, pending, left, run, clientVars, faults>>
    BY <1>1, <1>2 DEF BroadcastEvent, publicationVars
  <2>3. QED
    BY <1>1, <2>1, <2>2, BroadcastKeeps
<1>3. CASE FinalizePublished
  <2>1. Broadcast("progress") /\ UNCHANGED <<turn, now, pending, run, clientVars, faults>> /\ left' \in 0 .. 2
    BY <1>1, <1>3 DEF FinalizePublished
  <2>2. QED
    BY <1>1, <2>1, BroadcastKeeps
<1>4. CASE AnnounceEnd
  <2>1. Broadcast("terminal") /\ UNCHANGED <<now, pending, left, run, clientVars, faults>> /\ pending = 0 /\ turn' = "none"
    BY <1>1, <1>4 DEF AnnounceEnd
  <2>2. QED
    BY <1>1, <2>1, BroadcastKeeps
<1>5. CASE InventoryThrows
  <2>1. /\ Broadcast("failure") /\ pending' = 0 /\ pending = Latest /\ turn' = "none" /\ left' = 0
        /\ UNCHANGED <<now, run, clientVars, faults>>
    BY <1>5 DEF InventoryThrows
  <2>2. QED
    BY <1>1, <2>1, BroadcastKeeps
<1>6. QED
  BY <1>2, <1>3, <1>4, <1>5

LEMMA QuietStepKeeps ==
  ASSUME IInv, FinalizeThrows \/ EndRun \/ Tick \/ UNCHANGED vars
  PROVE  IInv'
<1>1. /\ turn = "publishing" <=> pending # 0
      /\ turn \in {"none", "publishing", "ending"} /\ left \in 0 .. 2 /\ run \in {"running", "ended"}
      /\ now \in 0 .. MaxTime /\ MaxTime \in Nat /\ now <= now
  BY EventAssumption DEF IInv, TypeOK, TurnInv
<1>2. CASE FinalizeThrows
  <2>1. UNCHANGED <<now, turn, pending, run, clientVars, faults>> /\ left' = 0
    BY <1>2 DEF FinalizeThrows
  <2>2. CASE Broadcast("progress")
    BY <1>1, <2>1, <2>2, BroadcastKeeps
  <2>3. CASE UNCHANGED <<logVars, streamVars>>
    BY <1>1, <2>1, <2>3, IdleKeeps DEF logVars, streamVars
  <2>4. QED
    BY <1>2, <2>2, <2>3 DEF FinalizeThrows
<1>3. CASE EndRun
  BY <1>1, <1>3, IdleKeeps DEF EndRun, logVars, streamVars
<1>4. CASE Tick
  <2>1. now' \in 0 .. MaxTime /\ now <= now'
    BY <1>1, <1>4 DEF Tick
  <2>2. QED
    BY <1>1, <1>4, <2>1, IdleKeeps DEF Tick, logVars, streamVars, publicationVars
<1>5. CASE UNCHANGED vars
  BY <1>1, <1>5, IdleKeeps DEF vars, logVars, streamVars, publicationVars
<1>6. QED
  BY <1>2, <1>3, <1>4, <1>5

LEMMA NextIInv == IInv /\ [Next]_vars => IInv'
<1> SUFFICES ASSUME IInv, [Next]_vars PROVE IInv'
  OBVIOUS
<1>1. CASE BroadcastEvent \/ InventoryThrows \/ FinalizePublished \/ AnnounceEnd
  BY <1>1, BroadcastStepKeeps
<1>2. CASE FinalizeThrows \/ EndRun \/ Tick \/ UNCHANGED vars
  BY <1>2, QuietStepKeeps
<1>3. CASE CommitPublication
  BY <1>3, CommitPublicationKeeps
<1>4. CASE OnPublished
  BY <1>4, OnPublishedKeeps
<1>5. CASE Restart
  BY <1>5, RestartKeeps
<1>6. ASSUME NEW c \in Clients, Connect(c) PROVE IInv'
  BY <1>6, ConnectKeeps
<1>7. ASSUME NEW c \in Clients, Resync(c) PROVE IInv'
  BY <1>7, ResyncKeeps
<1>8. ASSUME NEW c \in Clients, Receive(c) PROVE IInv'
  BY <1>8, ReceiveKeeps
<1>9. ASSUME NEW c \in Clients, Disconnect(c) PROVE IInv'
  BY <1>9, DisconnectKeeps
<1>10. ASSUME NEW c \in Clients, StreamEnds(c) PROVE IInv'
  BY <1>10, StreamEndsKeeps
<1>11. ASSUME NEW c \in Followers, ReadRun(c) PROVE IInv'
  BY <1>11, ReadRunKeeps
<1>12. ASSUME NEW c \in Followers, RefreshRun(c) PROVE IInv'
  BY <1>12, RefreshRunKeeps
<1>13. QED
  BY <1>1, <1>2, <1>3, <1>4, <1>5, <1>6, <1>7, <1>8, <1>9, <1>10, <1>11, <1>12 DEF Next

(* In every reachable state the log is an unbroken end of the history, only
   progress events stand between a publication and its announcement, and each
   watcher's queue, cursor and received events fit together as Delivery says. *)
THEOREM InvariantHolds == Spec => []IInv
BY InitIInv, NextIInv, PTL DEF Spec

(* Every variable keeps its type, and no stream queues more than its bound:
   enqueue fails a stream whose consumer has fallen behind. *)
THEOREM TypeCorrect == Spec => []TypeOK
<1>1. IInv => TypeOK
  BY DEF IInv
<1>2. QED
  BY <1>1, InvariantHolds, PTL

(* Whatever the runtime appends, however connections and the runtime fail and
   whenever history expires, a watcher has received every event it is owed that
   is not a publication, has it queued, or will find it after its cursor when it
   connects again. *)
THEOREM NothingElseGoesMissing == Spec => []NothingElseIsMissed
<1>1. IInv => NothingElseIsMissed
  BY DEF IInv, Delivery, OthersArrive, NothingElseIsMissed
<1>2. QED
  BY <1>1, InvariantHolds, PTL

(* The only publications a watcher can miss are those broadcast after a progress
   event that was appended behind them, and then only when the watcher had
   received that event before its stream was lost, and those reported as failed
   right after their commit because the inventory could not be read. *)
THEOREM MissedPublicationsWereOvertaken == Spec => []MissedPublicationWasOvertaken
<1>1. IInv => MissedPublicationWasOvertaken
  BY DEF IInv, Delivery, PublicationsArrive, Overtaken, Withheld, MissedPublicationWasOvertaken
<1>2. QED
  BY <1>1, InvariantHolds, PTL

(* A watcher that may resume without a resync finds every event after its cursor
   in the log: hasProtocolEventRetentionGap notices every gap retention made. *)
THEOREM ExpiredHistoryIsResynced == Spec => []ExpiredHistoryResyncs
<1>1. IInv => ExpiredHistoryResyncs
  BY HistoryIsStored DEF ExpiredHistoryResyncs
<1>2. QED
  BY <1>1, InvariantHolds, PTL
=============================================================================
