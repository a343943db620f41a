------------------------ MODULE ChangeCheckRunsProofs ------------------------
(* Proofs about ChangeCheckRuns, for any runs, capacity, deaths and faults.

   None of the properties is inductive. That a result is kept needs to know, at
   every store call of every segment, what the row said when the segment read it
   (RowsAsRead), and so where the loop can be while a segment runs (Shape), and
   that no run is queued and executed or cancelled at once (QueueIsApart). As long
   as no store call has failed, the books follow: what the runner holds is what is
   active (Held, which says where in a segment a run may be held although it has
   ended), and which terminal events are still to be written (Told).           *)
EXTENDS ChangeCheckRuns, SequenceTheorems, TLAPS

RunSteps == {"start", "announce", "record", "finish", "finishEvent", "finishCanon",
             "fail", "failEvent", "failCanon", "recover", "recoverEvent", "recoverCanon"}
ReconcileSteps == {"reconcile", "reconcileEvent"}
SubjectSteps == {"cancel", "cancelEvent", "stopCancel", "stopCancelEvent"} \cup ReconcileSteps

(* Where the loop and the runtime are while a segment runs. *)
Shape ==
  /\ drain = "none" <=> item = None
  /\ step \in RunSteps => drain = "busy"
  /\ step \in {"save", "emit"} =>
       \/ flushing \in {"data", "timer"} /\ drain = "command"
       \/ flushing \in {"final", "catch"} /\ drain = "busy"
  /\ drain = "busy" => step \in RunSteps \cup {"save", "emit"}
  /\ step \in SubjectSteps <=> subject # None
  /\ step \in ReconcileSteps => runtime = "reconciling"
  /\ runtime # "up" =>
       /\ drain = "none" /\ queue = <<>> /\ step \in {"none"} \cup ReconcileSteps
       /\ controllers = {} /\ completions = {}

(* No run is queued twice, nor while it is executed or cancelled. *)
QueueIsApart ==
  /\ IsInjective(queue)
  /\ \A r \in Range(queue) : status[r] = "queued" /\ r # item /\ r # subject
  /\ subject # None => subject # item

(* What the segment has read of a row is still true when it writes. *)
RowsAsRead ==
  /\ step \in {"announce", "record", "save", "emit"} \/ drain = "command" => status[item] = "running"
  /\ step \in {"finish", "finishEvent"} \/ (step \in {"save", "emit"} /\ flushing = "final") =>
       outcome \in Terminal
  /\ drain # "none" => status[item] # "none"

LoopInv == TypeOK /\ Shape /\ QueueIsApart /\ RowsAsRead

(* No store call has failed: a run is held while it is active, and, between the
   write of its result and the end of its segment, a little longer. *)
Held ==
  faults = 0 =>
    /\ step \notin {"recover", "recoverEvent", "recoverCanon"} /\ ~failed
    /\ step = "start" => status[item] = "queued"
    /\ step \in {"finish", "fail"} => status[item] = "running"
    /\ step = "finishEvent" => status[item] = outcome
    /\ step = "failEvent" => status[item] = "failed"
    /\ step \in {"finishCanon", "failCanon"} => status[item] \in Terminal /\ completed
    /\ drain = "retention" =>
         status[item] \in Terminal /\ item \notin completions /\ item \notin controllers
    /\ step \in {"cancel", "stopCancel"} => status[subject] = "queued"
    /\ step \in {"cancelEvent", "stopCancelEvent"} => status[subject] = "cancelled"
    /\ step = "reconcile" => subject \in Active
    /\ step = "reconcileEvent" => status[subject] = "failed"
    /\ runtime = "up" => \A r \in Active : r \in completions /\ r \in Range(queue) \cup {item, subject}
    /\ controllers \subseteq {item}
    /\ completions \subseteq Range(queue) \cup {item, subject}

(* The run whose result is stored and whose terminal event is the next store call. *)
Untold(r) ==
  \/ step \in {"finishEvent", "failEvent"} /\ r = item
  \/ step \in {"cancelEvent", "stopCancelEvent", "reconcileEvent"} /\ r = subject

Told ==
  faults = 0 =>
    \A r \in Runs :
      /\ \A k \in 1 .. Len(events[r]) :
           events[r][k] \in Terminal => k = Len(events[r]) /\ events[r][k] = status[r] /\ ~Untold(r)
      /\ deaths = 0 /\ status[r] \in Terminal /\ ~Untold(r) =>
           events[r] # <<>> /\ Last(events[r]) = status[r]

IInv == LoopInv /\ Held /\ Told

(* ---- Queues without repetition ---- *)

LEMMA RangeIs ==
  ASSUME NEW q \in Seq(Runs)
  PROVE  Range(q) = {q[i] : i \in 1 .. Len(q)} /\ DOMAIN q = 1 .. Len(q)
BY DEF Range

LEMMA HeadLeaves ==
  ASSUME NEW q \in Seq(Runs), IsInjective(q), q # <<>>
  PROVE  /\ Head(q) \in Range(q) /\ Tail(q) \in Seq(Runs) /\ IsInjective(Tail(q))
         /\ Range(Tail(q)) = Range(q) \ {Head(q)}
<1>1. /\ Len(q) \in Nat \ {0} /\ Head(q) = q[1] /\ Tail(q) \in Seq(Runs)
      /\ Len(Tail(q)) = Len(q) - 1 /\ \A i \in 1 .. (Len(q) - 1) : Tail(q)[i] = q[i + 1]
  BY HeadTailProperties, EmptySeq
<1>2. \A i, j \in 1 .. Len(q) : q[i] = q[j] => i = j
  BY RangeIs DEF IsInjective
<1>3. IsInjective(Tail(q))
  <2>1. DOMAIN Tail(q) = 1 .. (Len(q) - 1)
    BY <1>1, RangeIs
  <2>2. ASSUME NEW i \in 1 .. (Len(q) - 1), NEW j \in 1 .. (Len(q) - 1), Tail(q)[i] = Tail(q)[j]
        PROVE  i = j
    <3>1. i + 1 \in 1 .. Len(q) /\ j + 1 \in 1 .. Len(q) /\ q[i + 1] = q[j + 1]
      BY <1>1, <2>2
    <3>2. QED
      BY <1>2, <3>1
  <2>3. QED
    BY <2>1, <2>2 DEF IsInjective
<1>4. Range(Tail(q)) \subseteq Range(q) \ {Head(q)}
  <2>1. ASSUME NEW i \in 1 .. (Len(q) - 1)
        PROVE  Tail(q)[i] \in Range(q) /\ Tail(q)[i] # Head(q)
    <3>1. i + 1 \in 1 .. Len(q) /\ 1 \in 1 .. Len(q) /\ i + 1 # 1
      BY <1>1
    <3>2. QED
      BY <1>1, <1>2, <3>1, RangeIs
  <2>2. Range(Tail(q)) = {Tail(q)[i] : i \in 1 .. (Len(q) - 1)}
    BY <1>1, RangeIs
  <2>3. QED
    BY <2>1, <2>2
<1>5. Range(q) \ {Head(q)} \subseteq Range(Tail(q))
  <2>1. ASSUME NEW i \in 1 .. Len(q), i # 1
        PROVE  q[i] \in Range(Tail(q))
    <3>1. i - 1 \in 1 .. (Len(q) - 1) /\ (i - 1) + 1 = i
      BY <1>1, <2>1
    <3>2. QED
      BY <1>1, <3>1, RangeIs
  <2>2. QED
    BY <1>1, <2>1, RangeIs
<1>6. Head(q) \in Range(q)
  BY <1>1, RangeIs
<1>7. QED
  BY <1>1, <1>3, <1>4, <1>5, <1>6

LEMMA BatchJoins ==
  ASSUME NEW q \in Seq(Runs), NEW b \in Seq(Runs), IsInjective(q), IsInjective(b),
         Range(q) \cap Range(b) = {}
  PROVE  /\ q \o b \in Seq(Runs) /\ IsInjective(q \o b) /\ Range(q \o b) = Range(q) \cup Range(b)
         /\ (q \o b = <<>> => q = <<>> /\ b = <<>>)
<1>1. /\ q \o b \in Seq(Runs) /\ Len(q \o b) = Len(q) + Len(b)
      /\ \A i \in 1 .. (Len(q) + Len(b)) : (q \o b)[i] = IF i <= Len(q) THEN q[i] ELSE b[i - Len(q)]
  BY ConcatProperties
<1>2. Len(q) \in Nat /\ Len(b) \in Nat
  OBVIOUS
<1>3. ASSUME NEW i \in 1 .. Len(q \o b), NEW j \in 1 .. Len(q \o b), (q \o b)[i] = (q \o b)[j]
      PROVE  i = j
  <2>1. \A k \in 1 .. Len(q) : q[k] \in Range(q)
    BY RangeIs
  <2>2. \A k \in 1 .. Len(b) : b[k] \in Range(b)
    BY RangeIs
  <2>3. CASE i <= Len(q) /\ j <= Len(q)
    <3>1. i \in DOMAIN q /\ j \in DOMAIN q /\ q[i] = q[j]
      BY <1>1, <1>2, <1>3, <2>3, RangeIs
    <3>2. QED
      BY <3>1 DEF IsInjective
  <2>4. CASE i > Len(q) /\ j > Len(q)
    <3>1. i - Len(q) \in DOMAIN b /\ j - Len(q) \in DOMAIN b /\ b[i - Len(q)] = b[j - Len(q)]
      BY <1>1, <1>2, <1>3, <2>4, RangeIs
    <3>2. i - Len(q) = j - Len(q)
      BY <3>1 DEF IsInjective
    <3>3. QED
      BY <1>1, <1>2, <3>2
  <2>5. CASE i <= Len(q) /\ j > Len(q)
    <3>1. q[i] \in Range(q) /\ b[j - Len(q)] \in Range(b) /\ q[i] = b[j - Len(q)]
      BY <1>1, <1>2, <1>3, <2>1, <2>2, <2>5
    <3>2. QED
      BY <3>1
  <2>6. CASE j <= Len(q) /\ i > Len(q)
    <3>1. q[j] \in Range(q) /\ b[i - Len(q)] \in Range(b) /\ q[j] = b[i - Len(q)]
      BY <1>1, <1>2, <1>3, <2>1, <2>2, <2>6
    <3>2. QED
      BY <3>1
  <2>7. QED
    BY <1>1, <1>2, <2>3, <2>4, <2>5, <2>6
<1>4. IsInjective(q \o b)
  BY <1>1, <1>3, RangeIs DEF IsInjective
<1>5. Range(q \o b) = Range(q) \cup Range(b)
  BY RangeConcatenation
<1>6. q \o b = <<>> => q = <<>> /\ b = <<>>
  BY ConcatEqualIffEmpty
<1>7. QED
  BY <1>1, <1>4, <1>5, <1>6

(* What Array.splice leaves when it removes one element. *)
LEMMA RemovalLeaves ==
  ASSUME NEW q \in Seq(Runs), IsInjective(q), NEW k \in DOMAIN q
  PROVE  /\ RemoveAt(q, k) \in Seq(Runs) /\ IsInjective(RemoveAt(q, k))
         /\ Range(RemoveAt(q, k)) = Range(q) \ {q[k]}
<1> DEFINE a == SubSeq(q, 1, k - 1)
           b == SubSeq(q, k + 1, Len(q))
<1>1. k \in 1 .. Len(q) /\ Len(q) \in Nat /\ \A i, j \in 1 .. Len(q) : q[i] = q[j] => i = j
  BY RangeIs DEF IsInjective
<1>2. a \in Seq(Runs) /\ Len(a) = k - 1 /\ \A i \in 1 .. (k - 1) : a[i] = q[i]
  BY <1>1
<1>3. b \in Seq(Runs) /\ Len(b) = Len(q) - k /\ \A i \in 1 .. (Len(q) - k) : b[i] = q[k + i]
  BY <1>1
<1>4. RemoveAt(q, k) = a \o b
  BY DEF RemoveAt
<1> HIDE DEF a, b
<1>5. IsInjective(a)
  <2>1. \A i, j \in 1 .. (k - 1) : a[i] = a[j] => i = j
    BY <1>1, <1>2
  <2>2. DOMAIN a = 1 .. (k - 1)
    BY <1>2, RangeIs
  <2>3. QED
    BY <2>1, <2>2 DEF IsInjective
<1>6. IsInjective(b)
  <2>1. ASSUME NEW i \in 1 .. (Len(q) - k), NEW j \in 1 .. (Len(q) - k), b[i] = b[j]
        PROVE  i = j
    <3>1. k + i \in 1 .. Len(q) /\ k + j \in 1 .. Len(q) /\ q[k + i] = q[k + j]
      BY <1>1, <1>3, <2>1
    <3>2. k + i = k + j
      BY <1>1, <3>1
    <3>3. QED
      BY <1>1, <3>2
  <2>2. DOMAIN b = 1 .. (Len(q) - k)
    BY <1>3, RangeIs
  <2>3. QED
    BY <2>1, <2>2 DEF IsInjective
<1>7. Range(a) = {q[i] : i \in 1 .. (k - 1)}
  BY <1>2, RangeIs
<1>8. Range(b) = {q[i] : i \in (k + 1) .. Len(q)}
  <2>1. \A i \in 1 .. (Len(q) - k) : k + i \in (k + 1) .. Len(q) /\ b[i] = q[k + i]
    BY <1>1, <1>3
  <2>2. \A i \in (k + 1) .. Len(q) : i - k \in 1 .. (Len(q) - k) /\ q[i] = b[i - k]
    BY <1>1, <1>3
  <2>3. Range(b) = {b[i] : i \in 1 .. (Len(q) - k)}
    BY <1>3, RangeIs
  <2>4. Range(b) \subseteq {q[i] : i \in (k + 1) .. Len(q)}
    BY <2>1, <2>3
  <2>5. {q[i] : i \in (k + 1) .. Len(q)} \subseteq Range(b)
    BY <2>2, <2>3
  <2>6. QED
    BY <2>4, <2>5
<1>9. Range(q) = {q[i] : i \in 1 .. Len(q)}
  BY RangeIs
<1>10. Range(a) \cap Range(b) = {}
  BY <1>1, <1>7, <1>8
<1>11. Range(a) \cup Range(b) = Range(q) \ {q[k]}
  BY <1>1, <1>7, <1>8, <1>9
<1>12. QED
  BY <1>2, <1>3, <1>4, <1>5, <1>6, <1>10, <1>11, BatchJoins

(* A beginning of a batch. *)
LEMMA PrefixIs ==
  ASSUME NEW b \in Seq(Runs), IsInjective(b), NEW m \in 0 .. Len(b)
  PROVE  SubSeq(b, 1, m) \in Seq(Runs) /\ IsInjective(SubSeq(b, 1, m)) /\ Range(SubSeq(b, 1, m)) \subseteq Range(b)
<1>1. /\ SubSeq(b, 1, m) \in Seq(Runs) /\ Len(SubSeq(b, 1, m)) = m
      /\ \A i \in 1 .. m : SubSeq(b, 1, m)[i] = b[i] /\ i \in 1 .. Len(b)
  OBVIOUS
<1>2. DOMAIN SubSeq(b, 1, m) = 1 .. m
  BY <1>1, RangeIs
<1>3. DOMAIN b = 1 .. Len(b) /\ Range(b) = {b[i] : i \in 1 .. Len(b)}
  BY RangeIs
<1>4. \A i, j \in 1 .. m : SubSeq(b, 1, m)[i] = SubSeq(b, 1, m)[j] => i = j
  BY <1>1, <1>3 DEF IsInjective
<1>5. Range(SubSeq(b, 1, m)) \subseteq Range(b)
  <2>1. \A i \in 1 .. m : SubSeq(b, 1, m)[i] \in Range(b)
    BY <1>1, <1>3
  <2>2. Range(SubSeq(b, 1, m)) = {SubSeq(b, 1, m)[i] : i \in 1 .. m}
    BY <1>1, RangeIs
  <2>3. QED
    BY <2>1, <2>2
<1>6. QED
  BY <1>1, <1>2, <1>4, <1>5 DEF IsInjective

USE ChecksAssumption
    DEF RunSteps, ReconcileSteps, SubjectSteps, Terminal, Steps, EventTypes, Active,
        disk, loop, segment, execution, calls, life, bounds, Write, Emit, Turn, Complete, Free

(* The head of the loop takes the first run of the queue, or leaves the queue alone. *)
LEMMA HeadTaken ==
  ASSUME NEW q \in Seq(Runs), IsInjective(q), LoopHead(q)
  PROVE  /\ UNCHANGED <<subject, flushing>>
         /\ queue' \in Seq(Runs) /\ IsInjective(queue')
         /\ \/ drain' = "none" /\ item' = None /\ queue' = q /\ step' = "none"
            \/ /\ drain' = "busy" /\ step' = "start" /\ item' \in Runs
               /\ item' \in Range(q) /\ Range(queue') = Range(q) \ {item'}
<1>1. CASE stopping \/ q = <<>>
  BY <1>1 DEF LoopHead
<1>2. CASE ~(stopping \/ q = <<>>)
  <2>1. /\ UNCHANGED <<subject, flushing>>
        /\ drain' = "busy" /\ item' = Head(q) /\ queue' = Tail(q) /\ step' = "start"
    BY <1>2 DEF LoopHead
  <2>2. Head(q) \in Range(q) /\ Range(q) \in SUBSET Runs
    BY <1>2, HeadLeaves, RangeOfSeq
  <2>3. Tail(q) \in Seq(Runs) /\ IsInjective(Tail(q)) /\ Range(Tail(q)) = Range(q) \ {Head(q)}
    BY <1>2, HeadLeaves
  <2>4. QED
    BY <2>1, <2>2, <2>3
<1>3. QED
  BY <1>1, <1>2

LEMMA EmptyQueue == <<>> \in Seq(Runs) /\ IsInjective(<<>>) /\ Range(<<>>) = {}
BY DEF IsInjective, Range

LEMMA Unqueued ==
  ASSUME NEW r, NEW next, queue \in Seq(Runs), IsInjective(queue), Unqueue(r, next)
  PROVE  /\ r \in Runs /\ r \in Range(queue)
         /\ queue' \in Seq(Runs) /\ IsInjective(queue') /\ Range(queue') = Range(queue) \ {r}
         /\ subject' = r /\ step' = next /\ flushing' = flushing
<1>1. PICK k \in DOMAIN queue : queue[k] = r /\ queue' = RemoveAt(queue, k)
  BY DEF Unqueue
<1>2. queue[k] \in Range(queue) /\ Range(queue) \in SUBSET Runs
  BY RangeOfSeq DEF Range
<1>3. QED
  BY <1>1, <1>2, RemovalLeaves DEF Unqueue

StoreTyped ==
  /\ status \in [Runs -> Terminal \cup {"none", "queued", "running"}]
  /\ events \in [Runs -> Seq(EventTypes)]

(* A row or an event of a run is written. *)
LEMMA WriteTyped ==
  ASSUME StoreTyped, NEW r \in Runs, NEW s \in Terminal \cup {"none", "queued", "running"}, Write(r, s)
  PROVE  StoreTyped'
BY DEF StoreTyped

LEMMA EmitTyped ==
  ASSUME StoreTyped, NEW r \in Runs, NEW t \in EventTypes, Emit(r, t)
  PROVE  StoreTyped'
BY DEF StoreTyped

(* The terminal event of a run that is being announced is its first and agrees with
   its row. *)
LEMMA AnnouncementTells ==
  ASSUME TypeOK, Told, NEW r \in Runs, Untold(r), Emit(r, status[r]), status[r] \in Terminal,
         UNCHANGED <<deaths, faults>>, \A q \in Runs : ~Untold(q)', \A q \in Runs \ {r} : ~Untold(q)
  PROVE  Told'
<1> SUFFICES ASSUME faults = 0, NEW q \in Runs
             PROVE  /\ \A k \in 1 .. Len(events'[q]) :
                         events'[q][k] \in Terminal =>
                           k = Len(events'[q]) /\ events'[q][k] = status'[q] /\ ~Untold(q)'
                    /\ deaths' = 0 /\ status'[q] \in Terminal /\ ~Untold(q)' =>
                         events'[q] # <<>> /\ Last(events'[q]) = status'[q]
  BY DEF Told
<1>1. CASE q # r
  <2>1. events'[q] = events[q] /\ status'[q] = status[q]
    BY <1>1 DEF TypeOK
  <2>2. QED
    BY <1>1, <2>1 DEF Told
<1>2. CASE q = r
  <2>1. events'[r] = Append(events[r], status[r]) /\ status'[r] = status[r] /\ events[r] \in Seq(EventTypes)
    BY DEF TypeOK
  <2>2. \A k \in 1 .. Len(events[r]) : events[r][k] \notin Terminal
    BY DEF Told
  <2>3. /\ Len(events'[r]) = Len(events[r]) + 1 /\ Len(events[r]) \in Nat
        /\ \A k \in 1 .. Len(events[r]) : events'[r][k] = events[r][k]
        /\ events'[r][Len(events[r]) + 1] = status[r]
    BY <2>1
  <2>4. events'[r] # <<>>
    BY <2>1
  <2>5. QED
    BY <1>2, <2>1, <2>2, <2>3, <2>4 DEF Last
<1>3. QED
  BY <1>1, <1>2

(* A write to the executed or the cancelled run leaves the queue apart from both. *)
LEMMA QueueStaysApart ==
  ASSUME TypeOK, QueueIsApart, UNCHANGED <<queue, item>>, subject' \in {subject, None},
         \A r \in Runs \ {item, subject} : status'[r] = status[r]
  PROVE  QueueIsApart'
<1>1. Range(queue) \in SUBSET Runs
  BY RangeOfSeq DEF TypeOK
<1>2. QED
  BY <1>1 DEF QueueIsApart

USE DEF IInv, LoopInv, TypeOK, Shape, QueueIsApart, RowsAsRead, Held, Told, Untold

(* ---- Steps of the run that the loop executes ---- *)

(* Store calls and turns that leave the queue alone. *)
LEMMA RunKeeps ==
  ASSUME IInv,
         \/ AnnounceStart \/ RecordStart \/ FinishRun \/ FailRun \/ RecordEnd
         \/ Output \/ Flush \/ CommandEnds \/ FinishCancelled
  PROVE  IInv'
<1>1. CASE AnnounceStart
  BY <1>1 DEF AnnounceStart, Last
<1>2. CASE RecordStart
  BY <1>2 DEF RecordStart
<1>3. CASE FinishRun
  BY <1>3 DEF FinishRun
<1>4. CASE FailRun
  BY <1>4 DEF FailRun
<1>5. CASE RecordEnd
  BY <1>5 DEF RecordEnd, LeaveRun
<1>6. CASE Output
  BY <1>6 DEF Output
<1>7. CASE Flush
  BY <1>7 DEF Flush
<1>8. CASE CommandEnds
  BY <1>8 DEF CommandEnds, Results, Catch
<1>9. CASE FinishCancelled
  BY <1>9 DEF FinishCancelled
<1>10. QED
  BY <1>1, <1>2, <1>3, <1>4, <1>5, <1>6, <1>7, <1>8, <1>9

LEMMA BeginRunKeeps ==
  ASSUME IInv, BeginRun
  PROVE  IInv'
<1>1. item \in Runs /\ queue \in Seq(Runs) /\ IsInjective(queue)
  BY DEF BeginRun
<1>2. CASE status[item] = "queued"
  <2>0. StoreTyped'
    <3>1. StoreTyped
      BY DEF StoreTyped
    <3>2. QED
      BY <1>1, <1>2, <3>1, WriteTyped DEF BeginRun
  <2>1. TypeOK' /\ Shape' /\ RowsAsRead'
    BY <1>1, <1>2, <2>0 DEF StoreTyped, BeginRun
  <2>2. QueueIsApart'
    BY <1>1, <1>2, QueueStaysApart DEF BeginRun
  <2>3. Held' /\ Told'
    BY <1>1, <1>2 DEF BeginRun
  <2>4. QED
    BY <2>1, <2>2, <2>3
<1>3. CASE status[item] # "queued"
  <2>1. LoopHead(queue) /\ faults # 0
    BY <1>3 DEF BeginRun
  <2>2. LoopInv'
    BY <1>1, <2>1, HeadTaken DEF BeginRun
  <2>3. QED
    BY <2>1, <2>2 DEF BeginRun
<1>4. QED
  BY <1>2, <1>3

LEMMA SaveOutputKeeps ==
  ASSUME IInv, SaveOutput
  PROVE  IInv'
<1>1. item \in Runs /\ status[item] = "running"
  BY DEF SaveOutput
<1>2. UNCHANGED <<status, events>>
  BY <1>1 DEF SaveOutput
<1>3. LoopInv'
  <2>1. TypeOK'
    <3>1. step' \in Steps /\ output' \in BOOLEAN
      BY DEF SaveOutput
    <3>2. UNCHANGED <<disk, loop, subject, flushing, outcome, failed, completed, calls, life, bounds>>
      BY <1>2 DEF SaveOutput
    <3> HIDE DEF Steps, EventTypes, Terminal, Shape, QueueIsApart, RowsAsRead, Held, Told
    <3>3. QED
      BY <3>1, <3>2
  <2>2. Shape' /\ RowsAsRead'
    BY <1>1, <1>2 DEF SaveOutput
  <2>3. QueueIsApart'
    BY <1>2, QueueStaysApart DEF SaveOutput
  <2>4. QED
    BY <2>1, <2>2, <2>3
<1>4. Held' /\ Told'
  BY <1>1, <1>2 DEF SaveOutput
<1>5. QED
  BY <1>3, <1>4

LEMMA EmitOutputKeeps ==
  ASSUME IInv, EmitOutput
  PROVE  IInv'
<1>1. item \in Runs /\ status[item] = "running"
  BY DEF EmitOutput
<1>2. flushing \in {"data", "timer", "final", "catch"}
  BY DEF EmitOutput
<1>3. TypeOK' /\ Shape'
  BY <1>1, <1>2 DEF EmitOutput
<1>4. QueueIsApart' /\ RowsAsRead'
  <2>1. QueueIsApart'
    BY QueueStaysApart DEF EmitOutput
  <2>2. step' \in {"none", "finish", "fail"} /\ UNCHANGED <<status, item, outcome, drain>>
    BY <1>2 DEF EmitOutput
  <2>3. step' = "finish" => outcome \in Terminal
    BY DEF EmitOutput
  <2>4. RowsAsRead'
    BY <1>1, <2>2, <2>3
  <2>5. QED
    BY <2>1, <2>4
<1>5. Held' /\ Told'
  BY <1>1, <1>2 DEF EmitOutput, Last
<1>6. QED
  BY <1>3, <1>4, <1>5

(* ---- Steps that tell a result ---- *)

LEMMA AnnounceFinishKeeps ==
  ASSUME IInv, AnnounceFinish
  PROVE  IInv'
<1>1. item \in Runs /\ outcome \in Terminal
  BY DEF AnnounceFinish
<1>2. LoopInv' /\ Held'
  BY <1>1 DEF AnnounceFinish
<1>3. Told'
  <2>1. CASE faults # 0
    BY <2>1 DEF AnnounceFinish
  <2>2. CASE faults = 0
    BY <1>1, <2>2, AnnouncementTells DEF AnnounceFinish
  <2>3. QED
    BY <2>1, <2>2
<1>4. QED
  BY <1>2, <1>3

LEMMA AnnounceFailureKeeps ==
  ASSUME IInv, AnnounceFailure
  PROVE  IInv'
<1>1. item \in Runs
  BY DEF AnnounceFailure
<1>2. LoopInv' /\ Held'
  BY <1>1 DEF AnnounceFailure
<1>3. Told'
  <2>1. CASE faults # 0
    BY <2>1 DEF AnnounceFailure
  <2>2. CASE faults = 0
    BY <1>1, <2>2, AnnouncementTells DEF AnnounceFailure
  <2>3. QED
    BY <2>1, <2>2
<1>4. QED
  BY <1>2, <1>3

LEMMA AnnounceCancelledKeeps ==
  ASSUME IInv, AnnounceCancelled
  PROVE  IInv'
<1>1. subject \in Runs
  BY DEF AnnounceCancelled
<1>2. LoopInv' /\ Held'
  <2>1. TypeOK' /\ Shape' /\ RowsAsRead'
    BY <1>1 DEF AnnounceCancelled
  <2>2. QueueIsApart'
    BY <1>1, QueueStaysApart DEF AnnounceCancelled
  <2>3. Held'
    BY <1>1 DEF AnnounceCancelled
  <2>4. QED
    BY <2>1, <2>2, <2>3
<1>3. Told'
  <2>1. CASE faults # 0
    BY <2>1 DEF AnnounceCancelled
  <2>2. CASE faults = 0
    BY <1>1, <2>2, AnnouncementTells DEF AnnounceCancelled
  <2>3. QED
    BY <2>1, <2>2
<1>4. QED
  BY <1>2, <1>3

LEMMA InterruptRunKeeps ==
  ASSUME IInv, InterruptRun
  PROVE  IInv'
<1>1. subject \in Runs /\ queue = <<>> /\ Range(queue) = {} /\ item = None /\ runtime = "reconciling"
  BY EmptyQueue DEF InterruptRun
<1>2. CASE step = "reconcile"
  <2>0. StoreTyped'
    <3>1. StoreTyped
      BY DEF StoreTyped
    <3>2. QED
      BY <1>1, <1>2, <3>1, WriteTyped DEF InterruptRun
  <2>1. TypeOK' /\ Shape'
    BY <1>1, <1>2, <2>0 DEF StoreTyped, InterruptRun
  <2>2. QueueIsApart' /\ RowsAsRead'
    BY <1>1, <1>2 DEF InterruptRun
  <2>3. Held' /\ Told'
    BY <1>1, <1>2 DEF InterruptRun
  <2>4. QED
    BY <2>1, <2>2, <2>3
<1>3. CASE step = "reconcileEvent"
  <2>1. LoopInv' /\ Held'
    <3>0. StoreTyped'
      <4>1. StoreTyped
        BY DEF StoreTyped
      <4>2. Emit(subject, "failed") /\ "failed" \in EventTypes
        BY <1>3 DEF InterruptRun
      <4> HIDE DEF IInv, StoreTyped, Emit, EventTypes
      <4>3. QED
        BY <1>1, <4>1, <4>2, EmitTyped
    <3>1. TypeOK' /\ Shape'
      BY <1>1, <1>3, <3>0 DEF StoreTyped, InterruptRun
    <3>2. QueueIsApart' /\ RowsAsRead'
      BY <1>1, <1>3 DEF InterruptRun
    <3>3. Held'
      BY <1>1, <1>3 DEF InterruptRun
    <3>4. QED
      BY <3>1, <3>2, <3>3
  <2>2. Told'
    <3>1. CASE faults # 0
      BY <3>1 DEF InterruptRun
    <3>2. CASE faults = 0
      BY <1>1, <1>3, <3>2, AnnouncementTells DEF InterruptRun
    <3>3. QED
      BY <3>1, <3>2
  <2>3. QED
    BY <2>1, <2>2
<1>4. QED
  BY <1>2, <1>3 DEF InterruptRun

(* ---- Steps that end at the head of the loop ---- *)

LEMMA RetainedKeeps ==
  ASSUME IInv, Retained
  PROVE  IInv'
<1>1. queue \in Seq(Runs) /\ IsInjective(queue) /\ LoopHead(queue)
  BY DEF Retained
<1>2. /\ UNCHANGED <<subject, flushing>> /\ queue' \in Seq(Runs) /\ IsInjective(queue')
      /\ \/ drain' = "none" /\ item' = None /\ queue' = queue /\ step' = "none"
         \/ /\ drain' = "busy" /\ step' = "start" /\ item' \in Runs
            /\ item' \in Range(queue) /\ Range(queue') = Range(queue) \ {item'}
  <2> HIDE DEF IInv
  <2>1. QED
    BY <1>1, HeadTaken
<1>3. TypeOK'
  BY <1>2 DEF Retained, Settle
<1>4. Shape' /\ RowsAsRead'
  BY <1>2 DEF Retained, Settle
<1>5. QueueIsApart'
  BY <1>2 DEF Retained, Settle
<1>6. Held'
  BY <1>2 DEF Retained, Settle
<1>7. Told'
  BY <1>2 DEF Retained, Settle
<1>8. QED
  BY <1>3, <1>4, <1>5, <1>6, <1>7

(* Recovery happens only after a store call has failed. *)
LEMMA RecoverKeeps ==
  ASSUME IInv, Recover \/ Recovered
  PROVE  IInv'
<1>1. item \in Runs /\ faults # 0 /\ queue \in Seq(Runs) /\ IsInjective(queue)
  BY DEF Recover, Recovered
<1>2. CASE Recover /\ step = "recover"
  <2>0. StoreTyped'
    <3>1. StoreTyped
      BY DEF StoreTyped
    <3>2. QED
      BY <1>1, <1>2, <3>1, WriteTyped DEF Recover
  <2>1. TypeOK' /\ Shape' /\ RowsAsRead'
    BY <1>1, <1>2, <2>0 DEF StoreTyped, Recover
  <2>2. QueueIsApart'
    BY <1>1, <1>2, QueueStaysApart DEF Recover
  <2>3. Held' /\ Told'
    BY <1>1, <1>2 DEF Recover
  <2>4. QED
    BY <2>1, <2>2, <2>3
<1>3. CASE Recover /\ step = "recoverEvent"
  <2>0. StoreTyped'
    <3>1. StoreTyped
      BY DEF StoreTyped
    <3>2. QED
      BY <1>1, <1>3, <3>1, EmitTyped DEF Recover
  <2>1. TypeOK' /\ Shape' /\ RowsAsRead'
    BY <1>1, <1>3, <2>0 DEF StoreTyped, Recover
  <2>2. QueueIsApart'
    BY <1>1, <1>3, QueueStaysApart DEF Recover
  <2>3. Held' /\ Told'
    BY <1>1, <1>3 DEF Recover
  <2>4. QED
    BY <2>1, <2>2, <2>3
<1>4. CASE Recovered
  <2>1. LoopHead(queue)
    BY <1>4 DEF Recovered
  <2>2. /\ UNCHANGED <<subject, flushing>> /\ queue' \in Seq(Runs) /\ IsInjective(queue')
        /\ \/ drain' = "none" /\ item' = None /\ queue' = queue /\ step' = "none"
           \/ /\ drain' = "busy" /\ step' = "start" /\ item' \in Runs
              /\ item' \in Range(queue) /\ Range(queue') = Range(queue) \ {item'}
    <3> HIDE DEF IInv
    <3>1. QED
      BY <1>1, <2>1, HeadTaken
  <2>3. TypeOK'
    <3>1. /\ outcome' = "none" /\ failed' = FALSE /\ completed' = FALSE
          /\ UNCHANGED <<output, disk, controllers, aborted, life, bounds>>
          /\ completions' \subseteq Runs /\ cancelling' \subseteq Runs
      BY <1>4 DEF Recovered, Settle
    <3>2. step' \in Steps
      BY <2>2
    <3>4. drain' \in {"none", "busy", "command", "retention"} /\ item' \in Runs \cup {None}
      BY <2>2
    <3>5. UNCHANGED <<subject, flushing>> /\ queue' \in Seq(Runs)
      BY <2>2
    <3>6. outcome' \in Terminal \cup {"none"} /\ failed' \in BOOLEAN /\ completed' \in BOOLEAN
      BY <3>1
    <3>7. UNCHANGED <<output, disk, controllers, aborted, life, bounds>>
      BY <3>1
    <3>8. completions' \subseteq Runs /\ cancelling' \subseteq Runs
      BY <3>1
    <3> HIDE DEF Steps, EventTypes, Terminal, Shape, QueueIsApart, RowsAsRead, Held, Told
    <3>9. QED
      BY <3>2, <3>4, <3>5, <3>6, <3>7, <3>8
  <2>4. Shape' /\ RowsAsRead'
    BY <1>1, <1>4, <2>2 DEF Recovered, Settle
  <2>5. QueueIsApart'
    BY <1>4, <2>2 DEF Recovered, Settle
  <2>6. Held' /\ Told'
    BY <1>1, <1>4 DEF Recovered
  <2>7. QED
    BY <2>3, <2>4, <2>5, <2>6
<1>5. QED
  BY <1>2, <1>3, <1>4 DEF Recover

(* ---- Admission ---- *)

LEMMA BatchIs ==
  ASSUME NEW b \in Batches
  PROVE  /\ b \in Seq(Runs) /\ IsInjective(b) /\ Len(b) \in {1, 2} /\ Range(b) \subseteq Fresh
         /\ Range(b) # {}
<1>1. CASE \E r \in Fresh : b = <<r>>
  BY <1>1 DEF Fresh, IsInjective, Range
<1>2. CASE b \in Fresh \X Fresh /\ b[1] # b[2]
  <2>1. PICK r, q \in Fresh : b = <<r, q>> /\ r # q
    BY <1>2
  <2>2. QED
    BY <2>1 DEF Fresh, IsInjective, Range
<1>3. QED
  BY <1>1, <1>2 DEF Batches

LEMMA StartKeeps ==
  ASSUME IInv, NEW b \in Batches, Start(b)
  PROVE  IInv'
<1>1. /\ b \in Seq(Runs) /\ IsInjective(b) /\ Range(b) \subseteq Fresh
      /\ queue \in Seq(Runs) /\ IsInjective(queue) /\ Range(queue) \cap Range(b) = {}
  BY BatchIs DEF Fresh
<1>2. queue \o b \in Seq(Runs) /\ IsInjective(queue \o b) /\ Range(queue \o b) = Range(queue) \cup Range(b)
  BY <1>1, BatchJoins
<1>3. \A r \in Range(b) : r \in Runs /\ status[r] = "none"
  BY <1>1 DEF Fresh
<1>4. /\ runtime = "up" /\ step = "none" /\ subject = None
      /\ status' = [r \in Runs |-> IF r \in Range(b) THEN "queued" ELSE status[r]]
      /\ events' = [r \in Runs |-> IF r \in Range(b) THEN <<"queued">> ELSE events[r]]
      /\ completions' = completions \cup Range(b)
      /\ UNCHANGED <<execution, controllers, aborted, cancelling, life, bounds>>
  BY DEF Start, Admit
<1>5. \/ UNCHANGED <<drain, item, segment>> /\ Range(queue') = Range(queue) \cup Range(b)
      \/ /\ drain = "none" /\ UNCHANGED <<subject, flushing>>
         /\ drain' = "none" /\ item' = None /\ step' = "none" /\ Range(queue') = Range(queue) \cup Range(b)
      \/ /\ drain = "none" /\ UNCHANGED <<subject, flushing>>
         /\ drain' = "busy" /\ step' = "start" /\ item' \in Runs
         /\ item' \in Range(queue) \cup Range(b)
         /\ Range(queue') = (Range(queue) \cup Range(b)) \ {item'}
  <2>1. CASE drain = "none"
    <3>1. LoopHead(queue \o b)
      BY <2>1 DEF Start
    <3> HIDE DEF IInv, disk, execution, calls, life, bounds
    <3>2. QED
      BY <1>2, <2>1, <3>1, HeadTaken
  <2>2. CASE drain # "none"
    BY <1>2, <2>2 DEF Start
  <2>3. QED
    BY <2>1, <2>2
<1>6. queue' \in Seq(Runs) /\ IsInjective(queue')
  BY <1>2, HeadTaken DEF Start
<1>7. TypeOK'
  <2>1. status' \in [Runs -> Terminal \cup {"none", "queued", "running"}]
    BY <1>4
  <2>2. events' \in [Runs -> Seq(EventTypes)]
    <3>1. <<"queued">> \in Seq(EventTypes)
      OBVIOUS
    <3>2. QED
      BY <1>4, <3>1
  <2>3. drain' \in {"none", "busy", "command", "retention"} /\ item' \in Runs \cup {None} /\ step' \in Steps
    BY <1>5
  <2>4. completions' \subseteq Runs
    BY <1>3, <1>4
  <2>5. UNCHANGED <<subject, flushing, stopList, output, failed, completed, outcome, controllers, aborted>>
    BY <1>4, <1>5
  <2>6. UNCHANGED <<cancelling, runtime, stopping, stopCall, deaths, faults>>
    BY <1>4
  <2> HIDE DEF Terminal, EventTypes, Steps, Shape, QueueIsApart, RowsAsRead, Held, Told
  <2>7. QED
    BY <1>6, <2>1, <2>2, <2>3, <2>4, <2>5, <2>6
<1>8. Shape' /\ RowsAsRead'
  BY <1>3, <1>4, <1>5
<1>9. QueueIsApart'
  <2>1. \A r \in Range(queue) \cup Range(b) : r \in Runs /\ status'[r] = "queued" /\ r # subject
    <3>1. Range(queue) \in SUBSET Runs
      BY RangeOfSeq
    <3>2. QED
      BY <1>3, <1>4, <3>1
  <2>2. subject' = None
    BY <1>4, <1>5
  <2>3. \A r \in Range(queue') : r \in Range(queue) \cup Range(b) /\ r # item'
    <3>1. CASE UNCHANGED <<drain, item, segment>> /\ Range(queue') = Range(queue) \cup Range(b)
      <4>1. item # None => status[item] # "none"
        BY DEF Fresh
      <4>2. QED
        BY <1>3, <3>1, <4>1
    <3>2. CASE item' = None /\ Range(queue') = Range(queue) \cup Range(b)
      BY <2>1, <3>2
    <3>3. CASE Range(queue') = (Range(queue) \cup Range(b)) \ {item'}
      BY <3>3
    <3>4. QED
      BY <1>5, <3>1, <3>2, <3>3
  <2>4. QED
    BY <1>6, <2>1, <2>2, <2>3
<1>10. Held'
  BY <1>3, <1>4, <1>5
<1>11. Told'
  BY <1>3, <1>4, <1>5 DEF Last
<1>12. QED
  BY <1>7, <1>8, <1>9, <1>10, <1>11

(* ---- Cancellation and stop ---- *)

LEMMA CancelQueuedKeeps ==
  ASSUME IInv, NEW r \in Runs, CancelQueued(r)
  PROVE  IInv'
<1>1. queue \in Seq(Runs) /\ IsInjective(queue) /\ Unqueue(r, "cancel")
  BY DEF CancelQueued
<1>2. /\ r \in Range(queue) /\ queue' \in Seq(Runs) /\ IsInjective(queue')
      /\ Range(queue') = Range(queue) \ {r} /\ subject' = r /\ step' = "cancel" /\ flushing' = flushing
  BY <1>1, Unqueued
<1>3. LoopInv'
  BY <1>2 DEF CancelQueued
<1>4. Held' /\ Told'
  BY <1>2 DEF CancelQueued
<1>5. QED
  BY <1>3, <1>4

LEMMA CancelRunningKeeps ==
  ASSUME IInv, NEW r \in Runs, CancelRunning(r)
  PROVE  IInv'
BY DEF CancelRunning

LEMMA StopTurnKeeps ==
  ASSUME IInv, Free, NEW list \in Seq(Runs), StopTurn(list)
  PROVE  IInv'
<1>1. list # <<>> => Head(list) \in Runs /\ Tail(list) \in Seq(Runs)
  BY HeadTailProperties
<1>2. CASE list # <<>> /\ Head(list) \in Range(queue)
  <2>1. queue \in Seq(Runs) /\ IsInjective(queue) /\ Unqueue(Head(list), "stopCancel")
    BY <1>2 DEF StopTurn
  <2>2. /\ Head(list) \in Range(queue) /\ queue' \in Seq(Runs) /\ IsInjective(queue')
        /\ Range(queue') = Range(queue) \ {Head(list)}
        /\ subject' = Head(list) /\ step' = "stopCancel" /\ flushing' = flushing
    BY <2>1, Unqueued
  <2>3. TypeOK'
    <3>1. /\ stopList' \in Seq(Runs) /\ stopCall' = "cancelling" /\ stopping' = TRUE
          /\ UNCHANGED <<aborted, disk, drain, item, execution, controllers, completions>>
          /\ UNCHANGED <<cancelling, runtime, bounds>>
      BY <1>1, <1>2 DEF StopTurn
    <3>2. subject' \in Runs /\ step' \in Steps
      BY <1>1, <1>2, <2>2
    <3> HIDE DEF Steps, EventTypes, Terminal
    <3>3. QED
      BY <2>2, <3>1, <3>2
  <2>4. Shape' /\ QueueIsApart' /\ RowsAsRead'
    BY <1>1, <1>2, <2>2 DEF StopTurn
  <2>5. Held' /\ Told'
    BY <1>1, <1>2, <2>2 DEF StopTurn
  <2>6. QED
    BY <2>3, <2>4, <2>5
<1>3. CASE list = <<>> \/ Head(list) \notin Range(queue)
  <2>1. /\ stopList' \in Seq(Runs) /\ stopCall' \in {"cancelling", "draining"} /\ stopping' = TRUE
        /\ aborted' \subseteq Runs
        /\ UNCHANGED <<disk, loop, segment, execution, controllers, completions, cancelling, runtime, bounds>>
    BY <1>1, <1>3 DEF StopTurn
  <2>2. LoopInv'
    BY <2>1
  <2>3. Held' /\ Told'
    BY <2>1
  <2>4. QED
    BY <2>2, <2>3
<1>4. QED
  BY <1>2, <1>3

LEMMA StopKeeps ==
  ASSUME IInv, Stop \/ StopGoesOn \/ StopReturns
  PROVE  IInv'
<1>1. CASE Stop \/ StopGoesOn
  <2>1. queue \in Seq(Runs) /\ stopList \in Seq(Runs) /\ Free
    BY <1>1 DEF Stop, StopGoesOn
  <2>2. QED
    BY <1>1, <2>1, StopTurnKeeps DEF Stop, StopGoesOn
<1>2. CASE StopReturns
  BY <1>2 DEF StopReturns
<1>3. QED
  BY <1>1, <1>2

(* ---- The life of the process ---- *)

(* A death leaves the store as it is, and after one, or after a fault, events need
   not have been told. *)
LEMMA OffKeeps ==
  ASSUME IInv, Off, UNCHANGED status, events' \in [Runs -> Seq(EventTypes)],
         deaths' \in 0 .. MaxDeaths, faults' \in 0 .. MaxFaults,
         faults' = 0 => events' = events /\ faults = 0 /\ deaths' # 0
  PROVE  IInv'
<1>1. LoopInv'
  BY EmptyQueue DEF Off
<1>2. Held' /\ Told'
  BY EmptyQueue DEF Off
<1>3. QED
  BY <1>1, <1>2

LEMMA LifeKeeps ==
  ASSUME IInv, RuntimeDies \/ Boot \/ Ready \/ \E r \in Runs : Reconcile(r)
  PROVE  IInv'
<1>1. CASE RuntimeDies
  <2>1. deaths' \in 0 .. MaxDeaths /\ deaths' # 0
    BY <1>1 DEF RuntimeDies
  <2>2. QED
    BY <1>1, <2>1, OffKeeps DEF RuntimeDies
<1>2. CASE Boot
  BY <1>2 DEF Boot
<1>3. CASE Ready
  BY <1>3 DEF Ready
<1>4. ASSUME NEW r \in Runs, Reconcile(r)
      PROVE  IInv'
  <2>1. queue = <<>> /\ item = None
    BY <1>4 DEF Reconcile
  <2>2. QED
    BY <1>4, <2>1, EmptyQueue DEF Reconcile
<1>5. QED
  BY <1>1, <1>2, <1>3, <1>4

(* ---- Store calls that fail ---- *)

(* What was written, if anything, is an event of a run. *)
LEMMA AnnouncedTyped ==
  ASSUME IInv, Announced[1] # None
  PROVE  Announced[1] \in Runs /\ Announced[2] \in EventTypes
<1>1. CASE step \in {"announce", "emit", "finishEvent", "failEvent", "recoverEvent"}
  BY <1>1 DEF Announced
<1>2. CASE step \in {"cancelEvent", "stopCancelEvent", "reconcileEvent"}
  BY <1>2 DEF Announced
<1>3. CASE step \notin {"announce", "emit", "finishEvent", "failEvent", "recoverEvent",
                        "cancelEvent", "stopCancelEvent", "reconcileEvent"}
  BY <1>3 DEF Announced
<1>4. QED
  BY <1>1, <1>2, <1>3

(* A prefix of the batch is queued, and none of its other runs. *)
LEMMA StartFailsKeeps ==
  ASSUME IInv, NEW b \in Batches, StartFails(b)
  PROVE  IInv'
<1>1. /\ b \in Seq(Runs) /\ IsInjective(b) /\ Range(b) \subseteq Fresh
      /\ queue \in Seq(Runs) /\ IsInjective(queue)
  BY BatchIs
<1>2. PICK k \in 1 .. Len(b) :
        /\ completions' = completions \cup Range(SubSeq(b, 1, k))
        /\ queue' = queue \o SubSeq(b, 1, k - 1)
  BY DEF StartFails
<1>3. \A m \in 0 .. Len(b) :
        SubSeq(b, 1, m) \in Seq(Runs) /\ IsInjective(SubSeq(b, 1, m)) /\ Range(SubSeq(b, 1, m)) \subseteq Range(b)
  <2> HIDE DEF IInv
  <2>1. QED
    BY <1>1, PrefixIs
<1>4. k - 1 \in 0 .. Len(b) /\ k \in 0 .. Len(b) /\ Len(b) \in Nat
  BY <1>1
<1>5. /\ SubSeq(b, 1, k - 1) \in Seq(Runs) /\ IsInjective(SubSeq(b, 1, k - 1))
      /\ Range(SubSeq(b, 1, k - 1)) \subseteq Range(b) /\ Range(SubSeq(b, 1, k)) \subseteq Range(b)
  BY <1>3, <1>4
<1>6. \A r \in Range(b) : r \in Runs /\ status[r] = "none"
  BY <1>1 DEF Fresh
<1>7. Range(queue) \cap Range(SubSeq(b, 1, k - 1)) = {}
  BY <1>5, <1>6
<1>8. /\ queue' \in Seq(Runs) /\ IsInjective(queue')
      /\ Range(queue') = Range(queue) \cup Range(SubSeq(b, 1, k - 1))
  BY <1>1, <1>2, <1>5, <1>7, BatchJoins
<1>9. /\ runtime = "up" /\ step = "none" /\ subject = None
      /\ status' = [r \in Runs |-> IF r \in Range(b) THEN "queued" ELSE status[r]]
      /\ events' = [r \in Runs |-> IF r \in Range(b) THEN <<"queued">> ELSE events[r]]
      /\ faults' \in 0 .. MaxFaults /\ faults' # 0
      /\ UNCHANGED <<drain, item, segment, execution, controllers, aborted, cancelling, life, deaths>>
  BY DEF StartFails, Admit
<1>10. TypeOK'
  <2>1. status' \in [Runs -> Terminal \cup {"none", "queued", "running"}]
    BY <1>9
  <2>2. <<"queued">> \in Seq(EventTypes)
    OBVIOUS
  <2>3. events' \in [Runs -> Seq(EventTypes)]
    BY <1>9, <2>2
  <2>4. completions' \subseteq Runs
    BY <1>2, <1>5, <1>6
  <2>5. QED
    BY <1>8, <1>9, <2>1, <2>3, <2>4
<1>11. Shape' /\ RowsAsRead'
  BY <1>6, <1>9
<1>12. QueueIsApart'
  <2>1. Range(queue) \in SUBSET Runs
    BY <1>1, RangeOfSeq
  <2>2. item # None => item \notin Range(b)
    BY <1>6
  <2>3. \A r \in Range(queue') : r \in Runs /\ status'[r] = "queued" /\ r # item
    BY <1>5, <1>6, <1>8, <1>9, <2>1, <2>2
  <2>4. QED
    BY <1>8, <1>9, <2>3
<1>13. QED
  BY <1>9, <1>10, <1>11, <1>12

(* A failed call sends its segment to a place where the row is still what it needs. *)
LEMMA StoreFailsKeeps ==
  ASSUME IInv, StoreFails
  PROVE  IInv'
<1>1. /\ faults' \in 0 .. MaxFaults /\ faults' # 0 /\ UNCHANGED status
      /\ queue \in Seq(Runs) /\ IsInjective(queue)
  BY DEF StoreFails
<1>2. events' \in [Runs -> Seq(EventTypes)]
  <2>1. CASE UNCHANGED events
    BY <2>1
  <2>2. CASE Announced[1] # None /\ events' = [events EXCEPT ![Announced[1]] = Append(@, Announced[2])]
    <3>1. Announced[1] \in Runs /\ Announced[2] \in EventTypes /\ events \in [Runs -> Seq(EventTypes)]
      BY <2>2, AnnouncedTyped
    <3>2. Append(events[Announced[1]], Announced[2]) \in Seq(EventTypes)
      BY <3>1
    <3>3. QED
      BY <2>2, <3>1, <3>2
  <2>3. QED
    BY <2>1, <2>2 DEF StoreFails
<1> SUFFICES LoopInv'
  BY <1>1
<1> HIDE DEF Held, Told, Untold
(* A call of the drain loop's own: the run is recovered, unless it has ended. *)
<1>3. ASSUME Unexpected, step \in RunSteps, UNCHANGED <<life, deaths>>,
             controllers' \subseteq Runs, aborted' \subseteq Runs,
             completions' \subseteq Runs, cancelling' \subseteq Runs
      PROVE  LoopInv'
  <2>1. item \in Runs /\ runtime = "up" /\ subject = None /\ drain = "busy"
    BY <1>3
  <2>2. CASE status[item] \in Terminal
    <3>1. /\ LoopHead(queue)
          /\ outcome' = "none" /\ failed' = FALSE /\ completed' = FALSE /\ UNCHANGED output
      BY <1>3, <2>2 DEF Unexpected, Settle
    <3>2. TypeOK' /\ Shape'
      BY <1>1, <1>2, <1>3, <2>1, <3>1, HeadTaken
    <3>3. QueueIsApart' /\ RowsAsRead'
      BY <1>1, <2>1, <3>1, HeadTaken
    <3>4. QED
      BY <3>2, <3>3
  <2>3. CASE status[item] \notin Terminal
    <3>1. Turn("recover") /\ UNCHANGED <<loop, execution>>
      BY <1>3, <2>3 DEF Unexpected
    <3>2. TypeOK' /\ Shape'
      BY <1>1, <1>2, <1>3, <2>1, <3>1
    <3>3. QueueIsApart' /\ RowsAsRead'
      BY <1>1, <2>1, <3>1
    <3>4. QED
      BY <3>2, <3>3
  <2>4. QED
    BY <2>2, <2>3
<1>4. CASE StartStepFails
  <2>1. /\ Unexpected /\ step \in RunSteps /\ UNCHANGED <<life, deaths>>
        /\ controllers' \subseteq Runs /\ aborted' \subseteq Runs
        /\ completions' \subseteq Runs /\ cancelling' \subseteq Runs
    BY <1>4 DEF StartStepFails
  <2>2. QED
    BY <1>3, <2>1
<1>5. CASE FailStepFails
  <2>1. /\ Unexpected /\ step \in RunSteps /\ UNCHANGED <<life, deaths>>
        /\ controllers' \subseteq Runs /\ aborted' \subseteq Runs
        /\ completions' \subseteq Runs /\ cancelling' \subseteq Runs
    BY <1>5 DEF FailStepFails, LeaveRun
  <2>2. QED
    BY <1>3, <2>1
<1>6. CASE RecoverStepFails
  <2>1. item \in Runs /\ runtime = "up" /\ subject = None /\ LoopHead(queue)
    BY <1>6 DEF RecoverStepFails
  <2>2. TypeOK' /\ Shape'
    BY <1>1, <1>2, <1>6, <2>1, HeadTaken DEF RecoverStepFails, Settle
  <2>3. QueueIsApart' /\ RowsAsRead'
    BY <1>1, <1>6, <2>1, HeadTaken DEF RecoverStepFails, Settle
  <2>4. QED
    BY <2>2, <2>3
<1>7. CASE FinishStepFails
  <2>0. TypeOK'
    BY <1>1, <1>2, <1>7 DEF FinishStepFails
  <2>1. Shape'
    BY <1>1, <1>2, <1>7 DEF FinishStepFails
  <2>2. QueueIsApart' /\ RowsAsRead'
    BY <1>1, <1>7 DEF FinishStepFails
  <2>3. QED
    BY <2>0, <2>1, <2>2
<1>8. CASE FlushFails /\ flushing # "data"
  <2>1. item \in Runs /\ runtime = "up" /\ flushing \in {"timer", "final", "catch"}
    BY <1>8 DEF FlushFails
  <2>2. CASE flushing = "timer"
    <3>0. TypeOK'
      <4>1. step' \in Steps /\ output' \in BOOLEAN /\ failed' \in BOOLEAN /\ aborted' \subseteq Runs
        BY <1>8, <2>1, <2>2 DEF FlushFails
      <4>2. /\ UNCHANGED <<loop, subject, flushing, outcome, completed, life, deaths>>
            /\ UNCHANGED <<controllers, completions, cancelling>>
        BY <1>8, <2>2 DEF FlushFails
      <4> HIDE DEF Steps, EventTypes, Terminal, Shape, QueueIsApart, RowsAsRead
      <4>3. QED
        BY <1>1, <1>2, <4>1, <4>2
    <3>1. Shape'
      BY <1>1, <1>2, <1>8, <2>1, <2>2 DEF FlushFails
    <3>2. QueueIsApart' /\ RowsAsRead'
      BY <1>1, <1>8, <2>1, <2>2 DEF FlushFails
    <3>3. QED
      BY <3>0, <3>1, <3>2
  <2>3. CASE flushing = "final"
    <3>0. TypeOK'
      <4>1. step' \in Steps /\ output' \in BOOLEAN
        BY <1>8, <2>3 DEF FlushFails
      <4>2. UNCHANGED <<loop, subject, flushing, outcome, failed, completed, calls, life, deaths>>
        BY <1>8, <2>3 DEF FlushFails
      <4> HIDE DEF Steps, EventTypes, Terminal, Shape, QueueIsApart, RowsAsRead
      <4>3. QED
        BY <1>1, <1>2, <4>1, <4>2
    <3>1. Shape'
      BY <1>1, <1>2, <1>8, <2>1, <2>3 DEF FlushFails
    <3>2. QueueIsApart' /\ RowsAsRead'
      BY <1>1, <1>8, <2>1, <2>3 DEF FlushFails
    <3>3. QED
      BY <3>0, <3>1, <3>2
  <2>4. CASE flushing = "catch"
    <3>0. TypeOK'
      <4>1. step' \in Steps /\ output' \in BOOLEAN
        BY <1>8, <2>4 DEF FlushFails
      <4>2. UNCHANGED <<loop, subject, flushing, outcome, failed, completed, life, deaths>>
        BY <1>8, <2>4 DEF FlushFails
      <4>3. /\ controllers' \subseteq Runs /\ aborted' \subseteq Runs
            /\ completions' \subseteq Runs /\ cancelling' \subseteq Runs
        BY <1>8, <2>4 DEF FlushFails, LeaveRun
      <4> HIDE DEF Steps, EventTypes, Terminal, Shape, QueueIsApart, RowsAsRead
      <4>4. QED
        BY <1>1, <1>2, <4>1, <4>2, <4>3
    <3>1. Shape'
      BY <1>1, <1>2, <1>8, <2>1, <2>4 DEF FlushFails, LeaveRun
    <3>2. QueueIsApart' /\ RowsAsRead'
      BY <1>1, <1>8, <2>1, <2>4 DEF FlushFails, LeaveRun
    <3>3. QED
      BY <3>0, <3>1, <3>2
  <2>5. QED
    BY <2>1, <2>2, <2>3, <2>4
<1>9. CASE CancelStepFails
  <2>0. TypeOK'
    <3>1. /\ step' \in Steps /\ subject' = None
          /\ stopCall' \in {"none", "cancelling", "draining", "returned", "threw"}
      BY <1>9 DEF CancelStepFails
    <3>2. UNCHANGED <<loop, flushing, execution, calls, runtime, stopping, stopList, deaths>>
      BY <1>9 DEF CancelStepFails
    <3> HIDE DEF Steps, EventTypes, Terminal, Shape, QueueIsApart, RowsAsRead
    <3>3. QED
      BY <1>1, <1>2, <3>1, <3>2
  <2>1. Shape'
    BY <1>1, <1>2, <1>9 DEF CancelStepFails
  <2>2. QueueIsApart' /\ RowsAsRead'
    BY <1>1, <1>9, QueueStaysApart DEF CancelStepFails
  <2>3. QED
    BY <2>0, <2>1, <2>2
<1>10. CASE ReconcileStepFails \/ (FlushFails /\ flushing = "data")
  <2>1. Off /\ UNCHANGED deaths
    BY <1>10 DEF ReconcileStepFails, FlushFails
  <2>2. deaths' \in 0 .. MaxDeaths
    BY <2>1
  <2>3. IInv'
    BY <1>1, <1>2, <2>1, <2>2, OffKeeps
  <2>4. QED
    BY <2>3
<1>11. QED
  BY <1>4, <1>5, <1>6, <1>7, <1>8, <1>9, <1>10 DEF StoreFails

LEMMA StutterKeeps ==
  ASSUME IInv, UNCHANGED vars
  PROVE  IInv'
BY DEF vars

LEMMA Initially == Init => IInv
<1> SUFFICES ASSUME Init
             PROVE  IInv
  OBVIOUS
<1>1. TypeOK
  <2>1. <<>> \in Seq(Runs) /\ <<>> \in Seq(EventTypes)
    OBVIOUS
  <2>2. status \in [Runs -> Terminal \cup {"none", "queued", "running"}] /\ events \in [Runs -> Seq(EventTypes)]
    BY <2>1 DEF Init
  <2>3. deaths \in 0 .. MaxDeaths /\ faults \in 0 .. MaxFaults
    BY DEF Init
  <2>4. QED
    BY <2>1, <2>2, <2>3 DEF Init
<1>2. Shape /\ QueueIsApart /\ RowsAsRead
  BY EmptyQueue DEF Init
<1>3. Held /\ Told
  BY EmptyQueue DEF Init
<1>4. QED
  BY <1>1, <1>2, <1>3

HIDE DEF IInv, LoopInv, TypeOK, Shape, QueueIsApart, RowsAsRead, Held, Told, Untold

(* ---- The invariant and what follows ---- *)

LEMMA Inductive == IInv /\ [Next]_vars => IInv'
<1> SUFFICES ASSUME IInv, [Next]_vars
             PROVE  IInv'
  OBVIOUS
<1>1. CASE UNCHANGED vars
  BY <1>1, StutterKeeps
<1>2. ASSUME NEW b \in Batches, Start(b) \/ StartFails(b)
      PROVE  IInv'
  BY <1>2, StartKeeps, StartFailsKeeps
<1>3. CASE StoreCall
  BY <1>3, RunKeeps, BeginRunKeeps, SaveOutputKeeps, EmitOutputKeeps, AnnounceFinishKeeps,
     AnnounceFailureKeeps, RecoverKeeps, AnnounceCancelledKeeps, InterruptRunKeeps DEF StoreCall
<1>4. CASE Output \/ Flush \/ CommandEnds \/ Retained
  BY <1>4, RunKeeps, RetainedKeeps
<1>5. ASSUME NEW r \in Runs, CancelQueued(r) \/ CancelRunning(r)
      PROVE  IInv'
  BY <1>5, CancelQueuedKeeps, CancelRunningKeeps
<1>6. QED
  BY <1>1, <1>2, <1>3, <1>4, <1>5, StoreFailsKeeps, StopKeeps, LifeKeeps DEF Next

LEMMA AlwaysIInv == Spec => []IInv
<1>1. QED
  BY Initially, Inductive, PTL DEF Spec

(* Every variable of the runner keeps its type, for any runs, deaths and faults. *)
THEOREM TypeCorrect == Spec => []TypeOK
<1>1. IInv => TypeOK
  BY DEF IInv, LoopInv
<1>2. QED
  BY <1>1, AlwaysIInv, PTL

(* Whichever store calls fail and wherever the runtime dies, a run that has a result
   keeps one: every row that a segment writes it has read in a state that still holds. *)
THEOREM ResultsNeverReopen == Spec => ResultsAreKept
<1>1. ASSUME IInv, [Next]_vars
      PROVE  [\A r \in Runs : status[r] \in Terminal => status'[r] \in Terminal]_vars
  <2>1. CASE UNCHANGED vars
    BY <2>1
  <2>2. CASE Next
    <3>1. CASE UNCHANGED status
      BY <3>1
    <3>2. ASSUME NEW r \in Runs, NEW s, Write(r, s), status[r] \notin Terminal \/ s \in Terminal
          PROVE  \A q \in Runs : status[q] \in Terminal => status'[q] \in Terminal
      BY <1>1, <3>2 DEF IInv, LoopInv, TypeOK
    <3>3. ASSUME NEW b \in Batches, Admit(b)
          PROVE  \A q \in Runs : status[q] \in Terminal => status'[q] \in Terminal
      <4>1. Range(b) \subseteq Fresh
        BY BatchIs
      <4>2. QED
        BY <3>3, <4>1 DEF Admit, Fresh
    <3>4. CASE BeginRun
      BY <1>1, <3>1, <3>2, <3>4 DEF BeginRun, IInv, LoopInv, TypeOK, Shape
    <3>5. CASE SaveOutput
      BY <1>1, <3>2, <3>5 DEF SaveOutput, IInv, LoopInv, TypeOK, Shape, RowsAsRead
    <3>6. CASE FinishRun
      BY <1>1, <3>2, <3>6 DEF FinishRun, IInv, LoopInv, TypeOK, Shape, RowsAsRead
    <3>7. CASE FailRun \/ Recover
      BY <1>1, <3>1, <3>2, <3>7 DEF FailRun, Recover, IInv, LoopInv, TypeOK, Shape
    <3>8. CASE FinishCancelled \/ InterruptRun
      BY <1>1, <3>1, <3>2, <3>8 DEF FinishCancelled, InterruptRun, IInv, LoopInv, TypeOK, Shape
    <3>9. CASE \E b \in Batches : Start(b) \/ StartFails(b)
      BY <3>3, <3>9 DEF Start, StartFails
    <3>10. CASE \/ AnnounceStart \/ RecordStart \/ EmitOutput \/ AnnounceFinish \/ AnnounceFailure
                \/ RecordEnd \/ Recovered \/ AnnounceCancelled \/ StoreFails
                \/ Output \/ Flush \/ CommandEnds \/ Retained
                \/ \E r \in Runs : CancelQueued(r) \/ CancelRunning(r) \/ Reconcile(r)
                \/ Stop \/ StopGoesOn \/ StopReturns \/ RuntimeDies \/ Boot \/ Ready
      <4>1. UNCHANGED status
        BY <3>10 DEF AnnounceStart, RecordStart, EmitOutput, AnnounceFinish, AnnounceFailure,
             RecordEnd, Recovered, AnnounceCancelled, StoreFails, Output, Flush, CommandEnds,
             Retained, CancelQueued, CancelRunning, Reconcile, Stop, StopGoesOn, StopTurn,
             StopReturns, RuntimeDies, Boot, Ready
      <4>2. QED
        BY <3>1, <4>1
    <3>11. QED
      BY <2>2, <3>4, <3>5, <3>6, <3>7, <3>8, <3>9, <3>10 DEF Next, StoreCall
  <2>3. QED
    BY <1>1, <2>1, <2>2
<1>2. QED
  BY <1>1, AlwaysIInv, PTL DEF Spec, ResultsAreKept

(* Wherever the runtime dies, and while no store call has failed, the events of a run
   never contradict its row. *)
THEOREM EventsAgreeWithRows == Spec => []EventsTellTheResult
<1>1. IInv => EventsTellTheResult
  <2> SUFFICES ASSUME IInv, NEW r \in Runs, faults = 0
               PROVE  /\ \A k \in DOMAIN events[r] :
                           events[r][k] \in Terminal => k = Len(events[r]) /\ events[r][k] = status[r]
                      /\ (step = "none" /\ deaths = 0 /\ status[r] \in Terminal) => Last(events[r]) = status[r]
    BY DEF EventsTellTheResult
  <2>1. DOMAIN events[r] = 1 .. Len(events[r])
    BY DEF IInv, LoopInv, TypeOK
  <2>2. step = "none" => ~Untold(r)
    BY DEF Untold
  <2>3. QED
    BY <2>1, <2>2 DEF IInv, Told
<1>2. QED
  BY <1>1, AlwaysIInv, PTL

(* While no store call has failed, the runner holds every active run exactly once and
   nothing that has ended: idle shutdown and the callers of cancel wait for real work. *)
THEOREM RunnerHoldsWhatIsActive == Spec => []ActiveRunsAreHeld
<1>1. IInv => ActiveRunsAreHeld
  BY DEF IInv, LoopInv, QueueIsApart, Held, ActiveRunsAreHeld
<1>2. QED
  BY <1>1, AlwaysIInv, PTL
=============================================================================
