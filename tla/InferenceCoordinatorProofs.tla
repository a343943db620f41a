--------------------- MODULE InferenceCoordinatorProofs ---------------------
(***************************************************************************)
(* Theorems about InferenceCoordinator, for any operations, models, host   *)
(* processes and policy.  QueueInv says which operations lie in which      *)
(* queue and how the burst counter bounds overtaking; HostInv says, for    *)
(* every await of the drain loop, what the host processes may be doing.    *)
(* The section before the last is on the byte account: a sum over a set    *)
(* changes by what one element adds to it.                                 *)
(***************************************************************************)
EXTENDS InferenceCoordinator, SequenceTheorems, FiniteSetTheorems, NaturalsInduction, TLAPS

(* Each queue holds operations of its own priority. *)
OwnPriority(q) ==
  \A p \in Priorities : \A k \in 1..Len(q[p]) : Priority[q[p][k]] = p

(* The burst counter bounds how often background work has been overtaken, and
   interactive work has been overtaken only by the operation that reset it. *)
BurstBounds ==
  /\ overtaken["background"] <= interactiveBurst
  /\ overtaken["interactive"] <= 1
  /\ overtaken["interactive"] = 1 => interactiveBurst = 0

QueueInv == OwnPriority(queue) /\ BurstBounds

(* What each await of the drain loop says of the active operation, the process
   it uses and the current host. *)
StepInv ==
  /\ step = "idle" <=> active = None
  /\ step \in {"ensuring", "starting", "retiring"} => host = None
  /\ step \in {"starting", "connecting", "counting", "embedding"} =>
       using # None /\ loaded[using] = Model[active]
  /\ step \in {"connecting", "counting", "embedding"} /\ using = host => residentModel = loaded[host]
  /\ step = "starting" => process[using] = "loading"
  /\ stopped /\ active # None => aborted
  /\ stopped => ~idleTimer

HostKnown ==
  /\ host # None => process[host] \in {"serving", "crashed", "killed"}
  /\ residentModel # None => host # None /\ residentModel = loaded[host]

HostInv ==
  /\ StepInv
  /\ HostKnown
  /\ NoOrphanHost
  /\ InFlightIsServed
  /\ IdleHostIsWatched

-----------------------------------------------------------------------------
(* Types. *)

QueueType ==
  /\ queue \in [Priorities -> Seq(Operations)]
  /\ queueBytes \in Int
  /\ interactiveBurst \in 0..MaximumBurst
  /\ overtaken \in [Priorities -> 0..MaximumOvertaken]

DrainType ==
  /\ active \in Operations \cup {None}
  /\ step \in Steps
  /\ using \in Slots \cup {None}
  /\ aborted \in BOOLEAN

HostType ==
  /\ host \in Slots \cup {None}
  /\ residentModel \in Models \cup {None}
  /\ hostStatus \in HostStatuses
  /\ process \in [Slots -> ProcessStates]
  /\ loaded \in [Slots -> Models \cup {None}]

CallType ==
  /\ pending \subseteq Operations
  /\ idleTimer \in BOOLEAN /\ stopped \in BOOLEAN
  /\ stopCall \in {"none", "awaiting", "returned"}

LEMMA TypeParts == TypeOK <=> QueueType /\ DrainType /\ HostType /\ CallType
BY Zenon DEF TypeOK, QueueType, DrainType, HostType, CallType

(* The operation the loop takes is the head of its own priority's queue, and
   which priority it has follows the burst rule. *)
LEMMA TakenIsHead ==
  ASSUME NEW q \in [Priorities -> Seq(Operations)], OwnPriority(q),
         NextOperation(q) # None
  PROVE  /\ NextOperation(q) \in Operations
         /\ q[Priority[NextOperation(q)]] # <<>>
         /\ NextOperation(q) = Head(q[Priority[NextOperation(q)]])
         /\ Priority[NextOperation(q)] = "background" =>
              ~(interactiveBurst < BurstLimit) \/ q["interactive"] = <<>>
         /\ Priority[NextOperation(q)] = "interactive" =>
              interactiveBurst < BurstLimit \/ q["background"] = <<>>
<1>1. q["interactive"] \in Seq(Operations) /\ q["background"] \in Seq(Operations)
  BY DEF Priorities
<1>2. \A p \in Priorities : q[p] # <<>> => Head(q[p]) \in Operations /\ Priority[Head(q[p])] = p
  <2> SUFFICES ASSUME NEW p \in Priorities, q[p] # <<>>
               PROVE  Head(q[p]) \in Operations /\ Priority[Head(q[p])] = p
    OBVIOUS
  <2>1. q[p] \in Seq(Operations)
    OBVIOUS
  <2>2. Len(q[p]) > 0 /\ 1 \in 1..Len(q[p]) /\ Head(q[p]) = q[p][1]
    BY <2>1
  <2>. QED BY <2>1, <2>2 DEF OwnPriority
<1>3. CASE /\ q["interactive"] # <<>>
           /\ interactiveBurst < BurstLimit \/ q["background"] = <<>>
  <2>1. NextOperation(q) = Head(q["interactive"])
    BY <1>3 DEF NextOperation
  <2>. QED BY <2>1, <1>2, <1>3 DEF Priorities
<1>4. CASE ~(/\ q["interactive"] # <<>>
             /\ interactiveBurst < BurstLimit \/ q["background"] = <<>>)
  <2>1. q["background"] # <<>> /\ NextOperation(q) = Head(q["background"])
    BY <1>4 DEF NextOperation
  <2>. QED BY <2>1, <1>2, <1>4 DEF Priorities
<1>. QED BY <1>3, <1>4

(* The frame of a loop head entered with a well-typed queue. *)
LEMMA TakeType ==
  ASSUME TypeOK, NEW op \in Operations,
         NEW q \in [Priorities -> Seq(Operations)], q[Priority[op]] # <<>>,
         NEW bytes \in Int, NEW st \in HostStatuses,
         TakeOperation(op, q, bytes, st), loaded' = loaded
  PROVE  QueueType' /\ DrainType' /\ HostType'
<1> USE OperationAssumption
<1>1. QueueType'
  <2>1. Priority[op] \in Priorities /\ Bytes[op] \in Int
    OBVIOUS
  <2>2. queue' \in [Priorities -> Seq(Operations)]
    <3>1. Tail(q[Priority[op]]) \in Seq(Operations)
      BY <2>1
    <3>. QED BY <3>1, <2>1 DEF TakeOperation
  <2>3. queueBytes' \in Int
    BY <2>1 DEF TakeOperation, TakeBytes
  <2>4. interactiveBurst' \in 0..MaximumBurst
    BY DEF TakeOperation, NextBurst, TypeOK, MaximumBurst, BurstLimit
  <2>5. overtaken' \in [Priorities -> 0..MaximumOvertaken]
    <3>1. \A n \in 0..MaximumOvertaken : n < MaximumOvertaken => n + 1 \in 0..MaximumOvertaken
      BY DEF MaximumOvertaken, BurstLimit
    <3>2. 0 \in 0..MaximumOvertaken
      BY DEF MaximumOvertaken, BurstLimit
    <3>3. \A p \in Priorities : overtaken[p] \in 0..MaximumOvertaken
      BY DEF TypeOK
    <3>. QED BY <3>1, <3>2, <3>3 DEF TakeOperation, Overtakes
  <2>. QED BY <2>2, <2>3, <2>4, <2>5 DEF QueueType
<1>2. DrainType' /\ HostType'
  <2>1. StopHost(host, "retiring") \in [Slots -> ProcessStates]
    BY DEF StopHost, TypeOK, ProcessStates
  <2>2. active' \in Operations \cup {None} /\ aborted' \in BOOLEAN
    BY DEF TakeOperation
  <2>3. CASE EnsureHost(op, st)
    BY <2>1, <2>2, <2>3 DEF EnsureHost, RetireHost, TypeOK, DrainType, HostType, Steps, HostStatuses
  <2>4. CASE step' = "rejecting" /\ using' = None /\ hostStatus' = st
             /\ UNCHANGED <<host, residentModel, process>>
    BY <2>2, <2>4 DEF TypeOK, DrainType, HostType, Steps
  <2>. QED BY <2>3, <2>4 DEF TakeOperation
<1>. QED BY <1>1, <1>2

LEMMA LoopType ==
  ASSUME TypeOK, OwnPriority(queue), NEW st \in HostStatuses,
         LoopHead(queue, queueBytes, st), loaded' = loaded
  PROVE  QueueType' /\ DrainType' /\ HostType' /\ idleTimer' \in BOOLEAN
<1>1. CASE stopped \/ NextOperation(queue) = None
  BY <1>1 DEF LoopHead, DrainEnds, SchedulesEviction, TypeOK, QueueType, DrainType, HostType,
              Steps, HostStatuses
<1>2. CASE ~(stopped \/ NextOperation(queue) = None)
  <2>1. queue \in [Priorities -> Seq(Operations)] /\ queueBytes \in Int
    BY DEF TypeOK
  <2>2. /\ NextOperation(queue) \in Operations
        /\ queue[Priority[NextOperation(queue)]] # <<>>
    BY <1>2, <2>1, TakenIsHead
  <2>3. TakeOperation(NextOperation(queue), queue, queueBytes, st) /\ idleTimer' = idleTimer
    BY <1>2 DEF LoopHead
  <2>. QED BY <2>1, <2>2, <2>3, TakeType DEF TypeOK
<1>. QED BY <1>1, <1>2

(* Removing the element at a position keeps the others in order. *)
LEMMA RemoveAtSeq ==
  ASSUME NEW S, NEW s \in Seq(S), NEW k \in 1..Len(s)
  PROVE  /\ RemoveAt(s, k) \in Seq(S)
         /\ Len(RemoveAt(s, k)) = Len(s) - 1
         /\ \A i \in 1..(Len(s) - 1) :
              RemoveAt(s, k)[i] = IF i < k THEN s[i] ELSE s[i + 1]
<1>1. /\ SubSeq(s, 1, k - 1) \in Seq(S) /\ Len(SubSeq(s, 1, k - 1)) = k - 1
      /\ \A i \in 1..(k - 1) : SubSeq(s, 1, k - 1)[i] = s[i]
  OBVIOUS
<1>2. /\ SubSeq(s, k + 1, Len(s)) \in Seq(S) /\ Len(SubSeq(s, k + 1, Len(s))) = Len(s) - k
      /\ \A i \in 1..(Len(s) - k) : SubSeq(s, k + 1, Len(s))[i] = s[k + i]
  OBVIOUS
<1> DEFINE a == SubSeq(s, 1, k - 1)
           b == SubSeq(s, k + 1, Len(s))
<1>3. a \in Seq(S) /\ b \in Seq(S) /\ Len(a) = k - 1 /\ Len(b) = Len(s) - k
  BY <1>1, <1>2
<1>4. RemoveAt(s, k) = a \o b
  BY DEF RemoveAt
<1>5. \A i \in 1..(k - 1) : a[i] = s[i]
  BY <1>1
<1>6. \A i \in 1..(Len(s) - k) : b[i] = s[k + i]
  BY <1>2
<1> HIDE DEF a, b
<1>7. a \o b \in Seq(S) /\ Len(a \o b) = Len(a) + Len(b)
  BY <1>3
<1>8. ASSUME NEW i \in 1..(Len(s) - 1)
      PROVE  (a \o b)[i] = IF i < k THEN s[i] ELSE s[i + 1]
  <2>1. Len(s) \in Nat /\ k \in 1..Len(s) /\ i \in Nat
    OBVIOUS
  <2>2. CASE i < k
    <3>1. i \in 1..(k - 1) /\ (a \o b)[i] = a[i]
      BY <2>1, <2>2, <1>3
    <3>. QED BY <3>1, <2>2, <1>5
  <2>3. CASE ~(i < k)
    <3>1. i - (k - 1) \in 1..(Len(s) - k) /\ (a \o b)[i] = b[i - (k - 1)]
      BY <2>1, <2>3, <1>3
    <3>2. k + (i - (k - 1)) = i + 1
      BY <2>1
    <3>. QED BY <3>1, <3>2, <2>3, <1>6
  <2>. QED BY <2>2, <2>3
<1>9. Len(a) + Len(b) = Len(s) - 1
  <2>1. Len(s) \in Nat /\ k \in Int
    OBVIOUS
  <2>. QED BY <2>1, <1>3
<1>. QED BY <1>4, <1>7, <1>8, <1>9

(* A queue extended with an operation of its priority, or without one of its
   operations, is still a queue of that priority. *)
LEMMA AppendedQueue ==
  ASSUME OperationAssumption, NEW q \in [Priorities -> Seq(Operations)], OwnPriority(q),
         NEW op \in Operations
  PROVE  LET r == [q EXCEPT ![Priority[op]] = Append(@, op)] IN
         /\ r \in [Priorities -> Seq(Operations)]
         /\ OwnPriority(r)
         /\ NextOperation(r) # None
<1> DEFINE r == [q EXCEPT ![Priority[op]] = Append(@, op)]
<1>1. Priority[op] \in Priorities
  BY DEF OperationAssumption
<1>2. r \in [Priorities -> Seq(Operations)]
  BY <1>1
<1>3. OwnPriority(r)
  <2> SUFFICES ASSUME NEW p \in Priorities, NEW k \in 1..Len(r[p])
               PROVE  Priority[r[p][k]] = p
    BY DEF OwnPriority
  <2>1. CASE p # Priority[op]
    BY <2>1, <1>1 DEF OwnPriority
  <2>2. CASE p = Priority[op]
    <3>1. r[p] = Append(q[p], op) /\ q[p] \in Seq(Operations)
      BY <2>2, <1>1
    <3>2. CASE k = Len(q[p]) + 1
      BY <3>1, <3>2, <2>2
    <3>3. CASE k \in 1..Len(q[p])
      <4>1. r[p][k] = q[p][k]
        BY <3>1, <3>3
      <4>. QED BY <4>1, <3>3 DEF OwnPriority
    <3>. QED BY <3>1, <3>2, <3>3
  <2>. QED BY <2>1, <2>2
<1>4. NextOperation(r) # None
  <2>1. \A p \in Priorities : r[p] # <<>> => Head(r[p]) \in Operations
    BY <1>2
  <2>2. r[Priority[op]] # <<>>
    <3>1. r[Priority[op]] = Append(q[Priority[op]], op) /\ q[Priority[op]] \in Seq(Operations)
      BY <1>1
    <3> HIDE DEF r
    <3>2. Append(q[Priority[op]], op) # <<>>
      <4>1. \A u \in Seq(Operations) : Append(u, op) # <<>>
        <5> SUFFICES ASSUME NEW u \in Seq(Operations) PROVE Append(u, op) # <<>>
          OBVIOUS
        <5>1. Len(Append(u, op)) # 0
          OBVIOUS
        <5>2. Len(<<>>) = 0
          OBVIOUS
        <5>. QED BY <5>1, <5>2, Zenon
      <4>. QED BY <3>1, <4>1, Zenon
    <3>. QED BY <3>1, <3>2, Zenon
  <2>3. r["interactive"] # <<>> \/ r["background"] # <<>>
    BY <2>2, <1>1 DEF Priorities
  <2> HIDE DEF r
  <2>. QED BY <2>1, <2>3, NoneAssumption DEF NextOperation, Priorities
<1>. QED BY <1>2, <1>3, <1>4

LEMMA RemovedQueue ==
  ASSUME OperationAssumption, NEW q \in [Priorities -> Seq(Operations)], OwnPriority(q),
         NEW op \in Operations, NEW k \in 1..Len(q[Priority[op]])
  PROVE  LET r == [q EXCEPT ![Priority[op]] = RemoveAt(@, k)] IN
         /\ r \in [Priorities -> Seq(Operations)]
         /\ OwnPriority(r)
<1> DEFINE r == [q EXCEPT ![Priority[op]] = RemoveAt(@, k)]
<1>1. Priority[op] \in Priorities /\ q[Priority[op]] \in Seq(Operations)
  BY DEF OperationAssumption
<1>2. /\ RemoveAt(q[Priority[op]], k) \in Seq(Operations)
      /\ Len(RemoveAt(q[Priority[op]], k)) = Len(q[Priority[op]]) - 1
      /\ \A i \in 1..(Len(q[Priority[op]]) - 1) :
           RemoveAt(q[Priority[op]], k)[i] =
             IF i < k THEN q[Priority[op]][i] ELSE q[Priority[op]][i + 1]
  BY <1>1, RemoveAtSeq
<1>3. r \in [Priorities -> Seq(Operations)]
  BY <1>1, <1>2
<1>4. OwnPriority(r)
  <2> SUFFICES ASSUME NEW p \in Priorities, NEW i \in 1..Len(r[p])
               PROVE  Priority[r[p][i]] = p
    BY DEF OwnPriority
  <2>1. CASE p # Priority[op]
    BY <2>1, <1>1 DEF OwnPriority
  <2>2. CASE p = Priority[op]
    <3>1. r[p] = RemoveAt(q[p], k)
      BY <2>2, <1>1
    <3>2. Len(q[p]) \in Nat
      BY <1>1, <2>2
    <3>3. i \in 1..(Len(q[p]) - 1)
      BY <3>1, <1>2, <2>2
    <3>4. i \in 1..Len(q[p]) /\ i + 1 \in 1..Len(q[p])
      BY <3>2, <3>3
    <3>5. r[p][i] = q[p][i] \/ r[p][i] = q[p][i + 1]
      BY <3>1, <3>3, <1>2, <2>2
    <3>6. \A j \in 1..Len(q[p]) : Priority[q[p][j]] = p
      BY DEF OwnPriority
    <3> HIDE DEF r
    <3>. QED BY <3>4, <3>5, <3>6, Zenon
  <2>. QED BY <2>1, <2>2
<1>. QED BY <1>3, <1>4

(* A queued operation lies in the queue of its priority, where removeQueued
   finds it. *)
LEMMA QueuedPosition ==
  ASSUME TypeOK, OwnPriority(queue), NEW op \in Queued
  PROVE  /\ op \in Operations
         /\ IndexOf(queue[Priority[op]], op) \in 1..Len(queue[Priority[op]])
<1>1. PICK p \in Priorities : op \in ToSet(queue[p])
  BY DEF Queued
<1>2. queue[p] \in Seq(Operations)
  BY DEF TypeOK
<1>3. PICK k \in 1..Len(queue[p]) : queue[p][k] = op
  BY <1>1, <1>2 DEF ToSet
<1>4. Priority[op] = p
  BY <1>3 DEF OwnPriority
<1>5. DOMAIN queue[p] = 1..Len(queue[p])
  BY <1>2
<1>. QED BY <1>2, <1>3, <1>4, <1>5 DEF IndexOf

(* Every step preserves the types. *)
LEMMA StepTypeOK ==
  TypeOK /\ OwnPriority(queue) /\ (step = "idle" <=> active = None) /\ [Next]_vars => TypeOK'
<1> SUFFICES ASSUME TypeOK, OwnPriority(queue), step = "idle" <=> active = None, [Next]_vars
             PROVE  QueueType' /\ DrainType' /\ HostType' /\ CallType'
  BY TypeParts DEF TypeOK, QueueType, DrainType, HostType, CallType
<1> USE OperationAssumption
<1>0. QueueType /\ DrainType /\ HostType /\ CallType
  BY TypeParts
<1>1. ASSUME NEW op \in Operations, Enqueue(op)
      PROVE  QueueType' /\ DrainType' /\ HostType' /\ CallType'
  <2> DEFINE q == [queue EXCEPT ![Priority[op]] = Append(@, op)]
  <2> DEFINE st == IF host # None THEN "ready" ELSE hostStatus
  <2>1. /\ q \in [Priorities -> Seq(Operations)]
        /\ OwnPriority(q)
        /\ NextOperation(q) # None
    BY AppendedQueue DEF TypeOK
  <2>5. st \in HostStatuses /\ queueBytes + Bytes[op] \in Int
    BY DEF TypeOK, HostStatuses
  <2> HIDE DEF q, st
  <2>2. CallType'
    BY <1>1 DEF Enqueue, ClearIdleEviction, TypeOK, CallType
  <2>3. CASE step = "idle"
    <3>1. TakeOperation(NextOperation(q), q, queueBytes + Bytes[op], st) /\ loaded' = loaded
      BY <1>1, <2>3 DEF Enqueue, q, st
    <3>. QED BY <2>1, <2>5, <2>2, <3>1, TakenIsHead, TakeType
  <2>4. CASE step # "idle"
    BY <1>0, <1>1, <2>1, <2>5, <2>2, <2>4 DEF Enqueue, q, st, QueueType, DrainType, HostType, activeVars
  <2>. QED BY <2>3, <2>4
<1>2. ASSUME NEW op \in Operations, CancelQueued(op)
      PROVE  QueueType' /\ DrainType' /\ HostType' /\ CallType'
  <2>1. /\ queue' \in [Priorities -> Seq(Operations)]
        /\ queueBytes' \in Int
    <3>1. op \in Queued /\ op \in Operations
      BY <1>2 DEF CancelQueued
    <3>2. IndexOf(queue[Priority[op]], op) \in 1..Len(queue[Priority[op]])
      BY <3>1, QueuedPosition
    <3>3. queue \in [Priorities -> Seq(Operations)]
      BY DEF TypeOK
    <3>4. Priority[op] \in Priorities /\ Bytes[op] \in Int /\ queueBytes \in Int
      BY DEF TypeOK
    <3>5. [queue EXCEPT ![Priority[op]] = RemoveAt(@, IndexOf(queue[Priority[op]], op))]
            \in [Priorities -> Seq(Operations)]
      BY <3>2, <3>3, RemovedQueue
    <3>6. queue' = [queue EXCEPT ![Priority[op]] = RemoveAt(@, IndexOf(queue[Priority[op]], op))]
      BY <1>2, <3>3, <3>4 DEF CancelQueued
    <3>. QED BY <1>2, <3>4, <3>5, <3>6 DEF CancelQueued
  <2>. QED BY <1>0, <1>2, <2>1 DEF CancelQueued, QueueType, DrainType, HostType, CallType,
              activeVars, hostVars
<1>3. ASSUME CancelActive \/ DeadlinePasses
      PROVE  QueueType' /\ DrainType' /\ HostType' /\ CallType'
  <2>1. AbortActive
    BY <1>3 DEF CancelActive, DeadlinePasses
  <2>2. KillInFlight(using) \in [Slots -> ProcessStates]
    BY DEF KillInFlight, TypeOK, ProcessStates
  <2>. QED BY <1>0, <2>1, <2>2 DEF AbortActive, QueueType, DrainType, HostType, CallType,
              queueVars, Steps
<1>4. CASE Describe
  BY <1>0, <1>4 DEF Describe, QueueType, DrainType, HostType, CallType, queueVars, activeVars,
     HostStatuses, ProcessStates
<1>5. CASE Stop
  <2>1. StopHost(host, "stopping") \in [Slots -> ProcessStates]
    BY DEF StopHost, TypeOK, ProcessStates
  <2>2. QueueType'
    <3>1. << >> \in Seq(Operations)
      OBVIOUS
    <3>2. queue' \in [Priorities -> Seq(Operations)]
      BY <1>5, <3>1 DEF Stop
    <3>. QED BY <1>0, <1>5, <3>2 DEF Stop, QueueType
  <2>3. DrainType'
    BY <1>0, <1>5 DEF Stop, StopAborts, DrainType, Steps
  <2>4. HostType' /\ CallType'
    BY <1>0, <1>5, <2>1 DEF Stop, HostType, CallType, HostStatuses
  <2>. QED BY <2>2, <2>3, <2>4
<1>6. CASE StartHost
  <2>1. active \in Operations
    BY <1>0, <1>6 DEF StartHost, DrainType
  <2>. QED BY <1>0, <1>6, <2>1 DEF StartHost, QueueType, DrainType, HostType, CallType,
              queueVars, Steps, HostStatuses, ProcessStates
<1>7. CASE HostStarts
  <2>1. active \in Operations
    BY <1>0, <1>7 DEF HostStarts, DrainType
  <2>. QED BY <1>0, <1>7, <2>1 DEF HostStarts, QueueType, DrainType, HostType, CallType,
              queueVars, Steps, HostStatuses, ProcessStates
<1>8. CASE HostStartFails \/ HostMismatches
  BY <1>0, <1>8 DEF HostStartFails, HostMismatches, QueueType, DrainType, HostType, CallType,
     queueVars, Steps, HostStatuses, ProcessStates
<1>9. CASE SendRequest
  <2>1. KillInFlight(using) \in [Slots -> ProcessStates]
    BY DEF KillInFlight, TypeOK, ProcessStates
  <2>. QED BY <1>0, <1>9, <2>1 DEF SendRequest, QueueType, DrainType, HostType, CallType,
              queueVars, Steps
<1>10. CASE SendEmbed \/ AnswerRejected
  BY <1>0, <1>10 DEF SendEmbed, AnswerRejected, QueueType, DrainType, HostType, CallType,
     queueVars, hostVars, Steps
<1>11. CASE OperationCompletes
  <2>1. hostStatus \in HostStatuses /\ LoopHead(queue, queueBytes, hostStatus) /\ loaded' = loaded
    BY <1>11 DEF OperationCompletes, TypeOK
  <2>2. QueueType' /\ DrainType' /\ HostType' /\ idleTimer' \in BOOLEAN
    BY <2>1, LoopType
  <2>. QED BY <1>0, <1>11, <2>2 DEF OperationCompletes, CallType
<1>12. CASE OperationFails
  <2>2. CASE MustRetire
    <3>1. StopHost(host, "retiring") \in [Slots -> ProcessStates]
      BY DEF StopHost, TypeOK, ProcessStates
    <3>. QED BY <1>0, <1>12, <2>2, <3>1 DEF OperationFails, RetireHost, QueueType, DrainType,
                HostType, CallType, queueVars, Steps, HostStatuses
  <2>3. CASE ~MustRetire
    <3>1. hostStatus \in HostStatuses /\ LoopHead(queue, queueBytes, hostStatus) /\ loaded' = loaded
      BY <1>12, <2>3 DEF OperationFails, TypeOK
    <3>2. QueueType' /\ DrainType' /\ HostType' /\ idleTimer' \in BOOLEAN
      BY <3>1, LoopType
    <3>. QED BY <1>0, <1>12, <3>2 DEF OperationFails, CallType
  <2>. QED BY <2>2, <2>3
<1>13. CASE ResumeAfterRetirement
  <2>1. RetiredStatus \in HostStatuses
    BY DEF RetiredStatus, TypeOK, HostStatuses
  <2>2. LoopHead(queue, queueBytes, RetiredStatus) /\ loaded' = loaded
    BY <1>13 DEF ResumeAfterRetirement
  <2>3. QueueType' /\ DrainType' /\ HostType' /\ idleTimer' \in BOOLEAN
    BY <2>1, <2>2, LoopType
  <2>. QED BY <1>0, <1>13, <2>3 DEF ResumeAfterRetirement, CallType
<1>14. CASE IdleTimerFires
  <2>1. StopHost(host, "evicting") \in [Slots -> ProcessStates]
    BY DEF StopHost, TypeOK, ProcessStates
  <2>. QED BY <1>0, <1>14, <2>1 DEF IdleTimerFires, RetireHost, QueueType, DrainType, HostType,
              CallType, queueVars, activeVars, HostStatuses
<1>15. ASSUME NEW s \in Slots, HostCrashes(s) \/ KilledHostExits(s) \/ TerminationEnds(s)
       PROVE  QueueType' /\ DrainType' /\ HostType' /\ CallType'
  <2>1. CASE HostCrashes(s)
    BY <1>0, <2>1 DEF HostCrashes, QueueType, DrainType, HostType, CallType, queueVars, Steps,
       ProcessStates
  <2>2. CASE KilledHostExits(s)
    BY <1>0, <2>2 DEF KilledHostExits, QueueType, DrainType, HostType, CallType, queueVars,
       activeVars, ProcessStates
  <2>3. CASE TerminationEnds(s)
    BY <1>0, <2>3 DEF TerminationEnds, RetiredStatus, QueueType, DrainType, HostType, CallType,
       queueVars, activeVars, ProcessStates, HostStatuses
  <2>. QED BY <1>15, <2>1, <2>2, <2>3
<1>16. CASE UNCHANGED vars
  BY <1>0, <1>16 DEF vars, QueueType, DrainType, HostType, CallType
<1>. QED BY <1>1, <1>2, <1>3, <1>4, <1>5, <1>6, <1>7, <1>8, <1>9, <1>10, <1>11, <1>12, <1>13,
            <1>14, <1>15, <1>16 DEF Next

-----------------------------------------------------------------------------
(* The queues and the burst rule. *)

LEMMA NothingToTake ==
  ASSUME NEW q \in [Priorities -> Seq(Operations)], NextOperation(q) = None
  PROVE  q["interactive"] = <<>> /\ q["background"] = <<>>
<1>1. \A p \in Priorities : q[p] # <<>> => Head(q[p]) \in Operations
  OBVIOUS
<1>. QED BY <1>1, NoneAssumption DEF NextOperation, Priorities

LEMMA TakeQueue ==
  ASSUME TypeOK, BurstBounds, OperationAssumption,
         NEW q \in [Priorities -> Seq(Operations)], OwnPriority(q), NextOperation(q) # None,
         NEW bytes, NEW st, TakeOperation(NextOperation(q), q, bytes, st)
  PROVE  QueueInv'
<1> DEFINE op == NextOperation(q)
<1>1. /\ op \in Operations /\ q[Priority[op]] # <<>>
      /\ Priority[op] = "background" =>
           ~(interactiveBurst < BurstLimit) \/ q["interactive"] = <<>>
      /\ Priority[op] = "interactive" =>
           interactiveBurst < BurstLimit \/ q["background"] = <<>>
  BY TakenIsHead
<1>2. /\ queue' = [q EXCEPT ![Priority[op]] = Tail(@)]
      /\ interactiveBurst' = NextBurst(op)
      /\ overtaken' = Overtakes(op, q)
  BY DEF TakeOperation
<1>3. Priority[op] \in Priorities
  BY <1>1 DEF OperationAssumption
<1> HIDE DEF op
<1>4. OwnPriority(queue')
  <2> SUFFICES ASSUME NEW p \in Priorities, NEW k \in 1..Len(queue'[p])
               PROVE  Priority[queue'[p][k]] = p
    BY DEF OwnPriority
  <2>1. q[p] \in Seq(Operations)
    OBVIOUS
  <2>2. CASE p # Priority[op]
    <3>1. queue'[p] = q[p]
      BY <1>2, <1>3, <2>2
    <3>. QED BY <3>1 DEF OwnPriority
  <2>3. CASE p = Priority[op]
    <3>1. queue'[p] = Tail(q[p]) /\ q[p] # <<>>
      BY <1>1, <1>2, <1>3, <2>3
    <3>2. k + 1 \in 1..Len(q[p]) /\ queue'[p][k] = q[p][k + 1]
      BY <2>1, <3>1
    <3>. QED BY <3>2 DEF OwnPriority
  <2>. QED BY <2>2, <2>3
<1>5. BurstBounds'
  <2>1. /\ interactiveBurst \in 0..4
        /\ overtaken["interactive"] \in 0..5 /\ overtaken["background"] \in 0..5
    BY DEF TypeOK, MaximumBurst, MaximumOvertaken, BurstLimit, Priorities
  <2>2. CASE Priority[op] = "background"
    <3>1. interactiveBurst' = 0 /\ overtaken'["background"] = 0
      BY <1>2, <2>2 DEF NextBurst, Overtakes, Priorities
    <3>2. overtaken'["interactive"] \in {0, 1}
      <4>1. CASE q["interactive"] = <<>>
        BY <1>2, <2>2, <4>1 DEF Overtakes, Priorities
      <4>2. CASE q["interactive"] # <<>>
        <5>1. ~(interactiveBurst < 4)
          BY <1>1, <2>2, <4>2 DEF BurstLimit
        <5>2. overtaken["interactive"] = 0
          BY <2>1, <5>1 DEF BurstBounds
        <5>3. overtaken'["interactive"] =
                IF overtaken["interactive"] < 5 THEN overtaken["interactive"] + 1
                ELSE overtaken["interactive"]
          BY <1>2, <2>2, <4>2 DEF Overtakes, Priorities, MaximumOvertaken, BurstLimit
        <5>. QED BY <5>2, <5>3
      <4>. QED BY <4>1, <4>2
    <3>. QED BY <3>1, <3>2 DEF BurstBounds
  <2>3. CASE Priority[op] = "interactive"
    <3>1. overtaken'["interactive"] = 0
      BY <1>2, <2>3 DEF Overtakes, Priorities
    <3>2. overtaken'["background"] <= interactiveBurst'
      <4>1. interactiveBurst' \in 0..4
        BY <1>2, <2>1, <2>3 DEF NextBurst, MaximumBurst, BurstLimit
      <4>2. CASE q["background"] = <<>>
        BY <1>2, <2>3, <4>1, <4>2 DEF Overtakes, Priorities
      <4>3. CASE q["background"] # <<>>
        <5>1. interactiveBurst < 4
          BY <1>1, <2>3, <4>3 DEF BurstLimit
        <5>2. interactiveBurst' = interactiveBurst + 1
          BY <1>2, <2>3, <5>1 DEF NextBurst, MaximumBurst, BurstLimit
        <5>3. overtaken'["background"] =
                IF overtaken["background"] < 5 THEN overtaken["background"] + 1
                ELSE overtaken["background"]
          BY <1>2, <2>3, <4>3 DEF Overtakes, Priorities, MaximumOvertaken, BurstLimit
        <5>. QED BY <2>1, <5>1, <5>2, <5>3 DEF BurstBounds
      <4>. QED BY <4>2, <4>3
    <3>. QED BY <3>1, <3>2 DEF BurstBounds
  <2>. QED BY <1>3, <2>2, <2>3 DEF Priorities
<1>. QED BY <1>4, <1>5 DEF QueueInv

LEMMA LoopQueue ==
  ASSUME TypeOK, QueueInv, NEW st, LoopHead(queue, queueBytes, st)
  PROVE  QueueInv'
<1>1. CASE stopped \/ NextOperation(queue) = None
  BY <1>1 DEF LoopHead, DrainEnds, QueueInv, OwnPriority, BurstBounds
<1>2. CASE ~(stopped \/ NextOperation(queue) = None)
  <2>1. TakeOperation(NextOperation(queue), queue, queueBytes, st)
    BY <1>2 DEF LoopHead
  <2>. QED BY <1>2, <2>1, TakeQueue, OperationAssumption DEF TypeOK, QueueInv
<1>. QED BY <1>1, <1>2

(* Every step keeps the queues apart and the burst counter a bound. *)
LEMMA StepQueueInv == TypeOK /\ QueueInv /\ [Next]_vars => QueueInv'
<1> SUFFICES ASSUME TypeOK, QueueInv, [Next]_vars PROVE QueueInv'
  OBVIOUS
<1> USE OperationAssumption
<1>0. queue \in [Priorities -> Seq(Operations)]
  BY DEF TypeOK
<1>1. ASSUME NEW op \in Operations, Enqueue(op) PROVE QueueInv'
  <2> DEFINE q == [queue EXCEPT ![Priority[op]] = Append(@, op)]
  <2>1. q \in [Priorities -> Seq(Operations)] /\ OwnPriority(q) /\ NextOperation(q) # None
    BY <1>0, AppendedQueue DEF QueueInv
  <2>2. CASE step = "idle"
    <3>1. TakeOperation(NextOperation(q), q, queueBytes + Bytes[op],
                        IF host # None THEN "ready" ELSE hostStatus)
      BY <1>1, <2>2 DEF Enqueue
    <3> HIDE DEF q
    <3>. QED BY <2>1, <3>1, TakeQueue DEF QueueInv
  <2>3. CASE step # "idle"
    <3>1. queue' = q /\ UNCHANGED <<interactiveBurst, overtaken>>
      BY <1>1, <2>3 DEF Enqueue
    <3> HIDE DEF q
    <3>. QED BY <2>1, <3>1 DEF QueueInv, BurstBounds
  <2>. QED BY <2>2, <2>3
<1>2. ASSUME NEW op \in Operations, CancelQueued(op) PROVE QueueInv'
  <2>1. op \in Queued
    BY <1>2 DEF CancelQueued
  <2>2. IndexOf(queue[Priority[op]], op) \in 1..Len(queue[Priority[op]])
    BY <2>1, QueuedPosition DEF QueueInv
  <2>3. OwnPriority([queue EXCEPT ![Priority[op]] =
                       RemoveAt(@, IndexOf(queue[Priority[op]], op))])
    BY <1>0, <2>2, RemovedQueue DEF QueueInv
  <2>4. queue' = [queue EXCEPT ![Priority[op]] =
                    RemoveAt(@, IndexOf(queue[Priority[op]], op))]
    BY <1>0, <1>2 DEF CancelQueued
  <2>5. UNCHANGED <<interactiveBurst, overtaken>>
    BY <1>2 DEF CancelQueued
  <2>. QED BY <2>3, <2>4, <2>5 DEF QueueInv, BurstBounds
<1>3. CASE Stop
  <2>1. OwnPriority(queue')
    BY <1>3 DEF Stop, OwnPriority
  <2>2. UNCHANGED <<interactiveBurst, overtaken>>
    BY <1>3 DEF Stop
  <2>. QED BY <2>1, <2>2 DEF QueueInv, BurstBounds
<1>4. CASE OperationCompletes \/ ResumeAfterRetirement \/ (OperationFails /\ ~MustRetire)
  BY <1>4, LoopQueue DEF OperationCompletes, ResumeAfterRetirement, OperationFails
<1>5. ASSUME UNCHANGED queueVars PROVE QueueInv'
  BY <1>5 DEF queueVars, QueueInv, OwnPriority, BurstBounds
<1>6. CASE \/ CancelActive \/ DeadlinePasses \/ Describe
           \/ StartHost \/ HostStarts \/ HostStartFails \/ HostMismatches
           \/ SendRequest \/ SendEmbed \/ AnswerRejected
           \/ (OperationFails /\ MustRetire)
           \/ IdleTimerFires
           \/ \E s \in Slots : HostCrashes(s) \/ KilledHostExits(s) \/ TerminationEnds(s)
  BY <1>5, <1>6 DEF CancelActive, DeadlinePasses, AbortActive, Describe, StartHost, HostStarts,
     HostStartFails, HostMismatches, SendRequest, SendEmbed, AnswerRejected, OperationFails, IdleTimerFires,
     HostCrashes, KilledHostExits, TerminationEnds
<1>7. CASE UNCHANGED vars
  BY <1>5, <1>7 DEF vars, queueVars
<1>. QED BY <1>1, <1>2, <1>3, <1>4, <1>6, <1>7 DEF Next

-----------------------------------------------------------------------------
(* The host processes. *)

(* What the loop finds when it takes an operation: no start is under way. *)
Quiet ==
  /\ HostKnown
  /\ \A s \in Slots :
       /\ process[s] \in {"serving", "crashed"} => host = s
       /\ process[s] # "loading"

LEMMA QuietBetweenOperations ==
  ASSUME HostInv, step # "starting"
  PROVE  Quiet
BY DEF HostInv, NoOrphanHost, Quiet

LEMMA TakeHost ==
  ASSUME TypeOK, OperationAssumption, Quiet, ~stopped, stopped' = stopped,
         idleTimer' = FALSE, loaded' = loaded,
         NEW op \in Operations, NEW q, NEW bytes, NEW st, TakeOperation(op, q, bytes, st)
  PROVE  HostInv'
<1>1. active' = op /\ op # None /\ aborted' = FALSE /\ Model[op] # None
  BY NoneAssumption DEF TakeOperation, OperationAssumption
<1>2. CASE /\ step' = "rejecting" /\ using' = None
           /\ UNCHANGED <<host, residentModel, process>>
  BY <1>1, <1>2 DEF HostInv, StepInv, HostKnown, NoOrphanHost, InFlightIsServed, InFlight,
     IdleHostIsWatched, Quiet
<1>3. CASE ReusesHost(op) /\ step' = "connecting" /\ using' = host
           /\ UNCHANGED <<host, residentModel, process>>
  BY <1>1, <1>3 DEF ReusesHost, Alive, HostInv, StepInv, HostKnown, NoOrphanHost,
     InFlightIsServed, InFlight, IdleHostIsWatched, Quiet
<1>4. CASE step' = "ensuring" /\ using' = None /\ RetireHost("retiring", st)
  <2>1. host' = None /\ residentModel' = None
    BY <1>4 DEF RetireHost
  <2>2. \A s \in Slots : process'[s] \notin {"serving", "loading", "crashed"}
    <3>1. CASE host = None
      BY <1>4, <3>1, NoneAssumption DEF RetireHost, StopHost, Quiet
    <3>2. CASE host # None
      <4>1. process' = [process EXCEPT ![host] = IF @ = "crashed" THEN "free" ELSE "retiring"]
        BY <1>4, <3>2 DEF RetireHost, StopHost
      <4>. QED BY <3>2, <4>1 DEF Quiet, TypeOK
    <3>. QED BY <3>1, <3>2
  <2>. QED BY <1>1, <1>4, <2>1, <2>2 DEF HostInv, StepInv, HostKnown, NoOrphanHost,
              InFlightIsServed, InFlight, IdleHostIsWatched
<1>. QED BY <1>2, <1>3, <1>4 DEF TakeOperation, EnsureHost

LEMMA LoopHost ==
  ASSUME TypeOK, OwnPriority(queue), OperationAssumption, Quiet, idleTimer = FALSE,
         UNCHANGED <<stopped, loaded>>,
         NEW st, LoopHead(queue, queueBytes, st)
  PROVE  HostInv'
<1>1. CASE stopped \/ NextOperation(queue) = None
  <2>1. /\ active' = None /\ step' = "idle" /\ using' = None
        /\ idleTimer' = (FALSE \/ SchedulesEviction(queue))
        /\ UNCHANGED <<host, residentModel, process>>
    BY <1>1 DEF LoopHead, DrainEnds
  <2>2. IdleHostIsWatched'
    <3>1. CASE stopped
      BY <2>1, <3>1 DEF IdleHostIsWatched, SchedulesEviction
    <3>2. CASE ~stopped
      <4>1. queue["interactive"] = <<>> /\ queue["background"] = <<>>
        BY <1>1, <3>2, NothingToTake DEF TypeOK
      <4>. QED BY <2>1, <3>2, <4>1 DEF IdleHostIsWatched, SchedulesEviction
    <3>. QED BY <3>1, <3>2
  <2>3. StepInv' /\ HostKnown' /\ NoOrphanHost' /\ InFlightIsServed'
    BY <2>1 DEF Quiet, SchedulesEviction, StepInv, HostKnown, NoOrphanHost, InFlightIsServed,
       InFlight
  <2>. QED BY <2>2, <2>3 DEF HostInv
<1>2. CASE ~(stopped \/ NextOperation(queue) = None)
  <2>1. TakeOperation(NextOperation(queue), queue, queueBytes, st) /\ idleTimer' = FALSE
    BY <1>2 DEF LoopHead, TypeOK
  <2>2. NextOperation(queue) \in Operations
    BY <1>2, TakenIsHead DEF TypeOK
  <2>. QED BY <1>2, <2>1, <2>2, TakeHost
<1>. QED BY <1>1, <1>2

(* Every step preserves what is known of the hosts. *)
LEMMA StepHostInv == TypeOK /\ OwnPriority(queue) /\ HostInv /\ [Next]_vars => HostInv'
<1> SUFFICES ASSUME TypeOK, OwnPriority(queue), HostInv, [Next]_vars PROVE HostInv'
  OBVIOUS
<1> USE OperationAssumption, NoneAssumption
<1>0. queue \in [Priorities -> Seq(Operations)]
  BY DEF TypeOK
<1>1. ASSUME NEW op \in Operations, Enqueue(op) PROVE HostInv'
  <2> DEFINE q == [queue EXCEPT ![Priority[op]] = Append(@, op)]
  <2>1. ~stopped /\ idleTimer' = FALSE /\ stopped' = stopped /\ loaded' = loaded
    BY <1>1 DEF Enqueue, Admits, ClearIdleEviction
  <2>2. CASE step = "idle"
    <3>1. TakeOperation(NextOperation(q), q, queueBytes + Bytes[op],
                        IF host # None THEN "ready" ELSE hostStatus)
      BY <1>1, <2>2 DEF Enqueue
    <3>2. NextOperation(q) \in Operations
      <4>1. q \in [Priorities -> Seq(Operations)] /\ OwnPriority(q) /\ NextOperation(q) # None
        BY <1>0, AppendedQueue
      <4> HIDE DEF q
      <4>. QED BY <4>1, TakenIsHead
    <3>3. Quiet
      BY <2>2, QuietBetweenOperations
    <3> HIDE DEF q
    <3>. QED BY <2>1, <3>1, <3>2, <3>3, TakeHost
  <2>3. CASE step # "idle"
    <3>1. UNCHANGED <<active, step, using, aborted, host, residentModel, process>>
      BY <1>1, <2>3 DEF Enqueue, activeVars
    <3>. QED BY <2>1, <2>3, <3>1 DEF HostInv, StepInv, HostKnown, NoOrphanHost,
                InFlightIsServed, InFlight, Alive, IdleHostIsWatched
  <2>. QED BY <2>2, <2>3
<1>2. ASSUME UNCHANGED <<active, step, using, aborted, host, residentModel, idleTimer,
                         process, stopped, loaded>>
      PROVE  HostInv'
  BY <1>2 DEF HostInv, StepInv, HostKnown, NoOrphanHost, InFlightIsServed, InFlight, Alive,
     IdleHostIsWatched
<1>3. ASSUME NEW op \in Operations, CancelQueued(op) PROVE HostInv'
  BY <1>2, <1>3 DEF CancelQueued, activeVars, hostVars
<1>4. CASE CancelActive \/ DeadlinePasses
  <2>1. AbortActive
    BY <1>4 DEF CancelActive, DeadlinePasses
  <2>2. CASE step \in InFlight
    <3>1. using = host /\ host # None /\ host \in Slots /\ process[host] = "serving"
      BY <2>2 DEF HostInv, InFlightIsServed, Alive, TypeOK
    <3>2. process' = [process EXCEPT ![host] = "killed"]
      BY <2>1, <2>2, <3>1 DEF AbortActive, KillInFlight, TypeOK
    <3>3. step' = "rejecting" /\ aborted' = TRUE
          /\ UNCHANGED <<active, using, host, residentModel, idleTimer, stopped, loaded>>
      BY <2>1, <2>2 DEF AbortActive
    <3>4. process'[host] = "killed" /\ \A s \in Slots : s # host => process'[s] = process[s]
      BY <3>1, <3>2 DEF TypeOK
    <3>. QED BY <2>2, <3>1, <3>3, <3>4 DEF HostInv, StepInv, HostKnown, NoOrphanHost,
                InFlightIsServed, InFlight, IdleHostIsWatched
  <2>3. CASE step \notin InFlight
    BY <2>1, <2>3 DEF AbortActive, HostInv, StepInv, HostKnown, NoOrphanHost, InFlightIsServed,
       IdleHostIsWatched
  <2>. QED BY <2>2, <2>3
<1>5. CASE Describe
  <2>1. /\ host # None /\ process[host] # "serving" /\ host' = None /\ idleTimer' = FALSE
        /\ residentModel' = None
        /\ UNCHANGED <<active, step, using, aborted, stopped, loaded>>
        /\ process' = [process EXCEPT ![host] = IF @ = "crashed" THEN "free" ELSE @]
    BY <1>5 DEF Describe, Alive, activeVars
  <2>2. step \notin InFlight /\ step # "starting"
    BY <2>1 DEF HostInv, StepInv, InFlightIsServed, Alive
  <2>3. \A s \in Slots : process'[s] \in {process[s], "free"} /\ process'[host] # "crashed"
    BY <2>1 DEF TypeOK
  <2>4. \A s \in Slots : process'[s] \notin {"serving", "loading", "crashed"}
    BY <2>1, <2>2, <2>3 DEF HostInv, NoOrphanHost
  <2>. QED BY <2>1, <2>2, <2>4 DEF HostInv, StepInv, HostKnown, NoOrphanHost, InFlightIsServed,
              IdleHostIsWatched
<1>6. CASE Stop
  <2>1. /\ host' = None /\ idleTimer' = FALSE /\ stopped' = TRUE /\ aborted' = (active # None)
        /\ residentModel' = None
        /\ step' = (IF step \in InFlight THEN "rejecting" ELSE step)
        /\ UNCHANGED <<active, using, loaded>>
        /\ process' = StopHost(host, "stopping")
    BY <1>6 DEF Stop, StopAborts
  <2>2. CASE host = None
    <3>1. process' = process /\ step \notin InFlight
      BY <2>1, <2>2 DEF StopHost, HostInv, InFlightIsServed, Alive
    <3>. QED BY <2>1, <2>2, <3>1 DEF HostInv, StepInv, HostKnown, NoOrphanHost,
                InFlightIsServed, IdleHostIsWatched
  <2>3. CASE host # None
    <3>1. process' = [process EXCEPT ![host] = IF @ = "crashed" THEN "free" ELSE "stopping"]
      BY <2>1, <2>3 DEF StopHost
    <3>2. step # "starting"
      BY <2>3 DEF HostInv, StepInv
    <3>3. \A s \in Slots : process'[s] \notin {"serving", "loading", "crashed"}
      BY <2>3, <3>1, <3>2 DEF HostInv, NoOrphanHost, TypeOK
    <3>. QED BY <2>1, <3>2, <3>3 DEF HostInv, StepInv, HostKnown, NoOrphanHost,
                InFlightIsServed, InFlight, IdleHostIsWatched
  <2>. QED BY <2>2, <2>3
<1>7. CASE StartHost
  <2>1. PICK s \in Slots :
          /\ process[s] = "free" /\ using' = s
          /\ process' = [process EXCEPT ![s] = "loading"]
          /\ loaded' = [loaded EXCEPT ![s] = Model[active]]
    BY <1>7 DEF StartHost
  <2>2. /\ step = "ensuring" /\ step' = "starting"
        /\ UNCHANGED <<active, aborted, host, residentModel, idleTimer, stopped>>
    BY <1>7 DEF StartHost
  <2>3. host = None /\ idleTimer = FALSE /\ active # None
    BY <2>2 DEF HostInv, StepInv, IdleHostIsWatched, TypeOK
  <2>4. /\ process'[s] = "loading" /\ loaded'[s] = Model[active]
        /\ \A r \in Slots : r # s => process'[r] = process[r]
    BY <2>1 DEF TypeOK
  <2>. QED BY <2>1, <2>2, <2>3, <2>4 DEF HostInv, StepInv, HostKnown, NoOrphanHost,
              InFlightIsServed, InFlight, IdleHostIsWatched
<1>8. CASE HostStarts
  <2>1. /\ step = "starting" /\ step' = "connecting" /\ host' = using
        /\ residentModel' = Model[active]
        /\ process' = [process EXCEPT ![using] = "serving"]
        /\ UNCHANGED <<active, using, aborted, idleTimer, stopped, loaded>>
    BY <1>8 DEF HostStarts
  <2>2. using \in Slots /\ host = None /\ idleTimer = FALSE /\ loaded[using] = Model[active]
    BY <2>1 DEF HostInv, StepInv, IdleHostIsWatched, TypeOK
  <2>3. process'[using] = "serving" /\ \A r \in Slots : r # using => process'[r] = process[r]
    BY <2>1, <2>2 DEF TypeOK
  <2>. QED BY <2>1, <2>2, <2>3 DEF HostInv, StepInv, HostKnown, NoOrphanHost,
              InFlightIsServed, InFlight, IdleHostIsWatched
<1>9. CASE HostStartFails
  <2>1. PICK outcome \in {"free", "killed"} : process' = [process EXCEPT ![using] = outcome]
    BY <1>9 DEF HostStartFails
  <2>2. /\ step = "starting" /\ step' = "rejecting"
        /\ UNCHANGED <<active, aborted, host, residentModel, idleTimer, stopped, loaded>>
    BY <1>9 DEF HostStartFails
  <2>3. using \in Slots /\ host = None /\ idleTimer = FALSE
    BY <2>2 DEF HostInv, StepInv, IdleHostIsWatched, TypeOK
  <2>4. process'[using] = outcome /\ \A r \in Slots : r # using => process'[r] = process[r]
    BY <2>1, <2>3 DEF TypeOK
  <2>. QED BY <2>2, <2>3, <2>4 DEF HostInv, StepInv, HostKnown, NoOrphanHost,
              InFlightIsServed, InFlight, IdleHostIsWatched
<1>20. CASE HostMismatches
  <2>1. /\ step = "starting" /\ step' = "rejecting" /\ host' = using /\ using' = None
        /\ process' = [process EXCEPT ![using] = "serving"]
        /\ UNCHANGED <<active, aborted, residentModel, idleTimer, stopped, loaded>>
    BY <1>20 DEF HostMismatches
  <2>2. using \in Slots /\ host = None /\ residentModel = None /\ idleTimer = FALSE
    BY <2>1 DEF HostInv, StepInv, HostKnown, IdleHostIsWatched, TypeOK
  <2>3. process'[using] = "serving" /\ \A r \in Slots : r # using => process'[r] = process[r]
    BY <2>1, <2>2 DEF TypeOK
  <2>. QED BY <2>1, <2>2, <2>3 DEF HostInv, StepInv, HostKnown, NoOrphanHost,
              InFlightIsServed, InFlight, IdleHostIsWatched
<1>10. CASE SendRequest
  <2>1. /\ step = "connecting"
        /\ UNCHANGED <<active, using, aborted, host, residentModel, idleTimer, stopped, loaded>>
    BY <1>10 DEF SendRequest
  <2>2. using \in Slots /\ loaded[using] = Model[active] /\ active # None /\ idleTimer = FALSE
    BY <2>1 DEF HostInv, StepInv, IdleHostIsWatched, TypeOK
  <2>3. CASE ~aborted /\ process[using] = "serving"
    <3>1. step' = "counting" /\ process' = process
      BY <1>10, <2>3 DEF SendRequest
    <3>2. using = host
      BY <2>2, <2>3 DEF HostInv, NoOrphanHost
    <3>. QED BY <2>1, <2>2, <2>3, <3>1, <3>2 DEF HostInv, StepInv, HostKnown, NoOrphanHost,
                InFlightIsServed, InFlight, Alive, IdleHostIsWatched
  <2>4. CASE ~(~aborted /\ process[using] = "serving")
    <3>1. step' = "rejecting" /\ process' = KillInFlight(using)
      BY <1>10, <2>4 DEF SendRequest
    <3>2. /\ process'[using] = IF process[using] = "serving" THEN "killed" ELSE process[using]
          /\ \A r \in Slots : r # using => process'[r] = process[r]
      BY <2>2, <3>1 DEF KillInFlight, TypeOK
    <3>3. StepInv' /\ IdleHostIsWatched' /\ InFlightIsServed'
      BY <2>1, <2>2, <3>1 DEF HostInv, StepInv, HostKnown, InFlightIsServed, InFlight,
         IdleHostIsWatched
    <3>4. NoOrphanHost' /\ HostKnown'
      <4>1. \A s \in Slots : process'[s] = process[s] \/ process'[s] = "killed"
        BY <3>2
      <4>. QED BY <2>1, <4>1 DEF HostInv, HostKnown, NoOrphanHost, TypeOK
    <3>. QED BY <3>3, <3>4 DEF HostInv
  <2>. QED BY <2>3, <2>4
<1>11. CASE SendEmbed \/ AnswerRejected
  BY <1>11 DEF SendEmbed, AnswerRejected, hostVars, HostInv, StepInv, HostKnown, NoOrphanHost,
     InFlightIsServed, InFlight, Alive, IdleHostIsWatched
<1>12. ASSUME NEW st, LoopHead(queue, queueBytes, st), step # "starting", step # "idle",
              UNCHANGED <<stopped, loaded>>
       PROVE  HostInv'
  <2>1. idleTimer = FALSE
    BY <1>12 DEF HostInv, IdleHostIsWatched, TypeOK
  <2>. QED BY <1>12, <2>1, QuietBetweenOperations, LoopHost
<1>13. CASE OperationCompletes
  BY <1>12, <1>13 DEF OperationCompletes
<1>14. CASE ResumeAfterRetirement
  BY <1>12, <1>14 DEF ResumeAfterRetirement
<1>15. CASE OperationFails
  <2>1. CASE ~MustRetire
    BY <1>12, <1>15, <2>1 DEF OperationFails
  <2>2. CASE MustRetire
    <3>1. /\ step = "rejecting" /\ step' = "retiring" /\ using' = None /\ host' = None
          /\ residentModel' = None
          /\ process' = StopHost(host, "retiring")
          /\ UNCHANGED <<active, aborted, idleTimer, stopped, loaded>>
      BY <1>15, <2>2 DEF OperationFails, RetireHost
    <3>2. \A s \in Slots : process'[s] \notin {"serving", "loading", "crashed"}
      <4>1. CASE host = None
        BY <3>1, <4>1 DEF StopHost, HostInv, NoOrphanHost
      <4>2. CASE host # None
        BY <3>1, <4>2 DEF StopHost, HostInv, NoOrphanHost, TypeOK
      <4>. QED BY <4>1, <4>2
    <3>. QED BY <3>1, <3>2 DEF HostInv, StepInv, HostKnown, NoOrphanHost, InFlightIsServed,
                InFlight, IdleHostIsWatched
  <2>. QED BY <2>1, <2>2
<1>16. CASE IdleTimerFires
  <2>1. /\ idleTimer /\ idleTimer' = FALSE /\ host' = None /\ residentModel' = None
        /\ process' = StopHost(host, "evicting")
        /\ UNCHANGED <<active, step, using, aborted, stopped, loaded>>
    BY <1>16 DEF IdleTimerFires, RetireHost, activeVars
  <2>2. step = "idle" /\ host # None
    BY <2>1 DEF HostInv, IdleHostIsWatched
  <2>3. \A s \in Slots : process'[s] \notin {"serving", "loading", "crashed"}
    BY <2>1, <2>2 DEF StopHost, HostInv, NoOrphanHost, TypeOK
  <2>. QED BY <2>1, <2>2, <2>3 DEF HostInv, StepInv, HostKnown, NoOrphanHost, InFlightIsServed,
              InFlight, IdleHostIsWatched
<1>17. ASSUME NEW s \in Slots, HostCrashes(s) PROVE HostInv'
  <2>1. /\ process[s] = "serving" /\ process' = [process EXCEPT ![s] = "crashed"]
        /\ step' = (IF step \in InFlight /\ using = s THEN "rejecting" ELSE step)
        /\ UNCHANGED <<active, using, aborted, host, residentModel, idleTimer, stopped, loaded>>
    BY <1>17 DEF HostCrashes
  <2>2. host = s
    BY <2>1 DEF HostInv, NoOrphanHost
  <2>3. step \in InFlight => using = s
    BY <2>2 DEF HostInv, InFlightIsServed
  <2>4. process'[s] = "crashed" /\ \A r \in Slots : r # s => process'[r] = process[r]
    BY <2>1 DEF TypeOK
  <2>. QED BY <2>1, <2>2, <2>3, <2>4 DEF HostInv, StepInv, HostKnown, NoOrphanHost,
              InFlightIsServed, InFlight, IdleHostIsWatched
<1>18. ASSUME NEW s \in Slots, KilledHostExits(s) \/ TerminationEnds(s) PROVE HostInv'
  <2>1. /\ process[s] \in {"killed", "retiring", "evicting", "stopping"}
        /\ UNCHANGED <<active, step, using, aborted, host, residentModel, idleTimer, stopped, loaded>>
    BY <1>18 DEF KilledHostExits, TerminationEnds, activeVars
  <2>2. /\ \/ process'[s] = "crashed" /\ host = s
           \/ process'[s] = "free" /\ host # s
        /\ \A r \in Slots : r # s => process'[r] = process[r]
    <3>1. CASE KilledHostExits(s)
      BY <3>1 DEF KilledHostExits, TypeOK
    <3>2. CASE TerminationEnds(s)
      <4>1. process[s] \in {"retiring", "evicting", "stopping"} /\ host # s
        BY <3>2 DEF TerminationEnds, HostInv, HostKnown
      <4>. QED BY <3>2, <4>1 DEF TerminationEnds, TypeOK
    <3>. QED BY <1>18, <3>1, <3>2
  <2>3. step = "starting" => using # s
    BY <2>1 DEF HostInv, StepInv
  <2>4. step \in InFlight => host # s
    BY <2>1 DEF HostInv, InFlightIsServed, Alive
  <2>. QED BY <2>1, <2>2, <2>3, <2>4 DEF HostInv, StepInv, HostKnown, NoOrphanHost,
              InFlightIsServed, Alive, IdleHostIsWatched, TypeOK
<1>19. CASE UNCHANGED vars
  BY <1>2, <1>19 DEF vars
<1>. QED BY <1>1, <1>3, <1>4, <1>5, <1>6, <1>7, <1>8, <1>9, <1>10, <1>11, <1>13, <1>14,
            <1>15, <1>16, <1>17, <1>18, <1>19, <1>20 DEF Next

-----------------------------------------------------------------------------
(* Who owns an unanswered caller. *)

Members(q) == UNION {ToSet(q[p]) : p \in Priorities}
Distinct(q) == \A p \in Priorities : IsInjective(q[p])

PendingInv ==
  /\ PendingIsOwned
  /\ NoStall
  /\ step = "retiring" => active \notin pending

LEMMA HeadLeaves ==
  ASSUME NEW S, NEW s \in Seq(S), s # <<>>, IsInjective(s)
  PROVE  ToSet(Tail(s)) = ToSet(s) \ {Head(s)} /\ IsInjective(Tail(s)) /\ Head(s) \in ToSet(s)
<1>1. /\ Len(s) \in Nat /\ Len(s) > 0 /\ DOMAIN s = 1..Len(s) /\ Head(s) = s[1]
      /\ Tail(s) \in Seq(S) /\ Len(Tail(s)) = Len(s) - 1
      /\ DOMAIN Tail(s) = 1..(Len(s) - 1)
      /\ \A i \in 1..(Len(s) - 1) : Tail(s)[i] = s[i + 1]
  OBVIOUS
<1> DEFINE t == Tail(s)
           n == Len(s)
<1> HIDE DEF t, n
<1>2. /\ n \in Nat /\ n > 0 /\ DOMAIN s = 1..n /\ Head(s) = s[1] /\ DOMAIN t = 1..(n - 1)
      /\ \A i \in 1..(n - 1) : t[i] = s[i + 1]
  BY <1>1 DEF t, n
<1>3. IsInjective(t)
  <2> SUFFICES ASSUME NEW a \in 1..(n - 1), NEW b \in 1..(n - 1), t[a] = t[b] PROVE a = b
    BY <1>2 DEF IsInjective
  <2>1. s[a + 1] = s[b + 1] /\ a + 1 \in 1..n /\ b + 1 \in 1..n
    BY <1>2
  <2>2. a + 1 = b + 1
    BY <1>2, <2>1 DEF IsInjective
  <2>. QED BY <2>2
<1>4. ASSUME NEW x \in ToSet(t) PROVE x \in ToSet(s) \ {s[1]}
  <2>1. PICK i \in 1..(n - 1) : x = t[i]
    BY <1>2 DEF ToSet
  <2>2. x = s[i + 1] /\ i + 1 \in 1..n /\ 1 \in 1..n /\ i + 1 # 1
    BY <1>2, <2>1
  <2>. QED BY <1>2, <2>2 DEF ToSet, IsInjective
<1>5. ASSUME NEW x \in ToSet(s), x # s[1] PROVE x \in ToSet(t)
  <2>1. PICK i \in 1..n : x = s[i]
    BY <1>2 DEF ToSet
  <2>2. i # 1 /\ i - 1 \in 1..(n - 1)
    BY <1>2, <1>5, <2>1
  <2>3. t[i - 1] = s[(i - 1) + 1] /\ (i - 1) + 1 = i
    BY <1>2, <2>2
  <2>. QED BY <1>2, <2>1, <2>2, <2>3 DEF ToSet
<1>6. s[1] \in ToSet(s)
  BY <1>2 DEF ToSet
<1>. QED BY <1>2, <1>3, <1>4, <1>5, <1>6 DEF t

LEMMA AppendJoins ==
  ASSUME NEW S, NEW s \in Seq(S), NEW e \in S, e \notin ToSet(s), IsInjective(s)
  PROVE  ToSet(Append(s, e)) = ToSet(s) \cup {e} /\ IsInjective(Append(s, e))
<1> DEFINE t == Append(s, e)
           n == Len(s)
<1>1. /\ n \in Nat /\ DOMAIN s = 1..n /\ DOMAIN t = 1..(n + 1) /\ t[n + 1] = e
      /\ \A i \in 1..n : t[i] = s[i]
  OBVIOUS
<1> HIDE DEF t, n
<1>2. ToSet(t) = ToSet(s) \cup {e}
  <2>1. \A i \in 1..(n + 1) : i \in 1..n \/ i = n + 1
    BY <1>1
  <2>2. \A i \in 1..n : i \in 1..(n + 1)
    BY <1>1
  <2>3. n + 1 \in 1..(n + 1)
    BY <1>1
  <2>. QED BY <1>1, <2>1, <2>2, <2>3 DEF ToSet
<1>3. IsInjective(t)
  <2>1. \A i \in 1..n : s[i] # e
    BY <1>1 DEF ToSet
  <2>2. \A a, b \in 1..n : s[a] = s[b] => a = b
    BY <1>1 DEF IsInjective
  <2>3. \A i \in 1..(n + 1) : i \in 1..n \/ i = n + 1
    BY <1>1
  <2>. QED BY <1>1, <2>1, <2>2, <2>3 DEF IsInjective
<1>. QED BY <1>2, <1>3 DEF t

LEMMA RemovalLeaves ==
  ASSUME NEW S, NEW s \in Seq(S), NEW k \in 1..Len(s), IsInjective(s)
  PROVE  ToSet(RemoveAt(s, k)) = ToSet(s) \ {s[k]} /\ IsInjective(RemoveAt(s, k))
<1> DEFINE t == RemoveAt(s, k)
           n == Len(s)
<1>1. /\ n \in Nat /\ DOMAIN s = 1..n /\ k \in 1..n
      /\ DOMAIN t = 1..(n - 1)
      /\ \A i \in 1..(n - 1) : t[i] = IF i < k THEN s[i] ELSE s[i + 1]
  <2>1. t \in Seq(S) /\ Len(t) = n - 1
        /\ \A i \in 1..(n - 1) : t[i] = IF i < k THEN s[i] ELSE s[i + 1]
    BY RemoveAtSeq
  <2> HIDE DEF t
  <2>. QED BY <2>1
<1> HIDE DEF t, n
<1>2. \A a, b \in 1..n : s[a] = s[b] => a = b
  BY <1>1 DEF IsInjective
<1>3. IsInjective(t)
  <2> SUFFICES ASSUME NEW a \in 1..(n - 1), NEW b \in 1..(n - 1), t[a] = t[b] PROVE a = b
    BY <1>1 DEF IsInjective
  <2>1. a \in 1..n /\ a + 1 \in 1..n /\ b \in 1..n /\ b + 1 \in 1..n
    BY <1>1
  <2>2. t[a] = (IF a < k THEN s[a] ELSE s[a + 1]) /\ t[b] = (IF b < k THEN s[b] ELSE s[b + 1])
    BY <1>1
  <2>3. CASE a < k /\ b < k
    BY <1>2, <2>1, <2>2, <2>3
  <2>4. CASE ~(a < k) /\ ~(b < k)
    <3>1. a + 1 = b + 1
      BY <1>2, <2>1, <2>2, <2>4
    <3>. QED BY <3>1
  <2>5. CASE a < k /\ ~(b < k)
    <3>1. a = b + 1
      BY <1>2, <2>1, <2>2, <2>5
    <3>. QED BY <3>1, <2>5, <1>1
  <2>6. CASE ~(a < k) /\ b < k
    <3>1. a + 1 = b
      BY <1>2, <2>1, <2>2, <2>6
    <3>. QED BY <3>1, <2>6, <1>1
  <2>. QED BY <2>3, <2>4, <2>5, <2>6
<1>4. ASSUME NEW x \in ToSet(t) PROVE x \in ToSet(s) \ {s[k]}
  <2>1. PICK i \in 1..(n - 1) : x = t[i]
    BY <1>1 DEF ToSet
  <2>2. PICK j \in 1..n : x = s[j] /\ j # k
    <3>1. CASE i < k
      BY <1>1, <2>1, <3>1
    <3>2. CASE ~(i < k)
      <4>1. i + 1 \in 1..n /\ i + 1 # k /\ x = s[i + 1]
        BY <1>1, <2>1, <3>2
      <4>. QED BY <4>1
    <3>. QED BY <3>1, <3>2
  <2>. QED BY <1>1, <1>2, <2>2 DEF ToSet
<1>5. ASSUME NEW x \in ToSet(s), x # s[k] PROVE x \in ToSet(t)
  <2>1. PICK i \in 1..n : x = s[i]
    BY <1>1 DEF ToSet
  <2>2. CASE i < k
    <3>1. i \in 1..(n - 1) /\ t[i] = x
      BY <1>1, <2>1, <2>2
    <3>. QED BY <1>1, <3>1 DEF ToSet
  <2>3. CASE ~(i < k)
    <3>1. i # k
      BY <1>5, <2>1
    <3>2. i - 1 \in 1..(n - 1) /\ ~(i - 1 < k) /\ (i - 1) + 1 = i
      BY <1>1, <2>3, <3>1
    <3>3. t[i - 1] = x
      BY <1>1, <2>1, <3>2
    <3>. QED BY <1>1, <3>2, <3>3 DEF ToSet
  <2>. QED BY <2>2, <2>3
<1>. QED BY <1>3, <1>4, <1>5 DEF t

LEMMA MembersHavePriority ==
  ASSUME NEW q \in [Priorities -> Seq(Operations)], OwnPriority(q),
         NEW p \in Priorities, NEW x \in ToSet(q[p])
  PROVE  x \in Operations /\ Priority[x] = p
<1>1. q[p] \in Seq(Operations) /\ DOMAIN q[p] = 1..Len(q[p])
  OBVIOUS
<1>2. PICK i \in 1..Len(q[p]) : x = q[p][i]
  BY <1>1 DEF ToSet
<1>. QED BY <1>1, <1>2 DEF OwnPriority

(* One queue loses an operation, or gains one, and the other is untouched. *)
LEMMA LessOne ==
  ASSUME NEW q \in [Priorities -> Seq(Operations)], OwnPriority(q), Distinct(q),
         NEW p \in Priorities, NEW x \in ToSet(q[p]),
         NEW t, ToSet(t) = ToSet(q[p]) \ {x}, IsInjective(t)
  PROVE  Members([q EXCEPT ![p] = t]) = Members(q) \ {x} /\ Distinct([q EXCEPT ![p] = t])
<1> DEFINE r == [q EXCEPT ![p] = t]
<1>1. r[p] = t /\ \A o \in Priorities : o # p => r[o] = q[o]
  OBVIOUS
<1>2. ASSUME NEW o \in Priorities, o # p, x \in ToSet(q[o]) PROVE FALSE
  <2>1. Priority[x] = o
    BY <1>2, MembersHavePriority
  <2>2. Priority[x] = p
    BY MembersHavePriority
  <2>. QED BY <1>2, <2>1, <2>2
<1> HIDE DEF r
<1>3. \A o \in Priorities : ToSet(r[o]) = ToSet(q[o]) \ {x}
  BY <1>1, <1>2
<1>4. Members(r) = Members(q) \ {x}
  <2>1. \A y : y \in Members(r) <=> \E o \in Priorities : y \in ToSet(r[o])
    BY DEF Members
  <2>2. \A y : y \in Members(q) <=> \E o \in Priorities : y \in ToSet(q[o])
    BY DEF Members
  <2>. QED BY <1>3, <2>1, <2>2
<1>5. Distinct(r)
  BY <1>1 DEF Distinct
<1>. QED BY <1>4, <1>5 DEF r

LEMMA OneMore ==
  ASSUME NEW q \in [Priorities -> Seq(Operations)], Distinct(q),
         NEW p \in Priorities, NEW x, NEW t, ToSet(t) = ToSet(q[p]) \cup {x}, IsInjective(t)
  PROVE  Members([q EXCEPT ![p] = t]) = Members(q) \cup {x} /\ Distinct([q EXCEPT ![p] = t])
<1> DEFINE r == [q EXCEPT ![p] = t]
<1>1. r[p] = t /\ \A o \in Priorities : o # p => r[o] = q[o]
  OBVIOUS
<1> HIDE DEF r
<1>2. Members(r) = Members(q) \cup {x}
  BY <1>1 DEF Members
<1>3. Distinct(r)
  BY <1>1 DEF Distinct
<1>. QED BY <1>2, <1>3 DEF r

LEMMA EnqueuedMembers ==
  ASSUME OperationAssumption, NEW q \in [Priorities -> Seq(Operations)], Distinct(q),
         NEW op \in Operations, op \notin Members(q)
  PROVE  LET r == [q EXCEPT ![Priority[op]] = Append(@, op)] IN
         Members(r) = Members(q) \cup {op} /\ Distinct(r)
<1>1. Priority[op] \in Priorities /\ q[Priority[op]] \in Seq(Operations)
  BY DEF OperationAssumption
<1>2. op \notin ToSet(q[Priority[op]]) /\ IsInjective(q[Priority[op]])
  BY <1>1 DEF Members, Distinct
<1>3. /\ ToSet(Append(q[Priority[op]], op)) = ToSet(q[Priority[op]]) \cup {op}
      /\ IsInjective(Append(q[Priority[op]], op))
  BY <1>1, <1>2, AppendJoins
<1>. QED BY <1>1, <1>3, OneMore

LEMMA TakenMembers ==
  ASSUME OperationAssumption, NEW q \in [Priorities -> Seq(Operations)], OwnPriority(q),
         Distinct(q), NextOperation(q) # None,
         NEW bytes, NEW st, TakeOperation(NextOperation(q), q, bytes, st)
  PROVE  /\ Members(queue') = Members(q) \ {NextOperation(q)} /\ Distinct(queue')
         /\ NextOperation(q) \in Members(q)
         /\ active' = NextOperation(q) /\ active' # None /\ step' \notin {"idle", "retiring"}
<1> DEFINE op == NextOperation(q)
<1>1. op \in Operations /\ q[Priority[op]] # <<>> /\ op = Head(q[Priority[op]])
  BY TakenIsHead
<1>2. queue' = [q EXCEPT ![Priority[op]] = Tail(q[Priority[op]])] /\ active' = op
  BY DEF TakeOperation
<1>3. step' \notin {"idle", "retiring"}
  BY DEF TakeOperation, EnsureHost
<1> HIDE DEF op
<1>4. Priority[op] \in Priorities /\ q[Priority[op]] \in Seq(Operations)
  BY <1>1 DEF OperationAssumption
<1>5. IsInjective(q[Priority[op]])
  BY <1>4 DEF Distinct
<1>6. /\ ToSet(Tail(q[Priority[op]])) = ToSet(q[Priority[op]]) \ {op}
      /\ IsInjective(Tail(q[Priority[op]])) /\ op \in ToSet(q[Priority[op]])
  BY <1>1, <1>4, <1>5, HeadLeaves
<1>7. op \in Members(q)
  BY <1>4, <1>6 DEF Members
<1>8. Members(queue') = Members(q) \ {op} /\ Distinct(queue')
  <2> DEFINE p == Priority[op]
             t == Tail(q[Priority[op]])
  <2>1. p \in Priorities /\ op \in ToSet(q[p]) /\ ToSet(t) = ToSet(q[p]) \ {op} /\ IsInjective(t)
    BY <1>4, <1>6
  <2>2. queue' = [q EXCEPT ![p] = t]
    BY <1>2
  <2> HIDE DEF p, t
  <2>3. Members([q EXCEPT ![p] = t]) = Members(q) \ {op} /\ Distinct([q EXCEPT ![p] = t])
    BY <2>1, LessOne
  <2>. QED BY <2>2, <2>3
<1>. QED BY <1>1, <1>2, <1>3, <1>7, <1>8, NoneAssumption DEF op

(* The loop goes on: the caller of the operation it leaves has been answered. *)
LEMMA LoopPending ==
  ASSUME TypeOK, OwnPriority(queue), OperationAssumption, PendingInv,
         active \notin pending', pending \ {active} \subseteq pending', pending' \subseteq pending,
         stopped' = stopped, NEW st, LoopHead(queue, queueBytes, st)
  PROVE  PendingInv'
<1>0. /\ queue \in [Priorities -> Seq(Operations)] /\ Queued = Members(queue) /\ Distinct(queue)
      /\ Queued' = Members(queue')
  BY DEF TypeOK, Queued, Members, PendingInv, PendingIsOwned, Distinct
<1>1. pending' \subseteq Queued /\ Queued \subseteq pending'
  BY DEF PendingInv, PendingIsOwned, ById
<1>2. CASE stopped \/ NextOperation(queue) = None
  <2>1. queue' = queue /\ active' = None /\ step' = "idle"
    BY <1>2 DEF LoopHead, DrainEnds
  <2>2. Queued = {}
    <3>1. CASE stopped
      BY <3>1 DEF PendingInv, NoStall
    <3>2. CASE NextOperation(queue) = None
      <4>1. queue["interactive"] = <<>> /\ queue["background"] = <<>>
        BY <1>0, <3>2, NothingToTake
      <4>2. ToSet(<<>>) = {}
        BY DEF ToSet
      <4>. QED BY <4>1, <4>2 DEF Queued, Priorities
    <3>. QED BY <1>2, <3>1, <3>2
  <2>3. Queued' = {} /\ Distinct(queue')
    BY <1>0, <2>1, <2>2
  <2>. QED BY <1>1, <2>1, <2>2, <2>3 DEF PendingInv, PendingIsOwned, NoStall, ById, Distinct
<1>3. CASE ~(stopped \/ NextOperation(queue) = None)
  <2>1. TakeOperation(NextOperation(queue), queue, queueBytes, st)
    BY <1>3 DEF LoopHead
  <2>2. /\ Members(queue') = Members(queue) \ {NextOperation(queue)} /\ Distinct(queue')
        /\ NextOperation(queue) \in Members(queue)
        /\ active' = NextOperation(queue) /\ active' # None /\ step' \notin {"idle", "retiring"}
    BY <1>0, <1>3, <2>1, TakenMembers
  <2>3. Queued' = Queued \ {active'} /\ active' \in Queued
    BY <1>0, <2>2
  <2>. QED BY <1>1, <1>3, <2>2, <2>3 DEF PendingInv, PendingIsOwned, NoStall, ById, Distinct
<1>. QED BY <1>2, <1>3

LEMMA StepPendingInv ==
  TypeOK /\ OwnPriority(queue) /\ HostInv /\ PendingInv /\ [Next]_vars => PendingInv'
<1> SUFFICES ASSUME TypeOK, OwnPriority(queue), HostInv, PendingInv, [Next]_vars
             PROVE  PendingInv'
  OBVIOUS
<1> USE OperationAssumption, NoneAssumption
<1>0. /\ queue \in [Priorities -> Seq(Operations)] /\ Queued = Members(queue) /\ Distinct(queue)
      /\ Queued' = Members(queue')
  BY DEF TypeOK, Queued, Members, PendingInv, PendingIsOwned, Distinct
<1>1. ASSUME NEW op \in Operations, Enqueue(op) PROVE PendingInv'
  <2> DEFINE q == [queue EXCEPT ![Priority[op]] = Append(@, op)]
  <2>1. /\ op \notin Members(queue) /\ op # active /\ ~stopped /\ stopped' = stopped
        /\ pending' = pending \cup {op}
    BY <1>0, <1>1 DEF Enqueue, Admits, ById
  <2>2. q \in [Priorities -> Seq(Operations)] /\ OwnPriority(q) /\ NextOperation(q) # None
    BY <1>0, AppendedQueue
  <2>3. Members(q) = Members(queue) \cup {op} /\ Distinct(q)
    BY <1>0, <2>1, EnqueuedMembers
  <2>4. CASE step = "idle"
    <3>1. TakeOperation(NextOperation(q), q, queueBytes + Bytes[op],
                        IF host # None THEN "ready" ELSE hostStatus)
      BY <1>1, <2>4 DEF Enqueue
    <3> HIDE DEF q
    <3>2. /\ Members(queue') = Members(q) \ {NextOperation(q)} /\ Distinct(queue')
          /\ NextOperation(q) \in Members(q)
          /\ active' = NextOperation(q) /\ active' # None /\ step' \notin {"idle", "retiring"}
      BY <2>2, <2>3, <3>1, TakenMembers
    <3>3. active = None
      BY <2>4 DEF PendingInv, NoStall
    <3>. QED BY <1>0, <2>1, <2>3, <3>2, <3>3 DEF PendingInv, PendingIsOwned, NoStall, ById, Distinct
  <2>5. CASE step # "idle"
    <3>1. queue' = q /\ active' = active /\ step' = step
      BY <1>1, <2>5 DEF Enqueue, activeVars
    <3> HIDE DEF q
    <3>. QED BY <1>0, <2>1, <2>3, <2>5, <3>1 DEF PendingInv, PendingIsOwned, NoStall, ById, Distinct
  <2>. QED BY <2>4, <2>5
<1>2. ASSUME NEW op \in Operations, CancelQueued(op) PROVE PendingInv'
  <2>1. op \in Queued /\ pending' = pending \ {op}
        /\ UNCHANGED <<active, step, stopped>>
    BY <1>2 DEF CancelQueued, activeVars
  <2> DEFINE k == IndexOf(queue[Priority[op]], op)
  <2>2. k \in 1..Len(queue[Priority[op]])
    BY <2>1, QueuedPosition
  <2>3. Priority[op] \in Priorities /\ queue[Priority[op]] \in Seq(Operations)
    BY <1>0
  <2>4. queue[Priority[op]][k] = op /\ op \in ToSet(queue[Priority[op]])
    <3>1. PICK p \in Priorities : op \in ToSet(queue[p])
      BY <2>1 DEF Queued
    <3>2. p = Priority[op]
      BY <1>0, <3>1, MembersHavePriority
    <3>3. \E i \in DOMAIN queue[Priority[op]] : queue[Priority[op]][i] = op
      BY <3>1, <3>2 DEF ToSet
    <3>. QED BY <3>1, <3>2, <3>3 DEF IndexOf
  <2>5. queue' = [queue EXCEPT ![Priority[op]] = RemoveAt(queue[Priority[op]], k)]
    BY <1>2 DEF CancelQueued
  <2> HIDE DEF k
  <2>6. /\ ToSet(RemoveAt(queue[Priority[op]], k)) = ToSet(queue[Priority[op]]) \ {op}
        /\ IsInjective(RemoveAt(queue[Priority[op]], k))
    <3>1. IsInjective(queue[Priority[op]])
      BY <1>0, <2>3 DEF Distinct
    <3>. QED BY <2>2, <2>3, <2>4, <3>1, RemovalLeaves
  <2>7. Queued' = Queued \ {op} /\ Distinct(queue')
    <3> DEFINE p == Priority[op]
               t == RemoveAt(queue[Priority[op]], k)
    <3>1. /\ p \in Priorities /\ op \in ToSet(queue[p])
          /\ ToSet(t) = ToSet(queue[p]) \ {op} /\ IsInjective(t)
      BY <2>3, <2>4, <2>6
    <3>2. queue' = [queue EXCEPT ![p] = t]
      BY <2>5
    <3> HIDE DEF p, t
    <3>3. /\ Members([queue EXCEPT ![p] = t]) = Members(queue) \ {op}
          /\ Distinct([queue EXCEPT ![p] = t])
      BY <1>0, <3>1, LessOne
    <3>. QED BY <1>0, <3>2, <3>3
  <2>. QED BY <2>1, <2>7 DEF PendingInv, PendingIsOwned, NoStall, ById, Distinct
<1>3. CASE Stop
  <2>1. /\ pending' = pending \ Queued /\ active' = active
        /\ step' = (IF step \in InFlight THEN "rejecting" ELSE step)
    BY <1>3 DEF Stop
  <2>2. \A p \in Priorities : queue'[p] = <<>>
    BY <1>3 DEF Stop
  <2>3. ToSet(<<>>) = {} /\ IsInjective(<<>>)
    BY DEF ToSet, IsInjective
  <2>4. Queued' = {} /\ Distinct(queue')
    BY <2>2, <2>3 DEF Queued, Distinct
  <2>. QED BY <2>1, <2>4 DEF PendingInv, PendingIsOwned, NoStall, ById, Distinct, InFlight
<1>4. ASSUME queue' = queue, UNCHANGED <<active, pending, stopped>>,
             step' = step \/ (step # "idle" /\ step' \notin {"idle", "retiring"})
      PROVE  PendingInv'
  BY <1>0, <1>4 DEF PendingInv, PendingIsOwned, NoStall, ById, Distinct
<1>5. CASE OperationCompletes
  <2>1. pending' = pending \ {active} /\ stopped' = stopped /\ LoopHead(queue, queueBytes, hostStatus)
    BY <1>5 DEF OperationCompletes
  <2>. QED BY <2>1, LoopPending
<1>6. CASE ResumeAfterRetirement
  <2>1. pending' = pending /\ stopped' = stopped /\ LoopHead(queue, queueBytes, RetiredStatus)
        /\ active \notin pending
    BY <1>6 DEF ResumeAfterRetirement, PendingInv
  <2>. QED BY <2>1, LoopPending
<1>7. CASE OperationFails
  <2>1. pending' = pending \ {active} /\ stopped' = stopped
    BY <1>7 DEF OperationFails
  <2>2. CASE ~MustRetire
    <3>1. LoopHead(queue, queueBytes, hostStatus)
      BY <1>7, <2>2 DEF OperationFails
    <3>. QED BY <2>1, <3>1, LoopPending
  <2>3. CASE MustRetire
    <3>1. step = "rejecting" /\ step' = "retiring" /\ queue' = queue /\ active' = active
      BY <1>7, <2>3 DEF OperationFails, queueVars
    <3>. QED BY <1>0, <2>1, <3>1 DEF PendingInv, PendingIsOwned, NoStall, ById, Distinct
  <2>. QED BY <2>2, <2>3
<1>8. CASE \/ CancelActive \/ DeadlinePasses \/ Describe
           \/ StartHost \/ HostStarts \/ HostStartFails \/ HostMismatches
           \/ SendRequest \/ SendEmbed \/ AnswerRejected \/ IdleTimerFires
           \/ \E s \in Slots : HostCrashes(s) \/ KilledHostExits(s) \/ TerminationEnds(s)
  BY <1>4, <1>8 DEF CancelActive, DeadlinePasses, AbortActive, Describe, StartHost, HostStarts,
     HostStartFails, HostMismatches, SendRequest, SendEmbed, AnswerRejected, IdleTimerFires, HostCrashes,
     KilledHostExits, TerminationEnds, queueVars, activeVars, InFlight
<1>9. CASE UNCHANGED vars
  BY <1>4, <1>9 DEF vars
<1>. QED BY <1>1, <1>2, <1>3, <1>5, <1>6, <1>7, <1>8, <1>9 DEF Next

-----------------------------------------------------------------------------
(* The bytes of a set of operations.  Sums(S, f) says that f is the function
   the fold over S defines by recursion.  What it returns is proved about the
   smallest set of which it would fail. *)

Chosen(s) == CHOOSE x \in s : TRUE
Sums(S, f) == f = [s \in SUBSET S |-> IF s = {} THEN 0 ELSE Bytes[Chosen(s)] + f[s \ {Chosen(s)}]]
Total(S) == MapThenSumSet(LAMBDA op : Bytes[op], S)

LEMMA TotalIs ==
  ASSUME NEW S PROVE Total(S) = (CHOOSE f : Sums(S, f))[S]
BY DEF Total, MapThenSumSet, MapThenFoldSet, Sums, Chosen

LEMMA LeastNumber ==
  ASSUME NEW N \in SUBSET Nat, N # {}
  PROVE  \E m \in N : \A n \in N : m <= n
<1> DEFINE less == OpToRel(<, Nat)
<1>1. \E m \in N : \A n \in N : <<n, m>> \notin less
  BY NatLessThanWellFounded, WFMin
<1>2. \A m, n \in Nat : <<n, m>> \notin less => ~(n < m)
  BY Zenon DEF OpToRel
<1>3. \E m \in N : \A n \in N : ~(n < m)
  BY <1>1, <1>2, Zenon
<1>. QED BY <1>3

LEMMA SmallestSet ==
  ASSUME NEW S, IsFiniteSet(S), NEW C \in SUBSET (SUBSET S), C # {}
  PROVE  \E s \in C : \A t \in C : ~(Cardinality(t) < Cardinality(s))
<1> DEFINE N == {Cardinality(s) : s \in C}
<1>1. \A s \in C : Cardinality(s) \in Nat
  BY FS_Subset, FS_CardinalityType
<1>2. N \in SUBSET Nat /\ N # {}
  BY <1>1
<1>3. PICK m \in N : \A n \in N : m <= n
  BY <1>2, LeastNumber
<1>4. PICK s \in C : m = Cardinality(s)
  BY <1>3
<1>. QED BY <1>1, <1>3, <1>4

LEMMA SubsetIs ==
  ASSUME NEW S, IsFiniteSet(S), NEW s \in SUBSET S, s # {}
  PROVE  /\ Chosen(s) \in s /\ IsFiniteSet(s) /\ Cardinality(s) \in Nat \ {0}
         /\ \A x \in s : s \ {x} \in SUBSET S /\ Cardinality(s \ {x}) = Cardinality(s) - 1
<1>1. Chosen(s) \in s
  BY DEF Chosen
<1>2. IsFiniteSet(s) /\ Cardinality(s) \in Nat
  BY FS_Subset, FS_CardinalityType
<1>3. Cardinality(s) # 0
  BY <1>2, FS_EmptySet
<1>4. \A x \in s : Cardinality(s \ {x}) = Cardinality(s) - 1
  BY <1>2, FS_RemoveElement
<1>. QED BY <1>1, <1>2, <1>3, <1>4

LEMMA SumExists ==
  ASSUME NEW S, IsFiniteSet(S)
  PROVE  \E f : Sums(S, f)
<1> DEFINE UpTo(n) == {s \in SUBSET S : Cardinality(s) <= n}
           Value(f, s) == IF s = {} THEN 0 ELSE Bytes[Chosen(s)] + f[s \ {Chosen(s)}]
           SumsUpTo(n, f) == f = [s \in UpTo(n) |-> Value(f, s)]
           c == Cardinality(S)
           Found(n) == \E f : SumsUpTo(n, f)
           Bad == {n \in 0..c : ~Found(n)}
<1>1. c \in Nat /\ \A s \in SUBSET S : Cardinality(s) \in Nat /\ Cardinality(s) <= c
  BY FS_Subset, FS_CardinalityType
<1>2. \A s \in SUBSET S : s # {} =>
         /\ s \ {Chosen(s)} \in SUBSET S /\ Cardinality(s) # 0
         /\ Cardinality(s \ {Chosen(s)}) = Cardinality(s) - 1
  BY SubsetIs
<1> HIDE DEF c, Found
<1>3. ASSUME Bad # {} PROVE FALSE
  <2>0. Bad \in SUBSET Nat
    BY <1>1
  <2>1. PICK n \in Bad : \A m \in Bad : n <= m
    BY <2>0, <1>3, LeastNumber
  <2>2. n \in Nat /\ n <= c /\ ~Found(n)
    BY <1>1, <2>1
  <2>3. CASE n = 0
    <3> DEFINE g == [s \in UpTo(0) |-> 0]
    <3>1. ASSUME NEW s \in UpTo(0) PROVE s = {}
      <4>1. s \in SUBSET S /\ Cardinality(s) = 0
        BY <1>1
      <4>. QED BY <1>2, <4>1
    <3>2. g = [s \in UpTo(0) |-> Value(g, s)]
      BY <3>1
    <3> HIDE DEF g
    <3>. QED BY <2>2, <2>3, <3>2 DEF Found
  <2>4. CASE n # 0
    <3>1. n - 1 \in 0..c /\ ~(n <= n - 1)
      BY <1>1, <2>2, <2>4
    <3>2. PICK f : SumsUpTo(n - 1, f)
      <4>1. Found(n - 1)
        BY <2>1, <3>1
      <4>. QED BY <4>1 DEF Found
    <3> DEFINE g == [s \in UpTo(n) |-> Value(f, s)]
    <3>3. ASSUME NEW t \in UpTo(n - 1) PROVE g[t] = f[t]
      <4>1. t \in UpTo(n)
        BY <1>1, <2>2, <3>3
      <4>2. f[t] = Value(f, t) /\ g[t] = Value(f, t)
        BY <3>2, <3>3, <4>1
      <4>. QED BY <4>2
    <3>4. ASSUME NEW s \in UpTo(n) PROVE Value(f, s) = Value(g, s)
      <4>1. CASE s = {}
        BY <4>1
      <4>2. CASE s # {}
        <5>1. s \ {Chosen(s)} \in UpTo(n - 1)
          BY <1>1, <1>2, <2>2, <3>4, <4>2
        <5>2. g[s \ {Chosen(s)}] = f[s \ {Chosen(s)}]
          BY <3>3, <5>1
        <5>. QED BY <4>2, <5>2
      <4>. QED BY <4>1, <4>2
    <3>5. g = [s \in UpTo(n) |-> Value(g, s)]
      <4> HIDE DEF Value, UpTo
      <4>1. \A s \in UpTo(n) : Value(f, s) = Value(g, s)
        BY <3>4
      <4>. QED BY <4>1
    <3> HIDE DEF g
    <3>. QED BY <2>2, <3>5 DEF Found
  <2>. QED BY <2>3, <2>4
<1>4. PICK f : SumsUpTo(c, f)
  <2>1. Found(c)
    BY <1>1, <1>3
  <2>. QED BY <2>1 DEF Found
<1>5. UpTo(c) = SUBSET S
  BY <1>1
<1>6. Sums(S, f)
  BY <1>4, <1>5 DEF Sums
<1>. QED BY <1>6

LEMMA SumIs ==
  ASSUME NEW S \in SUBSET Operations, NEW f, Sums(S, f)
  PROVE  /\ IsFiniteSet(S) /\ \A x \in S : Bytes[x] \in Nat
         /\ f[{}] = 0
         /\ \A s \in SUBSET S : s # {} => f[s] = Bytes[Chosen(s)] + f[s \ {Chosen(s)}]
<1>1. IsFiniteSet(S) /\ \A x \in S : Bytes[x] \in Nat
  BY FS_Subset, OperationAssumption
<1>2. f[{}] = 0 /\ \A s \in SUBSET S : s # {} => f[s] = Bytes[Chosen(s)] + f[s \ {Chosen(s)}]
  BY DEF Sums
<1>. QED BY <1>1, <1>2

LEMMA SumIsNumber ==
  ASSUME NEW S \in SUBSET Operations, NEW f, Sums(S, f)
  PROVE  \A s \in SUBSET S : f[s] \in Nat
<1> DEFINE Bad == {s \in SUBSET S : f[s] \notin Nat}
<1> SUFFICES ASSUME Bad # {} PROVE FALSE
  OBVIOUS
<1>1. /\ IsFiniteSet(S) /\ \A x \in S : Bytes[x] \in Nat
      /\ f[{}] = 0
      /\ \A s \in SUBSET S : s # {} => f[s] = Bytes[Chosen(s)] + f[s \ {Chosen(s)}]
  BY SumIs
<1>2. PICK s \in Bad : \A t \in Bad : ~(Cardinality(t) < Cardinality(s))
  BY <1>1, SmallestSet
<1>3. s # {} /\ s \in SUBSET S /\ f[s] \notin Nat
  <2>1. f[{}] \in Nat
    BY <1>1
  <2>. QED BY <1>2, <2>1
<1>4. PICK c \in S : /\ f[s] = Bytes[c] + f[s \ {c}] /\ s \ {c} \in SUBSET S
                     /\ Cardinality(s \ {c}) < Cardinality(s)
  <2>1. /\ Chosen(s) \in S /\ s \ {Chosen(s)} \in SUBSET S
        /\ Cardinality(s \ {Chosen(s)}) < Cardinality(s)
    BY <1>1, <1>3, SubsetIs
  <2>. QED BY <1>1, <1>3, <2>1
<1>5. f[s \ {c}] \in Nat
  BY <1>2, <1>4
<1>6. Bytes[c] \in Nat
  BY <1>1
<1> HIDE DEF Bad
<1>. QED BY <1>3, <1>4, <1>5, <1>6

(* A sum may begin with any of the members ... *)
LEMMA SumWithout ==
  ASSUME NEW S \in SUBSET Operations, NEW f, Sums(S, f),
         NEW r \in SUBSET S, NEW y \in r
  PROVE  f[r] = Bytes[y] + f[r \ {y}]
<1> DEFINE Bad == {s \in SUBSET S : \E x \in s : f[s] # Bytes[x] + f[s \ {x}]}
<1> SUFFICES ASSUME Bad # {} PROVE FALSE
  OBVIOUS
<1>1. /\ IsFiniteSet(S) /\ \A x \in S : Bytes[x] \in Nat
      /\ \A s \in SUBSET S : s # {} => f[s] = Bytes[Chosen(s)] + f[s \ {Chosen(s)}]
      /\ \A s \in SUBSET S : f[s] \in Nat
  BY SumIs, SumIsNumber
<1>2. PICK s \in Bad : \A t \in Bad : ~(Cardinality(t) < Cardinality(s))
  BY <1>1, SmallestSet
<1>3. PICK x \in s : f[s] # Bytes[x] + f[s \ {x}]
  BY <1>2
<1>4. PICK c \in s : f[s] = Bytes[c] + f[s \ {c}]
  <2>1. s \in SUBSET S /\ s # {}
    BY <1>2, <1>3
  <2>. QED BY <1>1, <2>1, SubsetIs
<1>5. c # x
  BY <1>3, <1>4
<1>6. /\ s \ {c} \in SUBSET S /\ s \ {x} \in SUBSET S /\ s \in SUBSET S
      /\ Cardinality(s \ {c}) < Cardinality(s) /\ Cardinality(s \ {x}) < Cardinality(s)
  BY <1>1, <1>2, <1>3, SubsetIs
<1>7. x \in s \ {c} /\ c \in s \ {x} /\ (s \ {c}) \ {x} = (s \ {x}) \ {c}
  BY <1>5
<1>8. f[s \ {c}] = Bytes[x] + f[(s \ {c}) \ {x}]
  BY <1>2, <1>6, <1>7
<1>9. f[s \ {x}] = Bytes[c] + f[(s \ {x}) \ {c}]
  BY <1>2, <1>6, <1>7
<1> DEFINE v == f[(s \ {x}) \ {c}]
<1>10. f[s] = Bytes[c] + (Bytes[x] + v) /\ f[s \ {x}] = Bytes[c] + v
  BY <1>4, <1>7, <1>8, <1>9
<1>11. Bytes[x] \in Nat /\ Bytes[c] \in Nat /\ v \in Nat
  <2>1. x \in S /\ c \in S /\ (s \ {x}) \ {c} \in SUBSET S
    BY <1>6
  <2>. QED BY <1>1, <2>1
<1> HIDE DEF Bad, v
<1>. QED BY <1>3, <1>10, <1>11

(* ... and is the same in whatever set it is computed. *)
LEMMA SumAgrees ==
  ASSUME NEW S \in SUBSET Operations, NEW f, Sums(S, f),
         NEW T \in SUBSET S, NEW g, Sums(T, g)
  PROVE  g[T] = f[T]
<1> DEFINE Bad == {s \in SUBSET T : g[s] # f[s]}
<1> SUFFICES ASSUME Bad # {} PROVE FALSE
  OBVIOUS
<1>1. /\ f[{}] = 0 /\ g[{}] = 0 /\ IsFiniteSet(T)
      /\ \A s \in SUBSET S : s # {} => f[s] = Bytes[Chosen(s)] + f[s \ {Chosen(s)}]
      /\ \A s \in SUBSET T : s # {} => g[s] = Bytes[Chosen(s)] + g[s \ {Chosen(s)}]
  <2>1. T \in SUBSET Operations
    OBVIOUS
  <2>. QED BY <2>1, SumIs
<1>2. PICK s \in Bad : \A t \in Bad : ~(Cardinality(t) < Cardinality(s))
  BY <1>1, SmallestSet
<1>3. s # {} /\ s \in SUBSET T /\ s \in SUBSET S
  BY <1>1, <1>2
<1>4. s \ {Chosen(s)} \in SUBSET T /\ Cardinality(s \ {Chosen(s)}) < Cardinality(s)
  BY <1>1, <1>3, SubsetIs
<1>5. g[s \ {Chosen(s)}] = f[s \ {Chosen(s)}]
  BY <1>2, <1>4
<1>. QED BY <1>1, <1>2, <1>3, <1>5

LEMMA TotalEmpty == Total({}) = 0
<1>1. \E f : Sums({}, f)
  BY SumExists, FS_EmptySet
<1>2. Sums({}, CHOOSE f : Sums({}, f))
  BY <1>1
<1>. QED BY <1>2, SumIs, TotalIs

LEMMA TotalWithout ==
  ASSUME NEW S \in SUBSET Operations, NEW x \in S
  PROVE  /\ Total(S) = Bytes[x] + Total(S \ {x})
         /\ Total(S \ {x}) \in Nat /\ Bytes[x] \in Nat
<1> DEFINE T == S \ {x}
           f == CHOOSE h : Sums(S, h)
           g == CHOOSE h : Sums(T, h)
<1>1. IsFiniteSet(S) /\ IsFiniteSet(T) /\ T \in SUBSET S
  BY FS_Subset, OperationAssumption
<1>2. Sums(S, f) /\ Sums(T, g)
  BY <1>1, SumExists
<1>3. Total(S) = f[S] /\ Total(T) = g[T]
  BY TotalIs
<1>4. f[S] = Bytes[x] + f[T]
  <2> HIDE DEF f, g
  <2>1. S \in SUBSET S
    OBVIOUS
  <2>. QED BY <1>2, <2>1, SumWithout
<1> HIDE DEF f, g, T
<1>5. f[T] \in Nat
  BY <1>1, <1>2, SumIsNumber
<1>6. g[T] = f[T]
  BY <1>1, <1>2, SumAgrees
<1>. QED BY <1>3, <1>4, <1>5, <1>6, OperationAssumption DEF T

Long(q) == Len(q["interactive"]) + Len(q["background"])

(* What admission relies on, of any queues and any account of their bytes. *)
Accounted(q, bytes) ==
  /\ bytes = Total(Members(q))
  /\ bytes <= MaximumQueueBytes
  /\ Long(q) <= MaximumQueueRequests

LEMMA QueueAccountingIs == QueueAccounting <=> Accounted(queue, queueBytes)
BY DEF QueueAccounting, Accounted, Total, Members, Queued, QueueLength, Long

LEMMA MembersAreOperations ==
  ASSUME NEW q \in [Priorities -> Seq(Operations)]
  PROVE  Members(q) \in SUBSET Operations
<1>1. ASSUME NEW p \in Priorities PROVE ToSet(q[p]) \in SUBSET Operations
  <2>1. q[p] \in Seq(Operations) /\ DOMAIN q[p] = 1..Len(q[p])
    OBVIOUS
  <2>. QED BY <2>1 DEF ToSet
<1>. QED BY <1>1 DEF Members

LEMMA EmptyQueues ==
  ASSUME NEW q, \A p \in Priorities : ToSet(q[p]) = {} /\ Len(q[p]) = 0
  PROVE  Members(q) = {} /\ Long(q) = 0
<1>1. Members(q) = {}
  BY DEF Members
<1>2. Long(q) = 0
  <2>1. "interactive" \in Priorities /\ "background" \in Priorities
    BY DEF Priorities
  <2>2. Len(q["interactive"]) = 0 /\ Len(q["background"]) = 0
    BY <2>1
  <2>3. 0 + 0 = 0
    OBVIOUS
  <2>. QED BY <2>2, <2>3, Zenon DEF Long
<1>. QED BY <1>1, <1>2

(* The length of both queues after one of them has been replaced. *)
LEMMA LongIs ==
  ASSUME NEW q \in [Priorities -> Seq(Operations)], NEW p \in Priorities,
         NEW t \in Seq(Operations)
  PROVE  /\ Long(q) \in Nat /\ Len(t) \in Nat /\ Len(q[p]) \in Nat
         /\ Long([q EXCEPT ![p] = t]) = Long(q) - Len(q[p]) + Len(t)
<1>1. /\ q["interactive"] \in Seq(Operations) /\ q["background"] \in Seq(Operations)
      /\ p = "interactive" \/ p = "background"
  BY DEF Priorities
<1>2. /\ Len(q["interactive"]) \in Nat /\ Len(q["background"]) \in Nat /\ Len(t) \in Nat
  BY <1>1
<1>3. CASE p = "interactive"
  <2>1. [q EXCEPT ![p] = t]["interactive"] = t /\ [q EXCEPT ![p] = t]["background"] = q["background"]
    BY <1>3 DEF Priorities
  <2>. QED BY <1>2, <1>3, <2>1 DEF Long
<1>4. CASE p = "background"
  <2>1. [q EXCEPT ![p] = t]["background"] = t /\ [q EXCEPT ![p] = t]["interactive"] = q["interactive"]
    BY <1>4 DEF Priorities
  <2>. QED BY <1>2, <1>4, <2>1 DEF Long
<1>. QED BY <1>1, <1>3, <1>4

(* An operation leaves the queues, and its bytes leave the account. *)
LEMMA LeavingIsAccounted ==
  ASSUME NEW q \in [Priorities -> Seq(Operations)], OwnPriority(q), Distinct(q),
         NEW bytes, Accounted(q, bytes),
         NEW p \in Priorities, NEW x \in ToSet(q[p]), NEW t \in Seq(Operations),
         ToSet(t) = ToSet(q[p]) \ {x}, IsInjective(t), Len(t) = Len(q[p]) - 1
  PROVE  Accounted([q EXCEPT ![p] = t], bytes - Bytes[x])
<1>1. Members([q EXCEPT ![p] = t]) = Members(q) \ {x} /\ Distinct([q EXCEPT ![p] = t])
  BY LessOne
<1>2. Members(q) \in SUBSET Operations /\ x \in Members(q)
  BY MembersAreOperations DEF Members
<1>3. /\ Total(Members(q)) = Bytes[x] + Total(Members(q) \ {x})
      /\ Total(Members(q) \ {x}) \in Nat /\ Bytes[x] \in Nat
  BY <1>2, TotalWithout
<1>4. Long(q) \in Nat /\ Len(q[p]) \in Nat /\ Long([q EXCEPT ![p] = t]) = Long(q) - 1
  <2>1. /\ Long(q) \in Nat /\ Len(t) \in Nat /\ Len(q[p]) \in Nat
        /\ Long([q EXCEPT ![p] = t]) = Long(q) - Len(q[p]) + Len(t)
    BY LongIs
  <2>. QED BY <2>1
<1> DEFINE r == [q EXCEPT ![p] = t]
<1>5. Members(r) = Members(q) \ {x} /\ Long(r) = Long(q) - 1
  BY <1>1, <1>4
<1> HIDE DEF r
<1>6. Accounted(r, bytes - Bytes[x])
  BY <1>3, <1>4, <1>5, QueueAssumption DEF Accounted
<1>. QED BY <1>6 DEF r

LEMMA EnqueuedIsAccounted ==
  ASSUME NEW q \in [Priorities -> Seq(Operations)], Distinct(q),
         NEW bytes, Accounted(q, bytes), NEW op \in Operations, op \notin Members(q),
         Long(q) < MaximumQueueRequests, bytes + Bytes[op] <= MaximumQueueBytes
  PROVE  Accounted([q EXCEPT ![Priority[op]] = Append(@, op)], bytes + Bytes[op])
<1> DEFINE p == Priority[op]
           t == Append(q[p], op)
           r == [q EXCEPT ![p] = t]
<1>1. p \in Priorities /\ q[p] \in Seq(Operations) /\ t \in Seq(Operations) /\ Len(t) = Len(q[p]) + 1
  BY OperationAssumption
<1>2. Members(r) = Members(q) \cup {op}
  BY OperationAssumption, EnqueuedMembers
<1> HIDE DEF p, t
<1>3. Members(q) \cup {op} \in SUBSET Operations /\ (Members(q) \cup {op}) \ {op} = Members(q)
  BY MembersAreOperations
<1>4. Total(Members(q) \cup {op}) = Bytes[op] + Total(Members(q)) /\ Total(Members(q)) \in Nat /\ Bytes[op] \in Nat
  <2> DEFINE S == Members(q) \cup {op}
  <2>1. S \in SUBSET Operations /\ op \in S /\ S \ {op} = Members(q)
    BY <1>3
  <2> HIDE DEF S
  <2>2. Total(S) = Bytes[op] + Total(S \ {op}) /\ Total(S \ {op}) \in Nat /\ Bytes[op] \in Nat
    BY <2>1, TotalWithout
  <2>. QED BY <2>1, <2>2 DEF S
<1>5. Long(q) \in Nat /\ Long(r) = Long(q) + 1
  <2>1. /\ Long(q) \in Nat /\ Len(t) \in Nat /\ Len(q[p]) \in Nat
        /\ Long(r) = Long(q) - Len(q[p]) + Len(t)
    BY <1>1, LongIs
  <2>. QED BY <1>1, <2>1
<1> HIDE DEF r
<1>6. Accounted(r, bytes + Bytes[op])
  BY <1>2, <1>4, <1>5, QueueAssumption DEF Accounted
<1>. QED BY <1>6 DEF r, t, p

LEMMA TakenIsAccounted ==
  ASSUME NEW q \in [Priorities -> Seq(Operations)], OwnPriority(q),
         Distinct(q), NextOperation(q) # None,
         NEW bytes, Accounted(q, bytes), NEW st, TakeOperation(NextOperation(q), q, bytes, st)
  PROVE  Accounted(queue', queueBytes')
<1> DEFINE op == NextOperation(q)
           p == Priority[op]
           t == Tail(q[p])
<1>1. op \in Operations /\ q[p] # <<>> /\ op = Head(q[p])
  BY TakenIsHead
<1>2. queue' = [q EXCEPT ![p] = t] /\ queueBytes' = bytes - Bytes[op]
  BY DEF TakeOperation, TakeBytes
<1> HIDE DEF op
<1>3. p \in Priorities /\ q[p] \in Seq(Operations)
  BY <1>1, OperationAssumption
<1>4. t \in Seq(Operations) /\ Len(t) = Len(q[p]) - 1 /\ IsInjective(q[p])
  BY <1>1, <1>3 DEF Distinct
<1>5. ToSet(t) = ToSet(q[p]) \ {op} /\ IsInjective(t) /\ op \in ToSet(q[p])
  BY <1>1, <1>3, <1>4, HeadLeaves
<1> HIDE DEF p, t
<1>6. Accounted([q EXCEPT ![p] = t], bytes - Bytes[op])
  BY <1>3, <1>4, <1>5, LeavingIsAccounted
<1>. QED BY <1>2, <1>6

LEMMA LoopAccounted ==
  ASSUME TypeOK, OwnPriority(queue), PendingInv, Accounted(queue, queueBytes),
         NEW st, LoopHead(queue, queueBytes, st)
  PROVE  Accounted(queue', queueBytes')
<1>1. queue \in [Priorities -> Seq(Operations)] /\ Distinct(queue)
  BY DEF TypeOK, PendingInv, PendingIsOwned, Distinct
<1>2. CASE stopped \/ NextOperation(queue) = None
  <2>1. queue' = queue /\ queueBytes' = queueBytes
    BY <1>2 DEF LoopHead, DrainEnds
  <2>. QED BY <2>1
<1>3. CASE ~(stopped \/ NextOperation(queue) = None)
  <2>1. TakeOperation(NextOperation(queue), queue, queueBytes, st) /\ NextOperation(queue) # None
    BY <1>3 DEF LoopHead
  <2>. QED BY <1>1, <2>1, TakenIsAccounted
<1>. QED BY <1>2, <1>3

LEMMA StepAccounted ==
  TypeOK /\ OwnPriority(queue) /\ PendingInv /\ QueueAccounting /\ [Next]_vars => QueueAccounting'
<1> SUFFICES ASSUME TypeOK, OwnPriority(queue), PendingInv, Accounted(queue, queueBytes), [Next]_vars
             PROVE  Accounted(queue', queueBytes')
  <2>1. (QueueAccounting <=> Accounted(queue, queueBytes))'
    BY QueueAccountingIs, PTL
  <2>. QED BY <2>1, QueueAccountingIs
<1>0. queue \in [Priorities -> Seq(Operations)] /\ Queued = Members(queue) /\ Distinct(queue)
  BY DEF TypeOK, Queued, Members, PendingInv, PendingIsOwned, Distinct
<1>1. ASSUME NEW op \in Operations, Enqueue(op) PROVE Accounted(queue', queueBytes')
  <2> DEFINE q == [queue EXCEPT ![Priority[op]] = Append(@, op)]
             bytes == queueBytes + Bytes[op]
  <2>1. op \notin Members(queue) /\ Long(queue) < MaximumQueueRequests /\ bytes <= MaximumQueueBytes
    BY <1>0, <1>1 DEF Enqueue, Admits, ById, QueueLength, Long
  <2>2. q \in [Priorities -> Seq(Operations)] /\ OwnPriority(q) /\ NextOperation(q) # None
    BY <1>0, AppendedQueue, OperationAssumption, NoneAssumption
  <2>3. Accounted(q, bytes)
    BY <1>0, <2>1, EnqueuedIsAccounted
  <2>4. Distinct(q)
    BY <1>0, <2>1, EnqueuedMembers, OperationAssumption
  <2>5. CASE step = "idle"
    <3>1. TakeOperation(NextOperation(q), q, bytes, IF host # None THEN "ready" ELSE hostStatus)
      BY <1>1, <2>5 DEF Enqueue
    <3> HIDE DEF q, bytes
    <3>. QED BY <2>2, <2>3, <2>4, <3>1, TakenIsAccounted
  <2>6. CASE step # "idle"
    <3>1. queue' = q /\ queueBytes' = bytes
      BY <1>1, <2>6 DEF Enqueue
    <3> HIDE DEF q, bytes
    <3>. QED BY <2>3, <3>1
  <2>. QED BY <2>5, <2>6
<1>2. ASSUME NEW op \in Operations, CancelQueued(op) PROVE Accounted(queue', queueBytes')
  <2> DEFINE p == Priority[op]
             k == IndexOf(queue[p], op)
             t == RemoveAt(queue[p], k)
  <2>1. /\ op \in Queued /\ queue' = [queue EXCEPT ![p] = t] /\ queueBytes' = queueBytes - Bytes[op]
    BY <1>2 DEF CancelQueued
  <2>2. k \in 1..Len(queue[p]) /\ p \in Priorities /\ queue[p] \in Seq(Operations)
    BY <1>0, <2>1, QueuedPosition, OperationAssumption
  <2>3. queue[p][k] = op /\ op \in ToSet(queue[p])
    <3>1. PICK o \in Priorities : op \in ToSet(queue[o])
      BY <2>1 DEF Queued
    <3>2. o = p
      BY <1>0, <3>1, MembersHavePriority
    <3>3. \E i \in DOMAIN queue[p] : queue[p][i] = op
      BY <3>1, <3>2 DEF ToSet
    <3>. QED BY <3>1, <3>2, <3>3 DEF IndexOf
  <2> HIDE DEF k, p
  <2>4. t \in Seq(Operations) /\ Len(t) = Len(queue[p]) - 1
    BY <2>2, RemoveAtSeq
  <2>5. ToSet(t) = ToSet(queue[p]) \ {op} /\ IsInjective(t)
    <3>1. IsInjective(queue[p])
      BY <1>0, <2>2 DEF Distinct
    <3>. QED BY <2>2, <2>3, <3>1, RemovalLeaves
  <2> HIDE DEF t
  <2>6. Accounted([queue EXCEPT ![p] = t], queueBytes - Bytes[op])
    BY <1>0, <2>2, <2>3, <2>4, <2>5, LeavingIsAccounted
  <2>. QED BY <2>1, <2>6
<1>3. CASE Stop
  <2>1. queue' = [p \in Priorities |-> <<>>] /\ queueBytes' = 0
    BY <1>3 DEF Stop
  <2>2. \A p \in Priorities : ToSet(queue'[p]) = {} /\ Len(queue'[p]) = 0
    BY <2>1 DEF ToSet
  <2>3. Members(queue') = {} /\ Long(queue') = 0
    BY <2>2, EmptyQueues
  <2>4. 0 <= MaximumQueueBytes /\ 0 <= MaximumQueueRequests
    BY QueueAssumption
  <2>. QED BY <2>1, <2>3, <2>4, TotalEmpty DEF Accounted
<1>4. CASE OperationCompletes \/ ResumeAfterRetirement \/ OperationFails
  <2>1. CASE queue' = queue /\ queueBytes' = queueBytes
    BY <2>1
  <2>2. ASSUME NEW st, LoopHead(queue, queueBytes, st) PROVE Accounted(queue', queueBytes')
    BY <2>2, LoopAccounted
  <2>. QED BY <1>4, <2>1, <2>2 DEF OperationCompletes, ResumeAfterRetirement, OperationFails, queueVars
<1>5. CASE \/ CancelActive \/ DeadlinePasses \/ Describe
           \/ StartHost \/ HostStarts \/ HostStartFails \/ HostMismatches
           \/ SendRequest \/ SendEmbed \/ AnswerRejected \/ IdleTimerFires
           \/ \E s \in Slots : HostCrashes(s) \/ KilledHostExits(s) \/ TerminationEnds(s)
  <2>1. queue' = queue /\ queueBytes' = queueBytes
    BY <1>5 DEF CancelActive, DeadlinePasses, AbortActive, Describe, StartHost, HostStarts,
     HostStartFails, HostMismatches, SendRequest, SendEmbed, AnswerRejected, IdleTimerFires, HostCrashes,
     KilledHostExits, TerminationEnds, queueVars
  <2>. QED BY <2>1
<1>6. CASE UNCHANGED vars
  BY <1>6 DEF vars
<1>. QED BY <1>1, <1>2, <1>3, <1>4, <1>5, <1>6 DEF Next

-----------------------------------------------------------------------------
(* The inductive invariant and what follows from it. *)

IInv == TypeOK /\ QueueInv /\ HostInv /\ PendingInv /\ QueueAccounting

LEMMA InitIInv == Init => IInv
<1> SUFFICES ASSUME Init PROVE IInv
  OBVIOUS
<1> USE NoneAssumption DEF Init
<1>1. TypeOK
  <2>1. << >> \in Seq(Operations)
    OBVIOUS
  <2>2. queue \in [Priorities -> Seq(Operations)]
    BY <2>1
  <2>3. 0 \in 0..MaximumBurst /\ 0 \in 0..MaximumOvertaken
    BY DEF MaximumBurst, MaximumOvertaken, BurstLimit
  <2>4. overtaken \in [Priorities -> 0..MaximumOvertaken]
    BY <2>3
  <2>7. queueBytes \in Int /\ interactiveBurst \in 0..MaximumBurst
    BY <2>3
  <2>5. /\ active \in Operations \cup {None} /\ step \in Steps
        /\ using \in Slots \cup {None} /\ aborted \in BOOLEAN /\ pending \subseteq Operations
    BY DEF Steps
  <2>6. /\ host \in Slots \cup {None} /\ residentModel \in Models \cup {None}
        /\ hostStatus \in HostStatuses /\ idleTimer \in BOOLEAN /\ stopped \in BOOLEAN
        /\ stopCall \in {"none", "awaiting", "returned"}
        /\ process \in [Slots -> ProcessStates] /\ loaded \in [Slots -> Models \cup {None}]
    BY DEF HostStatuses, ProcessStates
  <2> HIDE DEF Init
  <2>. QED BY <2>2, <2>4, <2>5, <2>6, <2>7 DEF TypeOK
<1>2. QueueInv
  BY DEF QueueInv, OwnPriority, BurstBounds, Priorities
<1>3. HostInv
  BY DEF HostInv, StepInv, HostKnown, NoOrphanHost, InFlightIsServed, InFlight, IdleHostIsWatched
<1>4. PendingInv
  <2>1. ToSet(<<>>) = {} /\ IsInjective(<<>>)
    BY DEF ToSet, IsInjective
  <2>2. Queued = {} /\ \A p \in Priorities : IsInjective(queue[p])
    BY <2>1 DEF Queued
  <2>. QED BY <2>2 DEF PendingInv, PendingIsOwned, NoStall, ById
<1>5. QueueAccounting
  <2>1. \A p \in Priorities : ToSet(queue[p]) = {} /\ Len(queue[p]) = 0
    BY DEF ToSet
  <2>2. Members(queue) = {} /\ Long(queue) = 0 /\ queueBytes = 0
    BY <2>1, EmptyQueues
  <2>3. 0 <= MaximumQueueBytes /\ 0 <= MaximumQueueRequests
    BY QueueAssumption
  <2> HIDE DEF Init
  <2>4. Accounted(queue, queueBytes)
    BY <2>2, <2>3, TotalEmpty DEF Accounted
  <2>. QED BY <2>4, QueueAccountingIs
<1>. QED BY <1>1, <1>2, <1>3, <1>4, <1>5 DEF IInv

(* Every reachable state satisfies the inductive invariant. *)
THEOREM Invariance == SafetySpec => []IInv
<1>1. IInv /\ [Next]_vars => IInv'
  BY StepTypeOK, StepQueueInv, StepHostInv, StepPendingInv, StepAccounted
     DEF IInv, QueueInv, HostInv, StepInv
<1>. QED BY InitIInv, <1>1, PTL DEF SafetySpec

(* Every variable of the coordinator stays within its type. *)
THEOREM TypeCorrect == SafetySpec => []TypeOK
<1>1. IInv => TypeOK
  BY DEF IInv
<1>. QED BY Invariance, <1>1, PTL

(* Neither priority overtakes the other more often than nextOperation allows,
   for any operations and any queue limits. *)
THEOREM OvertakingBounded == SafetySpec => []BoundedOvertaking
<1>1. IInv => BoundedOvertaking
  <2> SUFFICES ASSUME IInv PROVE BoundedOvertaking
    OBVIOUS
  <2>1. /\ interactiveBurst \in 0..4
        /\ overtaken["interactive"] \in 0..5 /\ overtaken["background"] \in 0..5
    BY DEF IInv, TypeOK, MaximumBurst, MaximumOvertaken, BurstLimit, Priorities
  <2>. QED BY <2>1 DEF IInv, QueueInv, BurstBounds, BoundedOvertaking, BurstLimit
<1>. QED BY Invariance, <1>1, PTL

(* Every caller without an answer has its operation queued once or active. *)
THEOREM CallersOwned == SafetySpec => []PendingIsOwned
<1>1. IInv => PendingIsOwned
  BY DEF IInv, PendingInv
<1>. QED BY Invariance, <1>1, PTL

(* The byte account is what the queued operations hold, and neither limit of the
   policy is exceeded, through every mix of completion, cancellation, rejection
   and stop. *)
THEOREM QueueIsAccounted == SafetySpec => []QueueAccounting
<1>1. IInv => QueueAccounting
  BY DEF IInv
<1>. QED BY Invariance, <1>1, PTL

(* No operation lies in the queue without a drain loop that will take it. *)
THEOREM QueueNeverStalls == SafetySpec => []NoStall
<1>1. IInv => NoStall
  BY DEF IInv, PendingInv
<1>. QED BY Invariance, <1>1, PTL

(* No host process is leaked. *)
THEOREM HostsAccounted == SafetySpec => []NoOrphanHost
<1>1. IInv => NoOrphanHost
  BY DEF IInv, HostInv
<1>. QED BY Invariance, <1>1, PTL

(* A request in flight is served by the live current host, which was started with
   its model and has proved to be that model. *)
THEOREM RequestsServed == SafetySpec => []InFlightIsServed
<1>1. IInv => InFlightIsServed
  BY DEF IInv, HostInv
<1>. QED BY Invariance, <1>1, PTL

(* The eviction timer runs exactly while the coordinator is idle with a host. *)
THEOREM EvictionWatchesIdle == SafetySpec => []IdleHostIsWatched
<1>1. IInv => IdleHostIsWatched
  BY DEF IInv, HostInv
<1>. QED BY Invariance, <1>1, PTL

(* No request is in flight once the coordinator has been stopped. *)
THEOREM NothingServedAfterStop == SafetySpec => []StoppedServesNothing
<1>1. IInv => StoppedServesNothing
  BY DEF IInv, HostInv, StepInv, InFlightIsServed, StoppedServesNothing, PendingInv, NoStall, InFlight
<1>. QED BY Invariance, <1>1, PTL

(* An operation taken with a host already in hand has a live one that loaded
   its model: an interrupted, crashed or foreign host is never inherited. *)
THEOREM LiveHostInherited == SafetySpec => NextOperationGetsLiveHost
<1> DEFINE Inherits == active' # active /\ active' # None /\ using' # None =>
                         process[using'] = "serving" /\ loaded[using'] = Model[active']
<1>1. ASSUME HostKnown, active' \in Operations \cup {None},
             NEW op, NEW q, NEW bytes, NEW st, TakeOperation(op, q, bytes, st)
      PROVE  Inherits
  <2>1. op \in Operations /\ active' = op => Model[op] # None
    BY OperationAssumption, NoneAssumption
  <2>. QED BY <1>1, <2>1 DEF TakeOperation, EnsureHost, RetireHost, ReusesHost, Alive, HostKnown
<1>2. ASSUME HostKnown, active' \in Operations \cup {None}, NEW st, LoopHead(queue, queueBytes, st)
      PROVE  Inherits
  <2>1. CASE stopped \/ NextOperation(queue) = None
    BY <1>2, <2>1 DEF LoopHead, DrainEnds
  <2>2. CASE ~(stopped \/ NextOperation(queue) = None)
    <3>1. TakeOperation(NextOperation(queue), queue, queueBytes, st)
      BY <1>2, <2>2 DEF LoopHead
    <3>. QED BY <1>1, <1>2, <3>1
  <2>. QED BY <2>1, <2>2
<1>3. ASSUME IInv, Next PROVE Inherits
  <2>1. HostKnown /\ active' \in Operations \cup {None}
    <3>1. TypeOK'
      BY <1>3, StepTypeOK DEF IInv, QueueInv, HostInv, StepInv
    <3>. QED BY <1>3, <3>1 DEF IInv, HostInv, TypeOK
  <2>2. ASSUME NEW op \in Operations, Enqueue(op) PROVE Inherits
    <3>1. CASE step = "idle"
      <4>1. \E q, bytes, st : TakeOperation(NextOperation(q), q, bytes, st)
        BY <2>2, <3>1 DEF Enqueue
      <4>. QED BY <1>1, <2>1, <4>1
    <3>2. CASE step # "idle"
      BY <2>2, <3>2 DEF Enqueue, activeVars
    <3>. QED BY <3>1, <3>2
  <2>3. CASE OperationCompletes \/ ResumeAfterRetirement \/ OperationFails
    <3>1. active' = active \/ \E st : LoopHead(queue, queueBytes, st)
      BY <2>3 DEF OperationCompletes, ResumeAfterRetirement, OperationFails
    <3>. QED BY <1>2, <2>1, <3>1
  <2>4. CASE ~(OperationCompletes \/ ResumeAfterRetirement \/ OperationFails)
             /\ ~\E op \in Operations : Enqueue(op)
    <3>1. active' = active
      BY <1>3, <2>4 DEF Next, CancelQueued, CancelActive, DeadlinePasses, AbortActive, Describe,
         Stop, StartHost, HostStarts, HostStartFails, HostMismatches, SendRequest, SendEmbed, AnswerRejected,
         IdleTimerFires, HostCrashes, KilledHostExits, TerminationEnds, activeVars
    <3>. QED BY <3>1
  <2>. QED BY <2>2, <2>3, <2>4
<1>4. IInv /\ [Next]_vars => [Inherits]_vars
  BY <1>3
<1>. QED BY Invariance, <1>4, PTL DEF SafetySpec, NextOperationGetsLiveHost
=============================================================================
