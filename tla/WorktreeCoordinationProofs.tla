--------------------- MODULE WorktreeCoordinationProofs ---------------------
(* Proofs about WorktreeCoordination, for any checkouts, clients, tasks, agents,
   leases and number of calls under way.

   That a task has one lease follows from the transaction of a claim alone. That
   whoever is about to announce work holds the task's lease does not: between
   the check and the event, every other process may end leases by their ids, by
   their owner or by their worktree. IInv adds what a call carries along; Reasons
   adds why a lease that a call selected may end, and Spared that nothing names
   the main checkout as one to remove.                                        *)
EXTENDS WorktreeCoordination, TLAPS

Goals == {"none", "list", "look", "missing"} \cup Claiming
Stages == {"idle", "sweep", "mark", "claim", "own", "write", "record", "undo", "unlist",
           "look", "missing"}

Call == [stage : Stages, goal : Goals, type : EventTypes \cup {"none"}, task : Tasks \cup {None},
         agent : Actors \cup {User, None}, path : Checkouts \cup {None},
         record : Records \cup {None}, valid : SUBSET SUBSET Tasks, late : BOOLEAN,
         ending : SUBSET Leases, missing : SUBSET Records]

(* The calls that are about a task. *)
OnTask(c) ==
  \/ c.stage \in {"record", "claim", "own", "write", "undo"}
  \/ c.stage \in {"sweep", "mark"} /\ c.goal \in Claiming \cup {"list"}

Formed(c) ==
  /\ c \in Call
  /\ c.stage = "record" => c.goal = "claim"
  /\ c.stage = "claim" => c.goal \in Claiming
  /\ OnTask(c) => c.task \in Tasks /\ c.path \in Checkouts

Types ==
  /\ lease \in [Leases -> Lease \cup {None}]
  /\ call \in [Processes -> Call]
  /\ \A p \in Processes : Formed(call[p])

OneLease == \A k, l \in Active : lease[k].task = lease[l].task => k = l

Announces(p) == At(p, "write") /\ call[p].type \in Work
Holds(p) == \E l \in Active : lease[l].task = call[p].task /\ lease[l].path = call[p].path

IInv ==
  /\ Types
  /\ OneLease
  /\ \A p \in Processes \ robbed : Announces(p) => Holds(p)

(* ---- Data ---- *)

LEMMA NoneIsNoLease == None \notin Lease
BY NoneIsNoRow DEF Lease

LEMMA NoneIsNoTask == None \notin Tasks /\ None \notin Checkouts
BY NoneIsNoRow

LEMMA IdleFormed == Formed(NoCall)
BY DEF Formed, NoCall, Call, OnTask, Stages, Goals, Claiming

LEMMA ActiveLeases ==
  ASSUME Types, NEW l \in Active
  PROVE  l \in Leases /\ lease[l] \in Lease
BY DEF Types, Active

(* ---- Steps: what they do to the leases ---- *)

LeasesStay == \A l \in Active : l \in Active' /\ lease'[l].task = lease[l].task
                                              /\ lease'[l].path = lease[l].path

(* Who announced before still holds: his lease stayed, or he is robbed. *)
LEMMA StillHolds ==
  ASSUME IInv, NEW q \in Processes, Announces(q), q \notin robbed',
         call'[q].task = call[q].task, call'[q].path = call[q].path,
         \/ LeasesStay /\ robbed \subseteq robbed'
         \/ \E S \in SUBSET Leases : End(S)
  PROVE  Holds(q)'
<1>1. CASE LeasesStay /\ robbed \subseteq robbed'
  <2>1. PICK l \in Active : lease[l].task = call[q].task /\ lease[l].path = call[q].path
    BY <1>1 DEF IInv, Holds
  <2>2. l \in Active' /\ lease'[l].task = call'[q].task /\ lease'[l].path = call'[q].path
    BY <1>1, <2>1 DEF LeasesStay
  <2>3. QED
    BY <2>2 DEF Holds
<1>2. ASSUME NEW S \in SUBSET Leases, End(S)
      PROVE  Holds(q)'
  <2>1. q \notin robbed
    BY <1>2 DEF End
  <2>2. PICK l \in Active : lease[l].task = call[q].task /\ lease[l].path = call[q].path
    BY <2>1 DEF IInv, Holds
  <2>3. l \notin S
    BY <1>2, <2>2 DEF End, Announces, On
  <2>4. l \in Leases /\ lease'[l] = lease[l]
    BY <1>2, <2>2, <2>3 DEF End, Active
  <2>5. l \in Active' /\ lease'[l].task = call'[q].task /\ lease'[l].path = call'[q].path
    BY <2>2, <2>4 DEF Active
  <2>6. QED
    BY <2>5 DEF Holds
<1>3. QED
  BY <1>1, <1>2

(* To end leases keeps the others as they are. *)
LEMMA EndKeepsLeases ==
  ASSUME IInv, NEW S \in SUBSET Leases, End(S)
  PROVE  lease' \in [Leases -> Lease \cup {None}] /\ OneLease'
<1>1. lease' \in [Leases -> Lease \cup {None}]
  BY DEF End, IInv, Types
<1>2. \A l \in Active' : l \in Active /\ lease'[l] = lease[l]
  BY DEF End, Active
<1>3. QED
  BY <1>1, <1>2 DEF IInv, OneLease

LEMMA UnchangedLeases ==
  ASSUME IInv, UNCHANGED lease
  PROVE  lease' \in [Leases -> Lease \cup {None}] /\ OneLease' /\ LeasesStay
BY DEF IInv, Types, OneLease, LeasesStay, Active

(* A step of p is judged by what it does to the leases and to its own call. *)
LEMMA StepKeeps ==
  ASSUME IInv, NEW p \in Processes, NEW c, Formed(c),
         call' = [call EXCEPT ![p] = c],
         \/ UNCHANGED <<lease, robbed>>
         \/ \E S \in SUBSET Leases : End(S),
         c.stage # "write" \/ c.type \notin Work \/ Holds(p)'
  PROVE  IInv'
<1>1. lease' \in [Leases -> Lease \cup {None}] /\ OneLease'
  BY EndKeepsLeases, UnchangedLeases
<1>2. Types'
  BY <1>1 DEF IInv, Types, Formed
<1>3. ASSUME NEW q \in Processes \ robbed', Announces(q)'
      PROVE  Holds(q)'
  <2>1. CASE q = p
    BY <1>3, <2>1 DEF Announces, At, IInv, Types
  <2>2. CASE q # p
    <3>1. call'[q] = call[q]
      BY <2>2 DEF IInv, Types
    <3>2. Announces(q)
      BY <1>3, <3>1 DEF Announces, At
    <3>3. LeasesStay \/ \E S \in SUBSET Leases : End(S)
      BY UnchangedLeases
    <3>4. QED
      BY <1>3, <3>1, <3>2, <3>3, StillHolds
  <2>3. QED
    BY <2>1, <2>2
<1>4. QED
  BY <1>1, <1>2, <1>3 DEF IInv

(* A step after which nobody holds less keeps the invariant, whatever it does to
   the calls of others beyond their task and their stage.                      *)
LEMMA LatenessKeeps ==
  ASSUME IInv, UNCHANGED lease, Types', NEW ended \in SUBSET Processes,
         robbed \ ended \subseteq robbed', robbed' \subseteq robbed,
         \A q \in Processes : /\ q \in ended => call'[q].stage = "idle"
                              /\ q \notin ended => /\ call'[q].stage = call[q].stage
                                                   /\ call'[q].type = call[q].type
                                                   /\ call'[q].task = call[q].task
                                                   /\ call'[q].path = call[q].path
  PROVE  IInv'
<1>1. OneLease' /\ LeasesStay
  BY UnchangedLeases
<1>2. ASSUME NEW q \in Processes \ robbed', Announces(q)'
      PROVE  Holds(q)'
  <2>1. q \notin ended
    BY <1>2 DEF Announces, At
  <2>2. Announces(q) /\ q \notin robbed
    BY <1>2, <2>1 DEF Announces, At
  <2>3. PICK l \in Active : lease[l].task = call[q].task /\ lease[l].path = call[q].path
    BY <2>2 DEF IInv, Holds
  <2>4. l \in Active' /\ lease'[l].task = call'[q].task /\ lease'[l].path = call'[q].path
    BY <1>1, <2>1, <2>3 DEF LeasesStay
  <2>5. QED
    BY <2>4 DEF Holds
<1>3. QED
  BY <1>1, <1>2 DEF IInv

(* Granting a claim gives the lease, or the one its owner has, to the caller. *)
LEMMA GrantKeeps ==
  ASSUME IInv, NEW p \in Processes, NEW c, Formed(c), call' = [call EXCEPT ![p] = c],
         NEW l \in Leases, NEW r \in Lease, lease' = [lease EXCEPT ![l] = r],
         UNCHANGED robbed,
         lease[l] = None => \A k \in Active : lease[k].task # r.task,
         lease[l] # None => lease[l].task = r.task /\ lease[l].path = r.path,
         c.stage = "write" => c.task = r.task /\ c.path = r.path
  PROVE  IInv'
<1>1. Types'
  BY DEF IInv, Types, Formed
<1>2. lease \in [Leases -> Lease \cup {None}] /\ r # None
  BY NoneIsNoLease DEF IInv, Types
<1>3. Active' = Active \cup {l} /\ lease'[l] = r /\ \A k \in Leases \ {l} : lease'[k] = lease[k]
  BY <1>2 DEF Active
<1>4. LeasesStay
  BY <1>2, <1>3 DEF LeasesStay, Active
<1>5. OneLease'
  <2>1. SUFFICES ASSUME NEW j \in Active', NEW k \in Active', lease'[j].task = lease'[k].task, j # k
                 PROVE  FALSE
    BY DEF OneLease
  <2>2. CASE lease[l] = None
    BY <1>3, <2>1, <2>2 DEF IInv, OneLease, Active
  <2>3. CASE lease[l] # None
    <3>1. l \in Active
      BY <2>3 DEF Active
    <3>2. j \in Active /\ k \in Active /\ lease[j].task = lease[k].task
      BY <1>3, <2>1, <2>3, <3>1
    <3>3. QED
      BY <2>1, <3>2 DEF IInv, OneLease
  <2>4. QED
    BY <2>2, <2>3
<1>6. ASSUME NEW q \in Processes \ robbed', Announces(q)'
      PROVE  Holds(q)'
  <2>1. CASE q = p
    <3>1. call'[q] = c
      BY <2>1 DEF IInv, Types
    <3>2. c.task = r.task /\ c.path = r.path
      BY <1>6, <3>1 DEF Announces, At
    <3>3. l \in Active' /\ lease'[l].task = call'[q].task /\ lease'[l].path = call'[q].path
      BY <1>3, <3>1, <3>2
    <3>4. QED
      BY <3>3 DEF Holds
  <2>2. CASE q # p
    <3>1. call'[q] = call[q]
      BY <2>2 DEF IInv, Types
    <3>2. Announces(q)
      BY <1>6, <3>1 DEF Announces, At
    <3>3. QED
      BY <1>4, <1>6, <3>1, <3>2, StillHolds
  <2>3. QED
    BY <2>1, <2>2
<1>7. QED
  BY <1>1, <1>5, <1>6 DEF IInv

(* ---- Steps: the calls they lead to ---- *)

LEMMA FormedCall ==
  ASSUME IInv, NEW p \in Processes
  PROVE  call[p] \in Call /\ Formed(call[p])
BY DEF IInv, Types

LEMMA FinishKeeps ==
  ASSUME IInv, NEW p \in Processes, Finish(p),
         \/ UNCHANGED <<lease, robbed>>
         \/ \E S \in SUBSET Leases : End(S)
  PROVE  IInv'
<1>1. call' = [call EXCEPT ![p] = NoCall] /\ NoCall.stage # "write"
  BY DEF Finish, NoCall
<1>2. QED
  BY <1>1, IdleFormed, StepKeeps

(* The call of a granted claim goes on with the same task. *)
LEMMA GrantedCall ==
  ASSUME IInv, NEW p \in Processes, Granted(p), OnTask(call[p]), call[p].goal \in Claiming
  PROVE  \E c : /\ Formed(c) /\ call' = [call EXCEPT ![p] = c]
                /\ c.stage = "write" => c.task = call[p].task /\ c.path = call[p].path
<1>1. CASE call[p].goal = "claim"
  <2> DEFINE c == [NoCall EXCEPT !.stage = "write", !.type = call[p].type,
                     !.task = call[p].task, !.path = call[p].path, !.late = call[p].late]
  <2>1. call' = [call EXCEPT ![p] = c]
    BY <1>1 DEF Granted, Announce
  <2>2. Formed(c)
    BY FormedCall DEF Formed, Call, OnTask, NoCall, Stages, Goals
  <2>3. c.task = call[p].task /\ c.path = call[p].path
    BY DEF NoCall
  <2> HIDE DEF c
  <2>4. QED
    BY <2>1, <2>2, <2>3
<1>2. CASE call[p].goal = "confirm"
  <2> DEFINE c == [call[p] EXCEPT !.stage = "sweep", !.goal = "claim"]
  <2>1. call' = [call EXCEPT ![p] = c]
    BY <1>2 DEF Granted
  <2>2. c \in Call /\ c.stage = "sweep" /\ c.task = call[p].task /\ c.path = call[p].path
    <3>1. "sweep" \in Stages /\ "claim" \in Goals /\ call[p] \in Call
      BY FormedCall DEF Stages, Goals, Claiming
    <3>2. QED
      BY <3>1 DEF Call
  <2> HIDE DEF c
  <2>3. Formed(c)
    BY <2>2, FormedCall DEF Formed, OnTask
  <2>4. QED
    BY <2>1, <2>2, <2>3
<1>3. CASE call[p].goal = "probe"
  <2>1. call' = [call EXCEPT ![p] = NoCall]
    BY <1>3 DEF Granted, Finish
  <2>2. NoCall.stage # "write"
    BY DEF NoCall
  <2>3. QED
    BY <2>1, <2>2, IdleFormed
<1>4. QED
  BY <1>1, <1>2, <1>3 DEF Claiming

LEMMA ClaimKeeps ==
  ASSUME IInv, NEW p \in Processes, Claim(p)
  PROVE  IInv'
<1> DEFINE c == call[p]
           agent == Named(c.agent)
<1>1. c.goal \in Claiming /\ OnTask(c) /\ robbed' = robbed
  BY FormedCall DEF Claim, At, Claiming, Formed, OnTask
<1>2. c \in Call /\ c.task \in Tasks /\ c.path \in Checkouts
  BY <1>1, FormedCall DEF Formed
<1>3. agent \in Actors \cup {User}
  BY <1>2 DEF Call, Named
<1>4. ASSUME NEW l \in On(c.task), SameOwner(l, agent, c.path),
             lease' = [lease EXCEPT ![l].term = IF @ = "over" THEN "extended" ELSE @], Granted(p)
      PROVE  IInv'
  <2> DEFINE r == [lease[l] EXCEPT !.term = IF @ = "over" THEN "extended" ELSE @]
  <2>1. l \in Leases /\ lease[l] \in Lease /\ lease[l].task = c.task /\ lease[l].path = c.path
    BY <1>4, ActiveLeases DEF On, IInv, SameOwner
  <2>2. lease' = [lease EXCEPT ![l] = r]
    BY <1>4
  <2>3. r \in Lease /\ r.task = c.task /\ r.path = c.path
    BY <2>1 DEF Lease
  <2> HIDE DEF r
  <2>4. PICK d : /\ Formed(d) /\ call' = [call EXCEPT ![p] = d]
                 /\ d.stage = "write" => d.task = c.task /\ d.path = c.path
    BY <1>1, <1>4, GrantedCall
  <2>5. lease[l] # None
    BY <2>1, NoneIsNoLease
  <2>6. QED
    BY <1>1, <2>1, <2>2, <2>3, <2>4, <2>5, GrantKeeps
<1>5. ASSUME On(c.task) = {}, NEW l \in NewLeases, Granted(p),
             lease' = [lease EXCEPT ![l] = [task |-> c.task, agent |-> agent, path |-> c.path,
                                            record |-> c.record, term |-> "running"]]
      PROVE  IInv'
  <2> DEFINE r == [task |-> c.task, agent |-> agent, path |-> c.path,
                   record |-> c.record, term |-> "running"]
  <2>1. l \in Leases /\ lease[l] = None
    BY <1>5 DEF NewLeases
  <2>2. r \in Lease /\ r.task = c.task /\ r.path = c.path
    BY <1>2, <1>3 DEF Lease, Call
  <2>3. lease' = [lease EXCEPT ![l] = r]
    BY <1>5
  <2> HIDE DEF r
  <2>4. PICK d : /\ Formed(d) /\ call' = [call EXCEPT ![p] = d]
                 /\ d.stage = "write" => d.task = c.task /\ d.path = c.path
    BY <1>1, <1>5, GrantedCall
  <2>5. \A k \in Active : lease[k].task # r.task
    BY <1>5, <2>2 DEF On
  <2>6. QED
    BY <1>1, <2>1, <2>2, <2>3, <2>4, <2>5, GrantKeeps
<1>6. ASSUME UNCHANGED lease, Goto(p, "undo") \/ Finish(p)
      PROVE  IInv'
  <2>1. CASE Finish(p)
    BY <1>1, <1>6, <2>1, FinishKeeps
  <2>2. CASE Goto(p, "undo")
    <3> DEFINE d == [c EXCEPT !.stage = "undo"]
    <3>1. call' = [call EXCEPT ![p] = d]
      BY <2>2 DEF Goto
    <3>2. Formed(d) /\ d.stage # "write"
      BY <1>2 DEF Formed, Call, OnTask, Stages
    <3> HIDE DEF d
    <3>3. QED
      BY <1>1, <1>6, <3>1, <3>2, StepKeeps
  <2>3. QED
    BY <1>6, <2>1, <2>2
<1>7. QED
  BY <1>4, <1>5, <1>6 DEF Claim

LEMMA AnnounceKeeps ==
  ASSUME IInv, NEW p \in Processes, Announce(p), OnTask(call[p]),
         \/ UNCHANGED <<lease, robbed>>
         \/ \E S \in SUBSET Leases : End(S),
         \/ call[p].type \notin Work
         \/ \E l \in Active' : lease'[l].task = call[p].task /\ lease'[l].path = call[p].path
  PROVE  IInv'
<1> DEFINE c == [NoCall EXCEPT !.stage = "write", !.type = call[p].type,
                   !.task = call[p].task, !.path = call[p].path, !.late = call[p].late]
<1>1. call' = [call EXCEPT ![p] = c]
  BY DEF Announce
<1>2. Formed(c)
  BY FormedCall DEF Formed, Call, OnTask, NoCall, Stages, Goals
<1>3. c.type = call[p].type /\ c.task = call[p].task /\ c.path = call[p].path
  BY DEF NoCall
<1>4. call'[p] = c
  BY <1>1 DEF IInv, Types
<1> HIDE DEF c
<1>5. c.type \notin Work \/ Holds(p)'
  BY <1>3, <1>4 DEF Holds
<1>6. QED
  BY <1>1, <1>2, <1>5, StepKeeps

(* Most steps move a call along without announcing anything. *)
LEMMA MoveKeeps ==
  ASSUME IInv, NEW p \in Processes, NEW c \in Call, call' = [call EXCEPT ![p] = c],
         \/ UNCHANGED <<lease, robbed>>
         \/ \E S \in SUBSET Leases : End(S),
         c.stage # "write", c.task = call[p].task, c.path = call[p].path,
         c.stage = "record" => c.goal = "claim",
         c.stage = "claim" => c.goal \in Claiming,
         OnTask(c) => OnTask(call[p])
  PROVE  IInv'
<1>1. Formed(c)
  BY FormedCall DEF Formed
<1>2. QED
  BY <1>1, StepKeeps

LEMMA ListLeasesKeeps ==
  ASSUME IInv, NEW p \in Processes, ListLeases(p)
  PROVE  IInv'
<1> DEFINE c == call[p]
           next(stage, goal) == [c EXCEPT !.stage = stage, !.goal = goal, !.valid = {}, !.ending = {}]
<1>1. c \in Call /\ OnTask(c) /\ End(c.ending) /\ c.ending \in SUBSET Leases
  BY FormedCall DEF ListLeases, Swept, At, OnTask, Call
<1>2. ASSUME NEW stage \in {"sweep", "own"}, NEW goal \in Goals, goal \in Claiming \/ stage = "own",
             call' = [call EXCEPT ![p] = next(stage, goal)]
      PROVE  IInv'
  <2> DEFINE d == next(stage, goal)
  <2>1. d \in Call /\ d.stage = stage /\ d.goal = goal /\ d.task = c.task /\ d.path = c.path
    BY <1>1 DEF Call, Stages
  <2>2. call' = [call EXCEPT ![p] = d]
    BY <1>2
  <2> HIDE DEF d
  <2>3. QED
    BY <1>1, <2>1, <2>2, MoveKeeps
<1>3. \/ \E goal \in Claiming : call' = [call EXCEPT ![p] = next("sweep", goal)]
      \/ call' = [call EXCEPT ![p] = next("own", "none")]
      \/ Finish(p)
  BY DEF ListLeases, Claiming
<1>4. CASE Finish(p)
  BY <1>1, <1>4, FinishKeeps
<1>5. QED
  BY <1>2, <1>3, <1>4 DEF Goals

LEMMA OwnershipKeeps ==
  ASSUME IInv, NEW p \in Processes, RequireOwner(p) \/ Release(p)
  PROVE  IInv'
<1>1. OnTask(call[p])
  BY DEF RequireOwner, Release, At, OnTask
<1>2. CASE RequireOwner(p)
  <2>1. UNCHANGED <<lease, robbed>>
    BY <1>2 DEF RequireOwner
  <2>2. CASE Finish(p)
    BY <2>1, <2>2, FinishKeeps
  <2>3. CASE Announce(p) /\ \E l \in On(call[p].task) : OwnerMatches(l, call[p].agent, call[p].path)
    <3>1. \E l \in Active : lease[l].task = call[p].task /\ lease[l].path = call[p].path
      BY <2>3 DEF On, OwnerMatches
    <3>2. \E l \in Active' : lease'[l].task = call[p].task /\ lease'[l].path = call[p].path
      BY <2>1, <3>1 DEF Active
    <3>3. QED
      BY <1>1, <2>1, <2>3, <3>2, AnnounceKeeps
  <2>4. QED
    BY <1>2, <2>2, <2>3 DEF RequireOwner
<1>3. CASE Release(p)
  <2>1. call[p].type \notin Work /\ \E S \in SUBSET Leases : End(S)
    BY <1>3 DEF Release, On, Active
  <2>2. Announce(p) \/ Finish(p)
    BY <1>3 DEF Release
  <2>3. QED
    BY <1>1, <2>1, <2>2, AnnounceKeeps, FinishKeeps
<1>4. QED
  BY <1>2, <1>3

LEMMA EndRecordKeeps ==
  ASSUME IInv, NEW p \in Processes, NEW r, EndRecord(p, r)
  PROVE  IInv'
<1> DEFINE c == [call[p] EXCEPT !.stage = "mark", !.goal = "missing", !.ending = HeldThrough(r),
                                !.missing = @ \ {r}]
<1>1. call' = [call EXCEPT ![p] = c] /\ UNCHANGED <<lease, robbed>>
  BY DEF EndRecord
<1>2. HeldThrough(r) \in SUBSET Leases
  BY DEF HeldThrough, Active
<1>3. c \in Call /\ c.stage = "mark" /\ c.goal = "missing" /\ c.task = call[p].task /\ c.path = call[p].path
  <2>1. "mark" \in Stages /\ "missing" \in Goals /\ call[p] \in Call
    BY FormedCall DEF Stages, Goals
  <2>2. call[p].missing \ {r} \in SUBSET Records
    BY <2>1 DEF Call
  <2>3. QED
    BY <1>2, <2>1, <2>2 DEF Call
<1> HIDE DEF c
<1>4. ~OnTask(c)
  BY <1>3 DEF OnTask, Claiming
<1>5. QED
  BY <1>1, <1>3, <1>4, MoveKeeps

LEMMA ReceiveKeeps ==
  ASSUME IInv, NEW p \in Checkouts, NEW type \in EventTypes, NEW t \in Tasks,
         NEW actor \in Actors \cup {None}, Receive(p, type, t, actor)
  PROVE  IInv'
<1> DEFINE valid == {leased \in SUBSET Tasks : Admissible(type, t, History, leased)}
           c == [NoCall EXCEPT !.stage = "sweep", !.goal = "list", !.type = type, !.task = t,
                               !.agent = actor, !.path = p, !.valid = valid]
<1>1. call' = [call EXCEPT ![p] = c] /\ UNCHANGED <<lease, robbed>> /\ p \in Processes
  BY DEF Receive, Processes
<1>2. valid \in SUBSET SUBSET Tasks
  OBVIOUS
<1> HIDE DEF valid
<1>3. Formed(c) /\ c.stage # "write"
  BY <1>2 DEF Formed, NoCall, Call, OnTask, Stages, Goals, Claiming
<1> HIDE DEF c
<1>4. QED
  BY <1>1, <1>3, StepKeeps

(* The steps that only move a call along. *)
LEMMA MovesKeep ==
  ASSUME IInv, NEW p \in Processes,
         \/ SelectRunOut(p) \/ EndBeforeClaim(p) \/ RecordWorktree(p) \/ EndSelected(p)
         \/ Reap(p) \/ FindMissing(p) \/ \E r \in Records : RemoveWorktree(p, r)
  PROVE  IInv'
<1>1. call[p] \in Call /\ Formed(call[p])
  BY FormedCall
<1>2. CASE SelectRunOut(p)
  <2> DEFINE c == [call[p] EXCEPT !.stage = "mark", !.ending = RunOut]
  <2>1. call' = [call EXCEPT ![p] = c] /\ UNCHANGED <<lease, robbed>> /\ call[p].stage = "sweep"
    BY <1>2 DEF SelectRunOut, At
  <2>2. RunOut \in SUBSET Leases
    BY DEF RunOut, Active
  <2>3. c \in Call /\ c.stage = "mark" /\ c.goal = call[p].goal /\ c.task = call[p].task /\ c.path = call[p].path
    BY <1>1, <2>2 DEF Call, Stages
  <2> HIDE DEF c
  <2>4. OnTask(c) => OnTask(call[p])
    BY <2>1, <2>3 DEF OnTask
  <2>5. QED
    BY <2>1, <2>3, <2>4, MoveKeeps
<1>3. CASE EndBeforeClaim(p)
  <2> DEFINE c == [call[p] EXCEPT !.stage = "claim", !.ending = {}]
  <2>1. call' = [call EXCEPT ![p] = c] /\ End(call[p].ending) /\ call[p].ending \in SUBSET Leases
    BY <1>1, <1>3 DEF EndBeforeClaim, Call
  <2>2. c \in Call /\ c.stage = "claim" /\ c.goal = call[p].goal /\ c.task = call[p].task /\ c.path = call[p].path
    BY <1>1 DEF Call, Stages
  <2> HIDE DEF c
  <2>3. c.goal \in Claiming /\ OnTask(call[p])
    BY <1>3, <2>2 DEF EndBeforeClaim, At, Claiming, OnTask
  <2>4. QED
    BY <2>1, <2>2, <2>3, MoveKeeps
<1>4. CASE RecordWorktree(p)
  <2>1. PICK r \in Records : call' = [call EXCEPT ![p].stage = "sweep", ![p].record = r]
    BY <1>4 DEF RecordWorktree
  <2> DEFINE c == [call[p] EXCEPT !.stage = "sweep", !.record = r]
  <2>2. call' = [call EXCEPT ![p] = c] /\ UNCHANGED <<lease, robbed>> /\ OnTask(call[p])
    BY <1>4, <2>1 DEF RecordWorktree, At, OnTask
  <2>3. c \in Call /\ c.stage = "sweep" /\ c.task = call[p].task /\ c.path = call[p].path
    BY <1>1 DEF Call, Stages
  <2> HIDE DEF c
  <2>4. QED
    BY <2>2, <2>3, MoveKeeps
<1>5. CASE EndSelected(p)
  <2> DEFINE c == [call[p] EXCEPT !.stage = call[p].goal, !.ending = {}]
  <2>1. call' = [call EXCEPT ![p] = c] /\ End(call[p].ending) /\ call[p].ending \in SUBSET Leases
    BY <1>1, <1>5 DEF EndSelected, Call
  <2>2. call[p].goal \in {"look", "missing"}
    BY <1>5 DEF EndSelected
  <2>3. c \in Call /\ c.stage = call[p].goal /\ c.task = call[p].task /\ c.path = call[p].path
    BY <1>1, <2>2 DEF Call, Stages
  <2> HIDE DEF c
  <2>4. c.stage \in {"look", "missing"} /\ ~OnTask(c)
    BY <2>2, <2>3 DEF OnTask
  <2>5. QED
    BY <2>1, <2>3, <2>4, MoveKeeps
<1>6. ASSUME NEW c \in Call, call' = [call EXCEPT ![p] = c], UNCHANGED <<lease, robbed>>,
             c.task = call[p].task, c.path = call[p].path,
             c.stage \in {"missing", "unlist"} \/ (c.stage = "sweep" /\ c.goal = "look")
      PROVE  IInv'
  <2>1. ~OnTask(c)
    BY <1>6 DEF OnTask, Claiming
  <2>2. QED
    BY <1>6, <2>1, MoveKeeps
<1>7. CASE Reap(p)
  <2> DEFINE c == [call[p] EXCEPT !.stage = "sweep", !.goal = "look"]
  <2>1. call' = [call EXCEPT ![p] = c] /\ UNCHANGED <<lease, robbed>>
    BY <1>7 DEF Reap
  <2>2. c \in Call /\ c.stage = "sweep" /\ c.goal = "look" /\ c.task = call[p].task /\ c.path = call[p].path
    BY <1>1 DEF Call, Stages, Goals
  <2> HIDE DEF c
  <2>3. QED
    BY <1>6, <2>1, <2>2
<1>8. CASE FindMissing(p)
  <2> DEFINE gone == {r \in Records : /\ worktree[r] # None /\ worktree[r].status = "active"
                                      /\ worktree[r].path \notin present}
             c == [call[p] EXCEPT !.stage = "missing", !.missing = gone]
  <2>1. call' = [call EXCEPT ![p] = c] /\ UNCHANGED <<lease, robbed>>
    BY <1>8 DEF FindMissing
  <2>2. gone \in SUBSET Records
    OBVIOUS
  <2> HIDE DEF gone
  <2>3. c \in Call /\ c.stage = "missing" /\ c.task = call[p].task /\ c.path = call[p].path
    BY <1>1, <2>2 DEF Call, Stages
  <2> HIDE DEF c
  <2>4. QED
    BY <1>6, <2>1, <2>3
<1>9. ASSUME NEW r \in Records, RemoveWorktree(p, r)
      PROVE  IInv'
  <2> DEFINE c == [call[p] EXCEPT !.stage = "unlist", !.record = r]
  <2>1. call' = [call EXCEPT ![p] = c] /\ UNCHANGED <<lease, robbed>>
    <3>1. UNCHANGED <<lease, robbed>> /\ call' = [call EXCEPT ![p].stage = "unlist", ![p].record = r]
      BY <1>9, Zenon DEF RemoveWorktree
    <3>2. QED
      BY <3>1
  <2>2. c \in Call /\ c.stage = "unlist" /\ c.task = call[p].task /\ c.path = call[p].path
    BY <1>1 DEF Call, Stages
  <2> HIDE DEF c
  <2>3. QED
    BY <1>6, <2>1, <2>2
<1>10. QED
  BY <1>2, <1>3, <1>4, <1>5, <1>7, <1>8, <1>9

LEMMA CreateKeeps ==
  ASSUME IInv, NEW p \in Processes, NEW path \in Checkouts, NEW t \in Tasks,
         NEW actor \in Actors \cup {None}, CreateWorktree(p, path, t, actor)
  PROVE  IInv'
<1> DEFINE c == [NoCall EXCEPT !.stage = "record", !.goal = "claim", !.type = "claimed", !.task = t,
                               !.agent = Named(actor), !.path = path]
<1>1. call' = [call EXCEPT ![p] = c] /\ UNCHANGED <<lease, robbed>>
  BY DEF CreateWorktree
<1>2. Named(actor) \in Actors \cup {User}
  BY DEF Named
<1>3. Formed(c) /\ c.stage # "write"
  BY <1>2 DEF Formed, NoCall, Call, OnTask, Stages, Goals, Claiming, EventTypes, Work
<1> HIDE DEF c
<1>4. QED
  BY <1>1, <1>3, StepKeeps

(* Events of others make a call late, and nothing else. *)
LEMMA OvertakenFormed ==
  ASSUME NEW t, NEW older, NEW calls \in [Processes -> Call], \A q \in Processes : Formed(calls[q])
  PROVE  /\ Overtake(t, older, calls) \in [Processes -> Call]
         /\ \A q \in Processes :
              /\ Formed(Overtake(t, older, calls)[q])
              /\ Overtake(t, older, calls)[q].stage = calls[q].stage
              /\ Overtake(t, older, calls)[q].type = calls[q].type
              /\ Overtake(t, older, calls)[q].task = calls[q].task
              /\ Overtake(t, older, calls)[q].path = calls[q].path
<1>1. ASSUME NEW q \in Processes, NEW c, c = [calls[q] EXCEPT !.late = TRUE]
      PROVE  /\ c \in Call /\ Formed(c) /\ c.stage = calls[q].stage /\ c.type = calls[q].type
             /\ c.task = calls[q].task /\ c.path = calls[q].path
  <2>1. calls[q] \in Call
    OBVIOUS
  <2>2. /\ c \in Call /\ c.stage = calls[q].stage /\ c.type = calls[q].type /\ c.goal = calls[q].goal
        /\ c.task = calls[q].task /\ c.path = calls[q].path
    BY <1>1, <2>1 DEF Call
  <2>3. Formed(c)
    BY <2>2 DEF Formed, OnTask
  <2>4. QED
    BY <2>2, <2>3
<1>2. QED
  BY <1>1 DEF Overtake

LEMMA EventKeeps ==
  ASSUME IInv, NEW p \in Processes, WriteEvent(p) \/ Dies(p)
  PROVE  IInv'
<1> DEFINE calls == [call EXCEPT ![p] = NoCall]
<1>1. calls \in [Processes -> Call] /\ \A q \in Processes : Formed(calls[q])
  BY IdleFormed DEF IInv, Types, Formed
<1>2. UNCHANGED lease /\ robbed' = robbed \ {p}
  BY DEF WriteEvent, Dies
<1>3. \/ call' = calls
      \/ \E older : call' = Overtake(call[p].task, older, calls)
  BY DEF WriteEvent, Dies, Finish
<1>4. /\ call' \in [Processes -> Call]
      /\ \A q \in Processes :
           /\ Formed(call'[q])
           /\ call'[q].stage = calls[q].stage /\ call'[q].type = calls[q].type
           /\ call'[q].task = calls[q].task /\ call'[q].path = calls[q].path
  <2> HIDE DEF calls
  <2>1. QED
    BY <1>1, <1>3, OvertakenFormed
<1>5. calls[p].stage = "idle" /\ \A q \in Processes \ {p} : calls[q] = call[q]
  BY DEF IInv, Types, NoCall
<1>6. Types'
  BY <1>2, <1>4 DEF IInv, Types, Formed, Call, OnTask
<1>7. \A q \in Processes :
        /\ q \in {p} => call'[q].stage = "idle"
        /\ q \notin {p} => /\ call'[q].stage = call[q].stage /\ call'[q].type = call[q].type
                           /\ call'[q].task = call[q].task /\ call'[q].path = call[q].path
  <2> HIDE DEF calls
  <2>1. QED
    BY <1>4, <1>5
<1>8. {p} \in SUBSET Processes /\ robbed \ {p} \subseteq robbed' /\ robbed' \subseteq robbed
  BY <1>2
<1> DEFINE ended == {p}
<1> HIDE DEF calls, ended
<1>9. QED
  <2>1. /\ ended \in SUBSET Processes /\ robbed \ ended \subseteq robbed' /\ robbed' \subseteq robbed
        /\ \A q \in Processes :
             /\ q \in ended => call'[q].stage = "idle"
             /\ q \notin ended => /\ call'[q].stage = call[q].stage /\ call'[q].type = call[q].type
                                  /\ call'[q].task = call[q].task /\ call'[q].path = call[q].path
    BY <1>7, <1>8 DEF ended
  <2>2. QED
    BY <1>2, <1>6, <2>1, LatenessKeeps

LEMMA CheckKeeps ==
  ASSUME IInv, NEW t \in Tasks, NEW c \in Checks, NEW type, NEW outcome, CheckEvent(t, c, type, outcome)
  PROVE  IInv'
<1>1. call' = Overtake(t, Range(pending), call) /\ UNCHANGED <<lease, robbed>>
  BY DEF CheckEvent
<1>2. /\ call' \in [Processes -> Call]
      /\ \A q \in Processes :
           /\ Formed(call'[q])
           /\ call'[q].stage = call[q].stage /\ call'[q].type = call[q].type
           /\ call'[q].task = call[q].task /\ call'[q].path = call[q].path
  BY <1>1, OvertakenFormed DEF IInv, Types
<1>3. Types'
  BY <1>1, <1>2 DEF IInv, Types, Formed, Call, OnTask
<1> DEFINE ended == {}
<1>4. /\ ended \in SUBSET Processes /\ robbed \ ended \subseteq robbed' /\ robbed' \subseteq robbed
      /\ \A q \in Processes : q \notin ended
  BY <1>1
<1> HIDE DEF ended
<1>5. QED
  BY <1>1, <1>2, <1>3, <1>4, LatenessKeeps

LEMMA TimeKeeps ==
  ASSUME IInv, NEW l \in Leases, LeaseRunsOut(l)
  PROVE  IInv'
<1>1. l \in Active /\ lease' = [lease EXCEPT ![l].term = "over"] /\ UNCHANGED <<call, robbed>>
  BY DEF LeaseRunsOut
<1>2. lease[l] \in Lease /\ [lease[l] EXCEPT !.term = "over"] \in Lease
  BY <1>1, ActiveLeases DEF IInv, Lease
<1>3. Types'
  BY <1>1, <1>2 DEF IInv, Types, Formed
<1>4. \A k \in Leases : /\ k \in Active' <=> k \in Active
                        /\ k \in Active => lease'[k].task = lease[k].task /\ lease'[k].path = lease[k].path
  BY <1>1, <1>2, NoneIsNoLease DEF Active, IInv, Types, Lease
<1>5. Active' = Active
  BY <1>4 DEF Active
<1>6. OneLease'
  BY <1>4, <1>5 DEF IInv, OneLease, Active
<1>7. \A q \in Processes \ robbed' : Announces(q)' => Holds(q)'
  BY <1>1, <1>4, <1>5 DEF IInv, Announces, At, Holds, Active
<1>8. QED
  BY <1>3, <1>6, <1>7 DEF IInv

(* ---- The theorem ---- *)

LEMMA Initially == Init => IInv
<1> SUFFICES ASSUME Init PROVE IInv
  OBVIOUS
<1>1. Active = {}
  BY DEF Init, Active
<1>2. \A p \in Processes : call[p] = NoCall /\ NoCall \in Call /\ Formed(NoCall)
  BY IdleFormed DEF Init, Formed
<1>3. Types
  BY <1>2 DEF Init, Types
<1>4. \A p \in Processes : ~Announces(p)
  BY <1>2 DEF Announces, At, NoCall
<1>5. QED
  BY <1>1, <1>3, <1>4 DEF IInv, OneLease

LEMMA HandlerKeeps ==
  ASSUME IInv, NEW p \in Processes, Handle(p)
  PROVE  IInv'
<1>1. CASE ListLeases(p)
  BY <1>1, ListLeasesKeeps
<1>2. CASE Claim(p)
  BY <1>2, ClaimKeeps
<1>3. CASE RequireOwner(p) \/ Release(p)
  BY <1>3, OwnershipKeeps
<1>4. CASE WriteEvent(p)
  BY <1>4, EventKeeps
<1>5. CASE SelectRunOut(p) \/ EndBeforeClaim(p) \/ RecordWorktree(p) \/ EndSelected(p)
  BY <1>5, MovesKeep
<1>6. CASE UndoCreate(p)
  BY <1>6, FinishKeeps DEF UndoCreate
<1>7. CASE UnlistWorktree(p) \/ MarkMissing(p)
  <2>1. CASE Finish(p) /\ UNCHANGED <<lease, robbed>>
    BY <2>1, FinishKeeps
  <2>2. CASE \E r : EndRecord(p, r)
    BY <2>2, EndRecordKeeps
  <2>3. QED
    BY <1>7, <2>1, <2>2 DEF UnlistWorktree, MarkMissing
<1>8. QED
  BY <1>1, <1>2, <1>3, <1>4, <1>5, <1>6, <1>7 DEF Handle

LEMMA Inductive == IInv /\ [Next]_vars => IInv'
<1> SUFFICES ASSUME IInv, [Next]_vars PROVE IInv'
  OBVIOUS
<1>1. ASSUME NEW p \in Processes, Handle(p) \/ Dies(p)
      PROVE  IInv'
  BY <1>1, HandlerKeeps, EventKeeps
<1>2. CASE \E p \in Checkouts, type \in EventTypes, t \in Tasks, actor \in Actors \cup {None} :
             Receive(p, type, t, actor)
  BY <1>2, ReceiveKeeps
<1>3. ASSUME NEW p \in Clients,
             \/ \E path \in Checkouts, t \in Tasks, actor \in Actors \cup {None} :
                  CreateWorktree(p, path, t, actor)
             \/ \E r \in Records : RemoveWorktree(p, r)
             \/ Reap(p) \/ FindMissing(p)
      PROVE  IInv'
  <2>1. p \in Processes
    BY DEF Processes
  <2>2. QED
    BY <1>3, <2>1, CreateKeeps, MovesKeep
<1>4. CASE \E t \in Tasks, c \in Checks : CheckStarts(t, c) \/ CheckEnds(t, c)
  <2>1. PICK t \in Tasks, c \in Checks : \E type, outcome : CheckEvent(t, c, type, outcome)
    BY <1>4 DEF CheckStarts, CheckEnds
  <2>2. QED
    BY <2>1, CheckKeeps
<1>5. CASE \E l \in Leases : LeaseRunsOut(l)
  BY <1>5, TimeKeeps
<1>6. CASE UNCHANGED <<lease, call, robbed>>
  BY <1>6 DEF IInv, Types, Formed, OneLease, Active, Announces, At, Holds
<1>7. CASE UNCHANGED vars \/ \E path \in Checkouts : DirectoryVanishes(path)
  BY <1>6, <1>7 DEF vars, DirectoryVanishes
<1>8. QED
  BY <1>1, <1>2, <1>3, <1>4, <1>5, <1>7 DEF Next

(* A task has one holder, and who is about to announce work on it holds it
   unless his lease was ended by another: claimTaskLease claims in a transaction,
   and requireTaskLeaseOwner looks before the event is written.                *)
THEOREM TaskHasOneHolder == Spec => []WorkIsExclusive
<1>1. IInv => WorkIsExclusive
  BY DEF IInv, OneLease, Announces, Holds, WorkIsExclusive, On
<1>2. QED
  BY <1>1, Initially, Inductive, PTL DEF Spec

(* ---- Why leases end ---- *)

Row == [path : Checkouts, status : {"active", "gone"}]
Doomed(l) ==
  \/ lease[l].term # "running"
  \/ lease[l].record # None /\ worktree[lease[l].record].status # "active"

(* Where the request is about the checkout whose runtime serves it. *)
Local(c) == c.stage = "own" \/ (c.stage \in {"sweep", "mark"} /\ c.goal = "list")

(* What a statement has selected to end had a reason to end, and still has it,
   or has ended; a record that is named is a row.                              *)
Reasons ==
  /\ worktree \in [Records -> Row \cup {None}]
  /\ \A l \in Active : lease[l].record \in Records => worktree[lease[l].record] # None
  /\ \A p \in Processes :
       /\ call[p].stage # "mark" => call[p].ending = {}
       /\ \A l \in call[p].ending : l \in Active => Doomed(l)
       /\ \A r \in Records : r = call[p].record \/ r \in call[p].missing => worktree[r] # None
       /\ Local(call[p]) => call[p].path = p
       /\ call[p].stage = "unlist" => call[p].record \in Records

WorktreesStay ==
  /\ worktree' \in [Records -> Row \cup {None}]
  /\ \A r \in Records : worktree[r] # None =>
       /\ worktree'[r] # None
       /\ worktree[r].status # "active" => worktree'[r].status # "active"

ReasonsStay ==
  \A l \in Active' :
    \/ /\ l \in Active /\ lease'[l].record = lease[l].record
       /\ lease[l].term # "running" => lease'[l].term # "running"
    \/ /\ l \in NewLeases
       /\ lease'[l].record \in Records => worktree'[lease'[l].record] # None

SameCall(p) ==
  /\ call'[p].stage = call[p].stage /\ call'[p].goal = call[p].goal /\ call'[p].path = call[p].path
  /\ call'[p].ending = call[p].ending /\ call'[p].missing = call[p].missing
  /\ call'[p].record = call[p].record

NextCall(p, c) ==
  /\ c.stage # "mark" => c.ending = {}
  /\ \A l \in c.ending : l \in Active' => Doomed(l)'
  /\ \A r \in Records : r = c.record \/ r \in c.missing => worktree'[r] # None
  /\ Local(c) => c.path = p
  /\ c.stage = "unlist" => c.record \in Records

LEMMA NoneIsNoRecord == None \notin Records /\ None \notin Row
BY NoneIsNoRow DEF Row

LEMMA ReasonsKeep ==
  ASSUME IInv, IInv', Reasons, WorktreesStay, ReasonsStay,
         \A q \in Processes : SameCall(q) \/ NextCall(q, call'[q])
  PROVE  Reasons'
<1>1. \A l \in Active' : lease'[l].record \in Records => worktree'[lease'[l].record] # None
  BY DEF Reasons, ReasonsStay, WorktreesStay
<1>2. ASSUME NEW q \in Processes, SameCall(q)
      PROVE  NextCall(q, call'[q])
  <2>1. ASSUME NEW l \in call[q].ending, l \in Active'
        PROVE  Doomed(l)'
    <3>1. l \notin NewLeases
      BY <2>1 DEF NewLeases
    <3>2. /\ l \in Active /\ lease'[l].record = lease[l].record
          /\ lease[l].term # "running" => lease'[l].term # "running"
      BY <2>1, <3>1 DEF ReasonsStay
    <3>3. Doomed(l)
      BY <3>2 DEF Reasons
    <3>4. CASE lease[l].term # "running"
      BY <3>2, <3>4 DEF Doomed
    <3>5. CASE lease[l].record # None /\ worktree[lease[l].record].status # "active"
      <4>1. lease[l].record \in Records
        BY <3>2, <3>5, ActiveLeases DEF IInv, Lease
      <4>2. worktree[lease[l].record] # None
        BY <3>2, <4>1 DEF Reasons
      <4>3. QED
        BY <3>2, <3>5, <4>1, <4>2 DEF Doomed, WorktreesStay
    <3>6. QED
      BY <3>3, <3>4, <3>5 DEF Doomed
  <2>2. QED
    BY <1>2, <2>1 DEF SameCall, NextCall, Reasons, WorktreesStay, Local
<1>3. \A q \in Processes : NextCall(q, call'[q])
  BY <1>2
<1>4. QED
  BY <1>1, <1>3 DEF Reasons, NextCall, WorktreesStay, Local

LEMMA WorktreesUnchanged ==
  ASSUME Reasons, UNCHANGED worktree
  PROVE  WorktreesStay
BY DEF Reasons, WorktreesStay

LEMMA EndedReasonsStay ==
  ASSUME IInv, UNCHANGED lease \/ \E S \in SUBSET Leases : End(S)
  PROVE  ReasonsStay
<1>1. \A l \in Active' : l \in Active /\ lease'[l] = lease[l]
  BY DEF End, Active
<1>2. QED
  BY <1>1 DEF ReasonsStay

(* A step of p that ends leases or leaves them, and goes on with the call c. *)
LEMMA ReasonStep ==
  ASSUME IInv, IInv', Reasons, NEW p \in Processes, NEW c, call' = [call EXCEPT ![p] = c],
         WorktreesStay, ReasonsStay, NextCall(p, c)
  PROVE  Reasons'
<1>1. call'[p] = c /\ \A q \in Processes \ {p} : call'[q] = call[q]
  BY DEF IInv, Types
<1>2. \A q \in Processes : SameCall(q) \/ NextCall(q, call'[q])
  BY <1>1 DEF SameCall
<1>3. QED
  BY <1>2, ReasonsKeep

(* A call that starts anew has selected nothing. *)
LEMMA FreshCall ==
  ASSUME NEW p, NEW c, c.ending = {}, c.missing = {}, c.record = None, ~Local(c),
         c.stage # "unlist"
  PROVE  NextCall(p, c)
BY NoneIsNoRecord DEF NextCall

LEMMA FinishReasons ==
  ASSUME IInv, IInv', Reasons, NEW p \in Processes, Finish(p), WorktreesStay, ReasonsStay
  PROVE  Reasons'
<1>1. call' = [call EXCEPT ![p] = NoCall]
  BY DEF Finish
<1>2. NextCall(p, NoCall)
  BY FreshCall DEF NoCall, Local
<1>3. QED
  BY <1>1, <1>2, ReasonStep

LEMMA AnnounceReasons ==
  ASSUME IInv, IInv', Reasons, NEW p \in Processes, Announce(p), WorktreesStay, ReasonsStay
  PROVE  Reasons'
<1> DEFINE c == [NoCall EXCEPT !.stage = "write", !.type = call[p].type,
                   !.task = call[p].task, !.path = call[p].path, !.late = call[p].late]
<1>1. call' = [call EXCEPT ![p] = c]
  BY DEF Announce
<1>2. c.stage = "write" /\ c.ending = {} /\ c.missing = {} /\ c.record = None
  BY DEF NoCall
<1> HIDE DEF c
<1>3. NextCall(p, c)
  BY <1>2, FreshCall DEF Local
<1>4. QED
  BY <1>1, <1>3, ReasonStep

(* A call that moves along, and no longer ends anything. *)
LEMMA MoveReasons ==
  ASSUME IInv, IInv', Reasons, NEW p \in Processes, NEW c, call' = [call EXCEPT ![p] = c],
         WorktreesStay, ReasonsStay,
         c.ending = {}, c.missing = call[p].missing, c.record = call[p].record,
         Local(c) => c.path = p, c.stage # "unlist"
  PROVE  Reasons'
<1>1. NextCall(p, c)
  BY DEF NextCall, Reasons, WorktreesStay
<1>2. QED
  BY <1>1, ReasonStep

LEMMA ClaimReasons ==
  ASSUME IInv, IInv', Reasons, NEW p \in Processes, Claim(p)
  PROVE  Reasons'
<1> DEFINE c == call[p]
           agent == Named(c.agent)
<1>1. WorktreesStay
  BY WorktreesUnchanged DEF Claim
<1>2. c \in Call /\ c.goal # "list" /\ c.ending = {}
  BY FormedCall DEF Claim, At, Formed, Claiming, Reasons
<1>3. ReasonsStay
  <2>1. CASE UNCHANGED lease
    BY <2>1, EndedReasonsStay
  <2>2. ASSUME NEW l \in On(c.task), lease' = [lease EXCEPT ![l].term = IF @ = "over" THEN "extended" ELSE @]
        PROVE  ReasonsStay
    <3>1. l \in Leases /\ l \in Active /\ lease[l] \in Lease
      BY ActiveLeases DEF On, IInv, Active
    <3>2. \A k \in Leases \ {l} : lease'[k] = lease[k]
      BY <2>2 DEF IInv, Types
    <3>3. lease'[l].record = lease[l].record /\ (lease[l].term # "running" => lease'[l].term # "running")
      BY <2>2, <3>1 DEF IInv, Types, Lease
    <3>4. QED
      BY <3>1, <3>2, <3>3 DEF ReasonsStay, Active
  <2>3. ASSUME NEW l \in NewLeases,
               lease' = [lease EXCEPT ![l] = [task |-> c.task, agent |-> agent, path |-> c.path,
                                              record |-> c.record, term |-> "running"]]
        PROVE  ReasonsStay
    <3>1. l \in Leases
      BY DEF NewLeases
    <3>2. lease'[l].record = c.record /\ \A k \in Leases \ {l} : lease'[k] = lease[k]
      BY <2>3, <3>1 DEF IInv, Types
    <3>3. c.record \in Records => worktree'[c.record] # None
      BY <1>1 DEF Reasons, WorktreesStay
    <3>4. QED
      BY <3>2, <3>3 DEF ReasonsStay, Active
  <2>4. QED
    BY <2>1, <2>2, <2>3 DEF Claim
<1>4. CASE Finish(p)
  BY <1>1, <1>3, <1>4, FinishReasons
<1>5. CASE Announce(p)
  BY <1>1, <1>3, <1>5, AnnounceReasons
<1>6. CASE call' = [call EXCEPT ![p].stage = "sweep", ![p].goal = "claim"]
  <2> DEFINE d == [c EXCEPT !.stage = "sweep", !.goal = "claim"]
  <2>1. call' = [call EXCEPT ![p] = d]
    BY <1>6
  <2>2. d.stage = "sweep" /\ d.goal = "claim" /\ d.ending = {} /\ d.missing = c.missing /\ d.record = c.record
    BY <1>2 DEF Call
  <2> HIDE DEF d
  <2>3. QED
    BY <1>1, <1>3, <2>1, <2>2, MoveReasons DEF Local
<1>7. CASE Goto(p, "undo")
  <2> DEFINE d == [c EXCEPT !.stage = "undo"]
  <2>1. call' = [call EXCEPT ![p] = d]
    BY <1>7 DEF Goto
  <2>2. d.stage = "undo" /\ d.ending = {} /\ d.missing = c.missing /\ d.record = c.record
    BY <1>2 DEF Call
  <2> HIDE DEF d
  <2>3. QED
    BY <1>1, <1>3, <2>1, <2>2, MoveReasons DEF Local
<1>8. Granted(p) \/ Goto(p, "undo") \/ Finish(p)
  BY DEF Claim
<1>9. c.goal \in Claiming
  BY FormedCall DEF Claim, At, Claiming, Formed
<1>10. QED
  BY <1>4, <1>5, <1>6, <1>7, <1>8, <1>9 DEF Granted, Claiming

LEMMA ListReasons ==
  ASSUME IInv, IInv', Reasons, NEW p \in Processes, ListLeases(p)
  PROVE  Reasons'
<1> DEFINE c == call[p]
           next(stage, goal) == [c EXCEPT !.stage = stage, !.goal = goal, !.valid = {}, !.ending = {}]
<1>1. c \in Call /\ Local(c) /\ End(c.ending) /\ c.ending \in SUBSET Leases
  BY FormedCall DEF ListLeases, Swept, At, Local, Call
<1>2. WorktreesStay /\ ReasonsStay /\ c.path = p
  BY <1>1, WorktreesUnchanged, EndedReasonsStay DEF ListLeases, Reasons
<1>3. ASSUME NEW stage \in {"sweep", "own"}, NEW goal \in Goals,
             call' = [call EXCEPT ![p] = next(stage, goal)]
      PROVE  Reasons'
  <2> DEFINE d == next(stage, goal)
  <2>1. /\ d.ending = {} /\ d.missing = c.missing /\ d.record = c.record /\ d.path = c.path
        /\ d.stage = stage
    BY <1>1 DEF Call
  <2>2. call' = [call EXCEPT ![p] = d]
    BY <1>3
  <2> HIDE DEF d
  <2>3. QED
    BY <1>2, <2>1, <2>2, MoveReasons
<1>4. \/ \E stage \in {"sweep", "own"}, goal \in Goals : call' = [call EXCEPT ![p] = next(stage, goal)]
      \/ Finish(p)
  BY DEF ListLeases, Goals, Claiming
<1>5. QED
  BY <1>2, <1>3, <1>4, FinishReasons

LEMMA OwnershipReasons ==
  ASSUME IInv, IInv', Reasons, NEW p \in Processes, RequireOwner(p) \/ Release(p)
  PROVE  Reasons'
<1>1. WorktreesStay
  BY WorktreesUnchanged DEF RequireOwner, Release
<1>2. ReasonsStay
  <2>1. UNCHANGED lease \/ \E S \in SUBSET Leases : End(S)
    BY DEF RequireOwner, Release, On, Active
  <2>2. QED
    BY <2>1, EndedReasonsStay
<1>3. Announce(p) \/ Finish(p)
  BY DEF RequireOwner, Release
<1>4. QED
  BY <1>1, <1>2, <1>3, AnnounceReasons, FinishReasons

LEMMA EndRecordReasons ==
  ASSUME IInv, IInv', Reasons, NEW p \in Processes, NEW r \in Records, worktree[r] # None, EndRecord(p, r)
  PROVE  Reasons'
<1> DEFINE c == [call[p] EXCEPT !.stage = "mark", !.goal = "missing", !.ending = HeldThrough(r),
                                !.missing = @ \ {r}]
<1>1. call' = [call EXCEPT ![p] = c] /\ UNCHANGED lease
      /\ worktree' = [worktree EXCEPT ![r].status = "gone"]
  BY DEF EndRecord
<1>2. /\ worktree[r] \in Row /\ worktree'[r] \in Row /\ worktree'[r].status = "gone"
      /\ \A q \in Records \ {r} : worktree'[q] = worktree[q]
  BY <1>1 DEF Reasons, Row
<1>3. WorktreesStay
  <2>1. worktree' \in [Records -> Row \cup {None}]
    BY <1>1, <1>2 DEF Reasons
  <2>2. QED
    BY <1>2, <2>1, NoneIsNoRecord DEF WorktreesStay
<1>4. call[p] \in Call /\ c.stage = "mark" /\ c.goal = "missing" /\ c.record = call[p].record
      /\ c.missing \subseteq call[p].missing /\ c.ending = HeldThrough(r)
  BY FormedCall DEF Call
<1> HIDE DEF c
<1>5. \A l \in c.ending : l \in Active' => Doomed(l)'
  <2>1. SUFFICES ASSUME NEW l \in c.ending PROVE Doomed(l)'
    OBVIOUS
  <2>2. l \in Active /\ lease[l].record = r
    BY <1>4, <2>1 DEF HeldThrough
  <2>3. QED
    BY <1>1, <1>2, <2>2, NoneIsNoRecord DEF Doomed
<1>6. NextCall(p, c)
  BY <1>3, <1>4, <1>5 DEF NextCall, Local, Reasons, WorktreesStay
<1>7. ReasonsStay
  BY <1>1, EndedReasonsStay
<1>8. QED
  BY <1>1, <1>3, <1>6, <1>7, ReasonStep

LEMMA SweepReasons ==
  ASSUME IInv, IInv', Reasons, NEW p \in Processes,
         SelectRunOut(p) \/ EndBeforeClaim(p) \/ EndSelected(p)
  PROVE  Reasons'
<1>1. call[p] \in Call /\ WorktreesStay
  BY FormedCall, WorktreesUnchanged DEF SelectRunOut, EndBeforeClaim, EndSelected
<1>2. CASE SelectRunOut(p)
  <2> DEFINE c == [call[p] EXCEPT !.stage = "mark", !.ending = RunOut]
  <2>1. call' = [call EXCEPT ![p] = c] /\ UNCHANGED <<lease, worktree>> /\ call[p].stage = "sweep"
    BY <1>2 DEF SelectRunOut, At
  <2>2. /\ c.stage = "mark" /\ c.goal = call[p].goal /\ c.path = call[p].path /\ c.ending = RunOut
        /\ c.record = call[p].record /\ c.missing = call[p].missing
    BY <1>1 DEF Call
  <2> HIDE DEF c
  <2>3. \A l \in c.ending : l \in Active' => Doomed(l)'
    BY <2>1, <2>2 DEF RunOut, Doomed
  <2>4. NextCall(p, c)
    BY <1>1, <2>1, <2>2, <2>3 DEF NextCall, Local, Reasons, WorktreesStay
  <2>5. QED
    BY <1>1, <2>1, <2>4, EndedReasonsStay, ReasonStep
<1>3. CASE EndBeforeClaim(p)
  <2> DEFINE c == [call[p] EXCEPT !.stage = "claim", !.ending = {}]
  <2>1. call' = [call EXCEPT ![p] = c] /\ End(call[p].ending) /\ call[p].ending \in SUBSET Leases
    BY <1>1, <1>3 DEF EndBeforeClaim, Call
  <2>2. c.stage = "claim" /\ c.ending = {} /\ c.record = call[p].record /\ c.missing = call[p].missing
    BY <1>1 DEF Call
  <2> HIDE DEF c
  <2>3. QED
    BY <1>1, <2>1, <2>2, EndedReasonsStay, MoveReasons DEF Local
<1>4. CASE EndSelected(p)
  <2> DEFINE c == [call[p] EXCEPT !.stage = call[p].goal, !.ending = {}]
  <2>1. call' = [call EXCEPT ![p] = c] /\ End(call[p].ending) /\ call[p].ending \in SUBSET Leases
    BY <1>1, <1>4 DEF EndSelected, Call
  <2>2. call[p].goal \in {"look", "missing"}
    BY <1>4 DEF EndSelected
  <2>3. c.stage = call[p].goal /\ c.ending = {} /\ c.record = call[p].record /\ c.missing = call[p].missing
    BY <1>1 DEF Call
  <2> HIDE DEF c
  <2>4. QED
    BY <1>1, <2>1, <2>2, <2>3, EndedReasonsStay, MoveReasons DEF Local
<1>5. QED
  BY <1>2, <1>3, <1>4

LEMMA BeginReasons ==
  ASSUME IInv, IInv', Reasons, NEW p \in Processes,
         \/ \E type \in EventTypes, t \in Tasks, actor \in Actors \cup {None} : Receive(p, type, t, actor)
         \/ \E path \in Checkouts, t \in Tasks, actor \in Actors \cup {None} :
              CreateWorktree(p, path, t, actor)
         \/ \E r \in Records : RemoveWorktree(p, r)
         \/ Reap(p) \/ FindMissing(p)
  PROVE  Reasons'
<1>1. UNCHANGED <<lease, worktree>> /\ WorktreesStay /\ ReasonsStay
  BY WorktreesUnchanged, EndedReasonsStay DEF Receive, CreateWorktree, RemoveWorktree, Reap, FindMissing
<1>2. call[p] \in Call
  BY FormedCall
<1>3. ASSUME NEW type, NEW t, NEW actor, Receive(p, type, t, actor)
      PROVE  Reasons'
  <2> DEFINE valid == {leased \in SUBSET Tasks : Admissible(type, t, History, leased)}
             c == [NoCall EXCEPT !.stage = "sweep", !.goal = "list", !.type = type, !.task = t,
                                 !.agent = actor, !.path = p, !.valid = valid]
  <2>1. call' = [call EXCEPT ![p] = c]
    BY <1>3 DEF Receive
  <2> HIDE DEF valid
  <2>2. c.stage = "sweep" /\ c.path = p /\ c.ending = {} /\ c.missing = {} /\ c.record = None
    BY DEF NoCall
  <2> HIDE DEF c
  <2>3. NextCall(p, c)
    BY <2>2, NoneIsNoRecord DEF NextCall
  <2>4. QED
    BY <1>1, <2>1, <2>3, ReasonStep
<1>4. ASSUME NEW path, NEW t, NEW actor, CreateWorktree(p, path, t, actor)
      PROVE  Reasons'
  <2> DEFINE c == [NoCall EXCEPT !.stage = "record", !.goal = "claim", !.type = "claimed", !.task = t,
                                 !.agent = Named(actor), !.path = path]
  <2>1. call' = [call EXCEPT ![p] = c]
    BY <1>4 DEF CreateWorktree
  <2>2. c.stage = "record" /\ c.ending = {} /\ c.missing = {} /\ c.record = None
    BY DEF NoCall
  <2> HIDE DEF c
  <2>3. NextCall(p, c)
    BY <2>2, FreshCall DEF Local
  <2>4. QED
    BY <1>1, <2>1, <2>3, ReasonStep
<1>5. ASSUME NEW r \in Records, RemoveWorktree(p, r)
      PROVE  Reasons'
  <2> DEFINE c == [call[p] EXCEPT !.stage = "unlist", !.record = r]
  <2>1. call' = [call EXCEPT ![p] = c] /\ worktree[r] # None /\ call[p].stage = "idle"
    BY <1>5 DEF RemoveWorktree, Ready, At
  <2>2. /\ c.stage = "unlist" /\ c.ending = call[p].ending /\ c.missing = call[p].missing /\ c.record = r
    BY <1>2 DEF Call
  <2> HIDE DEF c
  <2>3. NextCall(p, c)
    BY <1>1, <2>1, <2>2 DEF NextCall, Local, Reasons, WorktreesStay
  <2>4. QED
    BY <1>1, <2>1, <2>3, ReasonStep
<1>6. CASE Reap(p)
  <2> DEFINE c == [call[p] EXCEPT !.stage = "sweep", !.goal = "look"]
  <2>1. call' = [call EXCEPT ![p] = c] /\ call[p].ending = {}
    BY <1>6 DEF Reap, Ready, At, Reasons
  <2>2. /\ c.stage = "sweep" /\ c.goal = "look" /\ c.ending = call[p].ending
        /\ c.missing = call[p].missing /\ c.record = call[p].record
    BY <1>2 DEF Call
  <2> HIDE DEF c
  <2>3. QED
    BY <1>1, <2>1, <2>2, MoveReasons DEF Local
<1>7. CASE FindMissing(p)
  <2> DEFINE gone == {r \in Records : /\ worktree[r] # None /\ worktree[r].status = "active"
                                      /\ worktree[r].path \notin present}
             c == [call[p] EXCEPT !.stage = "missing", !.missing = gone]
  <2>1. call' = [call EXCEPT ![p] = c] /\ call[p].ending = {}
    BY <1>7 DEF FindMissing, Ready, At, Reasons
  <2>2. \A r \in gone : worktree[r] # None
    OBVIOUS
  <2> HIDE DEF gone
  <2>3. c.stage = "missing" /\ c.ending = call[p].ending /\ c.missing = gone /\ c.record = call[p].record
    BY <1>2 DEF Call
  <2> HIDE DEF c
  <2>4. NextCall(p, c)
    BY <1>1, <2>1, <2>2, <2>3 DEF NextCall, Local, Reasons, WorktreesStay
  <2>5. QED
    BY <1>1, <2>1, <2>4, ReasonStep
<1>8. QED
  BY <1>3, <1>4, <1>5, <1>6, <1>7

LEMMA CreatorReasons ==
  ASSUME IInv, IInv', Reasons, NEW p \in Processes, RecordWorktree(p) \/ UndoCreate(p)
  PROVE  Reasons'
<1>1. call[p] \in Call /\ ReasonsStay
  BY FormedCall, EndedReasonsStay DEF RecordWorktree, UndoCreate
<1>2. CASE RecordWorktree(p)
  <2>1. PICK r \in Records :
          /\ worktree[r] = None
          /\ worktree' = [worktree EXCEPT ![r] = [path |-> call[p].path, status |-> "active"]]
          /\ call' = [call EXCEPT ![p].stage = "sweep", ![p].record = r]
    BY <1>2 DEF RecordWorktree
  <2> DEFINE c == [call[p] EXCEPT !.stage = "sweep", !.record = r]
  <2>2. call' = [call EXCEPT ![p] = c] /\ call[p].stage = "record" /\ call[p].goal = "claim" /\ call[p].path \in Checkouts
    BY <1>2, <2>1, FormedCall DEF RecordWorktree, At, Formed, OnTask
  <2>3. c.stage = "sweep" /\ c.goal = "claim" /\ c.ending = call[p].ending /\ c.missing = call[p].missing /\ c.record = r
    BY <1>1, <2>2 DEF Call
  <2> HIDE DEF c
  <2>4. [path |-> call[p].path, status |-> "active"] \in Row
    BY <2>2 DEF Row
  <2>5. WorktreesStay /\ worktree'[r] # None
    BY <2>1, <2>4, NoneIsNoRecord DEF WorktreesStay, Reasons
  <2>6. NextCall(p, c)
    BY <2>2, <2>3, <2>5 DEF NextCall, Local, Reasons, WorktreesStay
  <2>7. QED
    BY <1>1, <2>2, <2>5, <2>6, ReasonStep
<1>3. CASE UndoCreate(p)
  <2> DEFINE r == call[p].record
  <2>1. worktree' = [worktree EXCEPT ![r].status = "gone"] /\ Finish(p)
    BY <1>3 DEF UndoCreate
  <2>2. CASE r \in Records
    <3>1. /\ worktree[r] \in Row /\ worktree'[r] \in Row /\ worktree'[r].status = "gone"
          /\ \A q \in Records \ {r} : worktree'[q] = worktree[q]
      BY <2>1, <2>2 DEF Reasons, Row
    <3>2. worktree' \in [Records -> Row \cup {None}]
      BY <2>1, <3>1 DEF Reasons
    <3>3. WorktreesStay
      BY <3>1, <3>2, NoneIsNoRecord DEF WorktreesStay
    <3>4. QED
      BY <1>1, <2>1, <3>3, FinishReasons
  <2>3. CASE r \notin Records
    <3>1. worktree' = worktree
      BY <2>1, <2>3 DEF Reasons
    <3>2. QED
      BY <1>1, <2>1, <3>1, WorktreesUnchanged, FinishReasons
  <2>4. QED
    BY <2>2, <2>3
<1>4. QED
  BY <1>2, <1>3

LEMMA EventReasons ==
  ASSUME IInv, IInv', Reasons,
         \/ \E p \in Processes : WriteEvent(p) \/ Dies(p)
         \/ \E t \in Tasks, c \in Checks : CheckStarts(t, c) \/ CheckEnds(t, c)
  PROVE  Reasons'
<1>1. WorktreesStay /\ ReasonsStay
  BY WorktreesUnchanged, EndedReasonsStay DEF WriteEvent, Dies, CheckStarts, CheckEnds, CheckEvent
<1>2. ASSUME NEW t, NEW older, call' = Overtake(t, older, call)
      PROVE  Reasons'
  <2>1. ASSUME NEW q \in Processes
        PROVE  SameCall(q)
    <3>1. call[q] \in Call /\ call'[q] \in {call[q], [call[q] EXCEPT !.late = TRUE]}
      BY <1>2, FormedCall DEF Overtake
    <3>2. QED
      BY <3>1 DEF SameCall, Call
  <2>2. QED
    BY <1>1, <2>1, ReasonsKeep
<1>3. ASSUME NEW p \in Processes, Dies(p)
      PROVE  Reasons'
  BY <1>1, <1>3, FinishReasons DEF Dies
<1>4. ASSUME NEW p \in Processes, WriteEvent(p)
      PROVE  Reasons'
  <2> DEFINE calls == [call EXCEPT ![p] = NoCall]
  <2>1. PICK t, older : call' = Overtake(t, older, calls)
    BY <1>4 DEF WriteEvent
  <2>2. ASSUME NEW q \in Processes
        PROVE  SameCall(q) \/ NextCall(q, call'[q])
    <3>1. call'[q] \in {calls[q], [calls[q] EXCEPT !.late = TRUE]}
      BY <2>1 DEF Overtake
    <3>2. CASE q = p
      <4>1. calls[q] = NoCall
        BY <3>2 DEF IInv, Types
      <4>2. /\ call'[q].stage = "idle" /\ call'[q].ending = {} /\ call'[q].missing = {}
            /\ call'[q].record = None
        BY <3>1, <4>1 DEF NoCall
      <4>3. QED
        BY <4>2, FreshCall DEF Local
    <3>3. CASE q # p
      <4>1. calls[q] = call[q] /\ call[q] \in Call
        BY <3>3, FormedCall DEF IInv, Types
      <4>2. QED
        BY <3>1, <4>1 DEF SameCall, Call
    <3>4. QED
      BY <3>2, <3>3
  <2>3. QED
    BY <1>1, <2>2, ReasonsKeep
<1>5. QED
  BY <1>2, <1>3, <1>4 DEF CheckStarts, CheckEnds, CheckEvent

LEMMA TimeReasons ==
  ASSUME IInv, IInv', Reasons, NEW l \in Leases, LeaseRunsOut(l)
  PROVE  Reasons'
<1>1. l \in Active /\ lease' = [lease EXCEPT ![l].term = "over"] /\ UNCHANGED <<call, worktree>>
  BY DEF LeaseRunsOut
<1>2. lease[l] \in Lease
  BY <1>1, ActiveLeases DEF IInv
<1>3. /\ lease'[l].record = lease[l].record /\ lease'[l].term # "running"
      /\ \A k \in Leases \ {l} : lease'[k] = lease[k]
  BY <1>1, <1>2 DEF IInv, Types, Lease
<1>4. ReasonsStay
  BY <1>1, <1>3 DEF ReasonsStay, Active
<1>5. WorktreesStay /\ \A q \in Processes : SameCall(q)
  BY <1>1, WorktreesUnchanged DEF SameCall
<1>6. QED
  BY <1>4, <1>5, ReasonsKeep

LEMMA InitialReasons == Init => Reasons
<1> SUFFICES ASSUME Init PROVE Reasons
  OBVIOUS
<1>1. Active = {} /\ worktree \in [Records -> Row \cup {None}]
  BY DEF Init, Active
<1>2. \A p \in Processes : call[p] = NoCall
  BY DEF Init
<1>3. NoCall.ending = {} /\ NoCall.missing = {} /\ NoCall.record = None /\ NoCall.stage = "idle"
  BY DEF NoCall
<1>4. QED
  BY <1>1, <1>2, <1>3, NoneIsNoRecord DEF Reasons, Local

LEMMA ReasonsInductive == IInv /\ IInv' /\ Reasons /\ [Next]_vars => Reasons'
<1> SUFFICES ASSUME IInv, IInv', Reasons, [Next]_vars PROVE Reasons'
  OBVIOUS
<1>1. ASSUME NEW p \in Processes, Handle(p)
      PROVE  Reasons'
  <2>1. ASSUME NEW r \in Records, worktree[r] # None, EndRecord(p, r)
        PROVE  Reasons'
    BY <2>1, EndRecordReasons
  <2>2. CASE UnlistWorktree(p)
    BY <2>1, <2>2 DEF UnlistWorktree, At, Reasons
  <2>3. CASE MarkMissing(p)
    <3>1. CASE \E r \in call[p].missing : EndRecord(p, r)
      BY <2>1, <3>1, FormedCall DEF Call, Reasons
    <3>2. CASE Finish(p) /\ UNCHANGED <<lease, worktree>>
      BY <3>2, FinishReasons, WorktreesUnchanged, EndedReasonsStay
    <3>3. QED
      BY <2>3, <3>1, <3>2 DEF MarkMissing
  <2>4. CASE ListLeases(p) \/ Claim(p) \/ RequireOwner(p) \/ Release(p) \/ WriteEvent(p)
    BY <2>4, ListReasons, ClaimReasons, OwnershipReasons, EventReasons
  <2>5. CASE SelectRunOut(p) \/ EndBeforeClaim(p) \/ EndSelected(p) \/ RecordWorktree(p) \/ UndoCreate(p)
    BY <2>5, SweepReasons, CreatorReasons
  <2>6. QED
    BY <1>1, <2>2, <2>3, <2>4, <2>5 DEF Handle
<1>2. CASE \E p \in Processes : Dies(p)
  BY <1>2, EventReasons
<1>3. CASE \E p \in Checkouts, type \in EventTypes, t \in Tasks, actor \in Actors \cup {None} :
             Receive(p, type, t, actor)
  BY <1>3, BeginReasons DEF Processes
<1>4. ASSUME NEW p \in Clients,
             \/ \E path \in Checkouts, t \in Tasks, actor \in Actors \cup {None} :
                  CreateWorktree(p, path, t, actor)
             \/ \E r \in Records : RemoveWorktree(p, r)
             \/ Reap(p) \/ FindMissing(p)
      PROVE  Reasons'
  BY <1>4, BeginReasons DEF Processes
<1>5. CASE \E t \in Tasks, c \in Checks : CheckStarts(t, c) \/ CheckEnds(t, c)
  BY <1>5, EventReasons
<1>6. CASE \E l \in Leases : LeaseRunsOut(l)
  BY <1>6, TimeReasons
<1>7. CASE UNCHANGED vars \/ \E path \in Checkouts : DirectoryVanishes(path)
  <2>1. UNCHANGED <<lease, worktree, call>>
    BY <1>7 DEF vars, DirectoryVanishes
  <2>2. \A q \in Processes : SameCall(q)
    BY <2>1 DEF SameCall
  <2>3. QED
    BY <2>1, <2>2, WorktreesUnchanged, EndedReasonsStay, ReasonsKeep
<1>8. QED
  BY <1>1, <1>2, <1>3, <1>4, <1>5, <1>6, <1>7 DEF Next

(* The one step that may end the lease l without a reason of l's own. *)
OwnerReleases(l) ==
  /\ call[lease[l].path].task = lease[l].task
  /\ At(lease[l].path, "own") /\ call'[lease[l].path].stage = "write"
  /\ OwnerMatches(l, call[lease[l].path].agent, lease[l].path)

LEMMA EndsForAReason ==
  ASSUME IInv, Reasons, [Next]_vars, NEW l \in Active, lease'[l] = None
  PROVE  Doomed(l) \/ OwnerReleases(l)
<1>1. l \in Leases /\ lease[l] # None /\ lease[l] \in Lease
  BY ActiveLeases DEF Active, IInv
<1>2. lease' # lease
  BY <1>1
<1>3. ASSUME NEW p \in Processes, End(call[p].ending)
      PROVE  Doomed(l)
  BY <1>1, <1>3 DEF End, Reasons
<1>4. ASSUME NEW p \in Processes, Release(p)
      PROVE  OwnerReleases(l)
  <2> DEFINE owned == {k \in On(call[p].task) : OwnerMatches(k, call[p].agent, call[p].path)}
  <2>1. End(owned)
    BY <1>4 DEF Release
  <2>2. l \in owned
    BY <1>1, <2>1 DEF End
  <2>3. On(call[p].task) = owned
    BY <2>2 DEF IInv, OneLease, On
  <2>4. At(p, "own") /\ Announce(p) /\ call[p].path = p
    BY <1>4, <2>3 DEF Release, Reasons, Local, At
  <2>5. call'[p].stage = "write"
    BY <2>4 DEF Announce, IInv, Types, NoCall
  <2>6. lease[l].path = p /\ lease[l].task = call[p].task /\ OwnerMatches(l, call[p].agent, p)
    BY <2>2, <2>4 DEF On, OwnerMatches
  <2>7. QED
    BY <2>4, <2>5, <2>6 DEF OwnerReleases
<1>5. ASSUME NEW p \in Processes, Claim(p)
      PROVE  FALSE
  <2>1. ASSUME NEW k \in Leases, NEW r \in Lease, lease' = [lease EXCEPT ![k] = r]
        PROVE  FALSE
    BY <1>1, <2>1, NoneIsNoLease DEF IInv, Types
  <2>2. ASSUME NEW k \in Leases, lease[k] \in Lease,
               lease' = [lease EXCEPT ![k].term = IF @ = "over" THEN "extended" ELSE @]
        PROVE  FALSE
    <3> DEFINE r == [lease[k] EXCEPT !.term = IF @ = "over" THEN "extended" ELSE @]
    <3>1. r \in Lease /\ lease' = [lease EXCEPT ![k] = r]
      BY <2>2 DEF Lease
    <3> HIDE DEF r
    <3>2. QED
      BY <2>1, <3>1
  <2>3. CASE \E k \in On(call[p].task) :
               lease' = [lease EXCEPT ![k].term = IF @ = "over" THEN "extended" ELSE @]
    BY <2>2, <2>3, ActiveLeases DEF On, IInv
  <2>4. CASE \E k \in NewLeases : lease' = [lease EXCEPT ![k] =
               [task |-> call[p].task, agent |-> Named(call[p].agent), path |-> call[p].path,
                record |-> call[p].record, term |-> "running"]]
    BY <1>1, <2>4 DEF NewLeases
  <2>5. QED
    BY <1>2, <1>5, <2>3, <2>4 DEF Claim
<1>6. ASSUME NEW k \in Leases, LeaseRunsOut(k)
      PROVE  FALSE
  <2>1. lease[k] \in Lease /\ lease' = [lease EXCEPT ![k].term = "over"]
    BY <1>6, ActiveLeases DEF LeaseRunsOut, IInv
  <2>2. [lease[k] EXCEPT !.term = "over"] # None
    BY <2>1, NoneIsNoLease DEF Lease
  <2>3. QED
    BY <1>1, <2>1, <2>2 DEF IInv, Types
<1>7. ASSUME NEW p \in Processes, Handle(p)
      PROVE  Doomed(l) \/ OwnerReleases(l)
  <2>1. CASE ListLeases(p) \/ EndBeforeClaim(p) \/ EndSelected(p)
    BY <1>3, <2>1 DEF ListLeases, EndBeforeClaim, EndSelected
  <2>2. CASE Release(p) \/ Claim(p)
    BY <1>4, <1>5, <2>2
  <2>3. QED
    BY <1>2, <1>7, <2>1, <2>2 DEF Handle, SelectRunOut, RequireOwner, WriteEvent, RecordWorktree,
       UndoCreate, UnlistWorktree, MarkMissing, EndRecord
<1>8. QED
  BY <1>2, <1>6, <1>7 DEF Next, vars, Receive, CreateWorktree, RemoveWorktree, Reap, FindMissing, Dies,
     CheckStarts, CheckEnds, CheckEvent, DirectoryVanishes

(* A lease ends because its owner released it, because it ran out at least once,
   or because its worktree was removed or is missing: the sweeps end what they
   have selected by id, outside a transaction, and ids are never used again.   *)
THEOREM LeasesEndWithReason == Spec => LeasesEndForAReason
<1>1. Init => IInv /\ Reasons
  BY Initially, InitialReasons
<1>2. IInv /\ Reasons /\ [Next]_vars => (IInv /\ Reasons)'
  BY Inductive, ReasonsInductive
<1>3. IInv /\ Reasons /\ [Next]_vars =>
        [\A l \in Active : lease'[l] = None =>
           \/ lease[l].term # "running"
           \/ lease[l].record # None /\ worktree[lease[l].record].status # "active"
           \/ /\ call[lease[l].path].task = lease[l].task
              /\ At(lease[l].path, "own") /\ call'[lease[l].path].stage = "write"
              /\ OwnerMatches(l, call[lease[l].path].agent, lease[l].path)]_vars
  BY EndsForAReason DEF Doomed, OwnerReleases
<1>4. QED
  BY <1>1, <1>2, <1>3, PTL DEF Spec, LeasesEndForAReason

(* ---- The main checkout stays ---- *)

(* What a command line removes is a directory that one of them has created, and it
   creates none that is there: so neither a call of theirs nor a row names Main. *)
Spared ==
  /\ present \subseteq Checkouts /\ Main \in present /\ robbed \subseteq Processes
  /\ \A p \in Clients : call[p].path # Main
  /\ \A p \in Processes : call[p].stage \in {"record", "undo"} => p \in Clients
  /\ \A r \in Records : worktree[r] # None => worktree[r].path # Main

(* The call of q goes on about the same directory, or about none. *)
Calm(q) ==
  /\ call'[q].path \in {call[q].path, None}
  /\ call'[q].stage \in {"record", "undo"} => call[q].stage \in {"record", "undo"} \/ q \in Clients

LEMMA MainIsSome == Main # None /\ Main \in Checkouts
BY MainIsACheckout, NoneIsNoRow

LEMMA CalmSpares ==
  ASSUME Spared, \A q \in Processes : Calm(q),
         present' \subseteq Checkouts, Main \in present', robbed' \subseteq Processes,
         \A r \in Records : worktree'[r] # None => worktree'[r].path # Main
  PROVE  Spared'
BY MainIsSome DEF Spared, Calm, Processes

(* Only the call of p changes. *)
LEMMA OneCallIsCalm ==
  ASSUME IInv, NEW p \in Processes, NEW c, call' = [call EXCEPT ![p] = c],
         c.path \in {call[p].path, None},
         c.stage \in {"record", "undo"} => call[p].stage \in {"record", "undo"} \/ p \in Clients
  PROVE  \A q \in Processes : Calm(q)
BY DEF Calm, IInv, Types

LEMMA FinishIsCalm ==
  ASSUME IInv, NEW p \in Processes, Finish(p)
  PROVE  \A q \in Processes : Calm(q)
<1>1. call' = [call EXCEPT ![p] = NoCall] /\ NoCall.path = None /\ NoCall.stage = "idle"
  BY DEF Finish, NoCall
<1> HIDE DEF NoCall
<1>2. QED
  BY <1>1, OneCallIsCalm

LEMMA AnnounceIsCalm ==
  ASSUME IInv, NEW p \in Processes, Announce(p)
  PROVE  \A q \in Processes : Calm(q)
<1> DEFINE c == [NoCall EXCEPT !.stage = "write", !.type = call[p].type,
                   !.task = call[p].task, !.path = call[p].path, !.late = call[p].late]
<1>1. call' = [call EXCEPT ![p] = c] /\ c.path = call[p].path /\ c.stage = "write"
  BY DEF Announce, NoCall
<1> HIDE DEF c
<1>2. QED
  BY <1>1, OneCallIsCalm

LEMMA OvertakingIsCalm ==
  ASSUME IInv, NEW t, NEW older, NEW calls, call' = Overtake(t, older, calls),
         NEW p, calls = call \/ calls = [call EXCEPT ![p] = NoCall]
  PROVE  \A q \in Processes : Calm(q)
<1> SUFFICES ASSUME NEW q \in Processes PROVE Calm(q)
  OBVIOUS
<1>1. calls[q] \in {call[q], NoCall} /\ call[q] \in Call
  BY FormedCall DEF IInv, Types
<1>2. NoCall \in Call /\ NoCall.path = None /\ NoCall.stage = "idle"
  BY IdleFormed DEF Formed, NoCall
<1> HIDE DEF NoCall
<1>3. call'[q] \in {calls[q], [calls[q] EXCEPT !.late = TRUE]}
  BY DEF Overtake
<1>4. call'[q].path = calls[q].path /\ call'[q].stage = calls[q].stage
  BY <1>1, <1>2, <1>3 DEF Call
<1>5. QED
  BY <1>1, <1>2, <1>4 DEF Calm

LEMMA EndRobsProcesses ==
  ASSUME Spared, NEW S, End(S)
  PROVE  robbed' \subseteq Processes
BY DEF End, Spared

(* The steps of a runtime leave the directories and the records as they are. *)
LEMMA HandlersSpare ==
  ASSUME IInv, Spared, NEW p \in Processes,
         \/ SelectRunOut(p) \/ ListLeases(p) \/ EndBeforeClaim(p) \/ Claim(p)
         \/ RequireOwner(p) \/ Release(p) \/ WriteEvent(p) \/ EndSelected(p) \/ Dies(p)
  PROVE  Spared'
<1>1. /\ UNCHANGED <<present, worktree>>
      /\ robbed' \subseteq robbed \/ \E S : End(S)
  BY DEF SelectRunOut, ListLeases, EndBeforeClaim, Claim, RequireOwner, Release, WriteEvent,
         EndSelected, Dies
<1>2. robbed' \subseteq Processes
  BY <1>1, EndRobsProcesses DEF Spared
<1>3. ASSUME \A q \in Processes : Calm(q)
      PROVE  Spared'
  BY <1>1, <1>2, <1>3, CalmSpares DEF Spared
<1>0. call[p] \in Call
  BY FormedCall
<1>13. ASSUME NEW c, call' = [call EXCEPT ![p] = c], c.path = call[p].path,
              c.stage = "undo" => p \in Clients, c.stage # "record"
       PROVE  Spared'
  BY <1>3, <1>13, OneCallIsCalm
<1>4. CASE SelectRunOut(p)
  <2> DEFINE c == [call[p] EXCEPT !.stage = "mark", !.ending = RunOut]
  <2>1. call' = [call EXCEPT ![p] = c] /\ c.path = call[p].path /\ c.stage = "mark"
    BY <1>0, <1>4 DEF SelectRunOut, Call
  <2> HIDE DEF c
  <2>2. QED
    BY <1>13, <2>1
<1>5. CASE ListLeases(p)
  <2> DEFINE c(stage, goal) ==
        [call[p] EXCEPT !.stage = stage, !.goal = goal, !.valid = {}, !.ending = {}]
  <2>1. \/ Finish(p)
        \/ call' = [call EXCEPT ![p] = c("sweep", "confirm")]
        \/ call' = [call EXCEPT ![p] = c("sweep", "probe")]
        \/ call' = [call EXCEPT ![p] = c("sweep", "claim")]
        \/ call' = [call EXCEPT ![p] = c("own", "none")]
    BY <1>5 DEF ListLeases
  <2>2. \A stage, goal : c(stage, goal).path = call[p].path /\ c(stage, goal).stage = stage
    BY <1>0 DEF Call
  <2> HIDE DEF c
  <2>3. QED
    BY <1>3, <1>13, <2>1, <2>2, FinishIsCalm
<1>6. CASE EndBeforeClaim(p)
  <2> DEFINE c == [call[p] EXCEPT !.stage = "claim", !.ending = {}]
  <2>1. call' = [call EXCEPT ![p] = c] /\ c.path = call[p].path /\ c.stage = "claim"
    BY <1>0, <1>6 DEF EndBeforeClaim, Call
  <2> HIDE DEF c
  <2>2. QED
    BY <1>13, <2>1
<1>7. CASE Claim(p)
  <2> DEFINE undo == [call[p] EXCEPT !.stage = "undo"]
             again == [call[p] EXCEPT !.stage = "sweep", !.goal = "claim"]
  <2>1. \/ Finish(p) \/ Announce(p)
        \/ call' = [call EXCEPT ![p] = undo] /\ p \in Clients
        \/ call' = [call EXCEPT ![p] = again]
    <3>1. Granted(p) => Finish(p) \/ Announce(p) \/ call' = [call EXCEPT ![p] = again]
      <4>1. call[p].goal \in Claiming
        BY <1>7, FormedCall DEF Claim, Formed, At, Claiming
      <4>2. QED
        BY <4>1 DEF Granted, Claiming
    <3>2. QED
      BY <1>7, <3>1 DEF Claim, Goto
  <2>2. /\ undo.path = call[p].path /\ undo.stage = "undo"
        /\ again.path = call[p].path /\ again.stage = "sweep"
    BY <1>0 DEF Call
  <2> HIDE DEF undo, again
  <2>3. QED
    BY <1>3, <1>13, <2>1, <2>2, FinishIsCalm, AnnounceIsCalm
<1>8. CASE RequireOwner(p) \/ Release(p)
  BY <1>3, <1>8, AnnounceIsCalm, FinishIsCalm DEF RequireOwner, Release
<1>9. CASE WriteEvent(p)
  BY <1>3, <1>9, OvertakingIsCalm DEF WriteEvent
<1>10. CASE EndSelected(p)
  <2> DEFINE c == [call[p] EXCEPT !.stage = call[p].goal, !.ending = {}]
  <2>1. call' = [call EXCEPT ![p] = c] /\ c.path = call[p].path /\ c.stage \in {"look", "missing"}
    BY <1>0, <1>10 DEF EndSelected, Call
  <2> HIDE DEF c
  <2>2. QED
    BY <1>13, <2>1
<1>11. CASE Dies(p)
  BY <1>3, <1>11, FinishIsCalm DEF Dies
<1>12. QED
  BY <1>4, <1>5, <1>6, <1>7, <1>8, <1>9, <1>10, <1>11

(* The record of a removed worktree keeps its path. *)
LEMMA GoneIsSpared ==
  ASSUME Reasons, Spared, NEW r \in Records, worktree[r] # None,
         worktree' = [worktree EXCEPT ![r].status = "gone"]
  PROVE  \A k \in Records : worktree'[k] # None => worktree'[k].path # Main
<1>1. worktree[r] \in Row
  BY DEF Reasons
<1>2. [worktree[r] EXCEPT !.status = "gone"].path = worktree[r].path
  BY <1>1 DEF Row
<1>3. QED
  BY <1>2 DEF Reasons, Spared

LEMMA EndRecordSpares ==
  ASSUME IInv, Reasons, Spared, NEW p \in Processes, NEW r \in Records, worktree[r] # None,
         EndRecord(p, r)
  PROVE  Spared'
<1> DEFINE c == [call[p] EXCEPT !.stage = "mark", !.goal = "missing", !.ending = HeldThrough(r),
                                !.missing = @ \ {r}]
<1>1. call' = [call EXCEPT ![p] = c] /\ c.path = call[p].path /\ c.stage = "mark"
  BY FormedCall DEF EndRecord, Call
<1> HIDE DEF c
<1>2. \A q \in Processes : Calm(q)
  BY <1>1, OneCallIsCalm
<1>3. /\ \A k \in Records : worktree'[k] # None => worktree'[k].path # Main
      /\ UNCHANGED <<present, robbed>>
  BY GoneIsSpared DEF EndRecord
<1>4. QED
  BY <1>2, <1>3, CalmSpares DEF Spared

(* What a call of createManagedWorktree records or takes back is not Main. *)
LEMMA CreatorSpares ==
  ASSUME IInv, Reasons, Spared, NEW p \in Processes, RecordWorktree(p) \/ UndoCreate(p)
  PROVE  Spared'
<1>1. call[p] \in Call /\ call[p].path # Main
  BY FormedCall DEF RecordWorktree, UndoCreate, At, Spared
<1>2. CASE RecordWorktree(p)
  <2>1. PICK r \in Records :
          /\ worktree' = [worktree EXCEPT ![r] = [path |-> call[p].path, status |-> "active"]]
          /\ call' = [call EXCEPT ![p].stage = "sweep", ![p].record = r]
    BY <1>2 DEF RecordWorktree
  <2> DEFINE c == [call[p] EXCEPT !.stage = "sweep", !.record = r]
  <2>2. call' = [call EXCEPT ![p] = c] /\ c.path = call[p].path /\ c.stage = "sweep"
    BY <1>1, <2>1 DEF Call
  <2> HIDE DEF c
  <2>3. \A q \in Processes : Calm(q)
    BY <2>2, OneCallIsCalm
  <2>4. \A k \in Records : worktree'[k] # None => worktree'[k].path # Main
    BY <1>1, <2>1 DEF Reasons, Spared
  <2>5. UNCHANGED <<present, robbed>>
    BY <1>2 DEF RecordWorktree
  <2>6. QED
    BY <2>3, <2>4, <2>5, CalmSpares DEF Spared
<1>3. CASE UndoCreate(p)
  <2>1. /\ present' = present \ {call[p].path} /\ UNCHANGED robbed
        /\ worktree' = [worktree EXCEPT ![call[p].record].status = "gone"]
    BY <1>3 DEF UndoCreate
  <2>2. \A q \in Processes : Calm(q)
    BY <1>3, FinishIsCalm DEF UndoCreate
  <2>3. \A k \in Records : worktree'[k] # None => worktree'[k].path # Main
    <3>1. CASE call[p].record \in Records
      BY <2>1, <3>1, GoneIsSpared DEF Reasons
    <3>2. CASE call[p].record \notin Records
      BY <2>1, <3>2 DEF Reasons, Spared
    <3>3. QED
      BY <3>1, <3>2
  <2>4. present' \subseteq Checkouts /\ Main \in present'
    BY <1>1, <2>1 DEF Spared
  <2>5. QED
    BY <2>1, <2>2, <2>3, <2>4, CalmSpares DEF Spared
<1>4. QED
  BY <1>2, <1>3

(* A checkout git adds is never the main one. *)
LEMMA CreateSpares ==
  ASSUME IInv, Spared, NEW p \in Clients, NEW path \in Checkouts, NEW t \in Tasks,
         NEW actor \in Actors \cup {None}, CreateWorktree(p, path, t, actor)
  PROVE  Spared'
<1> DEFINE c == [NoCall EXCEPT !.stage = "record", !.goal = "claim", !.type = "claimed",
                   !.task = t, !.agent = Named(actor), !.path = path]
<1>1. path # Main /\ present' = present \cup {path} /\ UNCHANGED <<worktree, robbed>>
  BY DEF CreateWorktree, Spared
<1>2. call' = [call EXCEPT ![p] = c]
  BY DEF CreateWorktree
<1>3. c.path = path /\ c.stage = "record"
  BY DEF NoCall
<1> HIDE DEF c
<1>4. call'[p] = c /\ \A q \in Processes \ {p} : call'[q] = call[q]
  BY <1>2 DEF IInv, Types, Processes
<1>5. QED
  BY <1>1, <1>3, <1>4 DEF Spared, Processes

(* What the command line begins with. *)
LEMMA CommandSpares ==
  ASSUME IInv, Reasons, Spared, NEW p \in Clients,
         \/ \E path \in Checkouts, t \in Tasks, actor \in Actors \cup {None} :
              CreateWorktree(p, path, t, actor)
         \/ \E r \in Records : RemoveWorktree(p, r)
         \/ Reap(p) \/ FindMissing(p)
  PROVE  Spared'
<1>1. p \in Processes /\ call[p] \in Call
  BY FormedCall DEF Processes
<1>2. CASE \E path \in Checkouts, t \in Tasks, actor \in Actors \cup {None} :
             CreateWorktree(p, path, t, actor)
  BY <1>2, CreateSpares
<1>3. CASE \E r \in Records : RemoveWorktree(p, r)
  <2>1. PICK r \in Records : RemoveWorktree(p, r)
    BY <1>3
  <2> DEFINE c == [call[p] EXCEPT !.stage = "unlist", !.record = r]
  <2>2. call' = [call EXCEPT ![p] = c] /\ c.path = call[p].path /\ c.stage = "unlist"
    BY <1>1, <2>1 DEF RemoveWorktree, Call
  <2> HIDE DEF c
  <2>3. \A q \in Processes : Calm(q)
    BY <1>1, <2>2, OneCallIsCalm
  <2>4. present' \subseteq Checkouts /\ Main \in present' /\ UNCHANGED <<worktree, robbed>>
    BY <2>1 DEF RemoveWorktree, Spared
  <2>5. QED
    BY <2>3, <2>4, CalmSpares DEF Spared
<1>4. CASE Reap(p) \/ FindMissing(p)
  <2> DEFINE look == [call[p] EXCEPT !.stage = "sweep", !.goal = "look"]
             found == {r \in Records : /\ worktree[r] # None /\ worktree[r].status = "active"
                                       /\ worktree[r].path \notin present}
             miss == [call[p] EXCEPT !.stage = "missing", !.missing = found]
  <2>1. /\ call' = [call EXCEPT ![p] = look] \/ call' = [call EXCEPT ![p] = miss]
        /\ UNCHANGED <<present, worktree, robbed>>
    BY <1>4 DEF Reap, FindMissing
  <2>2. /\ look.path = call[p].path /\ look.stage = "sweep"
        /\ miss.path = call[p].path /\ miss.stage = "missing"
    BY <1>1 DEF Call
  <2> HIDE DEF look, miss
  <2>3. \A q \in Processes : Calm(q)
    BY <1>1, <2>1, <2>2, OneCallIsCalm
  <2>4. QED
    BY <2>1, <2>3, CalmSpares DEF Spared
<1>5. QED
  BY <1>2, <1>3, <1>4

(* A request to a runtime is about its own checkout. *)
LEMMA RequestSpares ==
  ASSUME IInv, Spared, NEW p \in Checkouts, NEW type \in EventTypes, NEW t \in Tasks,
         NEW actor \in Actors \cup {None}, Receive(p, type, t, actor)
  PROVE  Spared'
<1> DEFINE valid == {leased \in SUBSET Tasks : Admissible(type, t, History, leased)}
           c == [NoCall EXCEPT !.stage = "sweep", !.goal = "list", !.type = type, !.task = t,
                               !.agent = actor, !.path = p, !.valid = valid]
<1>1. /\ call' = [call EXCEPT ![p] = c] /\ c.stage = "sweep"
      /\ UNCHANGED <<present, worktree, robbed>>
  BY DEF Receive, NoCall
<1> HIDE DEF c
<1>2. p \in Processes /\ p \notin Clients
  BY ProcessesDiffer DEF Processes
<1>3. call'[p] = c /\ \A q \in Processes \ {p} : call'[q] = call[q]
  BY <1>1, <1>2 DEF IInv, Types
<1>4. QED
  BY <1>1, <1>2, <1>3 DEF Spared, Processes

LEMMA InitiallySpared == Init => Spared
<1> SUFFICES ASSUME Init PROVE Spared
  OBVIOUS
<1>1. \A p \in Processes : call[p].path = None /\ call[p].stage = "idle"
  BY DEF Init, NoCall
<1>2. QED
  BY <1>1, MainIsSome DEF Init, Spared, Processes

LEMMA SparedInductive == IInv /\ Reasons /\ Spared /\ [Next]_vars => Spared'
<1> SUFFICES ASSUME IInv, Reasons, Spared, [Next]_vars PROVE Spared'
  OBVIOUS
<1>1. ASSUME NEW p \in Processes, Handle(p) \/ Dies(p)
      PROVE  Spared'
  <2>1. CASE UnlistWorktree(p)
    <3>1. call[p].record \in Records /\ worktree[call[p].record] # None
      BY <2>1 DEF UnlistWorktree, At, Reasons
    <3>2. QED
      BY <2>1, <3>1, EndRecordSpares DEF UnlistWorktree
  <2>2. CASE MarkMissing(p)
    <3>1. CASE \E r \in call[p].missing : EndRecord(p, r)
      <4>1. PICK r \in call[p].missing : EndRecord(p, r)
        BY <3>1
      <4>2. r \in Records /\ worktree[r] # None
        BY <4>1, FormedCall DEF Call, Reasons
      <4>3. QED
        BY <4>1, <4>2, EndRecordSpares
    <3>2. CASE Finish(p) /\ UNCHANGED <<present, worktree, robbed>>
      BY <3>2, FinishIsCalm, CalmSpares DEF Spared
    <3>3. QED
      BY <2>2, <3>1, <3>2 DEF MarkMissing
  <2>3. QED
    BY <1>1, <2>1, <2>2, HandlersSpare, CreatorSpares DEF Handle
<1>2. CASE \E p \in Checkouts, type \in EventTypes, t \in Tasks, actor \in Actors \cup {None} :
             Receive(p, type, t, actor)
  BY <1>2, RequestSpares
<1>3. ASSUME NEW p \in Clients,
             \/ \E path \in Checkouts, t \in Tasks, actor \in Actors \cup {None} :
                  CreateWorktree(p, path, t, actor)
             \/ \E r \in Records : RemoveWorktree(p, r)
             \/ Reap(p) \/ FindMissing(p)
      PROVE  Spared'
  BY <1>3, CommandSpares
<1>4. CASE \E t \in Tasks, c \in Checks : CheckStarts(t, c) \/ CheckEnds(t, c)
  <2>1. \E t \in Tasks : call' = Overtake(t, Range(pending), call)
    BY <1>4 DEF CheckStarts, CheckEnds, CheckEvent
  <2>2. UNCHANGED <<present, worktree, robbed>>
    BY <1>4 DEF CheckStarts, CheckEnds, CheckEvent
  <2>3. QED
    BY <2>1, <2>2, OvertakingIsCalm, CalmSpares DEF Spared
<1>5. CASE \/ UNCHANGED vars \/ \E l \in Leases : LeaseRunsOut(l)
           \/ \E path \in Checkouts : DirectoryVanishes(path)
  <2>1. /\ UNCHANGED <<call, worktree, robbed>>
        /\ present' \subseteq Checkouts /\ Main \in present'
    BY <1>5 DEF vars, LeaseRunsOut, DirectoryVanishes, Spared
  <2>2. QED
    BY <2>1 DEF Spared
<1>6. QED
  BY <1>1, <1>2, <1>3, <1>4, <1>5 DEF Next

(* No command removes the checkout that was there first: not the removal of a worktree
   by its record, nor the undoing of a creation, however calls interleave and whoever
   dies in between (createManagedWorktree, removeManagedWorktree). *)
THEOREM MainCheckoutStays == Spec => [](Main \in present)
<1>1. Init => IInv /\ Reasons /\ Spared
  BY Initially, InitialReasons, InitiallySpared
<1>2. IInv /\ Reasons /\ Spared /\ [Next]_vars => (IInv /\ Reasons /\ Spared)'
  BY Inductive, ReasonsInductive, SparedInductive
<1>3. Spared => Main \in present
  BY DEF Spared
<1>4. QED
  BY <1>1, <1>2, <1>3, PTL DEF Spec
=============================================================================
