---------------------- MODULE CodeGraphPublicationProofs ----------------------
(* Proofs about CodeGraphPublication, for any number of workers, indexers,
   generations, changes, deaths and restarts.

   That the published generation stays whole is not inductive: it says nothing of
   who may write to a file or remove it, nor of what is about to be published.
   IInv adds the discipline behind it. The lock is held by exactly the process
   that is at a place where the code holds it (LockIsHeld); what a holder has read
   of the publication is still true, because nobody else may publish (HoldersKnow);
   nobody gets as far as using a store before there is a publication
   (OpenedIsPublished); no two processes stage under one name, and what the runtime
   is about to publish is no worker's any more (NamesDiffer); and what a worker has
   reported is indexed, or was removed by a cleanup (ReportsAreIndexed).       *)
EXTENDS CodeGraphPublication, FiniteSetTheorems, TLAPS

Locked == {"creating", "recording", "cleaning", "clearing", "copying", "publishing", "committed"}
Past == {"open", "clearing", "copying", "indexing", "reported", "publishing", "committed"}

LockIsHeld == \A p \in Processes : lock = p <=> pc[p] \in Locked

(* Where each kind of process can be. *)
KeepToTheirPlaces ==
  /\ pc[Runtime] \notin {"clearing", "copying", "indexing", "reported"}
  /\ \A p \in Workers \cup Indexers : pc[p] \notin {"publishing", "committed"}

HoldersKnow ==
  \A p \in Processes :
    /\ pc[p] = "creating" => publication = None /\ active[p] \in Generations
    /\ pc[p] = "recording" =>
         publication = None /\ active[p] \in Generations /\ files[active[p]] = "complete"
    /\ pc[p] \in {"cleaning", "clearing", "copying"} =>
         publication # None /\ active[p] = publication.generation

OpenedIsPublished ==
  /\ observed > 0 => publication # None
  /\ \A p \in Processes : pc[p] \in Past => publication # None
  /\ \A w \in Workers : pc[w] # "off" => publication # None

StagedByPlace ==
  \A w \in Workers :
    /\ pc[w] \in {"copying", "indexing"} => staged[w] \in Generations
    /\ pc[w] = "copying" => files[staged[w]] = "partial" /\ staged[w] # publication.generation
    /\ pc[w] \notin {"copying", "indexing", "reported"} => staged[w] = None

NamesDiffer ==
  \A w \in Workers : staged[w] \in Generations =>
    /\ staged[w] # candidate
    /\ \A v \in Workers \ {w} : staged[v] # staged[w]

Indexed(g) == g \in Generations => files[g] \in {"complete", "absent"}
ReportsAreIndexed ==
  /\ \A w \in Workers : pc[w] = "reported" => Indexed(staged[w])
  /\ Indexed(candidate)
CandidateIsNamed ==
  /\ pc[Runtime] \in {"publishing", "committed"} => candidate \in Generations
  /\ pc[Runtime] = "committed" => publication.generation = candidate

(* The runtime's graph connection reads the published generation, except between the
   commit and the swap; reopening the store included. *)
ServesThePublished ==
  /\ graph # None => publication # None
  /\ graph # None /\ pc[Runtime] # "committed" => graph = publication.generation
  /\ pc[Runtime] \in {"open", "publishing", "committed"} => graph # None

(* There are at most two files. *)
Few == \E x, y \in Generations : \A g \in Generations : Present(g) => g \in {x, y}
FewOnceOpened == (observed > 0 \/ (publication # None /\ publication.revision > 1)) => Few

IInv ==
  /\ TypeOK /\ LockIsHeld /\ KeepToTheirPlaces /\ HoldersKnow /\ OpenedIsPublished
  /\ StagedByPlace /\ NamesDiffer /\ ReportsAreIndexed /\ CandidateIsNamed
  /\ PublishedGraphIsComplete /\ PublicationIsUndisturbed /\ OpensNeverFail /\ FewOnceOpened
  /\ ServesThePublished

USE PublicationAssumption
    DEF Processes, Places, Locked, Past, Present, HasSchema, Indexed, Few,
        Go, Hold, Release, disk, locking, runtime, bounds

(* Nothing is there before the first opening. *)
LEMMA Initially == Init => IInv
BY DEF Init, IInv, TypeOK, LockIsHeld, KeepToTheirPlaces, HoldersKnow, OpenedIsPublished,
       StagedByPlace, NamesDiffer, ReportsAreIndexed, CandidateIsNamed,
       PublishedGraphIsComplete, PublicationIsUndisturbed, OpensNeverFail, FewOnceOpened, ServesThePublished

(* A new name has no file, and neither a worker nor the runtime refers to it. *)
LEMMA NewName ==
  ASSUME TypeOK, NEW g \in Unused
  PROVE  g \in Generations /\ ~Present(g) /\ g # candidate /\ \A v \in Workers : staged[v] # g
<1>1. g \in Free
  BY DEF Unused
<1>2. \A v \in Workers : staged[v] \in Range(staged)
  BY DEF TypeOK, Range
<1>3. QED
  BY <1>1, <1>2 DEF Free

USE DEF IInv, TypeOK, LockIsHeld, KeepToTheirPlaces, HoldersKnow, OpenedIsPublished,
        StagedByPlace, NamesDiffer, ReportsAreIndexed, CandidateIsNamed,
        PublishedGraphIsComplete, PublicationIsUndisturbed, OpensNeverFail, FewOnceOpened, ServesThePublished

(* ---- Steps that touch no file ---- *)

(* A process is started, ends or changes what it waits for: neither the publication,
   a file nor a name is written, and the lock at most released by its holder. *)
LEMMA QuietKeeps ==
  ASSUME IInv,
         \/ Boot \/ RequestRebuild \/ RestartStore \/ RuntimeDies
         \/ \E w \in Workers : StartAnalysis(w)
         \/ \E k \in Indexers : StartIndexing(k) \/ EndIndexing(k)
         \/ \E p \in Workers \cup Indexers : OrphanExits(p) \/ Die(p)
  PROVE  IInv'
<1>1. CASE Boot
  BY <1>1 DEF Boot
<1>2. CASE RequestRebuild
  BY <1>2 DEF RequestRebuild, Responsive
<1>3. CASE RestartStore
  BY <1>3 DEF RestartStore
<1>4. CASE RuntimeDies
  BY <1>4 DEF RuntimeDies
<1>5. ASSUME NEW w \in Workers, StartAnalysis(w)
      PROVE  IInv'
  BY <1>5 DEF StartAnalysis, Responsive
<1>6. ASSUME NEW k \in Indexers, StartIndexing(k)
      PROVE  IInv'
  BY <1>6 DEF StartIndexing
<1>7. ASSUME NEW k \in Indexers, EndIndexing(k)
      PROVE  IInv'
  BY <1>7 DEF EndIndexing
<1>8. ASSUME NEW p \in Workers \cup Indexers, OrphanExits(p)
      PROVE  IInv'
  BY <1>8 DEF OrphanExits
<1>9. ASSUME NEW p \in Workers \cup Indexers, Die(p)
      PROVE  IInv'
  BY <1>9 DEF Die
<1>10. QED
  BY <1>1, <1>2, <1>3, <1>4, <1>5, <1>6, <1>7, <1>8, <1>9

(* ---- Opening a store ---- *)

(* The published file has its schema, so that opening it cannot fail; the file of the
   very first opening is new, and the opener holds the lock. *)
LEMMA OpenKeeps ==
  ASSUME IInv, NEW p \in Processes, Open(p)
  PROVE  IInv'
<1> USE DEF Open
<1>1. CASE OpenActive(p)
  BY <1>1 DEF OpenActive
<1>2. ASSUME OpenFirst(p)
      PROVE  IInv'
  <2>1. p \notin Workers
    BY <1>2 DEF OpenFirst
  <2>2. PICK g \in Generations :
          /\ g # candidate /\ \A w \in Workers : staged[w] # g
          /\ files' = [files EXCEPT ![g] = "partial"]
          /\ Hold(p, g) /\ Go(p, "creating") /\ publication = None /\ UNCHANGED publication
    BY <1>2, <2>1, NewName DEF OpenFirst
  <2>3. TypeOK' /\ LockIsHeld' /\ KeepToTheirPlaces' /\ HoldersKnow' /\ OpenedIsPublished'
    BY <2>1, <2>2
  <2>4. StagedByPlace' /\ NamesDiffer' /\ ReportsAreIndexed' /\ CandidateIsNamed' /\ ServesThePublished'
    BY <2>1, <2>2
  <2>5. PublishedGraphIsComplete' /\ PublicationIsUndisturbed' /\ OpensNeverFail' /\ FewOnceOpened'
    BY <2>1, <2>2
  <2>6. QED
    BY <2>3, <2>4, <2>5
<1>3. QED
  BY <1>1, <1>2 DEF Open

LEMMA InitializeGraphKeeps ==
  ASSUME IInv, NEW p \in Processes, InitializeGraph(p)
  PROVE  IInv'
BY DEF InitializeGraph

LEMMA RecordInitialKeeps ==
  ASSUME IInv, NEW p \in Processes, RecordInitial(p)
  PROVE  IInv'
BY DEF RecordInitial

(* The cleanup spares the file that the publication names, because what its holder read
   is still true; it spares the candidate of a publication in progress, because that
   holds the lock. *)
LEMMA RemoveInactiveKeeps ==
  ASSUME IInv, NEW p \in Processes, RemoveInactive(p)
  PROVE  IInv'
<1>1. PICK g \in Generations \ {active[p]} : files' = [files EXCEPT ![g] = "absent"]
  BY DEF RemoveInactive
<1>2. lock = p /\ publication # None /\ active[p] = publication.generation
  BY DEF RemoveInactive
<1>3. TypeOK' /\ LockIsHeld' /\ KeepToTheirPlaces' /\ HoldersKnow' /\ OpenedIsPublished'
  BY <1>1, <1>2 DEF RemoveInactive
<1>4. StagedByPlace' /\ NamesDiffer' /\ ReportsAreIndexed' /\ CandidateIsNamed' /\ ServesThePublished'
  <2>1. StagedByPlace'
    BY <1>1, <1>2 DEF RemoveInactive
  <2>2. NamesDiffer' /\ ReportsAreIndexed' /\ CandidateIsNamed' /\ ServesThePublished'
    BY <1>1, <1>2 DEF RemoveInactive
  <2>3. QED
    BY <2>1, <2>2
<1>5. PublishedGraphIsComplete' /\ PublicationIsUndisturbed' /\ OpensNeverFail'
  BY <1>1, <1>2 DEF RemoveInactive
<1>6. FewOnceOpened'
  BY <1>1, <1>2 DEF RemoveInactive
<1>7. QED
  BY <1>3, <1>4, <1>5, <1>6

(* The runtime serves what it has read, and nothing else is left on disk. *)
LEMMA OpenedKeeps ==
  ASSUME IInv, NEW p \in Processes, Opened(p)
  PROVE  IInv'
BY DEF Opened, Serve, Cleaned

(* ---- Staging a generation ---- *)

LEMMA ReportUnchangedKeeps ==
  ASSUME IInv, NEW w \in Workers, ReportUnchanged(w)
  PROVE  IInv'
BY DEF ReportUnchanged

LEMMA StageKeeps ==
  ASSUME IInv, NEW w \in Workers, Stage(w)
  PROVE  IInv'
BY DEF Stage

(* The copy begins under a new name, when all but the published file are gone. *)
LEMMA StartCopyKeeps ==
  ASSUME IInv, NEW w \in Workers, StartCopy(w)
  PROVE  IInv'
<1>1. PICK g \in Unused : files' = [files EXCEPT ![g] = "partial"] /\ staged' = [staged EXCEPT ![w] = g]
  BY DEF StartCopy
<1>2. g \in Generations /\ ~Present(g) /\ g # candidate /\ \A v \in Workers : staged[v] # g
  BY NewName
<1>3. lock = w /\ publication # None /\ active[w] = publication.generation
  BY DEF StartCopy
<1>4. TypeOK' /\ LockIsHeld' /\ KeepToTheirPlaces' /\ HoldersKnow' /\ OpenedIsPublished'
  BY <1>1, <1>2, <1>3 DEF StartCopy
<1>5. StagedByPlace' /\ NamesDiffer'
  BY <1>1, <1>2, <1>3 DEF StartCopy
<1>6. ReportsAreIndexed' /\ CandidateIsNamed' /\ ServesThePublished'
  BY <1>1, <1>2, <1>3 DEF StartCopy
<1>7. PublishedGraphIsComplete' /\ PublicationIsUndisturbed' /\ OpensNeverFail'
  BY <1>1, <1>2, <1>3 DEF StartCopy
<1>8. Few'
  BY <1>1, <1>2, <1>3 DEF StartCopy, Cleaned
<1>9. QED
  BY <1>4, <1>5, <1>6, <1>7, <1>8 DEF FewOnceOpened

LEMMA EndCopyKeeps ==
  ASSUME IInv, NEW w \in Workers, EndCopy(w)
  PROVE  IInv'
<1>1. lock = w /\ staged[w] \in Generations /\ files[staged[w]] = "partial"
  BY DEF EndCopy
<1>2. TypeOK' /\ LockIsHeld' /\ KeepToTheirPlaces' /\ HoldersKnow' /\ OpenedIsPublished'
  BY <1>1 DEF EndCopy
<1>3. StagedByPlace' /\ NamesDiffer' /\ ReportsAreIndexed' /\ CandidateIsNamed' /\ ServesThePublished'
  BY <1>1 DEF EndCopy
<1>4. PublishedGraphIsComplete' /\ PublicationIsUndisturbed' /\ OpensNeverFail'
  BY <1>1 DEF EndCopy
<1>5. FewOnceOpened'
  BY <1>1 DEF EndCopy
<1>6. QED
  BY <1>2, <1>3, <1>4, <1>5

(* The index is complete, or the file has been removed and stays so. *)
LEMMA IndexKeeps ==
  ASSUME IInv, NEW w \in Workers, Index(w)
  PROVE  IInv'
<1>1. staged[w] \in Generations
  BY DEF Index
<1>2. TypeOK' /\ LockIsHeld' /\ KeepToTheirPlaces' /\ HoldersKnow' /\ OpenedIsPublished'
  BY <1>1 DEF Index
<1>3. StagedByPlace' /\ NamesDiffer' /\ ReportsAreIndexed' /\ CandidateIsNamed' /\ ServesThePublished'
  BY <1>1 DEF Index
<1>4. PublishedGraphIsComplete' /\ PublicationIsUndisturbed' /\ OpensNeverFail'
  BY <1>1 DEF Index
<1>5. FewOnceOpened'
  BY <1>1 DEF Index
<1>6. QED
  BY <1>2, <1>3, <1>4, <1>5

(* ---- Publishing it ---- *)

(* What a worker reported becomes the candidate, and is no worker's any more. *)
LEMMA CollectResultKeeps ==
  ASSUME IInv, NEW w \in Workers, CollectResult(w)
  PROVE  IInv'
BY DEF CollectResult, Responsive

LEMMA DiscardKeeps ==
  ASSUME IInv, Discard
  PROVE  IInv'
BY DEF Discard, Responsive

(* The revision rises only where a change was observed, and the generation stays. *)
LEMMA PublishUnchangedKeeps ==
  ASSUME IInv, PublishUnchanged
  PROVE  IInv'
<1>1. publication # None /\ publication' # None /\ publication'.generation = publication.generation
  BY DEF PublishUnchanged
<1>2. publication'.revision > 1 => publication.revision > 1 \/ observed > 0
  BY DEF PublishUnchanged
<1>3. TypeOK' /\ LockIsHeld' /\ KeepToTheirPlaces' /\ HoldersKnow' /\ OpenedIsPublished'
  BY <1>1 DEF PublishUnchanged, Settle
<1>4. StagedByPlace' /\ NamesDiffer' /\ ReportsAreIndexed' /\ CandidateIsNamed' /\ ServesThePublished'
  BY <1>1 DEF PublishUnchanged, Settle
<1>5. PublishedGraphIsComplete' /\ PublicationIsUndisturbed' /\ OpensNeverFail'
  BY <1>1 DEF PublishUnchanged, Settle
<1>6. FewOnceOpened'
  BY <1>1, <1>2 DEF PublishUnchanged, Settle
<1>7. QED
  BY <1>3, <1>4, <1>5, <1>6

(* A candidate that has its schema has its index, and while the runtime holds the lock
   nobody removes it. *)
LEMMA LockForPublicationKeeps ==
  ASSUME IInv, LockForPublication
  PROVE  IInv'
BY DEF LockForPublication, Settle

LEMMA CommitKeeps ==
  ASSUME IInv, Commit
  PROVE  IInv'
<1>1. lock = Runtime /\ candidate \in Generations /\ files[candidate] = "complete"
  BY DEF Commit
<1>2. publication # None /\ UNCHANGED <<files, observed>>
  BY DEF Commit
<1>3. TypeOK' /\ LockIsHeld' /\ KeepToTheirPlaces' /\ HoldersKnow' /\ OpenedIsPublished'
  BY <1>1, <1>2 DEF Commit, Settle
<1>4. StagedByPlace' /\ NamesDiffer' /\ ReportsAreIndexed' /\ CandidateIsNamed' /\ ServesThePublished'
  BY <1>1, <1>2 DEF Commit, Settle
<1>5. PublishedGraphIsComplete' /\ PublicationIsUndisturbed' /\ OpensNeverFail'
  BY <1>1, <1>2 DEF Commit, Settle
<1>6. publication' = publication \/ observed > 0
  BY <1>2 DEF Commit
<1>7. FewOnceOpened'
  BY <1>2, <1>6
<1>8. QED
  BY <1>3, <1>4, <1>5, <1>7

LEMMA CommitFailsKeeps ==
  ASSUME IInv, CommitFails
  PROVE  IInv'
BY DEF CommitFails, Settle

LEMMA SwapGraphKeeps ==
  ASSUME IInv, SwapGraph
  PROVE  IInv'
BY DEF SwapGraph, Settle

(* ---- The invariant and what follows ---- *)

LEMMA StutterKeeps ==
  ASSUME IInv, UNCHANGED vars
  PROVE  IInv'
BY DEF vars

HIDE DEF IInv, TypeOK, LockIsHeld, KeepToTheirPlaces, HoldersKnow, OpenedIsPublished,
         StagedByPlace, NamesDiffer, ReportsAreIndexed, CandidateIsNamed,
         PublishedGraphIsComplete, PublicationIsUndisturbed, OpensNeverFail, FewOnceOpened, ServesThePublished

LEMMA Inductive == IInv /\ [Next]_vars => IInv'
<1> SUFFICES ASSUME IInv, [Next]_vars
             PROVE  IInv'
  OBVIOUS
<1>1. CASE UNCHANGED vars
  BY <1>1, StutterKeeps
<1>2. ASSUME NEW p \in Processes,
             Open(p) \/ InitializeGraph(p) \/ RecordInitial(p) \/ RemoveInactive(p) \/ Opened(p)
      PROVE  IInv'
  BY <1>2, OpenKeeps, InitializeGraphKeeps, RecordInitialKeeps, RemoveInactiveKeeps, OpenedKeeps
<1>3. ASSUME NEW w \in Workers,
             \/ ReportUnchanged(w) \/ Stage(w) \/ StartCopy(w) \/ EndCopy(w) \/ Index(w)
             \/ CollectResult(w)
      PROVE  IInv'
  BY <1>3, ReportUnchangedKeeps, StageKeeps, StartCopyKeeps, EndCopyKeeps, IndexKeeps,
     CollectResultKeeps
<1>4. CASE Discard \/ PublishUnchanged \/ LockForPublication \/ Commit \/ CommitFails \/ SwapGraph
  BY <1>4, DiscardKeeps, PublishUnchangedKeeps, LockForPublicationKeeps, CommitKeeps,
     CommitFailsKeeps, SwapGraphKeeps
<1>5. QED
  BY <1>1, <1>2, <1>3, <1>4, QuietKeeps DEF Next

LEMMA AlwaysIInv == Spec => []IInv
<1>1. QED
  BY Initially, Inductive, PTL DEF Spec

(* Every variable of the publication keeps its type, for every set of processes. *)
THEOREM TypeCorrect == Spec => []TypeOK
<1>1. IInv => TypeOK
  BY DEF IInv
<1>2. QED
  BY <1>1, AlwaysIInv, PTL

(* The generation that the publication row names is on disk and whole, whichever
   processes open, stage, clean, publish and die, and wherever they do. *)
THEOREM PublishedGraphStaysComplete == Spec => []PublishedGraphIsComplete
<1>1. IInv => PublishedGraphIsComplete
  BY DEF IInv
<1>2. QED
  BY <1>1, AlwaysIInv, PTL

(* From the moment the runtime has the lock until it serves the new generation, no
   cleanup removes the graph that it publishes. *)
THEOREM CandidateIsNotRemoved == Spec => []PublicationIsUndisturbed
<1>1. IInv => PublicationIsUndisturbed
  BY DEF IInv
<1>2. QED
  BY <1>1, AlwaysIInv, PTL

(* No opening and no staging meets a missing or unfinished generation, or none. *)
THEOREM OpeningAlwaysSucceeds == Spec => []OpensNeverFail
<1>1. IInv => OpensNeverFail
  BY DEF IInv
<1>2. QED
  BY <1>1, AlwaysIInv, PTL

(* An open runtime reads the generation that the publication row names, and so a whole
   one, however often the store was restarted, indexed or opened by others. *)
THEOREM RuntimeServesWhatIsPublished == Spec => []ServesThePublished
<1>1. IInv => ServesThePublished
  BY DEF IInv
<1>2. QED
  BY <1>1, AlwaysIInv, PTL

(* A set with at most two members has at most two members, however it is named. *)
LEMMA PairIsSmall ==
  ASSUME NEW S, NEW x, NEW y, S \subseteq {x, y}
  PROVE  Cardinality(S) <= 2
<1>1. IsFiniteSet({x}) /\ Cardinality({x}) = 1
  BY FS_Singleton
<1>2. IsFiniteSet({x} \cup {y}) /\ Cardinality({x} \cup {y}) \in {1, 2}
  BY <1>1, FS_AddElement
<1>3. {x} \cup {y} = {x, y}
  OBVIOUS
<1>4. IsFiniteSet(S) /\ Cardinality(S) <= Cardinality({x, y}) /\ Cardinality(S) \in Nat
  BY <1>2, <1>3, FS_Subset, FS_CardinalityType
<1>5. QED
  BY <1>2, <1>3, <1>4

(* Orphans, deaths and restarts leave no more behind than one generation besides the
   published one, for any number of workers. *)
THEOREM GenerationsDoNotPileUp == Spec => []AtMostTwoGenerations
<1>1. ASSUME IInv, publication # None, publication.revision > 1
      PROVE  Cardinality({g \in Generations : Present(g)}) <= 2
  <2>1. PICK x, y \in Generations : \A g \in Generations : Present(g) => g \in {x, y}
    BY <1>1 DEF IInv, FewOnceOpened
  <2>2. {g \in Generations : Present(g)} \subseteq {x, y}
    BY <2>1
  <2>3. QED
    BY <2>2, PairIsSmall
<1>2. IInv => AtMostTwoGenerations
  BY <1>1 DEF AtMostTwoGenerations
<1>3. QED
  BY <1>2, AlwaysIInv, PTL
=============================================================================
