--------------------------- MODULE IntegrationProofs ---------------------------
(***************************************************************************)
(* Proofs about Integration, for every set of tasks and branches and every *)
(* bound.  The inductive invariant IInv says, beside the shape of the      *)
(* variables, what the rows promise (Rows), that a task's commit is on a   *)
(* branch only if MAR published it (OnBranch), and what the goroutine that *)
(* drives an attempt knows at each step (Local).                           *)
(***************************************************************************)
EXTENDS Integration, TLAPS

Shape ==
  /\ state \in [Tasks -> TaskStates \cup {"ABSENT"}]
  /\ cancelControl \in [Tasks -> BOOLEAN]
  /\ integration \in [Tasks -> IntegrationStates \cup {"NONE"}]
  /\ refs \in [Branches -> SUBSET Commits]
  /\ checkout \in [branch : Branches, index : SUBSET Commits, dirty : BOOLEAN]
  /\ tries \in [Tasks -> Nat] /\ ref \in [Tasks -> Branches]
  /\ driver \in [task : Tasks \cup {"none"}, pc : Steps \cup {"none"}, retry : BOOLEAN,
                 anchored : BOOLEAN, advanced : BOOLEAN, blind : BOOLEAN]

Rows ==
  \A t \in Tasks :
    /\ Quiescent(t) /\ (cancelControl[t] => state[t] = "CANCELLED")
    /\ integration[t] = "DISPATCHED" => state[t] = "INTEGRATING"
    /\ state[t] = "COMPLETE" => Noop(t) \/ t \in published
    /\ integration[t] = "DISPATCHED" /\ ~Noop(t) /\ t \notin published => Anchor(t) \in anchors

OnBranch == \A b \in Branches, t \in Tasks : t \in refs[b] => t \in published

UndispatchedSteps == {"ref", "head", "clean", "anchor", "dispatch", "discard", "unstage"}
SyncSteps         == {"sync", "match", "readtree", "confirm", "release", "finalize"}

(* What the driver of task t knows when its next step is pc.               *)
Knows(t, pc) ==
  /\ pc \in UndispatchedSteps => integration[t] # "DISPATCHED"
  /\ pc = "dispatch" => Noop(t) \/ Anchor(t) \in anchors
  /\ pc \in {"observe", "restage", "cas"} => state[t] = "INTEGRATING"
  /\ pc \in SyncSteps => Noop(t) \/ t \in published
  /\ \/ pc \in {"restage", "cas"}
     \/ pc = "block" /\ integration[t] = "DISPATCHED"
     => Noop(t) \/ Head(t) # Candidate(t)

Local == \A t \in Tasks : driver.task = t => Knows(t, driver.pc)

IInv == Shape /\ Rows /\ OnBranch /\ Local

DriverRecords == [task : Tasks \cup {"none"}, pc : Steps \cup {"none"}, retry : BOOLEAN,
                  anchored : BOOLEAN, advanced : BOOLEAN, blind : BOOLEAN]

(* What the invariant says of rows and refs holds as long as they stay.    *)
LEMMA ReadsKeep ==
  ASSUME IInv, Reads, driver' \in DriverRecords, Local'
  PROVE  IInv'
<1>1. Shape'
  BY DEF IInv, Shape, Reads, storeVars, gitVars, rowVars, DriverRecords
<1>2. Rows' /\ OnBranch'
  BY DEF IInv, Rows, OnBranch, Reads, storeVars, gitVars, rowVars, Quiescent, OpenEpochs, Anchor
<1> QED
  BY <1>1, <1>2 DEF IInv

(* Every initial state satisfies the invariant.                            *)
LEMMA InitInv == ManagerInit => IInv
<1> SUFFICES ASSUME ManagerInit PROVE IInv
  OBVIOUS
<1> USE IntegrationAssumption, EpochAssumption DEF ManagerInit
<1>1. Shape
  BY DEF Shape, TaskStates, IntegrationStates, NoDriver, Base
<1>2. Rows
  BY DEF Rows, Quiescent, OpenEpochs, Epochs
<1>3. OnBranch
  BY DEF OnBranch, Base
<1>4. Local
  BY DEF Local, NoDriver
<1> QED
  BY <1>1, <1>2, <1>3, <1>4 DEF IInv

(* Returning and moving on keep the shape of the driver.                   *)
LEMMA DriverShape ==
  ASSUME Shape, NEW pc \in Steps, NEW t \in Tasks, NEW retry \in BOOLEAN
  PROVE  /\ NoDriver \in DriverRecords
         /\ Go(pc) => driver' \in DriverRecords /\ driver'.task = driver.task /\ driver'.pc = pc
         /\ Advanced => driver' \in DriverRecords /\ driver'.task = driver.task
                        /\ driver'.pc = "sync"
         /\ Drive(t, pc, retry) => driver' \in DriverRecords /\ driver'.task = t
                                   /\ driver'.pc = pc
<1>1. NoDriver \in DriverRecords
  BY DEF NoDriver, DriverRecords
<1>2. ASSUME Go(pc)
      PROVE  driver' \in DriverRecords /\ driver'.task = driver.task /\ driver'.pc = pc
  BY <1>2 DEF Shape, DriverRecords, Go
<1>3. ASSUME Advanced
      PROVE  driver' \in DriverRecords /\ driver'.task = driver.task /\ driver'.pc = "sync"
  BY <1>3 DEF Shape, DriverRecords, Advanced, Steps
<1>4. ASSUME Drive(t, pc, retry)
      PROVE  driver' \in DriverRecords /\ driver'.task = t /\ driver'.pc = pc
  BY <1>4 DEF NoDriver, DriverRecords, Drive
<1> QED
  BY <1>1, <1>2, <1>3, <1>4

(* A call that has returned knows nothing.                                 *)
LEMMA ReturnKeeps ==
  ASSUME IInv, NEW tolerated, Return(tolerated), Reads
  PROVE  IInv'
<1>1. driver' = NoDriver /\ Local'
  BY IntegrationAssumption DEF Return, Local, NoDriver
<1>2. driver' \in DriverRecords
  BY <1>1 DEF NoDriver, DriverRecords
<1> QED
  BY <1>1, <1>2, ReadsKeep

(* A step that only reads keeps the invariant if the driver knows what its *)
(* next step relies on.                                                    *)
LEMMA ReadKeeps ==
  ASSUME IInv, NEW t \in Tasks, NEW pc \in Steps, Reads,
         driver' \in DriverRecords, driver'.task = t, driver'.pc = pc, Knows(t, pc)
  PROVE  IInv'
<1>1. Knows(t, pc)'
  BY DEF Knows, Reads, storeVars, gitVars, rowVars, Head, Anchor
<1>2. Local'
  BY <1>1 DEF Local
<1> QED
  BY <1>2, ReadsKeep

(* The same, for a step that only moves on.                                *)
LEMMA GoKeeps ==
  ASSUME IInv, NEW t \in Tasks, NEW pc \in Steps, Reads, driver.task = t, Go(pc), Knows(t, pc)
  PROVE  IInv'
<1>1. driver' \in DriverRecords /\ driver'.task = t /\ driver'.pc = pc
  BY DriverShape DEF IInv
<1> QED
  BY <1>1, ReadKeeps

(* The steps of a call that only read, or fail, keep the invariant.        *)
LEMMA ReadingStep ==
  ASSUME IInv, NEW t \in Tasks,
         \/ Inspect(t) \/ StoreConflict(t) \/ CheckRef(t) \/ CheckHead(t) \/ CheckClean(t)
         \/ DispatchLost(t) \/ Observe(t) \/ Reconcile(t) \/ Sync(t) \/ Match(t) \/ Confirm(t)
         \/ EvidenceStale(t) \/ CallFails(t) \/ SyncFails(t)
  PROVE  IInv'
<1>0. Reads /\ driver.task = t /\ Knows(t, driver.pc)
  BY DEF Inspect, StoreConflict, CheckRef, CheckHead, CheckClean, Recheck, DispatchLost, Observe,
     Reconcile, Sync, Match, Confirm, EvidenceStale, CallFails, SyncFails, At, IInv, Local
<1> USE DEF Steps, UndispatchedSteps, SyncSteps
<1>1. CASE Inspect(t)
  <2>1. \E pc \in {"prepare", "refuse"} : Go(pc)
    BY <1>1 DEF Inspect
  <2>2. \A pc \in {"prepare", "refuse"} : Knows(t, pc)
    BY DEF Knows
  <2> QED
    BY <1>0, <2>1, <2>2, GoKeeps
<1>2. CASE StoreConflict(t)
  BY <1>0, <1>2, ReturnKeeps DEF StoreConflict
<1>3. CASE CheckRef(t) \/ CheckHead(t) \/ CheckClean(t)
  <2>1. \E pc \in Steps : Go(pc) /\ Knows(t, pc)
    BY <1>0, <1>3 DEF CheckRef, CheckHead, CheckClean, Recheck, Knows, At
  <2> QED
    BY <1>0, <2>1, GoKeeps
<1>4. CASE DispatchLost(t)
  <2>1. Knows(t, "unstage")
    BY <1>0, <1>4 DEF DispatchLost, At, Knows
  <2> QED
    BY <1>0, <1>4, <2>1, GoKeeps, ReturnKeeps DEF DispatchLost, LoseDispatch
<1>5. CASE Observe(t)
  <2>1. Head(t) = Candidate(t) => Noop(t) \/ t \in published
    BY DEF IInv, OnBranch, Shape, Head, Candidate, Noop
  <2>2. \E pc \in Steps : Go(pc) /\ Knows(t, pc)
    BY <1>0, <1>5, <2>1 DEF Observe, At, Knows, Noop
  <2> QED
    BY <1>0, <2>2, GoKeeps
<1>6. CASE Reconcile(t)
  <2>1. Head(t) = Candidate(t) => Noop(t) \/ t \in published
    BY DEF IInv, OnBranch, Shape, Head, Candidate, Noop
  <2>2. CASE Head(t) = Candidate(t) /\ Advanced
    <3>1. driver' \in DriverRecords /\ driver'.task = t /\ driver'.pc = "sync"
      BY <1>0, <2>2, DriverShape DEF IInv
    <3>2. Knows(t, "sync")
      BY <2>1, <2>2 DEF Knows
    <3> QED
      BY <1>0, <3>1, <3>2, ReadKeeps
  <2>3. CASE Head(t) # Candidate(t) /\ Go("block")
    <3>1. Knows(t, "block")
      BY <2>3 DEF Knows
    <3> QED
      BY <1>0, <2>3, <3>1, GoKeeps
  <2>4. CASE Return(FALSE)
    BY <1>0, <2>4, ReturnKeeps
  <2> QED
    BY <1>6, <2>2, <2>3, <2>4 DEF Reconcile
<1>7. CASE Sync(t)
  <2>1. \A pc \in {"release", "match"} : Knows(t, pc)
    BY <1>0, <1>7 DEF Sync, At, Knows
  <2> QED
    BY <1>0, <1>7, <2>1, GoKeeps DEF Sync
<1>8. CASE Match(t) \/ Confirm(t)
  <2>1. \A pc \in {"readtree", "release"} : Knows(t, pc)
    BY <1>0, <1>8 DEF Match, Confirm, At, Knows
  <2> QED
    BY <1>0, <1>8, <2>1, GoKeeps, ReturnKeeps DEF Match, Confirm
<1>9. CASE EvidenceStale(t)
  <2>1. Knows(t, "block")
    BY <1>0, <1>9 DEF EvidenceStale, At, Knows
  <2> QED
    BY <1>0, <1>9, <2>1, GoKeeps DEF EvidenceStale
<1>10. CASE CallFails(t)
  <2>1. CASE driver.pc \in {"head", "clean", "anchor", "restage"} /\ Go("block")
    <3>1. Knows(t, "block")
      BY <1>0, <2>1 DEF Knows
    <3> QED
      BY <1>0, <2>1, <3>1, GoKeeps
  <2>2. CASE driver.pc = "dispatch" /\ LoseDispatch
    <3>1. Knows(t, "unstage")
      BY <1>0, <2>2 DEF Knows
    <3> QED
      BY <1>0, <2>2, <3>1, GoKeeps, ReturnKeeps DEF LoseDispatch
  <2>3. CASE Go("refuse")
    <3>1. Knows(t, "refuse")
      BY DEF Knows
    <3> QED
      BY <1>0, <2>3, <3>1, GoKeeps
  <2>4. CASE Return(TRUE) \/ Return(FALSE)
    BY <1>0, <2>4, ReturnKeeps
  <2> QED
    BY <1>10, <2>1, <2>2, <2>3, <2>4 DEF CallFails
<1>11. CASE SyncFails(t)
  <2>1. CASE driver' = [driver EXCEPT !.pc = "release", !.blind = TRUE]
    <3>1. driver' \in DriverRecords /\ driver'.task = t /\ driver'.pc = "release"
      BY <1>0, <2>1 DEF IInv, Shape, DriverRecords
    <3>2. Knows(t, "release")
      BY <1>0, <1>11 DEF SyncFails, At, Knows
    <3> QED
      BY <1>0, <3>1, <3>2, ReadKeeps
  <2>2. CASE Return(FALSE)
    BY <1>0, <2>2, ReturnKeeps
  <2> QED
    BY <1>11, <2>1, <2>2 DEF SyncFails
<1> QED
  BY <1>1, <1>2, <1>3, <1>4, <1>5, <1>6, <1>7, <1>8, <1>9, <1>10, <1>11

(* The steps of a call that change the rows of its task keep the invariant.*)
LEMMA RowStep ==
  ASSUME IInv, NEW t \in Tasks,
         PrepareAttempt(t) \/ Refuse(t) \/ Dispatch(t) \/ Finalize(t) \/ Block(t)
  PROVE  IInv'
<1> USE DEF IInv, Shape, TaskStates, PreAttemptStates, TerminalStates, IntegrationStates
<1>0. Knows(t, driver.pc) /\ driver.task = t /\ driver \in DriverRecords
  BY DEF PrepareAttempt, Refuse, Dispatch, Finalize, Block, At, Local, DriverRecords
<1> USE DEF Steps, UndispatchedSteps, SyncSteps
<1>1. CASE PrepareAttempt(t)
  <2>1. /\ driver' \in DriverRecords /\ driver'.task = t /\ driver'.pc = "ref"
        /\ integration' = [integration EXCEPT ![t] = "PREPARED"]
        /\ state' = [state EXCEPT ![t] = "READY_TO_INTEGRATE"]
        /\ tries' = [tries EXCEPT ![t] = @ + 1]
        /\ state[t] \in {"VERIFIED", "BLOCKED"}
        /\ UNCHANGED <<authority, cancelControl, refs, checkout, anchors, ref, published>>
    BY <1>0, <1>1, DriverShape DEF PrepareAttempt, PrepareIntegrationAttempt,
       PrepareBlockedVerifiedIntegrationAttempt, Prepare, Move, gitVars
  <2>2. Shape'
    BY <2>1 DEF DriverRecords
  <2>3. Rows'
    BY <2>1 DEF Rows, Quiescent, OpenEpochs, Anchor
  <2>4. OnBranch' /\ Local'
    BY <2>1 DEF OnBranch, Local, Knows
  <2> QED
    BY <2>2, <2>3, <2>4
<1>2. CASE Refuse(t)
  <2>1. /\ driver' = NoDriver
        /\ state' \in [Tasks -> TaskStates \cup {"ABSENT"}]
        /\ \A u \in Tasks : \/ state'[u] = state[u]
                            \/ state'[u] = "BLOCKED" /\ state[u] = "VERIFIED"
        /\ UNCHANGED <<integration, authority, cancelControl, refs, checkout, anchors, ref,
                       tries, published>>
    <3>1. CASE driver.retry
      BY <1>2, <3>1 DEF Refuse, AcknowledgeBlockedVerifiedIntegrationRetry, gitVars, rowVars,
         Return
    <3>2. CASE ~driver.retry
      BY <1>2, <3>2 DEF Refuse, BlockVerifiedIntegration, Move, gitVars, rowVars, Return
    <3> QED
      BY <3>1, <3>2
  <2>2. Shape'
    BY <2>1, DriverShape DEF DriverRecords
  <2>3. Rows'
    BY <2>1 DEF Rows, Quiescent, OpenEpochs, Anchor
  <2>4. OnBranch' /\ Local'
    BY <2>1, IntegrationAssumption DEF OnBranch, Local, NoDriver
  <2> QED
    BY <2>2, <2>3, <2>4
<1>3. CASE Dispatch(t)
  <2>1. /\ driver' \in DriverRecords /\ driver'.task = t /\ driver'.pc = "observe"
        /\ integration' = [integration EXCEPT ![t] = "DISPATCHED"]
        /\ state' = [state EXCEPT ![t] = "INTEGRATING"] /\ state[t] = "READY_TO_INTEGRATE"
        /\ UNCHANGED <<authority, cancelControl, refs, checkout, anchors, ref, tries, published>>
    BY <1>0, <1>3, DriverShape DEF Dispatch, MarkIntegrationDispatched, Move, gitVars, rowVars
  <2>2. Noop(t) \/ Anchor(t) \in anchors
    BY <1>0, <1>3 DEF Dispatch, At, Knows
  <2>3. Shape'
    BY <2>1 DEF DriverRecords
  <2>4. Rows'
    BY <2>1, <2>2 DEF Rows, Quiescent, OpenEpochs, Anchor
  <2>5. OnBranch' /\ Local'
    BY <2>1 DEF OnBranch, Local, Knows
  <2> QED
    BY <2>3, <2>4, <2>5
<1>4. CASE Finalize(t)
  <2>1. /\ driver' = NoDriver
        /\ integration' = [integration EXCEPT ![t] = "COMPLETE"]
        /\ state' = [state EXCEPT ![t] = "COMPLETE"] /\ state[t] = "INTEGRATING"
        /\ UNCHANGED <<authority, cancelControl, refs, checkout, anchors, ref, tries, published>>
    BY <1>4 DEF Finalize, FinalizeIntegrationApplied, Move, gitVars, rowVars, Return
  <2>2. Noop(t) \/ t \in published
    BY <1>0, <1>4 DEF Finalize, At, Knows
  <2>3. Shape'
    BY <2>1, DriverShape DEF DriverRecords
  <2>4. Rows'
    BY <2>1, <2>2 DEF Rows, Quiescent, OpenEpochs, Anchor
  <2>5. OnBranch' /\ Local'
    BY <2>1, IntegrationAssumption DEF OnBranch, Local, NoDriver
  <2> QED
    BY <2>3, <2>4, <2>5
<1>5. CASE Block(t)
  <2>1. /\ driver' = NoDriver \/ (driver' \in DriverRecords /\ driver'.task = t
                                  /\ driver'.pc = "discard")
        /\ integration' = [integration EXCEPT ![t] = "BLOCKED"]
        /\ state' = [state EXCEPT ![t] = "BLOCKED"]
        /\ state[t] \in {"READY_TO_INTEGRATE", "INTEGRATING"}
        /\ UNCHANGED <<authority, cancelControl, refs, checkout, anchors, ref, tries, published>>
    BY <1>0, <1>5, DriverShape DEF Block, BlockIntegrationAttempt, Move, gitVars, rowVars, Return
  <2>2. Shape'
    BY <2>1, DriverShape DEF DriverRecords
  <2>3. Rows'
    BY <2>1 DEF Rows, Quiescent, OpenEpochs, Anchor
  <2>4. OnBranch' /\ Local'
    BY <2>1, IntegrationAssumption DEF OnBranch, Local, Knows, NoDriver
  <2> QED
    BY <2>2, <2>3, <2>4
<1> QED
  BY <1>1, <1>2, <1>3, <1>4, <1>5

(* The steps of a call that change private refs, branches or the owner's   *)
(* checkout keep the invariant.                                            *)
LEMMA GitStep ==
  ASSUME IInv, NEW t \in Tasks,
         \/ Stage(t) \/ Restage(t) \/ UpdateRef(t) \/ UpdateRefFails(t) \/ ReadTree(t)
         \/ Release(t) \/ Discard(t) \/ Unstage(t)
  PROVE  IInv'
<1> USE IntegrationAssumption DEF IInv, Shape
<1>0. /\ Knows(t, driver.pc) /\ driver.task = t /\ driver \in DriverRecords
      /\ UNCHANGED <<state, authority, cancelControl, integration, ref, tries>>
  BY DEF Stage, Restage, EnsureCandidateAnchor, UpdateRef, UpdateRefFails, ReadTree, Release,
     Discard, Unstage, DeleteCandidateAnchor, Advance, Reads, At, Local, DriverRecords, storeVars,
     rowVars
<1> USE DEF Steps, UndispatchedSteps, SyncSteps
<1>1. CASE Stage(t) \/ Restage(t)
  <2>1. /\ driver' = [driver EXCEPT !.pc = driver'.pc, !.anchored = TRUE]
        /\ \/ driver.pc = "anchor" /\ driver'.pc = "dispatch"
           \/ driver.pc = "restage" /\ driver'.pc = "cas"
        /\ anchors' = anchors \cup {Anchor(t)}
        /\ UNCHANGED <<refs, checkout, published>>
    BY <1>0, <1>1 DEF Stage, Restage, EnsureCandidateAnchor, At
  <2>2. Shape' /\ driver'.task = t
    BY <1>0, <2>1 DEF DriverRecords
  <2>3. Rows' /\ OnBranch'
    BY <1>0, <2>1 DEF Rows, OnBranch, Quiescent, OpenEpochs, Anchor
  <2>4. Local'
    BY <1>0, <2>1, <2>2 DEF Local, Knows, Anchor, Head
  <2> QED
    BY <2>2, <2>3, <2>4
<1>2. CASE UpdateRef(t) \/ UpdateRefFails(t)
  <2>1. /\ UNCHANGED <<checkout, anchors>>
        /\ \/ UNCHANGED <<refs, published>>
           \/ /\ refs' = [refs EXCEPT ![ref[t]] = Candidate(t)]
              /\ published' = published \cup {t}
    BY <1>2 DEF UpdateRef, UpdateRefFails, Advance, Reads, gitVars
  <2>2. /\ driver' \in DriverRecords /\ driver'.task = t
        /\ \/ driver'.pc = "reconcile"
           \/ driver'.pc = "sync" /\ t \in published'
    BY <1>0, <1>2, DriverShape DEF UpdateRef, UpdateRefFails, Advance
  <2>3. Candidate(t) \subseteq {t} /\ Candidate(t) \in SUBSET Commits
    BY DEF Candidate, Base, Commits
  <2>4. Shape'
    BY <1>0, <2>1, <2>2, <2>3 DEF DriverRecords
  <2>5. Rows' /\ OnBranch'
    BY <1>0, <2>1, <2>3 DEF Rows, OnBranch, Quiescent, OpenEpochs, Anchor
  <2>6. Local'
    BY <1>0, <2>2 DEF Local, Knows
  <2> QED
    BY <2>4, <2>5, <2>6
<1>3. CASE ReadTree(t)
  <2>1. /\ checkout' \in [branch : Branches, index : SUBSET Commits, dirty : BOOLEAN]
        /\ UNCHANGED <<refs, anchors, published>>
    <3>1. Candidate(t) \subseteq Commits
      BY DEF Candidate, Base, Commits
    <3>2. \/ UNCHANGED checkout
          \/ checkout' = [checkout EXCEPT !.index = checkout.index \cup Candidate(t)]
      BY <1>3 DEF ReadTree
    <3> QED
      BY <1>3, <3>1, <3>2 DEF ReadTree
  <2>2. \/ driver' = NoDriver
        \/ driver' \in DriverRecords /\ driver'.task = t /\ driver'.pc = "confirm"
    BY <1>0, <1>3, DriverShape DEF ReadTree, Return
  <2>3. Noop(t) \/ t \in published
    BY <1>0, <1>3 DEF ReadTree, At, Knows
  <2>4. Shape'
    BY <1>0, <2>1, <2>2, DriverShape DEF DriverRecords
  <2>5. Rows' /\ OnBranch' /\ Local'
    BY <1>0, <2>1, <2>2, <2>3 DEF Rows, OnBranch, Local, Knows, Quiescent, OpenEpochs, Anchor,
       NoDriver
  <2> QED
    BY <2>4, <2>5
<1>4. CASE Release(t) \/ Discard(t) \/ Unstage(t)
  <2>1. anchors' = anchors \ {Anchor(t)} /\ UNCHANGED <<refs, checkout, published>>
    BY <1>4 DEF Release, Discard, Unstage, DeleteCandidateAnchor
  <2>2. \/ driver' = NoDriver
        \/ driver' \in DriverRecords /\ driver'.task = t /\ driver'.pc = "finalize"
           /\ driver.pc = "release"
    BY <1>0, <1>4, DriverShape DEF Release, Discard, Unstage, Return, At
  <2>3. integration[t] # "DISPATCHED" \/ Noop(t) \/ t \in published
    BY <1>0, <1>4 DEF Release, Discard, Unstage, At, Knows
  <2>4. Shape'
    BY <1>0, <2>1, <2>2, DriverShape DEF DriverRecords
  <2>5. Rows' /\ OnBranch'
    BY <1>0, <2>1, <2>3 DEF Rows, OnBranch, Quiescent, OpenEpochs, Anchor
  <2>6. Local'
    BY <1>0, <2>1, <2>2 DEF Local, Knows, NoDriver
  <2> QED
    BY <2>4, <2>5, <2>6
<1> QED
  BY <1>1, <1>2, <1>3, <1>4

(* The start of a call, the daemon and crashes keep the invariant.         *)
LEMMA ProcessStep ==
  ASSUME IInv,
         \/ \E t \in Tasks : Integrate(t) \/ RetryBlockedVerifiedIntegration(t) \/ RecoverPending(t)
         \/ Crash \/ DaemonStart \/ RecoverPendingDone
  PROVE  IInv'
<1> USE IntegrationAssumption
<1>1. ASSUME NEW t \in Tasks, NEW retry \in BOOLEAN, Begin(t, retry)
      PROVE  IInv'
  <2>1. /\ driver' \in DriverRecords /\ driver'.task = t /\ driver'.pc = "inspect"
        /\ ref' = [ref EXCEPT ![t] = checkout.branch]
        /\ UNCHANGED <<state, authority, cancelControl, integration, refs, checkout, anchors, tries,
                       published>>
    BY <1>1, DriverShape DEF Begin, IInv, Steps, storeVars, gitVars
  <2>2. Shape'
    BY <2>1 DEF IInv, Shape, DriverRecords
  <2>3. Rows' /\ OnBranch' /\ Local'
    BY <2>1 DEF IInv, Rows, OnBranch, Local, Knows, Quiescent, OpenEpochs, Anchor,
       UndispatchedSteps, SyncSteps
  <2> QED
    BY <2>2, <2>3 DEF IInv
<1>2. ASSUME NEW t \in Tasks, RecoverPending(t)
      PROVE  IInv'
  <2>1. CASE integration[t] = "PREPARED"
    <3>1. Drive(t, "ref", FALSE) /\ Reads
      BY <1>2, <2>1 DEF RecoverPending
    <3>2. Knows(t, "ref")
      BY <2>1 DEF Knows, UndispatchedSteps, SyncSteps
    <3>3. driver' \in DriverRecords /\ driver'.task = t /\ driver'.pc = "ref"
      BY <3>1, DriverShape DEF IInv, Steps
    <3> QED
      BY <3>1, <3>2, <3>3, ReadKeeps DEF Steps
  <2>2. CASE integration[t] = "DISPATCHED"
    <3>1. Drive(t, "observe", FALSE) /\ Reads
      BY <1>2, <2>2 DEF RecoverPending
    <3>2. Knows(t, "observe")
      BY <2>2 DEF IInv, Rows, Knows, UndispatchedSteps, SyncSteps
    <3>3. driver' \in DriverRecords /\ driver'.task = t /\ driver'.pc = "observe"
      BY <3>1, DriverShape DEF IInv, Steps
    <3> QED
      BY <3>1, <3>2, <3>3, ReadKeeps DEF Steps
  <2> QED
    BY <1>2, <2>1, <2>2 DEF RecoverPending, Open
<1>3. CASE Crash
  <2>1. Reads /\ driver' = NoDriver
    BY <1>3 DEF Crash
  <2>2. driver' \in DriverRecords /\ Local'
    BY <2>1 DEF NoDriver, DriverRecords, Local
  <2> QED
    BY <2>1, <2>2, ReadsKeep
<1>4. CASE DaemonStart \/ RecoverPendingDone
  <2>1. Reads /\ UNCHANGED driver
    BY <1>4 DEF DaemonStart, RecoverPendingDone
  <2>2. driver' \in DriverRecords /\ Local'
    BY <2>1 DEF IInv, Shape, DriverRecords, Local, Knows, Reads, storeVars, gitVars, rowVars,
       Anchor, Head
  <2> QED
    BY <2>1, <2>2, ReadsKeep
<1> QED
  BY <1>1, <1>2, <1>3, <1>4 DEF Integrate, RetryBlockedVerifiedIntegration

(* Whatever the owner does keeps the invariant: no command of theirs puts  *)
(* a task's commit on a branch, or a branch at a task's candidate.         *)
LEMMA OwnerStep ==
  ASSUME IInv, Edit \/ Commit \/ Reset \/ Switch \/ \E t \in Tasks : OwnerControl(t)
  PROVE  IInv'
<1> USE IntegrationAssumption DEF IInv
<1>1. CASE Edit \/ Commit \/ Reset \/ Switch
  <2>1. /\ UNCHANGED <<state, authority, cancelControl, integration, anchors, ref, tries, driver,
                       published>>
        /\ checkout' \in [branch : Branches, index : SUBSET Commits, dirty : BOOLEAN]
        /\ \/ UNCHANGED refs
           \/ \E b \in Branches : \/ refs' = [refs EXCEPT ![b] = refs[b] \cup {"owner"}]
                                  \/ refs' = [refs EXCEPT ![b] = Base]
    <3>1. CASE Edit \/ Switch
      <4>1. CASE Edit
        BY <4>1 DEF Shape, Edit, OwnerGit, storeVars, rowVars
      <4>2. CASE Switch
        <5>1. PICK b \in Branches :
                checkout' = [checkout EXCEPT !.branch = b, !.index = refs[b]]
          BY <4>2 DEF Switch
        <5>2. checkout' \in [branch : Branches, index : SUBSET Commits, dirty : BOOLEAN]
          BY <5>1 DEF Shape
        <5> QED
          BY <4>2, <5>2 DEF Switch, OwnerGit, storeVars, rowVars
      <4> QED
        BY <3>1, <4>1, <4>2
    <3>2. CASE Commit
      BY <3>2 DEF Shape, Commit, Commits, OwnerGit, storeVars, rowVars
    <3>3. CASE Reset
      <4>1. PICK head \in {refs[checkout.branch], Base} :
              /\ refs' = [refs EXCEPT ![checkout.branch] = head]
              /\ checkout' = [checkout EXCEPT !.index = head, !.dirty = FALSE]
        BY <3>3 DEF Reset
      <4>2. head \in SUBSET Commits /\ checkout.branch \in Branches
        BY DEF Shape, Base
      <4>3. checkout' \in [branch : Branches, index : SUBSET Commits, dirty : BOOLEAN]
        BY <4>1, <4>2 DEF Shape
      <4>4. UNCHANGED refs \/ refs' = [refs EXCEPT ![checkout.branch] = Base]
        BY <4>1, <4>2 DEF Shape
      <4> QED
        BY <3>3, <4>2, <4>3, <4>4 DEF Reset, OwnerGit, storeVars, rowVars
    <3> QED
      BY <1>1, <3>1, <3>2, <3>3
  <2>2. Shape'
    BY <2>1 DEF Shape, Commits, Base
  <2>3. Rows' /\ OnBranch'
    BY <2>1 DEF Shape, Rows, OnBranch, Quiescent, OpenEpochs, Anchor, Base
  <2>4. ASSUME NEW t \in Tasks PROVE Noop(t) \/ Head(t) # Candidate(t) =>
                                     (Noop(t) \/ Head(t) # Candidate(t))'
    BY <2>1 DEF Shape, Head, Candidate, Noop, Base
  <2>5. Local'
    BY <2>1, <2>4 DEF Local, Knows, Anchor
  <2> QED
    BY <2>2, <2>3, <2>5
<1>2. ASSUME NEW t \in Tasks, OwnerControl(t)
      PROVE  IInv'
  <2>1. /\ UNCHANGED <<integration, refs, checkout, anchors, ref, tries, driver, published>>
        /\ authority' = authority
        /\ \/ UNCHANGED <<state, cancelControl>>
           \/ /\ state' = [state EXCEPT ![t] = "CANCELLED"]
              /\ cancelControl' = [cancelControl EXCEPT ![t] = TRUE]
              /\ state[t] \notin {"COMPLETE", "INTEGRATING"}
    BY <1>2 DEF OwnerControl, RequestTaskCancellation, Steer, Move, Rows, gitVars, rowVars,
       TerminalStates
  <2>2. Shape'
    BY <2>1 DEF Shape, TaskStates, TerminalStates
  <2>3. Rows' /\ OnBranch'
    BY <2>1 DEF Shape, Rows, OnBranch, Quiescent, OpenEpochs, Anchor
  <2>4. Local'
    BY <2>1 DEF Shape, Local, Knows, Anchor, Head
  <2> QED
    BY <2>2, <2>3, <2>4
<1> QED
  BY <1>1, <1>2

(* The invariant is inductive.                                             *)
LEMMA NextInv == IInv /\ [ManagerNext]_intVars => IInv'
<1> SUFFICES ASSUME IInv, [ManagerNext]_intVars PROVE IInv'
  OBVIOUS
<1>1. CASE ManagerNext
  BY <1>1, ReadingStep, RowStep, GitStep, ProcessStep, OwnerStep DEF ManagerNext, DriverStep
<1>2. CASE UNCHANGED intVars
  BY <1>2 DEF intVars, storeVars, gitVars, daemonVars, rowVars, IInv, Shape, Rows, OnBranch, Local,
     Knows, Quiescent, OpenEpochs, Anchor, Head
<1> QED
  BY <1>1, <1>2

(* Every reachable state satisfies the invariant.                          *)
THEOREM ManagerInvariant == ManagerSpec => []IInv
  BY InitInv, NextInv, PTL DEF ManagerSpec

(* A task is reported COMPLETE only if its candidate was published         *)
(* (driveAttempt finalizes only after it has seen or moved the branch).    *)
THEOREM CompletionIsPublication == ManagerSpec => []CompletePublished
<1>1. IInv => CompletePublished
  BY DEF IInv, Rows, CompletePublished
<1> QED
  BY <1>1, ManagerInvariant, PTL

(* A dispatched candidate stays anchored until it is published             *)
(* (ensureCandidateAnchor comes before the dispatch, deletion after).      *)
THEOREM DispatchIsAnchored == ManagerSpec => []AnchoredUntilPublished
<1>1. IInv => AnchoredUntilPublished
  BY DEF IInv, Rows, AnchoredUntilPublished
<1> QED
  BY <1>1, ManagerInvariant, PTL

Publishes(t)    == At(t, "cas") /\ Head(t) = Base /\ Advance(t)
Synchronises(t) == checkout' = [checkout EXCEPT !.index = checkout.index \cup Candidate(t)]

(* Which steps of MAR move a branch, change the checkout, block an attempt.*)
LEMMA Effects ==
  ASSUME IInv, ManagerNext
  PROVE  /\ refs' # refs /\ driver' # driver => \E t \in Tasks : Publishes(t)
         /\ checkout' # checkout /\ driver' # driver => \E t \in Tasks : Synchronises(t)
         /\ \A t \in Tasks : integration[t] = "DISPATCHED" /\ integration'[t] = "BLOCKED"
                             => At(t, "block")
         /\ \A t \in Tasks : integration[t] = "DISPATCHED" /\ integration'[t] = "COMPLETE"
                             => At(t, "finalize")
<1> USE DEF storeVars, gitVars, rowVars, daemonVars, Reads
<1>1. ASSUME NEW t \in Tasks,
             \/ Inspect(t) \/ StoreConflict(t) \/ CheckRef(t) \/ CheckHead(t) \/ CheckClean(t)
             \/ DispatchLost(t) \/ Observe(t) \/ Reconcile(t) \/ Sync(t) \/ Match(t) \/ Confirm(t)
             \/ EvidenceStale(t) \/ CallFails(t) \/ SyncFails(t) \/ RecoverPending(t)
      PROVE  UNCHANGED <<refs, checkout, integration>>
  BY <1>1 DEF Inspect, StoreConflict, CheckRef, CheckHead, CheckClean, Recheck, DispatchLost,
     Observe, Reconcile, Sync, Match, Confirm, EvidenceStale, CallFails, SyncFails, RecoverPending
<1>2. ASSUME NEW t \in Tasks,
             PrepareAttempt(t) \/ Refuse(t) \/ Dispatch(t) \/ Finalize(t) \/ Block(t)
      PROVE  /\ UNCHANGED <<refs, checkout>>
             /\ \A u \in Tasks : integration[u] = "DISPATCHED" /\ integration'[u] = "BLOCKED"
                                 => At(u, "block")
             /\ \A u \in Tasks : integration[u] = "DISPATCHED" /\ integration'[u] = "COMPLETE"
                                 => At(u, "finalize")
  <2>1. UNCHANGED <<refs, checkout>>
    BY <1>2 DEF PrepareAttempt, Refuse, Dispatch, Finalize, Block
  <2>2. CASE Block(t)
    BY <2>1, <2>2 DEF IInv, Shape, Block, BlockIntegrationAttempt
  <2>3. CASE PrepareAttempt(t) \/ Refuse(t)
    BY <2>1, <2>3 DEF IInv, Shape, PrepareAttempt, Refuse, PrepareIntegrationAttempt,
       PrepareBlockedVerifiedIntegrationAttempt, Prepare, BlockVerifiedIntegration,
       AcknowledgeBlockedVerifiedIntegrationRetry
  <2>4. CASE Dispatch(t) \/ Finalize(t)
    BY <2>1, <2>4 DEF IInv, Shape, Dispatch, Finalize, MarkIntegrationDispatched,
       FinalizeIntegrationApplied
  <2> QED
    BY <1>2, <2>2, <2>3, <2>4
<1>3. ASSUME NEW t \in Tasks,
             \/ Stage(t) \/ Restage(t) \/ Release(t) \/ Discard(t) \/ Unstage(t)
             \/ Integrate(t) \/ RetryBlockedVerifiedIntegration(t)
      PROVE  UNCHANGED <<refs, checkout, integration>>
  BY <1>3 DEF Stage, Restage, EnsureCandidateAnchor, Release, Discard, Unstage,
     DeleteCandidateAnchor, Integrate, RetryBlockedVerifiedIntegration, Begin
<1>4. ASSUME NEW t \in Tasks, UpdateRef(t) \/ UpdateRefFails(t)
      PROVE  /\ UNCHANGED <<checkout, integration>>
             /\ refs' # refs => Publishes(t)
  BY <1>4 DEF UpdateRef, UpdateRefFails, Publishes, Advance
<1>5. ASSUME NEW t \in Tasks, ReadTree(t)
      PROVE  /\ UNCHANGED <<refs, integration>>
             /\ checkout' # checkout => Synchronises(t)
  BY <1>5 DEF ReadTree, Synchronises
<1>6. ASSUME NEW t \in Tasks, OwnerControl(t)
      PROVE  UNCHANGED <<refs, checkout, integration>>
  BY <1>6 DEF OwnerControl, RequestTaskCancellation, Steer
<1>7. ASSUME Edit \/ Commit \/ Reset \/ Switch
      PROVE  UNCHANGED <<driver, integration>>
  BY <1>7 DEF Edit, Commit, Reset, Switch, OwnerGit
<1>8. ASSUME Crash \/ DaemonStart \/ RecoverPendingDone
      PROVE  UNCHANGED <<refs, checkout, integration>>
  BY <1>8 DEF Crash, DaemonStart, RecoverPendingDone
<1>9. ASSUME NEW t \in Tasks, DriverStep(t)
      PROVE  /\ refs' # refs => Publishes(t)
             /\ checkout' # checkout => Synchronises(t)
             /\ \A u \in Tasks : integration[u] = "DISPATCHED" /\ integration'[u] = "BLOCKED"
                                 => At(u, "block")
             /\ \A u \in Tasks : integration[u] = "DISPATCHED" /\ integration'[u] = "COMPLETE"
                                 => At(u, "finalize")
  BY <1>1, <1>2, <1>3, <1>4, <1>5, <1>9 DEF DriverStep
<1> QED
  BY <1>1, <1>3, <1>6, <1>7, <1>9, <1>8 DEF ManagerNext

(* Publication never drops a commit from a branch (update-ref with the     *)
(* expected old value).                                                    *)
THEOREM PublicationKeepsCommits == ManagerSpec => PublishKeepsCommits
<1>1. IInv /\ ManagerNext => (driver' # driver => \A b \in Branches : refs[b] \subseteq refs'[b])
  BY Effects DEF Publishes, Advance, Head, Base, IInv, Shape
<1>2. IInv /\ [ManagerNext]_intVars =>
        [driver' # driver => \A b \in Branches : refs[b] \subseteq refs'[b]]_intVars
  BY <1>1
<1> QED
  BY <1>2, ManagerInvariant, PTL DEF ManagerSpec, PublishKeepsCommits

(* A branch is moved only for a task that is INTEGRATING and has no        *)
(* cancellation (MarkIntegrationDispatched comes first).                   *)
THEOREM PublicationIsDispatched == ManagerSpec => PublishOnlyIntegrating
<1> DEFINE A == \A b \in Branches : refs'[b] # refs[b] /\ driver' # driver =>
                  state[driver.task] = "INTEGRATING" /\ ~cancelControl[driver.task]
<1>1. IInv /\ ManagerNext => A
  BY Effects DEF Publishes, At, IInv, Shape, Local, Knows, Rows
<1>2. IInv /\ [ManagerNext]_intVars => [A]_intVars
  BY <1>1
<1> QED
  BY <1>2, ManagerInvariant, PTL DEF ManagerSpec, PublishOnlyIntegrating

(* An attempt whose candidate the branch holds is never blocked (the       *)
(* observed head decides after a failed update-ref).                       *)
THEOREM PublishedIsNotBlocked == ManagerSpec => PublishedNotBlocked
<1> DEFINE A == \A t \in Tasks : integration[t] = "DISPATCHED" /\ integration'[t] = "BLOCKED" =>
                  Noop(t) \/ Head(t) # Candidate(t)
<1>1. IInv /\ ManagerNext => A
  BY Effects DEF At, IInv, Local, Knows
<1>2. IInv /\ [ManagerNext]_intVars => [A]_intVars
  BY <1>1
<1> QED
  BY <1>2, ManagerInvariant, PTL DEF ManagerSpec, PublishedNotBlocked

(* No step of MAR discards the owner's edits or takes anything out of the  *)
(* checkout (two-tree read-tree, never a reset).                           *)
THEOREM OwnerWorkIsKept == ManagerSpec => OwnerWorkKept
<1> DEFINE A == driver' # driver => /\ checkout.dirty => checkout'.dirty
                                    /\ checkout.index \subseteq checkout'.index
<1>1. ASSUME IInv, ManagerNext PROVE A
  <2>1. CASE checkout' = checkout
    BY <2>1
  <2>2. CASE checkout' # checkout /\ driver' # driver
    <3>1. PICK t \in Tasks : Synchronises(t)
      BY <1>1, <2>2, Effects
    <3>2. /\ checkout'.dirty = checkout.dirty
          /\ checkout'.index = checkout.index \cup Candidate(t)
      BY <1>1, <3>1 DEF Synchronises, IInv, Shape
    <3> QED
      BY <3>2
  <2> QED
    BY <2>1, <2>2
<1>2. IInv /\ [ManagerNext]_intVars => [A]_intVars
  BY <1>1
<1> QED
  BY <1>2, ManagerInvariant, PTL DEF ManagerSpec, OwnerWorkKept

(* What the driver may rely on from the release of the private ref to the  *)
(* finalizing transaction, whatever the owner does to branch and checkout. *)
Released(t) == driver.task = t /\ driver.pc \in {"release", "finalize"}
Synced(t)   == \/ driver.blind \/ Noop(t) \/ checkout.branch # ref[t]
               \/ Head(t) # Candidate(t) \/ checkout.index # Base
InSync == \A t \in Tasks : Released(t) => Synced(t)

(* Every step of the owner that touches branch or checkout leaves the      *)
(* index at a branch it is on.                                             *)
LEMMA OwnerInSync ==
  ASSUME IInv, InSync, Edit \/ Commit \/ Reset \/ Switch
  PROVE  InSync'
<1> USE DEF IInv, Shape
<1> SUFFICES ASSUME NEW t \in Tasks, Released(t)' PROVE Synced(t)'
  BY DEF InSync
<1>1. UNCHANGED <<driver, ref>> /\ Synced(t)
  BY DEF Edit, Commit, Reset, Switch, OwnerGit, rowVars, Released, InSync
<1>2. CASE Edit
  BY <1>1, <1>2 DEF Edit, Synced, Head
<1>3. CASE Commit
  <2>1. checkout'.index # Base
    BY <1>3 DEF Commit, Base
  <2> QED
    BY <2>1 DEF Synced
<1>4. CASE Reset
  <2>1. checkout'.branch = checkout.branch /\ checkout'.index = refs'[checkout.branch]
    BY <1>4 DEF Reset, Base
  <2> QED
    BY <1>1, <2>1 DEF Synced, Head, Noop
<1>5. CASE Switch
  <2>1. PICK b \in Branches : checkout' = [checkout EXCEPT !.branch = b, !.index = refs[b]]
    BY <1>5 DEF Switch
  <2>2. checkout'.branch = b /\ checkout'.index = refs[b] /\ refs' = refs
    BY <1>5, <2>1 DEF Switch
  <2> QED
    BY <1>1, <2>2 DEF Synced, Head, Noop
<1> QED
  BY <1>2, <1>3, <1>4, <1>5

(* How a call comes to the release of the private ref, and past it.        *)
LEMMA DriverInSync ==
  ASSUME IInv, InSync, NEW t \in Tasks,
         Observe(t) \/ Sync(t) \/ SyncFails(t) \/ Confirm(t) \/ Release(t)
  PROVE  InSync'
<1> USE DEF IInv, Shape
<1>1. driver.task = t /\ UNCHANGED <<refs, checkout, ref>>
  BY DEF Observe, Sync, SyncFails, Confirm, Release, DeleteCandidateAnchor, At, Reads, gitVars,
     rowVars
<1>0. driver'.task \in {t, "none"}
  <2>1. CASE Observe(t) \/ Sync(t) \/ Release(t)
    BY <1>1, <2>1 DEF Observe, Sync, Release, Go
  <2>2. CASE SyncFails(t)
    <3>1. CASE driver' = [driver EXCEPT !.pc = "release", !.blind = TRUE]
      BY <1>1, <3>1
    <3>2. CASE driver' = NoDriver
      BY <3>2 DEF NoDriver
    <3> QED
      BY <2>2, <3>1, <3>2 DEF SyncFails, Return
  <2>3. CASE Confirm(t)
    BY <1>1, <2>3 DEF Confirm, Go, Return, NoDriver
  <2> QED
    BY <2>1, <2>2, <2>3
<1> SUFFICES ASSUME Released(t)' PROVE Synced(t)'
  BY <1>0, IntegrationAssumption DEF InSync, Released
<1>2. CASE Observe(t)
  <2>1. Noop(t)
    BY <1>2 DEF Observe, Go, Released
  <2> QED
    BY <2>1 DEF Synced, Noop
<1>3. CASE Sync(t)
  <2>1. checkout.branch # ref[t] \/ ProjectClean
    BY <1>3 DEF Sync, Go, Released
  <2> QED
    BY <1>1, <2>1 DEF ProjectClean, Synced, Head, Noop
<1>4. CASE SyncFails(t)
  <2>1. driver' = [driver EXCEPT !.pc = "release", !.blind = TRUE]
    BY <1>4 DEF SyncFails, Return, NoDriver, Released
  <2> QED
    BY <2>1 DEF Synced
<1>5. CASE Confirm(t)
  <2>1. ProjectClean
    BY <1>5 DEF Confirm, Return, NoDriver, Released
  <2> QED
    BY <1>1, <2>1 DEF ProjectClean, Synced, Head, Noop
<1>6. CASE Release(t)
  <2>1. Synced(t) /\ driver'.blind = driver.blind
    BY <1>6 DEF Release, At, Go, InSync, Released
  <2> QED
    BY <1>1, <2>1 DEF Synced, Head
<1> QED
  BY <1>2, <1>3, <1>4, <1>5, <1>6

(* All other steps of a call are before the release, or return.            *)
LEMMA OtherInSync ==
  ASSUME IInv, NEW t \in Tasks,
         \/ Integrate(t) \/ RetryBlockedVerifiedIntegration(t) \/ RecoverPending(t)
         \/ Inspect(t) \/ PrepareAttempt(t) \/ Refuse(t) \/ StoreConflict(t)
         \/ CheckRef(t) \/ CheckHead(t) \/ CheckClean(t) \/ Stage(t) \/ Dispatch(t) \/ DispatchLost(t)
         \/ Restage(t) \/ UpdateRef(t) \/ UpdateRefFails(t) \/ Reconcile(t)
         \/ Match(t) \/ ReadTree(t) \/ Finalize(t)
         \/ Block(t) \/ Discard(t) \/ Unstage(t) \/ EvidenceStale(t) \/ CallFails(t)
  PROVE  driver'.pc \notin {"release", "finalize"}
<1> USE DEF IInv, Shape, Go, Return, NoDriver, Drive, Advanced
<1>1. CASE Integrate(t) \/ RetryBlockedVerifiedIntegration(t) \/ RecoverPending(t)
  BY <1>1 DEF Integrate, RetryBlockedVerifiedIntegration, Begin, RecoverPending
<1>2. CASE Inspect(t) \/ PrepareAttempt(t) \/ Refuse(t) \/ StoreConflict(t)
  BY <1>2 DEF Inspect, PrepareAttempt, Refuse, StoreConflict
<1>3. CASE CheckRef(t) \/ CheckHead(t) \/ CheckClean(t) \/ Stage(t) \/ Restage(t)
  BY <1>3 DEF CheckRef, CheckHead, CheckClean, Recheck, Stage, Restage, EnsureCandidateAnchor
<1>4. CASE Dispatch(t) \/ DispatchLost(t) \/ UpdateRef(t) \/ UpdateRefFails(t) \/ Reconcile(t)
  <2>1. CASE Dispatch(t) \/ DispatchLost(t)
    BY <2>1 DEF Dispatch, DispatchLost, LoseDispatch
  <2>2. CASE UpdateRef(t) \/ UpdateRefFails(t) \/ Reconcile(t)
    <3>1. Advanced \/ (\E pc \in {"reconcile", "block"} : Go(pc)) \/ Return(FALSE)
      BY <2>2 DEF UpdateRef, UpdateRefFails, Reconcile
    <3>2. CASE Advanced
      BY <3>2
    <3>3. CASE \E pc \in {"reconcile", "block"} : Go(pc)
      BY <3>3
    <3>4. CASE Return(FALSE)
      BY <3>4
    <3> QED
      BY <3>1, <3>2, <3>3, <3>4
  <2> QED
    BY <1>4, <2>1, <2>2
<1>5. CASE Match(t) \/ ReadTree(t) \/ Finalize(t) \/ Block(t) \/ Discard(t) \/ Unstage(t)
  BY <1>5 DEF Match, ReadTree, Finalize, Block, Discard, Unstage
<1>6. CASE EvidenceStale(t) \/ CallFails(t)
  BY <1>6 DEF EvidenceStale, CallFails, LoseDispatch
<1> QED
  BY <1>1, <1>2, <1>3, <1>4, <1>5, <1>6

LEMMA NextInSync == IInv /\ InSync /\ [ManagerNext]_intVars => InSync'
<1> SUFFICES ASSUME IInv, InSync, [ManagerNext]_intVars PROVE InSync'
  OBVIOUS
<1>1. CASE Edit \/ Commit \/ Reset \/ Switch
  BY <1>1, OwnerInSync
<1>2. ASSUME NEW t \in Tasks, OwnerControl(t) PROVE InSync'
  BY <1>2 DEF OwnerControl, gitVars, rowVars, InSync, Released, Synced, Head
<1>3. CASE Crash
  BY <1>3, IntegrationAssumption DEF Crash, NoDriver, InSync, Released
<1>4. CASE DaemonStart \/ RecoverPendingDone \/ UNCHANGED intVars
  BY <1>4 DEF DaemonStart, RecoverPendingDone, intVars, Reads, gitVars, rowVars, InSync, Released,
     Synced, Head
<1>5. ASSUME driver'.pc \notin {"release", "finalize"} PROVE InSync'
  BY <1>5 DEF InSync, Released
<1> QED
  BY <1>1, <1>2, <1>3, <1>4, <1>5, DriverInSync, OtherInSync DEF ManagerNext, DriverStep

(* No attempt is finalized over a checkout of the published branch that    *)
(* still holds the base (driveAttempt synchronises it first), unless the   *)
(* branch could not be read.                                               *)
THEOREM CompletionIsInSync == ManagerSpec => CompleteInSync
<1> DEFINE A == \A t \in Tasks : integration[t] = "DISPATCHED" /\ integration'[t] = "COMPLETE" =>
                  driver.blind \/ Noop(t) \/ checkout.branch # ref[t]
                    \/ Head(t) # Candidate(t) \/ checkout.index # Base
<1>1. ManagerInit => InSync
  BY DEF ManagerInit, InSync, Released, NoDriver
<1>2. ManagerSpec => []InSync
  BY <1>1, NextInSync, ManagerInvariant, PTL DEF ManagerSpec
<1>3. ASSUME IInv, InSync, ManagerNext PROVE A
  BY <1>3, Effects DEF InSync, Released, Synced, At
<1>4. IInv /\ InSync /\ [ManagerNext]_intVars => [A]_intVars
  BY <1>3
<1> QED
  BY <1>2, <1>4, ManagerInvariant, PTL DEF ManagerSpec, CompleteInSync
================================================================================
