------------------------- MODULE WorkspaceManagerProofs -------------------------
(***************************************************************************)
(* Proofs about WorkspaceManager, for any set of tasks, any amount of work *)
(* and any number of checkpoints and faults.  What a worker left is where  *)
(* the workspace row says it is: in the worktree of a READY one, in the    *)
(* snapshot of a CHECKPOINTED one and of one that is being rebuilt.  Only  *)
(* while it is CHECKPOINTING the latest checkpoint row has to tell which.  *)
(* It can, because a READY workspace never has a latest row that a         *)
(* compaction left: that is what a crash in the next one relies on.        *)
(***************************************************************************)
EXTENDS WorkspaceManager, TaskStoreProofs

CheckpointStates == {"CAPTURED", "COMPACTED", "REHYDRATING", "REHYDRATED"}
Checkpoints == [original : Int, snapshot : Int, state : CheckpointStates, active : BOOLEAN]
Managed     == [at : {"nothing", "directory", "worktree"}, head : Int, tree : Int,
                ignored : BOOLEAN]

(* The calls of each operation of the loop.                                *)
Preparing == {"inspect", "add", "verify", "clean", "mark", "fail"}
Capturing == {"capture", "anchor", "record", "abort"}
Compacting == Capturing \cup {"remove", "finish"}
Drivers == [phase : DOMAIN PhaseAfter, todo : SUBSET Tasks, task : Tasks \cup {"none"},
            op : {"none", "ensure", "checkpoint", "release", "remove"},
            pc : Preparing \cup Compacting \cup {"none", "begin", "block", "receipt"},
            arg : Int]

ManagerTypes ==
  /\ headRow   \in [Tasks -> Int]
  /\ rows      \in [Tasks -> Seq(Checkpoints)]
  /\ refs      \in [Tasks -> SUBSET Nat]
  /\ worktrees \in [Tasks -> Managed]
  /\ made      \in [Tasks -> [tree : Nat, ignored : BOOLEAN]]
  /\ driver    \in Drivers
  /\ faults    \in Nat

(* Where the last content is that a worker has left.                       *)
Unwritten(t) == /\ rows[t] = <<>> /\ headRow[t] = NoRevision /\ epoch[t] = 0
                /\ made[t].tree = Base /\ ~made[t].ignored
Restoring(t) == /\ LatestIs(t, "REHYDRATING") /\ InSnapshot(t)
                /\ headRow[t] = Latest(t).snapshot
Present(t)   == (rows[t] = <<>> \/ LatestIs(t, "REHYDRATED")) /\ InWorktree(t)
Captured(t)  == LatestIs(t, "CAPTURED") /\ InSnapshot(t)

(* What the workspace row says.                                            *)
RowTruth(t) ==
  /\ workspace[t] = "NONE"          => Unwritten(t) /\ ~worktrees[t].ignored
  /\ workspace[t] = "PREPARING"     => (Unwritten(t) \/ Restoring(t)) /\ ~worktrees[t].ignored
  /\ workspace[t] = "FAILED"        => Unwritten(t) \/ Restoring(t)
  /\ workspace[t] = "READY"         => Present(t)
  /\ workspace[t] = "CHECKPOINTING" => Present(t) \/ Captured(t)
  /\ workspace[t] = "CHECKPOINTED"  => LatestIs(t, "COMPACTED") /\ InSnapshot(t)
                                       /\ worktrees[t] = NoWorktree
  /\ workspace[t] \in {"REMOVING", "REMOVED"} => state[t] \in TerminalStates

(* What the loop knows of the task it serves.                              *)
EnsureTruth(t) ==
  /\ driver.pc \in Preparing \cup {"begin", "block"}
  /\ driver.pc \in Preparing => workspace[t] = "PREPARING"
  /\ driver.pc \in {"clean", "mark"} => Registered(t) /\ worktrees[t].head = Expected(t)
  /\ driver.pc = "mark" => Clean(t)
CompactTruth(t) ==
  /\ driver.pc \in Compacting /\ workspace[t] = "CHECKPOINTING"
  /\ driver.pc \in Capturing => Present(t)
  /\ driver.pc \in {"anchor", "record"} => driver.arg = worktrees[t].tree
                                           /\ ~worktrees[t].ignored
  /\ driver.pc = "record" => NextVersion(t) \in refs[t]
  /\ driver.pc \in {"remove", "finish"} => Captured(t)
  /\ driver.pc = "finish" => worktrees[t] = NoWorktree
LoopTruth(t) ==
  driver.task = t =>
    /\ driver.op # "none"
    /\ driver.op = "ensure"     => EnsureTruth(t)
    /\ driver.op = "checkpoint" => CompactTruth(t)
    /\ driver.op = "release"    => driver.pc = "receipt" /\ driver.arg \in DOMAIN rows[t]
    /\ driver.op = "remove"     => driver.pc \in {"remove", "finish"}
                                   /\ workspace[t] = "REMOVING"

MInv == HInv /\ ManagerTypes /\ \A t \in Tasks : RowTruth(t) /\ LoopTruth(t)

--------------------------------------------------------------------------------
(* What stays of a task that a step does not serve.                        *)
Same(u) ==
  /\ state'[u] = state[u] /\ epoch'[u] = epoch[u] /\ workspace'[u] = workspace[u]
  /\ headRow'[u] = headRow[u] /\ rows'[u] = rows[u] /\ refs'[u] = refs[u]
  /\ worktrees'[u] = worktrees[u] /\ made'[u] = made[u]
OthersSame(t) == \A u \in Tasks \ {t} : Same(u)
Serves(t)     == driver'.task \in {t, "none"} \/ driver' = driver

(* All that is said of a task is said of its own rows, refs and paths.     *)
LEMMA SameKeeps ==
  ASSUME NEW u \in Tasks, Same(u), RowTruth(u)
  PROVE  RowTruth(u)'
BY DEF Same, RowTruth, Unwritten, Restoring, Present, Captured, LatestIs, Latest, InSnapshot,
   InWorktree, Registered

LEMMA SameKeepsLoop ==
  ASSUME NEW u \in Tasks, Same(u), LoopTruth(u), driver' = driver
  PROVE  LoopTruth(u)'
BY DEF Same, LoopTruth, EnsureTruth, CompactTruth, Present, Captured, LatestIs, Latest,
   InSnapshot, InWorktree, Registered, Clean, Expected, NextVersion

(* A task that the loop does not serve is safe from it.                    *)
LEMMA StepKeeps ==
  ASSUME MInv, NEW t \in Tasks, HInv', ManagerTypes', OthersSame(t), Serves(t),
         RowTruth(t)', LoopTruth(t)'
  PROVE  MInv'
<1>1. ASSUME NEW u \in Tasks \ {t} PROVE RowTruth(u)' /\ LoopTruth(u)'
  <2>1. Same(u) /\ RowTruth(u) /\ LoopTruth(u)
    BY DEF OthersSame, MInv
  <2>2. CASE driver' = driver
    BY <2>1, <2>2, SameKeeps, SameKeepsLoop
  <2>3. CASE driver'.task \in {t, "none"}
    <3>1. LoopTruth(u)'
      BY <2>3, WorkspaceAssumption DEF LoopTruth, WorkspaceAssumption
    <3> QED
      BY <2>1, <3>1, SameKeeps
  <2> QED
    BY <2>2, <2>3 DEF Serves
<1> QED
  BY <1>1 DEF MInv

(* A step that only reads has to answer for what the loop then knows.      *)
LEMMA ReadsKeep ==
  ASSUME MInv, HInv', Reads, driver' \in Drivers, faults' \in Nat,
         \A t \in Tasks : LoopTruth(t)'
  PROVE  MInv'
<1>1. ManagerTypes'
  BY DEF MInv, ManagerTypes, Reads, NoStore, gitVars
<1>2. ASSUME NEW t \in Tasks PROVE RowTruth(t)'
  <2>1. Same(t)
    BY DEF Same, Reads, NoStore, gitVars, storeVars
  <2> QED
    BY <2>1, SameKeeps DEF MInv
<1> QED
  BY <1>1, <1>2 DEF MInv

(* The state of the latest row is rewritten, and nothing else.             *)
LEMMA LatestSet ==
  ASSUME ManagerTypes, NEW t \in Tasks, NEW s \in CheckpointStates, rows[t] # <<>>,
         SetLatest(t, s)
  PROVE  /\ rows' \in [Tasks -> Seq(Checkpoints)]
         /\ \A u \in Tasks \ {t} : rows'[u] = rows[u]
         /\ rows'[t] # <<>> /\ Len(rows'[t]) = Len(rows[t])
         /\ Latest(t)'.state = s /\ Latest(t)'.snapshot = Latest(t).snapshot
<1> DEFINE k   == Len(rows[t])
           row == [rows[t][k] EXCEPT !.state = s]
           new == [rows[t] EXCEPT ![k] = row]
<1>1. rows[t] \in Seq(Checkpoints) /\ k \in DOMAIN rows[t] /\ k \in Nat
  BY DEF ManagerTypes
<1>2. rows[t][k] \in Checkpoints
  BY <1>1
<1>3. row \in Checkpoints /\ row.state = s /\ row.snapshot = rows[t][k].snapshot
  BY <1>2 DEF Checkpoints
<1> HIDE DEF row
<1>4. new \in Seq(Checkpoints) /\ Len(new) = k /\ new[k] = row
  BY <1>1, <1>3
<1>5. rows' = [rows EXCEPT ![t] = new]
  BY DEF SetLatest, row
<1> HIDE DEF new
<1>6. rows'[t] = new
  BY <1>5 DEF ManagerTypes
<1>7. new # <<>>
  BY <1>1, <1>4
<1>8. rows' \in [Tasks -> Seq(Checkpoints)] /\ \A u \in Tasks \ {t} : rows'[u] = rows[u]
  BY <1>4, <1>5 DEF ManagerTypes
<1>9. Latest(t)' = row
  BY <1>4, <1>6 DEF Latest
<1> QED
  BY <1>3, <1>4, <1>6, <1>7, <1>8, <1>9 DEF Latest

--------------------------------------------------------------------------------
(* Every transaction of the manager is one of the store's.                 *)
LEMMA EnsureUsesStore ==
  ASSUME NEW t \in Tasks, EnsureStep(t)
  PROVE  [Calls]_storeVars
<1> USE DEF Calls, Call, WorkspaceNext
<1>1. CASE Ensure(t) \/ EnsureOld(t) \/ Inspect(t) \/ AddWorktree(t) \/ Verify(t)
           \/ CleanBaseline(t) \/ MarkConflict(t)
  BY <1>1 DEF Ensure, EnsureOld, Inspect, AddWorktree, Verify, CleanBaseline, MarkConflict,
     Reads, NoStore
<1>2. CASE EnsureNew(t) \/ EnsureRehydrate(t)
  BY <1>2 DEF EnsureNew, EnsureRehydrate
<1>3. CASE MarkReady(t) \/ MarkFailed(t)
  BY <1>3 DEF MarkReady, MarkFailed
<1>4. CASE StepBlocks(t)
  BY <1>4 DEF StepBlocks, NoStore, TaskStates, PreAttemptStates
<1> QED
  BY <1>1, <1>2, <1>3, <1>4 DEF EnsureStep

LEMMA CheckpointUsesStore ==
  ASSUME NEW t \in Tasks, CheckpointStep(t)
  PROVE  [Calls]_storeVars
<1> USE DEF Calls, Call, WorkspaceNext
<1>1. CASE Capture(t) \/ Anchor(t) \/ RecordCheckpoint(t) \/ RemoveWorktree(t) \/ Reconcile(t)
           \/ ReleaseRef(t) \/ ReleaseReceipt(t)
  BY <1>1 DEF Capture, CaptureTree, Anchor, RecordCheckpoint, RemoveWorktree, Reconcile,
     ReconcileBy, ReleaseRef, Release, ReleaseReceipt, Reads, NoStore
<1>2. CASE CheckpointBlocked(t) \/ Abort(t) \/ FinishCheckpoint(t)
  BY <1>2 DEF CheckpointBlocked, Abort, FinishCheckpoint
<1>3. CASE RemoveTerminal(t) \/ FinishRemoval(t)
  BY <1>3 DEF RemoveTerminal, FinishRemoval
<1> QED
  BY <1>1, <1>2, <1>3 DEF CheckpointStep

LEMMA OthersUseStore ==
  ASSUME NEW t \in Tasks, Others(t)
  PROVE  [Calls]_storeVars
<1> USE DEF Calls, Call, AttemptNext, ControlNext
<1>1. CASE Attempts(t)
  BY <1>1 DEF Attempts, TaskStates
<1>2. CASE RequestTaskCancellation(t) \/ FinalizeTaskCancellation(t) \/ Steer(t, TRUE)
  BY <1>2
<1> QED
  BY <1>1, <1>2 DEF Others

LEMMA ManagerUsesStoreStep == [ManagerNext]_mgrVars => [Calls]_storeVars
<1> SUFFICES ASSUME [ManagerNext]_mgrVars PROVE [Calls]_storeVars
  OBVIOUS
<1>1. CASE UNCHANGED mgrVars
  BY <1>1 DEF mgrVars
<1>2. CASE NextPhase \/ Crash
  BY <1>2 DEF NextPhase, Crash, Reads, NoStore
<1>3. CASE \E t \in Tasks : EnsureStep(t) \/ CheckpointStep(t)
  BY <1>3, EnsureUsesStore, CheckpointUsesStore
<1>4. CASE \E t \in Tasks : DriveBlockedChoice(t)
  BY <1>4 DEF DriveBlockedChoice, Calls, Call
<1>5. CASE \E t \in Tasks : Skip(t) \/ AddWorktreeFails(t) \/ RecordFails(t)
                            \/ RemoveWorktreeFails(t) \/ CallFails(t)
  BY <1>5 DEF Skip, AddWorktreeFails, RecordFails, RemoveWorktreeFails, CallFails, Reads, NoStore
<1>6. CASE \E t \in Tasks : Write(t) \/ SealCommit(t) \/ RecordWorkspaceHead(t)
  BY <1>6 DEF Write, SealCommit, RecordWorkspaceHead
<1>7. CASE \E t \in Tasks : Others(t)
  BY <1>7, OthersUseStore
<1> QED
  BY <1>1, <1>2, <1>3, <1>4, <1>5, <1>6, <1>7 DEF ManagerNext, DaemonStep

--------------------------------------------------------------------------------
(* How the loop moves: on to the next call, into an operation, out of it.  *)
CallSteps == Preparing \cup Compacting \cup {"begin", "block", "receipt"}
Ops   == {"ensure", "checkpoint", "release", "remove"}

LEMMA GoMoves ==
  ASSUME ManagerTypes, NEW pc \in CallSteps, Go(pc)
  PROVE  /\ driver' \in Drivers /\ driver'.pc = pc
         /\ driver'.task = driver.task /\ driver'.op = driver.op /\ driver'.arg = driver.arg
BY DEF ManagerTypes, Go, Drivers, CallSteps

LEMMA StartMoves ==
  ASSUME ManagerTypes, NEW t \in Tasks, NEW op \in Ops, NEW pc \in CallSteps, NEW arg \in Int,
         Start(t, op, pc, arg)
  PROVE  /\ driver' \in Drivers /\ driver'.pc = pc
         /\ driver'.task = t /\ driver'.op = op /\ driver'.arg = arg
BY DEF ManagerTypes, Start, Drivers, CallSteps, Ops

LEMMA IdleIsDriver ==
  ASSUME NEW phase \in DOMAIN PhaseAfter, NEW todo \in SUBSET Tasks
  PROVE  Idle(phase, todo) \in Drivers /\ Idle(phase, todo).task = "none"
BY DEF Idle, Drivers, NoRevision

LEMMA ReturnMoves ==
  ASSUME ManagerTypes, Return
  PROVE  driver' \in Drivers /\ driver'.task = "none"
BY IdleIsDriver DEF ManagerTypes, Return, Drivers

LEMMA NoTaskNoTruth ==
  ASSUME driver'.task = "none"
  PROVE  \A t \in Tasks : LoopTruth(t)'
BY WorkspaceAssumption DEF LoopTruth, WorkspaceAssumption

LEMMA OneTaskTruth ==
  ASSUME NEW t \in Tasks, driver'.task = t, LoopTruth(t)'
  PROVE  \A u \in Tasks : LoopTruth(u)'
BY DEF LoopTruth

(* The store's part of a step is kept by the store's invariant.            *)
LEMMA StoreKept == MInv /\ [ManagerNext]_mgrVars => HInv'
BY ManagerUsesStoreStep, CallsKeep DEF MInv

LEMMA FaultCounts == ASSUME ManagerTypes, Fault \/ UNCHANGED faults PROVE faults' \in Nat
BY DEF ManagerTypes, Fault

(* Every step of the loop that only reads.                                 *)
LEMMA NextPhaseKeeps == ASSUME MInv, HInv', NextPhase PROVE MInv'
<1> DEFINE next == PhaseAfter[driver.phase]
<1>1. next \in {"reclaim", "choices", "reconcile", "release", "schedule"}
  BY DEF MInv, ManagerTypes, Drivers, PhaseAfter
<1>2. next # "schedule" => Candidates(next) \in SUBSET Tasks
  BY <1>1 DEF Candidates, TerminalCandidates
<1> HIDE DEF next
<1>3. \A list \in ScheduleLists : list \in SUBSET Tasks
  BY DEF ScheduleLists, Waiting, CheckpointCandidates
<1>4. PICK list \in SUBSET Tasks : driver' = Idle(next, list)
  BY <1>2, <1>3 DEF NextPhase, next
<1>5. next \in DOMAIN PhaseAfter
  BY <1>1 DEF PhaseAfter
<1>6. driver' \in Drivers /\ driver'.task = "none"
  BY <1>4, <1>5, IdleIsDriver
<1> QED
  BY <1>6, NoTaskNoTruth, ReadsKeep, FaultCounts DEF NextPhase, MInv

LEMMA CrashKeeps == ASSUME MInv, HInv', Crash PROVE MInv'
<1>1. driver' \in Drivers /\ driver'.task = "none"
  BY IdleIsDriver DEF Crash, PhaseAfter
<1> QED
  BY <1>1, NoTaskNoTruth, ReadsKeep, FaultCounts DEF Crash, MInv

LEMMA SkipKeeps == ASSUME MInv, HInv', NEW t \in Tasks, Skip(t) PROVE MInv'
<1>1. driver' \in Drivers /\ driver'.task = "none"
  BY DEF Skip, Busy, MInv, ManagerTypes, Drivers
<1> QED
  BY <1>1, NoTaskNoTruth, ReadsKeep, FaultCounts DEF Skip, MInv

LEMMA EnsureKeeps == ASSUME MInv, HInv', NEW t \in Tasks, Ensure(t) PROVE MInv'
<1>1. /\ driver' \in Drivers /\ driver'.task = t /\ driver'.op = "ensure" /\ driver'.pc = "begin"
  BY StartMoves DEF Ensure, MInv, CallSteps, Ops, NoRevision
<1>2. LoopTruth(t)'
  BY <1>1 DEF LoopTruth, EnsureTruth, Preparing
<1> QED
  BY <1>1, <1>2, OneTaskTruth, ReadsKeep, FaultCounts DEF Ensure, MInv

(* What holds of a call that the loop is about to make.                    *)
LEMMA AtCall ==
  ASSUME MInv, NEW t \in Tasks, NEW pc, At(t, pc)
  PROVE  /\ driver.task = t /\ driver.pc = pc /\ LoopTruth(t)
         /\ pc \in Preparing \cup {"begin", "block"} => driver.op = "ensure" /\ EnsureTruth(t)
         /\ pc \in Capturing => driver.op = "checkpoint" /\ CompactTruth(t)
         /\ pc = "receipt" => driver.op = "release"
         /\ pc \in {"remove", "finish"} => driver.op \in {"checkpoint", "remove"}
BY DEF MInv, At, LoopTruth, EnsureTruth, CompactTruth, Preparing, Compacting, Capturing,
   ManagerTypes, Drivers

LEMMA EnsureReadsKeep ==
  ASSUME MInv, HInv', NEW t \in Tasks,
         EnsureOld(t) \/ Inspect(t) \/ Verify(t) \/ CleanBaseline(t) \/ MarkConflict(t)
  PROVE  MInv'
<1> DEFINE Knows(pc) ==
      /\ pc \in Preparing \cup {"block"}
      /\ pc \in Preparing => workspace[t] = "PREPARING"
      /\ pc \in {"clean", "mark"} => Registered(t) /\ worktrees[t].head = Expected(t)
      /\ pc = "mark" => Clean(t)
<1>1. /\ driver.task = t /\ driver.op = "ensure" /\ EnsureTruth(t)
      /\ Reads /\ UNCHANGED faults
      /\ Return \/ \E pc \in Preparing \cup {"block"} : Go(pc) /\ Knows(pc)
  <2>1. CASE EnsureOld(t)
    BY <2>1, AtCall DEF EnsureOld, Preparing
  <2>2. CASE Inspect(t)
    BY <2>2, AtCall DEF Inspect, EnsureTruth, Preparing
  <2>3. CASE Verify(t)
    BY <2>3, AtCall DEF Verify, EnsureTruth, Preparing
  <2>4. CASE CleanBaseline(t)
    BY <2>4, AtCall DEF CleanBaseline, EnsureTruth, Preparing
  <2>5. CASE MarkConflict(t)
    BY <2>5, AtCall DEF MarkConflict, Preparing
  <2> QED
    BY <2>1, <2>2, <2>3, <2>4, <2>5
<1>2. CASE Return
  BY <1>1, <1>2, ReturnMoves, NoTaskNoTruth, ReadsKeep, FaultCounts DEF MInv
<1>3. CASE \E pc \in Preparing \cup {"block"} : Go(pc) /\ Knows(pc)
  <2>1. PICK pc \in Preparing \cup {"block"} : Go(pc) /\ Knows(pc)
    BY <1>3
  <2>2. driver' \in Drivers /\ driver'.pc = pc /\ driver'.task = t /\ driver'.op = "ensure"
    BY <1>1, <2>1, GoMoves DEF MInv, CallSteps
  <2>3. EnsureTruth(t)'
    BY <1>1, <2>1, <2>2 DEF EnsureTruth, Reads, NoStore, storeVars, gitVars, Registered,
       Expected, Clean
  <2>4. LoopTruth(t)'
    BY <2>2, <2>3 DEF LoopTruth
  <2> QED
    BY <1>1, <2>2, <2>4, OneTaskTruth, ReadsKeep, FaultCounts DEF MInv
<1> QED
  BY <1>1, <1>2, <1>3

(* A call that fails without effect sends the loop where it knows less.    *)
LEMMA CallFailsKeeps == ASSUME MInv, HInv', NEW t \in Tasks, CallFails(t) PROVE MInv'
<1>1. driver.task = t /\ At(t, driver.pc) /\ Reads /\ Fault /\ faults' \in Nat
  BY FaultCounts DEF CallFails, At, MInv
<1>2. CASE Return
  BY <1>1, <1>2, ReturnMoves, NoTaskNoTruth, ReadsKeep DEF MInv
<1>3. CASE driver.pc \in {"begin", "inspect", "mark", "fail", "verify"} /\ Go("block")
  <2>1. /\ driver' \in Drivers /\ driver'.pc = "block" /\ driver'.task = t
        /\ driver'.op = "ensure"
    BY <1>1, <1>3, AtCall, GoMoves DEF MInv, CallSteps, Preparing
  <2>2. LoopTruth(t)'
    BY <2>1 DEF LoopTruth, EnsureTruth, Preparing
  <2> QED
    BY <1>1, <2>1, <2>2, OneTaskTruth, ReadsKeep
<1>4. CASE driver.pc \in {"verify", "clean"} /\ Go("fail")
  <2>1. /\ driver' \in Drivers /\ driver'.pc = "fail" /\ driver'.task = t
        /\ driver'.op = "ensure" /\ workspace[t] = "PREPARING"
    BY <1>1, <1>4, AtCall, GoMoves DEF MInv, CallSteps, Preparing, EnsureTruth
  <2>2. LoopTruth(t)'
    BY <1>1, <2>1 DEF LoopTruth, EnsureTruth, Preparing, Reads, NoStore, storeVars
  <2> QED
    BY <1>1, <2>1, <2>2, OneTaskTruth, ReadsKeep
<1>5. CASE driver.pc \in {"capture", "anchor"} /\ Go("abort")
  <2>1. /\ driver' \in Drivers /\ driver'.pc = "abort" /\ driver'.task = t
        /\ driver'.op = "checkpoint" /\ workspace[t] = "CHECKPOINTING" /\ Present(t)
    BY <1>1, <1>5, AtCall, GoMoves DEF MInv, CallSteps, Compacting, Capturing, CompactTruth
  <2>2. Present(t)' /\ workspace'[t] = "CHECKPOINTING"
    BY <1>1, <2>1 DEF Reads, NoStore, storeVars, gitVars, Present, LatestIs, Latest, InWorktree,
       Registered
  <2>3. LoopTruth(t)'
    BY <2>1, <2>2 DEF LoopTruth, CompactTruth, Compacting, Capturing
  <2> QED
    BY <1>1, <2>1, <2>3, OneTaskTruth, ReadsKeep
<1> QED
  BY <1>2, <1>3, <1>4, <1>5 DEF CallFails

--------------------------------------------------------------------------------
(* The steps of EnsureMutable that change something.                       *)
LEMMA EnsureNewKeeps == ASSUME MInv, HInv', NEW t \in Tasks, EnsureNew(t) PROVE MInv'
<1>1. /\ state[t] = "WAITING_RESOURCE" /\ workspace[t] = "NONE" /\ RowTruth(t)
      /\ workspace' = [workspace EXCEPT ![t] = "PREPARING"]
      /\ UNCHANGED <<state, epoch, headRow, rows, refs, worktrees, made, faults>>
  BY DEF EnsureNew, BeginWorkspace, Rows, gitVars, MInv
<1>2. /\ driver' \in Drivers /\ driver'.pc = "add" /\ driver'.task = t /\ driver'.op = "ensure"
  BY AtCall, GoMoves DEF EnsureNew, MInv, CallSteps, Preparing
<1>3. workspace'[t] = "PREPARING" /\ \A u \in Tasks \ {t} : workspace'[u] = workspace[u]
  BY <1>1 DEF MInv, HInv, IInv, TypeOK
<1>4. ManagerTypes'
  BY <1>1, <1>2 DEF MInv, ManagerTypes
<1>5. OthersSame(t) /\ Serves(t)
  BY <1>1, <1>2, <1>3 DEF OthersSame, Same, Serves
<1>6. RowTruth(t)'
  BY <1>1, <1>3 DEF RowTruth, Unwritten
<1>7. LoopTruth(t)'
  BY <1>2, <1>3 DEF LoopTruth, EnsureTruth, Preparing
<1> QED
  BY <1>4, <1>5, <1>6, <1>7, StepKeeps

LEMMA EnsureRehydrateKeeps == ASSUME MInv, HInv', NEW t \in Tasks, EnsureRehydrate(t) PROVE MInv'
<1>1. /\ state[t] = "WAITING_RESOURCE" /\ workspace[t] = "CHECKPOINTED" /\ RowTruth(t)
      /\ LatestIs(t, "COMPACTED") /\ SetLatest(t, "REHYDRATING")
      /\ workspace' = [workspace EXCEPT ![t] = "PREPARING"]
      /\ headRow' = [headRow EXCEPT ![t] = Latest(t).snapshot]
      /\ UNCHANGED <<state, epoch, refs, worktrees, made, faults>>
  BY DEF EnsureRehydrate, BeginWorkspaceRehydrate, Rows, gitVars, MInv
<1>2. /\ driver' \in Drivers /\ driver'.pc = "inspect" /\ driver'.task = t
      /\ driver'.op = "ensure"
  BY AtCall, GoMoves DEF EnsureRehydrate, MInv, CallSteps, Preparing
<1>3. workspace'[t] = "PREPARING" /\ \A u \in Tasks \ {t} : workspace'[u] = workspace[u]
  BY <1>1 DEF MInv, HInv, IInv, TypeOK
<1>4. /\ rows' \in [Tasks -> Seq(Checkpoints)]
      /\ \A u \in Tasks \ {t} : rows'[u] = rows[u]
      /\ rows'[t] # <<>> /\ Len(rows'[t]) = Len(rows[t])
      /\ Latest(t)'.state = "REHYDRATING" /\ Latest(t)'.snapshot = Latest(t).snapshot
  BY <1>1, LatestSet DEF MInv, LatestIs, CheckpointStates
<1>5. InSnapshot(t) /\ worktrees[t] = NoWorktree /\ Latest(t).snapshot = made[t].tree
  BY <1>1 DEF RowTruth, InSnapshot
<1>6. /\ headRow'[t] = Latest(t).snapshot /\ headRow' \in [Tasks -> Int]
      /\ \A u \in Tasks \ {t} : headRow'[u] = headRow[u]
  BY <1>1, <1>5 DEF MInv, ManagerTypes
<1>7. ManagerTypes'
  BY <1>1, <1>2, <1>4, <1>6 DEF MInv, ManagerTypes
<1>8. OthersSame(t) /\ Serves(t)
  BY <1>1, <1>2, <1>3, <1>4, <1>6 DEF OthersSame, Same, Serves
<1>9. Restoring(t)'
  BY <1>1, <1>4, <1>5, <1>6 DEF Restoring, LatestIs, InSnapshot
<1>10. RowTruth(t)'
  BY <1>1, <1>3, <1>5, <1>9 DEF RowTruth, NoWorktree
<1>11. LoopTruth(t)'
  BY <1>2, <1>3 DEF LoopTruth, EnsureTruth, Preparing
<1> QED
  BY <1>7, <1>8, <1>10, <1>11, StepKeeps

(* A worktree being prepared is rebuilt from what was last left.           *)
LEMMA ExpectedIsMade ==
  ASSUME MInv, NEW t \in Tasks, workspace[t] = "PREPARING"
  PROVE  /\ Expected(t) = made[t].tree /\ ~made[t].ignored /\ ~worktrees[t].ignored
         /\ Expected(t) \in Int
<1>1. CASE Unwritten(t)
  BY <1>1 DEF MInv, RowTruth, Unwritten, Expected, Base
<1>2. CASE Restoring(t)
  <2>1. headRow[t] = made[t].tree /\ ~made[t].ignored
    BY <1>2 DEF Restoring, InSnapshot
  <2>2. made[t].tree \in Nat
    BY DEF MInv, ManagerTypes
  <2> QED
    BY <2>1, <2>2 DEF MInv, RowTruth, Expected, NoRevision
<1> QED
  BY <1>1, <1>2 DEF MInv, RowTruth

(* Whatever git leaves at the path of a worktree being prepared.           *)
LEMMA AddedKeeps ==
  ASSUME MInv, HInv', NEW t \in Tasks, At(t, "add"), Go("verify"), NoStore,
         NEW w \in Managed, ~w.ignored, worktrees' = [worktrees EXCEPT ![t] = w],
         UNCHANGED refs, Fault \/ UNCHANGED faults
  PROVE  MInv'
<1>1. /\ workspace[t] = "PREPARING" /\ RowTruth(t)
      /\ UNCHANGED <<state, epoch, workspace, headRow, rows, refs, made>>
  BY AtCall DEF EnsureTruth, Preparing, NoStore, storeVars, MInv
<1>2. /\ driver' \in Drivers /\ driver'.pc = "verify" /\ driver'.task = t
      /\ driver'.op = "ensure"
  BY AtCall, GoMoves DEF MInv, CallSteps, Preparing
<1>3. /\ worktrees'[t] = w /\ worktrees' \in [Tasks -> Managed]
      /\ \A u \in Tasks \ {t} : worktrees'[u] = worktrees[u]
  BY DEF MInv, ManagerTypes
<1>4. ManagerTypes'
  BY <1>1, <1>2, <1>3, FaultCounts DEF MInv, ManagerTypes
<1>5. OthersSame(t) /\ Serves(t)
  BY <1>1, <1>2, <1>3 DEF OthersSame, Same, Serves
<1>6. RowTruth(t)'
  BY <1>1, <1>3 DEF RowTruth, Unwritten, Restoring, LatestIs, Latest, InSnapshot
<1>7. LoopTruth(t)'
  BY <1>1, <1>2 DEF LoopTruth, EnsureTruth, Preparing
<1> QED
  BY <1>4, <1>5, <1>6, <1>7, StepKeeps

LEMMA AddWorktreeKeeps ==
  ASSUME MInv, HInv', NEW t \in Tasks, AddWorktree(t) \/ AddWorktreeFails(t)
  PROVE  MInv'
<1>1. workspace[t] = "PREPARING"
  BY AtCall DEF AddWorktree, AddWorktreeFails, EnsureTruth, Preparing
<1>2. Expected(t) \in Int /\ ~worktrees[t].ignored /\ worktrees[t] \in Managed
  BY <1>1, ExpectedIsMade DEF MInv, ManagerTypes
<1>3. \A tree \in Int : Worktree(Expected(t), tree) \in Managed /\ ~Worktree(Expected(t), tree).ignored
  BY <1>2 DEF Worktree, Managed
<1>4. worktrees = [worktrees EXCEPT ![t] = worktrees[t]]
  BY DEF MInv, ManagerTypes
<1>5. \E w \in Managed : ~w.ignored /\ worktrees' = [worktrees EXCEPT ![t] = w]
  <2>1. CASE UNCHANGED worktrees
    BY <1>2, <1>4, <2>1
  <2>2. CASE \E tree \in {Expected(t), Partial} :
               worktrees' = [worktrees EXCEPT ![t] = Worktree(Expected(t), tree)]
    <3>1. PICK tree \in {Expected(t), Partial} :
            worktrees' = [worktrees EXCEPT ![t] = Worktree(Expected(t), tree)]
      BY <2>2
    <3>2. tree \in Int
      BY <1>2, <3>1 DEF Partial
    <3>3. Worktree(Expected(t), tree) \in Managed /\ ~Worktree(Expected(t), tree).ignored
      BY <1>3, <3>2
    <3> QED
      BY <3>1, <3>3, Zenon
  <2> QED
    BY <2>1, <2>2 DEF AddWorktree, AddWorktreeFails
<1> QED
  BY <1>5, AddedKeeps DEF AddWorktree, AddWorktreeFails

(* What was checked is what was last left, so the row may say READY.       *)
LEMMA MarkReadyKeeps == ASSUME MInv, HInv', NEW t \in Tasks, MarkReady(t) PROVE MInv'
<1>1. /\ state[t] = "WAITING_RESOURCE" /\ workspace[t] = "PREPARING" /\ RowTruth(t)
      /\ EnsureTruth(t) /\ driver.pc = "mark"
      /\ workspace' = [workspace EXCEPT ![t] = "READY"]
      /\ state' = [state EXCEPT ![t] = "WORKSPACE_READY"]
      /\ headRow' = [headRow EXCEPT ![t] = worktrees[t].head]
      /\ UNCHANGED <<epoch, refs, worktrees, made, faults>>
  BY AtCall DEF MarkReady, MarkWorkspaceReady, MarkWorkspace, Move, Rows, gitVars, MInv, Preparing
<1>2. driver' \in Drivers /\ driver'.task = "none"
  BY ReturnMoves DEF MarkReady, MInv
<1>3. /\ workspace'[t] = "READY" /\ state'[t] = "WORKSPACE_READY"
      /\ \A u \in Tasks \ {t} : workspace'[u] = workspace[u] /\ state'[u] = state[u]
  BY <1>1 DEF MInv, HInv, IInv, TypeOK
<1>4. /\ headRow' \in [Tasks -> Int]
      /\ \A u \in Tasks \ {t} : headRow'[u] = headRow[u]
  BY <1>1 DEF MInv, ManagerTypes, Managed
<1>5. InWorktree(t)
  BY <1>1, ExpectedIsMade DEF EnsureTruth, InWorktree, Clean, MInv, ManagerTypes, Managed
<1>6. /\ rows' \in [Tasks -> Seq(Checkpoints)]
      /\ \A u \in Tasks \ {t} : rows'[u] = rows[u]
      /\ rows'[t] = <<>> \/ (rows'[t] # <<>> /\ Latest(t)'.state = "REHYDRATED")
  <2>1. CASE Unwritten(t)
    BY <1>1, <2>1 DEF Unwritten, MarkReady, FinishRehydrate, LatestIs, MInv, ManagerTypes
  <2>2. CASE Restoring(t)
    <3>1. FinishRehydrate(t) /\ rows[t] # <<>>
      BY <1>1, <2>2, ExpectedIsMade DEF Restoring, FinishRehydrate, EnsureTruth, InSnapshot,
         LatestIs
    <3> QED
      BY <3>1, LatestSet DEF MarkReady, MInv, CheckpointStates
  <2> QED
    BY <1>1, <2>1, <2>2 DEF RowTruth
<1>7. ManagerTypes'
  BY <1>1, <1>2, <1>4, <1>6 DEF MInv, ManagerTypes
<1>8. OthersSame(t) /\ Serves(t)
  BY <1>1, <1>2, <1>3, <1>4, <1>6 DEF OthersSame, Same, Serves
<1>9. RowTruth(t)'
  BY <1>1, <1>3, <1>5, <1>6 DEF RowTruth, Present, LatestIs, InWorktree, Registered
<1> QED
  BY <1>2, <1>7, <1>8, <1>9, NoTaskNoTruth, StepKeeps

LEMMA MarkFailedKeeps == ASSUME MInv, HInv', NEW t \in Tasks, MarkFailed(t) PROVE MInv'
<1>1. /\ workspace[t] = "PREPARING" /\ RowTruth(t)
      /\ workspace' = [workspace EXCEPT ![t] = "FAILED"]
      /\ state' = [state EXCEPT ![t] = "BLOCKED"]
      /\ UNCHANGED <<epoch, headRow, rows, refs, worktrees, made, faults>>
  BY DEF MarkFailed, MarkWorkspaceFailed, MarkWorkspace, Move, Rows, gitVars, MInv
<1>2. driver' \in Drivers /\ driver'.task = "none"
  BY ReturnMoves DEF MarkFailed, MInv
<1>3. /\ workspace'[t] = "FAILED"
      /\ \A u \in Tasks \ {t} : workspace'[u] = workspace[u] /\ state'[u] = state[u]
  BY <1>1 DEF MInv, HInv, IInv, TypeOK
<1>4. ManagerTypes'
  BY <1>1, <1>2 DEF MInv, ManagerTypes
<1>5. OthersSame(t) /\ Serves(t)
  BY <1>1, <1>2, <1>3 DEF OthersSame, Same, Serves
<1>6. RowTruth(t)'
  BY <1>1, <1>3 DEF RowTruth, Unwritten, Restoring, LatestIs, Latest, InSnapshot
<1> QED
  BY <1>2, <1>4, <1>5, <1>6, NoTaskNoTruth, StepKeeps

(* A transaction that moves the task, not its workspace.                   *)
LEMMA TaskMovesKeep ==
  ASSUME MInv, HInv', NEW t \in Tasks,
         UNCHANGED <<workspace, headRow, rows, refs, worktrees, made>>,
         \A u \in Tasks \ {t} : state'[u] = state[u] /\ epoch'[u] = epoch[u],
         state[t] \in TerminalStates => state'[t] \in TerminalStates,
         epoch'[t] = epoch[t] \/ workspace[t] = "READY",
         driver' \in Drivers, driver'.task = "none" \/ driver' = driver, faults' \in Nat
  PROVE  MInv'
<1>1. ManagerTypes'
  BY DEF MInv, ManagerTypes
<1>2. OthersSame(t) /\ Serves(t)
  BY DEF OthersSame, Same, Serves
<1>3. RowTruth(t)'
  <2>1. RowTruth(t)
    BY DEF MInv
  <2>2. CASE workspace[t] = "READY"
    BY <2>1, <2>2 DEF RowTruth, Present, LatestIs, Latest, InWorktree, Registered
  <2>3. CASE workspace[t] # "READY"
    BY <2>1, <2>3 DEF RowTruth, Unwritten, Restoring, Present, Captured, LatestIs, Latest,
       InSnapshot, InWorktree, Registered
  <2> QED
    BY <2>2, <2>3
<1>4. LoopTruth(t)'
  <2>1. CASE driver'.task = "none"
    BY <2>1, NoTaskNoTruth
  <2>2. CASE driver' = driver
    <3>1. LoopTruth(t)
      BY DEF MInv
    <3> QED
      BY <2>2, <3>1 DEF LoopTruth, EnsureTruth, CompactTruth, Present, Captured, LatestIs, Latest,
         InSnapshot, InWorktree, Registered, Clean, Expected, NextVersion
  <2> QED
    BY <2>1, <2>2
<1> QED
  BY <1>1, <1>2, <1>3, <1>4, StepKeeps

LEMMA StepBlocksKeeps == ASSUME MInv, HInv', NEW t \in Tasks, StepBlocks(t) PROVE MInv'
<1>1. driver' \in Drivers /\ driver'.task = "none"
  BY ReturnMoves DEF StepBlocks, MInv
<1>2. /\ UNCHANGED <<workspace, epoch, headRow, rows, refs, worktrees, made, faults>>
      /\ UNCHANGED state \/ (state[t] = "WAITING_RESOURCE" /\ state' = [state EXCEPT ![t] = "BLOCKED"])
  BY DEF StepBlocks, BlockTask, OrchestratorTransition, Move, NoStore, storeVars, gitVars
<1>3. \A u \in Tasks \ {t} : state'[u] = state[u] /\ epoch'[u] = epoch[u]
  BY <1>2 DEF MInv, HInv, IInv, TypeOK
<1>4. state[t] \in TerminalStates => state'[t] \in TerminalStates
  BY <1>2 DEF TerminalStates
<1>5. faults' \in Nat
  BY <1>2 DEF MInv, ManagerTypes
<1> QED
  BY <1>1, <1>2, <1>3, <1>4, <1>5, TaskMovesKeep

--------------------------------------------------------------------------------
(* The steps of a compaction and of its recovery.                          *)
LEMMA CheckpointBlockedKeeps ==
  ASSUME MInv, HInv', NEW t \in Tasks, CheckpointBlocked(t)
  PROVE  MInv'
<1>1. /\ workspace[t] = "READY" /\ RowTruth(t)
      /\ workspace' = [workspace EXCEPT ![t] = "CHECKPOINTING"]
      /\ UNCHANGED <<state, epoch, headRow, rows, refs, worktrees, made, faults>>
  BY DEF CheckpointBlocked, BeginWorkspaceCheckpoint, Rows, gitVars, MInv
<1>2. /\ driver' \in Drivers /\ driver'.pc = "capture" /\ driver'.task = t
      /\ driver'.op = "checkpoint"
  <2>1. Start(t, "checkpoint", "capture", NoRevision)
    BY DEF CheckpointBlocked
  <2>2. NoRevision \in Int /\ "checkpoint" \in Ops /\ "capture" \in CallSteps
    BY DEF CallSteps, Ops, Compacting, Capturing, NoRevision
  <2> QED
    BY <2>1, <2>2, StartMoves DEF MInv
<1>3. workspace'[t] = "CHECKPOINTING" /\ \A u \in Tasks \ {t} : workspace'[u] = workspace[u]
  BY <1>1 DEF MInv, HInv, IInv, TypeOK
<1>4. ManagerTypes'
  BY <1>1, <1>2 DEF MInv, ManagerTypes
<1>5. OthersSame(t) /\ Serves(t)
  BY <1>1, <1>2, <1>3 DEF OthersSame, Same, Serves
<1>6. Present(t)'
  BY <1>1 DEF RowTruth, Present, LatestIs, Latest, InWorktree, Registered
<1>7. RowTruth(t)'
  BY <1>3, <1>6 DEF RowTruth
<1>8. LoopTruth(t)'
  BY <1>2, <1>3, <1>6 DEF LoopTruth, CompactTruth, Compacting, Capturing
<1> QED
  BY <1>4, <1>5, <1>7, <1>8, StepKeeps

(* What is captured is what the worktree shows.                            *)
LEMMA CaptureKeeps == ASSUME MInv, HInv', NEW t \in Tasks, Capture(t) PROVE MInv'
<1>1. /\ driver.task = t /\ driver.op = "checkpoint" /\ workspace[t] = "CHECKPOINTING"
      /\ Present(t) /\ Reads /\ UNCHANGED faults
  BY AtCall DEF Capture, CaptureTree, CompactTruth, Capturing
<1>2. Present(t)' /\ workspace'[t] = "CHECKPOINTING" /\ worktrees'[t] = worktrees[t]
  BY <1>1 DEF Reads, NoStore, storeVars, gitVars, Present, LatestIs, Latest, InWorktree,
     Registered
<1>3. CASE Capturable(t)
  <2>1. worktrees[t].tree \in Int
    BY DEF MInv, ManagerTypes, Managed
  <2>2. /\ driver' \in Drivers /\ driver'.pc = "anchor" /\ driver'.task = t
        /\ driver'.op = "checkpoint" /\ driver'.arg = worktrees[t].tree
    BY <1>1, <1>3, <2>1 DEF Capture, CaptureTree, MInv, ManagerTypes, Drivers, Compacting, Capturing
  <2>3. LoopTruth(t)'
    BY <1>2, <1>3, <2>2 DEF LoopTruth, CompactTruth, Compacting, Capturing, Capturable
  <2> QED
    BY <1>1, <2>2, <2>3, OneTaskTruth, ReadsKeep, FaultCounts DEF MInv
<1>4. CASE ~Capturable(t)
  <2>1. /\ driver' \in Drivers /\ driver'.pc = "abort" /\ driver'.task = t
        /\ driver'.op = "checkpoint"
    BY <1>1, <1>4, GoMoves DEF Capture, CaptureTree, MInv, CallSteps, Compacting, Capturing
  <2>2. LoopTruth(t)'
    BY <1>2, <2>1 DEF LoopTruth, CompactTruth, Compacting, Capturing
  <2> QED
    BY <1>1, <2>1, <2>2, OneTaskTruth, ReadsKeep, FaultCounts DEF MInv
<1> QED
  BY <1>3, <1>4

(* A ref of a version that no row has yet tells nothing.                   *)
LEMMA RefsChange ==
  ASSUME ManagerTypes, NEW t \in Tasks, NEW set \in SUBSET Nat,
         refs' = [refs EXCEPT ![t] = set]
  PROVE  /\ refs' \in [Tasks -> SUBSET Nat] /\ refs'[t] = set
         /\ \A u \in Tasks \ {t} : refs'[u] = refs[u]
BY DEF ManagerTypes

LEMMA AnchorKeeps == ASSUME MInv, HInv', NEW t \in Tasks, Anchor(t) PROVE MInv'
<1>1. /\ driver.task = t /\ driver.op = "checkpoint" /\ driver.pc = "anchor" /\ CompactTruth(t)
      /\ RowTruth(t)
      /\ UNCHANGED <<state, epoch, workspace, headRow, rows, worktrees, made, faults>>
  BY AtCall DEF Anchor, Capturing, NoStore, storeVars, MInv
<1>2. /\ driver' \in Drivers /\ driver'.pc = "record" /\ driver'.task = t
      /\ driver'.op = "checkpoint" /\ driver'.arg = driver.arg
  BY <1>1, GoMoves DEF Anchor, MInv, CallSteps, Compacting, Capturing
<1>3. refs[t] \cup {NextVersion(t)} \in SUBSET Nat
  BY DEF MInv, ManagerTypes, NextVersion
<1>4. /\ refs' \in [Tasks -> SUBSET Nat] /\ refs'[t] = refs[t] \cup {NextVersion(t)}
      /\ \A u \in Tasks \ {t} : refs'[u] = refs[u]
  BY <1>3, RefsChange DEF Anchor, MInv, ManagerTypes
<1>5. ManagerTypes'
  BY <1>1, <1>2, <1>4 DEF MInv, ManagerTypes
<1>6. OthersSame(t) /\ Serves(t)
  BY <1>1, <1>2, <1>4 DEF OthersSame, Same, Serves
<1>7. Present(t)' /\ workspace'[t] = "CHECKPOINTING"
  BY <1>1 DEF CompactTruth, Capturing, Present, LatestIs, Latest, InWorktree, Registered
<1>8. RowTruth(t)'
  BY <1>7 DEF RowTruth
<1>9. LoopTruth(t)'
  BY <1>1, <1>2, <1>4, <1>7 DEF LoopTruth, CompactTruth, Compacting, Capturing, NextVersion
<1> QED
  BY <1>5, <1>6, <1>8, <1>9, StepKeeps

LEMMA RecordFailsKeeps == ASSUME MInv, HInv', NEW t \in Tasks, RecordFails(t) PROVE MInv'
<1>1. /\ driver.task = t /\ driver.op = "checkpoint" /\ CompactTruth(t) /\ driver.pc = "record"
      /\ faults' \in Nat
      /\ UNCHANGED <<state, epoch, workspace, headRow, rows, worktrees, made>>
  BY AtCall, FaultCounts DEF RecordFails, Capturing, NoStore, storeVars, MInv
<1>2. /\ driver' \in Drivers /\ driver'.pc = "abort" /\ driver'.task = t
      /\ driver'.op = "checkpoint"
  BY <1>1, GoMoves DEF RecordFails, MInv, CallSteps, Compacting, Capturing
<1>3. refs[t] \ {NextVersion(t)} \in SUBSET Nat
  BY DEF MInv, ManagerTypes
<1>4. /\ refs' \in [Tasks -> SUBSET Nat] /\ \A u \in Tasks \ {t} : refs'[u] = refs[u]
  BY <1>3, RefsChange DEF RecordFails, MInv, ManagerTypes
<1>5. ManagerTypes'
  BY <1>1, <1>2, <1>4 DEF MInv, ManagerTypes
<1>6. OthersSame(t) /\ Serves(t)
  BY <1>1, <1>2, <1>4 DEF OthersSame, Same, Serves
<1>7. Present(t)' /\ workspace'[t] = "CHECKPOINTING"
  BY <1>1 DEF CompactTruth, Capturing, Present, LatestIs, Latest, InWorktree, Registered
<1>8. RowTruth(t)'
  BY <1>7 DEF RowTruth
<1>9. LoopTruth(t)'
  BY <1>2, <1>7 DEF LoopTruth, CompactTruth, Compacting, Capturing
<1> QED
  BY <1>5, <1>6, <1>8, <1>9, StepKeeps

(* The row is recorded over a ref that exists: from here on the snapshot   *)
(* stands for the worktree.                                                *)
LEMMA RecordCheckpointKeeps ==
  ASSUME MInv, HInv', NEW t \in Tasks, RecordCheckpoint(t)
  PROVE  MInv'
<1> DEFINE row == [original |-> worktrees[t].head, snapshot |-> driver.arg,
                   state |-> "CAPTURED", active |-> TRUE]
<1>1. /\ driver.task = t /\ driver.op = "checkpoint" /\ CompactTruth(t) /\ driver.pc = "record"
      /\ rows' = [rows EXCEPT ![t] = Append(@, row)]
      /\ UNCHANGED <<state, epoch, workspace, headRow, refs, worktrees, made, faults>>
  BY AtCall DEF RecordCheckpoint, Capturing, storeVars, Rows, gitVars
<1>2. /\ driver' \in Drivers /\ driver'.pc = "remove" /\ driver'.task = t
      /\ driver'.op = "checkpoint"
  BY <1>1, GoMoves DEF RecordCheckpoint, MInv, CallSteps, Compacting
<1>3. row \in Checkpoints /\ row.state = "CAPTURED" /\ row.snapshot = driver.arg
  BY DEF MInv, ManagerTypes, Drivers, Managed, Checkpoints, CheckpointStates
<1> HIDE DEF row
<1>4. /\ rows'[t] = Append(rows[t], row) /\ rows[t] \in Seq(Checkpoints)
      /\ \A u \in Tasks \ {t} : rows'[u] = rows[u]
  BY <1>1 DEF MInv, ManagerTypes
<1>5. /\ rows'[t] \in Seq(Checkpoints) /\ Len(rows'[t]) = Len(rows[t]) + 1
      /\ rows'[t] # <<>> /\ rows'[t][Len(rows[t]) + 1] = row
  BY <1>3, <1>4
<1>6. rows' \in [Tasks -> Seq(Checkpoints)]
  BY <1>1, <1>4, <1>5 DEF MInv, ManagerTypes
<1>7. ManagerTypes'
  BY <1>1, <1>2, <1>6 DEF MInv, ManagerTypes
<1>8. OthersSame(t) /\ Serves(t)
  BY <1>1, <1>2, <1>4 DEF OthersSame, Same, Serves
<1>9. Latest(t)' = row /\ Len(rows'[t]) \in refs'[t]
  BY <1>1, <1>5 DEF Latest, CompactTruth, NextVersion
<1>10. driver.arg = made[t].tree /\ ~made[t].ignored
  BY <1>1 DEF CompactTruth, Capturing, Present, InWorktree
<1>11. Captured(t)' /\ workspace'[t] = "CHECKPOINTING"
  BY <1>1, <1>3, <1>5, <1>9, <1>10 DEF Captured, LatestIs, InSnapshot, CompactTruth
<1>12. RowTruth(t)'
  BY <1>11 DEF RowTruth
<1>13. LoopTruth(t)'
  BY <1>2, <1>11 DEF LoopTruth, CompactTruth, Compacting, Capturing
<1> QED
  BY <1>7, <1>8, <1>12, <1>13, StepKeeps

LEMMA AbortKeeps == ASSUME MInv, HInv', NEW t \in Tasks, Abort(t) PROVE MInv'
<1>1. /\ Present(t) /\ workspace' = [workspace EXCEPT ![t] = "READY"]
      /\ UNCHANGED <<state, epoch, headRow, rows, refs, worktrees, made, faults>>
  BY AtCall DEF Abort, AbortWorkspaceCheckpoint, EndWorkspaceCheckpoint, Rows, gitVars,
     CompactTruth, Capturing
<1>2. driver' \in Drivers /\ driver'.task = "none"
  BY ReturnMoves DEF Abort, MInv
<1>3. workspace'[t] = "READY" /\ \A u \in Tasks \ {t} : workspace'[u] = workspace[u]
  BY <1>1 DEF MInv, HInv, IInv, TypeOK
<1>4. ManagerTypes'
  BY <1>1, <1>2 DEF MInv, ManagerTypes
<1>5. OthersSame(t) /\ Serves(t)
  BY <1>1, <1>2, <1>3 DEF OthersSame, Same, Serves
<1>6. RowTruth(t)'
  BY <1>1, <1>3 DEF RowTruth, Present, LatestIs, Latest, InWorktree, Registered
<1> QED
  BY <1>2, <1>4, <1>5, <1>6, NoTaskNoTruth, StepKeeps

(* A path is only ever cleared when a snapshot holds what was there, or    *)
(* when the task has ended.                                                *)
LEMMA Cleared ==
  ASSUME MInv, HInv', NEW t \in Tasks, At(t, "remove"), NoStore, UNCHANGED refs,
         NEW w \in Managed, worktrees' = [worktrees EXCEPT ![t] = w],
         driver' \in Drivers, faults' \in Nat,
         \/ driver'.task = "none"
         \/ /\ w = NoWorktree /\ driver'.task = t /\ driver'.pc = "finish"
            /\ driver'.op = driver.op
  PROVE  MInv'
<1>1. /\ driver.op \in {"checkpoint", "remove"} /\ driver.task = t /\ driver.pc = "remove"
      /\ LoopTruth(t) /\ RowTruth(t)
      /\ UNCHANGED <<state, epoch, workspace, headRow, rows, made>>
  BY AtCall DEF NoStore, storeVars, MInv
<1>2. /\ worktrees'[t] = w /\ worktrees' \in [Tasks -> Managed]
      /\ \A u \in Tasks \ {t} : worktrees'[u] = worktrees[u]
  BY DEF MInv, ManagerTypes
<1>3. ManagerTypes'
  BY <1>1, <1>2 DEF MInv, ManagerTypes
<1>4. OthersSame(t) /\ Serves(t)
  BY <1>1, <1>2 DEF OthersSame, Same, Serves
<1>5. CASE driver.op = "checkpoint"
  <2>1. Captured(t)' /\ workspace'[t] = "CHECKPOINTING"
    BY <1>1, <1>5 DEF LoopTruth, CompactTruth, Captured, LatestIs, Latest, InSnapshot
  <2>2. RowTruth(t)'
    BY <2>1 DEF RowTruth
  <2>3. LoopTruth(t)'
    BY <1>2, <1>5, <2>1, WorkspaceAssumption DEF LoopTruth, CompactTruth, Compacting, Capturing,
       WorkspaceAssumption
  <2> QED
    BY <1>3, <1>4, <2>2, <2>3, StepKeeps
<1>6. CASE driver.op = "remove"
  <2>1. workspace'[t] = "REMOVING"
    BY <1>1, <1>6 DEF LoopTruth
  <2>2. RowTruth(t)'
    BY <1>1, <2>1 DEF RowTruth
  <2>3. LoopTruth(t)'
    BY <1>6, <2>1, WorkspaceAssumption DEF LoopTruth, WorkspaceAssumption
  <2> QED
    BY <1>3, <1>4, <2>2, <2>3, StepKeeps
<1> QED
  BY <1>1, <1>5, <1>6

LEMMA RemoveWorktreeKeeps ==
  ASSUME MInv, HInv', NEW t \in Tasks, RemoveWorktree(t) \/ RemoveWorktreeFails(t)
  PROVE  MInv'
<1>1. NoWorktree \in Managed /\ Residue \in Managed /\ worktrees[t] \in Managed
  <2>1. NoWorktree \in Managed
    BY DEF NoWorktree, Managed, NoRevision
  <2>2. Residue \in Managed
    BY <2>1 DEF Residue, Managed
  <2> QED
    BY <2>1, <2>2 DEF MInv, ManagerTypes
<1>2. worktrees = [worktrees EXCEPT ![t] = worktrees[t]]
  BY DEF MInv, ManagerTypes
<1>3. CASE RemoveWorktree(t)
  <2>1. /\ driver' \in Drivers /\ driver'.pc = "finish" /\ driver'.task = driver.task
        /\ driver'.op = driver.op
    BY <1>3, GoMoves DEF RemoveWorktree, MInv, CallSteps, Compacting
  <2>2. driver.task = t /\ faults' \in Nat
    BY <1>3 DEF RemoveWorktree, At, MInv, ManagerTypes
  <2> QED
    BY <1>1, <1>3, <2>1, <2>2, Cleared DEF RemoveWorktree
<1>4. CASE RemoveWorktreeFails(t)
  <2>1. driver' \in Drivers /\ driver'.task = "none" /\ faults' \in Nat
    BY <1>4, ReturnMoves, FaultCounts DEF RemoveWorktreeFails, MInv
  <2>2. \E w \in Managed : worktrees' = [worktrees EXCEPT ![t] = w]
    BY <1>1, <1>2, <1>4 DEF RemoveWorktreeFails
  <2> QED
    BY <1>4, <2>1, <2>2, Cleared DEF RemoveWorktreeFails
<1> QED
  BY <1>3, <1>4

LEMMA FinishCheckpointKeeps ==
  ASSUME MInv, HInv', NEW t \in Tasks, FinishCheckpoint(t)
  PROVE  MInv'
<1>1. /\ workspace[t] = "CHECKPOINTING" /\ Captured(t) /\ worktrees[t] = NoWorktree
      /\ workspace' = [workspace EXCEPT ![t] = "CHECKPOINTED"]
      /\ SetLatest(t, "COMPACTED")
      /\ UNCHANGED <<state, epoch, headRow, refs, worktrees, made, faults>>
  BY AtCall DEF FinishCheckpoint, FinishWorkspaceCheckpoint, EndWorkspaceCheckpoint, Rows,
     gitVars, LoopTruth, CompactTruth
<1>2. driver' \in Drivers /\ driver'.task = "none"
  BY ReturnMoves DEF FinishCheckpoint, MInv
<1>3. workspace'[t] = "CHECKPOINTED" /\ \A u \in Tasks \ {t} : workspace'[u] = workspace[u]
  BY <1>1 DEF MInv, HInv, IInv, TypeOK
<1>4. /\ rows' \in [Tasks -> Seq(Checkpoints)]
      /\ \A u \in Tasks \ {t} : rows'[u] = rows[u]
      /\ rows'[t] # <<>> /\ Len(rows'[t]) = Len(rows[t])
      /\ Latest(t)'.state = "COMPACTED" /\ Latest(t)'.snapshot = Latest(t).snapshot
  BY <1>1, LatestSet DEF MInv, Captured, LatestIs, CheckpointStates
<1>5. ManagerTypes'
  BY <1>1, <1>2, <1>4 DEF MInv, ManagerTypes
<1>6. OthersSame(t) /\ Serves(t)
  BY <1>1, <1>2, <1>3, <1>4 DEF OthersSame, Same, Serves
<1>7. LatestIs(t, "COMPACTED")' /\ InSnapshot(t)'
  BY <1>1, <1>4 DEF Captured, LatestIs, InSnapshot
<1>8. RowTruth(t)'
  BY <1>1, <1>3, <1>7 DEF RowTruth, NoWorktree
<1> QED
  BY <1>2, <1>5, <1>6, <1>8, NoTaskNoTruth, StepKeeps

(* Recovery takes back what recorded nothing and goes on with what did.    *)
LEMMA ReconcileKeeps == ASSUME MInv, HInv', NEW t \in Tasks, Reconcile(t) PROVE MInv'
<1>1. /\ Reads /\ UNCHANGED faults /\ workspace[t] = "CHECKPOINTING"
      /\ Present(t) \/ Captured(t)
      /\ \/ NothingRecorded(t) /\ Start(t, "checkpoint", "abort", NoRevision)
         \/ ReadyToFinish(t) /\ Start(t, "checkpoint", "remove", NoRevision)
  BY DEF Reconcile, ReconcileBy, MInv, RowTruth
<1>2. PICK pc \in {"abort", "remove"} :
        /\ Start(t, "checkpoint", pc, NoRevision)
        /\ pc = "abort" => NothingRecorded(t)
        /\ pc = "remove" => ReadyToFinish(t)
  BY <1>1
<1>3. /\ driver' \in Drivers /\ driver'.pc = pc /\ driver'.task = t /\ driver'.op = "checkpoint"
  BY <1>2, StartMoves DEF MInv, CallSteps, Ops, Compacting, Capturing, NoRevision
<1>4. (pc = "abort" => Present(t)) /\ (pc = "remove" => Captured(t))
  BY <1>1, <1>2 DEF NothingRecorded, ReadyToFinish, Present, Captured, LatestIs
<1>5. LoopTruth(t)'
  BY <1>1, <1>3, <1>4 DEF LoopTruth, CompactTruth, Compacting, Capturing, Present, Captured,
     LatestIs, Latest, InWorktree, InSnapshot, Registered, Reads, NoStore, storeVars, gitVars
<1> QED
  BY <1>1, <1>3, <1>5, OneTaskTruth, ReadsKeep, FaultCounts DEF MInv

--------------------------------------------------------------------------------
(* Releasing the ref of a checkpoint that was rebuilt.                     *)
LEMMA ReleaseRefKeeps == ASSUME MInv, HInv', NEW t \in Tasks, ReleaseRef(t) PROVE MInv'
<1>1. PICK n \in Releasable(t) : /\ Start(t, "release", "receipt", n)
                                 /\ refs' = [refs EXCEPT ![t] = @ \ {n}]
  BY DEF ReleaseRef, Release
<1>2. /\ n \in DOMAIN rows[t] /\ rows[t][n].state = "REHYDRATED" /\ n \in Int
      /\ RowTruth(t) /\ UNCHANGED <<state, epoch, workspace, headRow, rows, worktrees, made, faults>>
  BY <1>1 DEF Releasable, ReleaseRef, Release, NoStore, storeVars, MInv, ManagerTypes
<1>3. /\ driver' \in Drivers /\ driver'.pc = "receipt" /\ driver'.task = t
      /\ driver'.op = "release" /\ driver'.arg = n
  <2>1. "release" \in Ops /\ "receipt" \in CallSteps
    BY DEF Ops, CallSteps
  <2> QED
    BY <1>1, <1>2, <2>1, StartMoves DEF MInv
<1>4. refs[t] \ {n} \in SUBSET Nat
  BY DEF MInv, ManagerTypes
<1>5. /\ refs' \in [Tasks -> SUBSET Nat] /\ refs'[t] = refs[t] \ {n}
      /\ \A u \in Tasks \ {t} : refs'[u] = refs[u]
  BY <1>1, <1>4, RefsChange DEF MInv, ManagerTypes
<1>6. ManagerTypes'
  BY <1>2, <1>3, <1>5 DEF MInv, ManagerTypes
<1>7. OthersSame(t) /\ Serves(t)
  BY <1>2, <1>3, <1>5 DEF OthersSame, Same, Serves
<1>8. rows[t] # <<>> /\ Latest(t).state # "REHYDRATED" => Len(rows[t]) # n
  BY <1>2 DEF Latest
<1>9. RowTruth(t)'
  <2>1. LatestIs(t, "REHYDRATING") \/ LatestIs(t, "CAPTURED") \/ LatestIs(t, "COMPACTED")
        => (InSnapshot(t) => InSnapshot(t)')
    BY <1>2, <1>5, <1>8 DEF LatestIs, InSnapshot, Latest
  <2> QED
    BY <1>2, <2>1 DEF RowTruth, Unwritten, Restoring, Present, Captured, LatestIs, Latest,
       InWorktree, Registered
<1>10. LoopTruth(t)'
  BY <1>2, <1>3 DEF LoopTruth
<1> QED
  BY <1>6, <1>7, <1>9, <1>10, StepKeeps

LEMMA ReleaseReceiptKeeps ==
  ASSUME MInv, HInv', NEW t \in Tasks, ReleaseReceipt(t)
  PROVE  MInv'
<1> DEFINE n   == driver.arg
           row == [rows[t][n] EXCEPT !.active = FALSE]
           new == [rows[t] EXCEPT ![n] = row]
<1>1. /\ n \in DOMAIN rows[t] /\ RowTruth(t)
      /\ UNCHANGED <<state, epoch, workspace, headRow, refs, worktrees, made, faults>>
  BY AtCall DEF ReleaseReceipt, LoopTruth, storeVars, Rows, gitVars, MInv
<1>2. driver' \in Drivers /\ driver'.task = "none"
  BY ReturnMoves DEF ReleaseReceipt, MInv
<1>3. rows[t] \in Seq(Checkpoints) /\ rows[t][n] \in Checkpoints
  BY <1>1 DEF MInv, ManagerTypes
<1>4. /\ row \in Checkpoints /\ row.state = rows[t][n].state
      /\ row.snapshot = rows[t][n].snapshot
  BY <1>3 DEF Checkpoints
<1>5. rows' = [rows EXCEPT ![t] = new]
  BY DEF ReleaseReceipt
<1> HIDE DEF row
<1>6. new \in Seq(Checkpoints) /\ Len(new) = Len(rows[t]) /\ DOMAIN new = DOMAIN rows[t]
  BY <1>1, <1>3, <1>4
<1>7. \A k \in DOMAIN rows[t] : new[k] = IF k = n THEN row ELSE rows[t][k]
  BY <1>3
<1> HIDE DEF new, n
<1>8. /\ rows'[t] = new /\ rows' \in [Tasks -> Seq(Checkpoints)]
      /\ \A u \in Tasks \ {t} : rows'[u] = rows[u]
  BY <1>5, <1>6 DEF MInv, ManagerTypes
<1>9. ManagerTypes'
  BY <1>1, <1>2, <1>8 DEF MInv, ManagerTypes
<1>10. OthersSame(t) /\ Serves(t)
  BY <1>1, <1>2, <1>8 DEF OthersSame, Same, Serves
<1>11. /\ rows'[t] = <<>> <=> rows[t] = <<>>
       /\ Len(rows'[t]) = Len(rows[t])
       /\ rows[t] # <<>> => /\ Latest(t)'.state = Latest(t).state
                            /\ Latest(t)'.snapshot = Latest(t).snapshot
  <2>1. rows'[t] = <<>> <=> rows[t] = <<>>
    BY <1>3, <1>6, <1>8
  <2>2. ASSUME rows[t] # <<>>
        PROVE  /\ Latest(t)'.state = Latest(t).state
               /\ Latest(t)'.snapshot = Latest(t).snapshot
    <3>1. Len(rows[t]) \in DOMAIN rows[t]
      BY <1>3, <2>2
    <3>2. Latest(t)' = new[Len(rows[t])]
      BY <1>6, <1>8 DEF Latest
    <3> QED
      BY <1>4, <1>7, <3>1, <3>2 DEF Latest
  <2> QED
    BY <1>6, <1>8, <2>1, <2>2
<1>12. RowTruth(t)'
  BY <1>1, <1>11 DEF RowTruth, Unwritten, Restoring, Present, Captured, LatestIs, InSnapshot,
     InWorktree, Registered
<1> QED
  BY <1>2, <1>9, <1>10, <1>12, NoTaskNoTruth, StepKeeps

--------------------------------------------------------------------------------
(* Removal, the owner's choice, workers and the rest.                      *)
LEMMA RemoveTerminalKeeps ==
  ASSUME MInv, HInv', NEW t \in Tasks, RemoveTerminal(t)
  PROVE  MInv'
<1>1. /\ state[t] \in TerminalStates /\ RowTruth(t)
      /\ \/ workspace[t] = "REMOVING" /\ UNCHANGED workspace
         \/ workspace' = [workspace EXCEPT ![t] = "REMOVING"]
      /\ UNCHANGED <<state, epoch, headRow, rows, refs, worktrees, made, faults>>
  BY DEF RemoveTerminal, BeginWorkspaceRemoval, Removable, TerminalStates, storeVars, Rows,
     gitVars, MInv
<1>2. /\ driver' \in Drivers /\ driver'.pc = "remove" /\ driver'.task = t
      /\ driver'.op = "remove"
  <2>1. Start(t, "remove", "remove", NoRevision)
    BY DEF RemoveTerminal
  <2>2. NoRevision \in Int /\ "remove" \in Ops /\ "remove" \in CallSteps
    BY DEF CallSteps, Ops, Compacting, NoRevision
  <2> QED
    BY <2>1, <2>2, StartMoves DEF MInv
<1>3. workspace'[t] = "REMOVING" /\ \A u \in Tasks \ {t} : workspace'[u] = workspace[u]
  BY <1>1 DEF MInv, HInv, IInv, TypeOK
<1>4. ManagerTypes'
  BY <1>1, <1>2 DEF MInv, ManagerTypes
<1>5. OthersSame(t) /\ Serves(t)
  BY <1>1, <1>2, <1>3 DEF OthersSame, Same, Serves
<1>6. RowTruth(t)'
  BY <1>1, <1>3 DEF RowTruth
<1>7. LoopTruth(t)'
  BY <1>2, <1>3 DEF LoopTruth
<1> QED
  BY <1>4, <1>5, <1>6, <1>7, StepKeeps

LEMMA FinishRemovalKeeps ==
  ASSUME MInv, HInv', NEW t \in Tasks, FinishRemoval(t)
  PROVE  MInv'
<1>1. /\ state[t] \in TerminalStates
      /\ workspace' = [workspace EXCEPT ![t] = "REMOVED"]
      /\ UNCHANGED <<state, epoch, headRow, rows, refs, worktrees, made, faults>>
  BY DEF FinishRemoval, FinishWorkspaceRemoval, Removable, TerminalStates, Rows, gitVars
<1>2. driver' \in Drivers /\ driver'.task = "none"
  BY ReturnMoves DEF FinishRemoval, MInv
<1>3. workspace'[t] = "REMOVED" /\ \A u \in Tasks \ {t} : workspace'[u] = workspace[u]
  BY <1>1 DEF MInv, HInv, IInv, TypeOK
<1>4. ManagerTypes'
  BY <1>1, <1>2 DEF MInv, ManagerTypes
<1>5. OthersSame(t) /\ Serves(t)
  BY <1>1, <1>2, <1>3 DEF OthersSame, Same, Serves
<1>6. RowTruth(t)'
  BY <1>1, <1>3 DEF RowTruth
<1> QED
  BY <1>2, <1>4, <1>5, <1>6, NoTaskNoTruth, StepKeeps

LEMMA DriveBlockedChoiceKeeps ==
  ASSUME MInv, HInv', NEW t \in Tasks, DriveBlockedChoice(t)
  PROVE  MInv'
<1>1. driver' \in Drivers /\ driver'.task = "none"
  BY DEF DriveBlockedChoice, Busy, MInv, ManagerTypes, Drivers
<1>2. /\ UNCHANGED <<workspace, epoch, headRow, rows, refs, worktrees, made, faults>>
      /\ UNCHANGED state \/ \E to : state[t] = "BLOCKED" /\ state' = [state EXCEPT ![t] = to]
  BY DEF DriveBlockedChoice, RecoverBlockedChoice, RecoverNoWorkspaceToPreflight,
     RecoverBlockedCheckpointToWaitingResource, RecoverTaskToWorkspaceReady, SetTaskBlocker, Touch, Move,
     Rows, gitVars
<1>3. \A u \in Tasks \ {t} : state'[u] = state[u] /\ epoch'[u] = epoch[u]
  BY <1>2 DEF MInv, HInv, IInv, TypeOK
<1>4. state[t] \in TerminalStates => state'[t] \in TerminalStates
  BY <1>2 DEF TerminalStates
<1>5. faults' \in Nat
  BY <1>2 DEF MInv, ManagerTypes
<1> QED
  BY <1>1, <1>2, <1>3, <1>4, <1>5, TaskMovesKeep

(* Attempts and owners move the task; only an admission counts epochs, and *)
(* it needs a READY workspace.                                             *)
LEMMA OthersKeep == ASSUME MInv, HInv', NEW t \in Tasks, Others(t) PROVE MInv'
<1>1. UNCHANGED <<workspace, headRow, rows, refs, worktrees, made, driver, faults>>
  BY DEF Others, Attempts, AdvancePreExecution, OrchestratorTransition, BeginAttempt,
     LogicalFenceAttempt, ConfirmAttemptTerminated, TransitionForAttempt, RequirePhysicalRecovery,
     RequestTaskCancellation, FinalizeTaskCancellation, Steer, gitVars
<1>2. \/ UNCHANGED <<state, epoch>>
      \/ /\ UNCHANGED epoch
         /\ \E to : /\ state[t] \in TerminalStates => to \in TerminalStates
                    /\ state' = [state EXCEPT ![t] = to]
      \/ /\ state[t] = "WORKSPACE_READY" /\ state' = [state EXCEPT ![t] = "RUNNING"]
         /\ epoch' = [epoch EXCEPT ![t] = @ + 1]
  <2>1. CASE AdvancePreExecution(t, "WAITING_RESOURCE")
    BY <2>1 DEF AdvancePreExecution, OrchestratorTransition, Move, PreExecutionTransitions,
       TerminalStates
  <2>2. CASE BeginAttempt(t)
    BY <2>2 DEF BeginAttempt, Move
  <2>3. CASE \E e \in Epochs : LogicalFenceAttempt(t, e) \/ ConfirmAttemptTerminated(t, e)
    BY <2>3 DEF LogicalFenceAttempt, ConfirmAttemptTerminated
  <2>4. CASE \E e \in Epochs : TransitionForAttempt(t, e, "BLOCKED")
    BY <2>4 DEF TransitionForAttempt, AttemptTransitions, Move, TerminalStates
  <2>5. CASE \E e \in Epochs : RequirePhysicalRecovery(t, e)
    BY <2>5 DEF RequirePhysicalRecovery, Move
  <2>6. CASE RequestTaskCancellation(t) \/ FinalizeTaskCancellation(t)
    BY <2>6 DEF RequestTaskCancellation, FinalizeTaskCancellation, Move, TerminalStates
  <2>7. CASE Steer(t, TRUE)
    BY <2>7 DEF Steer
  <2> QED
    BY <2>1, <2>2, <2>3, <2>4, <2>5, <2>6, <2>7 DEF Others, Attempts
<1>3. \A u \in Tasks \ {t} : state'[u] = state[u] /\ epoch'[u] = epoch[u]
  BY <1>2 DEF MInv, HInv, IInv, TypeOK
<1>4. state[t] \in TerminalStates => state'[t] \in TerminalStates
  BY <1>2 DEF TerminalStates, MInv, HInv, IInv, TypeOK
<1>5. epoch'[t] = epoch[t] \/ workspace[t] = "READY"
  BY <1>2 DEF MInv, HInv, Hosted, HostedStates
<1>6. driver' \in Drivers /\ faults' \in Nat
  BY <1>1 DEF MInv, ManagerTypes
<1> QED
  BY <1>1, <1>3, <1>4, <1>5, <1>6, TaskMovesKeep

(* An open attempt has a READY workspace, so the loop is elsewhere with    *)
(* this task, or about to find out that it has nothing to prepare.         *)
LEMMA OpenIsReady ==
  ASSUME MInv, NEW t \in Tasks, workspace[t] = "READY"
  PROVE  /\ Present(t)
         /\ driver.task = t => \/ driver.op = "ensure" /\ driver.pc \in {"begin", "block"}
                               \/ driver.op = "release" /\ driver.pc = "receipt"
                                    /\ driver.arg \in DOMAIN rows[t]
BY DEF MInv, RowTruth, LoopTruth, EnsureTruth, CompactTruth, Preparing, ManagerTypes, Drivers

LEMMA WorkKeeps ==
  ASSUME MInv, HInv', NEW t \in Tasks, workspace[t] = "READY",
         UNCHANGED <<storeVars, rows, refs, driver, faults>>,
         headRow' \in [Tasks -> Int], \A u \in Tasks \ {t} : headRow'[u] = headRow[u],
         worktrees' \in [Tasks -> Managed], \A u \in Tasks \ {t} : worktrees'[u] = worktrees[u],
         made' \in [Tasks -> [tree : Nat, ignored : BOOLEAN]],
         \A u \in Tasks \ {t} : made'[u] = made[u],
         InWorktree(t)'
  PROVE  MInv'
<1>1. ManagerTypes'
  BY DEF MInv, ManagerTypes
<1>2. OthersSame(t) /\ Serves(t)
  BY DEF OthersSame, Same, Serves, storeVars
<1>3. Present(t)' /\ workspace'[t] = "READY"
  BY OpenIsReady DEF Present, LatestIs, Latest, storeVars
<1>4. RowTruth(t)'
  BY <1>3 DEF RowTruth
<1>5. LoopTruth(t)'
  BY OpenIsReady DEF LoopTruth, EnsureTruth, Preparing
<1> QED
  BY <1>1, <1>2, <1>4, <1>5, StepKeeps

LEMMA WriteKeeps == ASSUME MInv, HInv', NEW t \in Tasks, Write(t) PROVE MInv'
<1>1. workspace[t] = "READY" /\ InWorktree(t) /\ Registered(t)
  BY OpenIsReady DEF Write, MInv, HInv, Hosted, Present
<1>2. made[t] \in [tree : Nat, ignored : BOOLEAN] /\ worktrees[t] \in Managed
  BY DEF MInv, ManagerTypes
<1>3. UNCHANGED <<storeVars, headRow, rows, refs, driver, faults>>
  BY DEF Write
<1>4. CASE /\ made' = [made EXCEPT ![t].tree = @ + 1]
           /\ worktrees' = [worktrees EXCEPT ![t].tree = made[t].tree + 1]
  <2> DEFINE m == [made[t] EXCEPT !.tree = @ + 1]
             w == [worktrees[t] EXCEPT !.tree = made[t].tree + 1]
  <2>1. /\ m \in [tree : Nat, ignored : BOOLEAN]
        /\ m.tree = made[t].tree + 1 /\ m.ignored = made[t].ignored
    BY <1>2
  <2>2. /\ w \in Managed /\ w.tree = made[t].tree + 1 /\ w.at = worktrees[t].at
        /\ w.ignored = worktrees[t].ignored
    BY <1>2 DEF Managed
  <2>3. made' = [made EXCEPT ![t] = m] /\ worktrees' = [worktrees EXCEPT ![t] = w]
    BY <1>4
  <2> HIDE DEF m, w
  <2>4. /\ made' \in [Tasks -> [tree : Nat, ignored : BOOLEAN]]
        /\ \A u \in Tasks \ {t} : made'[u] = made[u]
        /\ made'[t].tree = made[t].tree + 1 /\ made'[t].ignored = made[t].ignored
    BY <2>1, <2>3 DEF MInv, ManagerTypes
  <2>5. /\ worktrees' \in [Tasks -> Managed]
        /\ \A u \in Tasks \ {t} : worktrees'[u] = worktrees[u]
        /\ worktrees'[t].tree = made[t].tree + 1 /\ worktrees'[t].at = worktrees[t].at
        /\ worktrees'[t].ignored = worktrees[t].ignored
    BY <2>2, <2>3 DEF MInv, ManagerTypes
  <2>6. InWorktree(t)'
    BY <1>1, <2>4, <2>5 DEF InWorktree, Registered
  <2> QED
    BY <1>1, <1>3, <2>4, <2>5, <2>6, WorkKeeps DEF MInv, ManagerTypes
<1>5. CASE /\ made' = [made EXCEPT ![t].ignored = TRUE]
           /\ worktrees' = [worktrees EXCEPT ![t].ignored = TRUE]
  <2>1. /\ made' \in [Tasks -> [tree : Nat, ignored : BOOLEAN]]
        /\ \A u \in Tasks \ {t} : made'[u] = made[u]
        /\ made'[t].tree = made[t].tree /\ made'[t].ignored = TRUE
    BY <1>2, <1>5 DEF MInv, ManagerTypes
  <2>2. /\ worktrees' \in [Tasks -> Managed]
        /\ \A u \in Tasks \ {t} : worktrees'[u] = worktrees[u]
        /\ worktrees'[t].tree = worktrees[t].tree /\ worktrees'[t].at = worktrees[t].at
        /\ worktrees'[t].ignored = TRUE
    BY <1>2, <1>5 DEF MInv, ManagerTypes, Managed
  <2>3. InWorktree(t)'
    BY <1>1, <2>1, <2>2 DEF InWorktree, Registered
  <2> QED
    BY <1>1, <1>3, <2>1, <2>2, <2>3, WorkKeeps DEF MInv, ManagerTypes
<1> QED
  BY <1>4, <1>5 DEF Write

LEMMA SealCommitKeeps == ASSUME MInv, HInv', NEW t \in Tasks, SealCommit(t) PROVE MInv'
<1>1. workspace[t] = "READY" /\ InWorktree(t)
  BY OpenIsReady DEF SealCommit, MInv, HInv, Hosted, Present
<1>2. worktrees[t] \in Managed
  BY DEF MInv, ManagerTypes
<1>3. /\ worktrees' \in [Tasks -> Managed]
      /\ \A u \in Tasks \ {t} : worktrees'[u] = worktrees[u]
      /\ worktrees'[t].tree = worktrees[t].tree /\ worktrees'[t].at = worktrees[t].at
      /\ worktrees'[t].ignored = worktrees[t].ignored
  BY <1>2 DEF SealCommit, MInv, ManagerTypes, Managed
<1>4. UNCHANGED <<storeVars, headRow, rows, refs, made, driver, faults>>
  BY DEF SealCommit
<1>5. InWorktree(t)'
  BY <1>1, <1>3, <1>4 DEF InWorktree, Registered
<1> QED
  BY <1>1, <1>3, <1>4, <1>5, WorkKeeps DEF MInv, ManagerTypes

LEMMA RecordWorkspaceHeadKeeps ==
  ASSUME MInv, HInv', NEW t \in Tasks, RecordWorkspaceHead(t)
  PROVE  MInv'
<1>1. workspace[t] = "READY" /\ InWorktree(t)
  BY OpenIsReady DEF RecordWorkspaceHead, Present
<1>2. UNCHANGED <<storeVars, rows, refs, worktrees, made, driver, faults>>
  BY DEF RecordWorkspaceHead, gitVars
<1>3. /\ headRow' \in [Tasks -> Int]
      /\ \A u \in Tasks \ {t} : headRow'[u] = headRow[u]
  BY DEF RecordWorkspaceHead, MInv, ManagerTypes, Managed
<1>4. InWorktree(t)'
  BY <1>1, <1>2 DEF InWorktree, Registered
<1> QED
  BY <1>1, <1>2, <1>3, <1>4, WorkKeeps DEF MInv, ManagerTypes

--------------------------------------------------------------------------------
LEMMA ManagerInitially == ManagerInit => MInv
<1> SUFFICES ASSUME ManagerInit PROVE MInv
  OBVIOUS
<1>1. TypeOK
  BY EpochAssumption DEF ManagerInit, TypeOK, TaskStates, PreAttemptStates, WorkspaceStates,
     Results, IntegrationStates, AuthorityStates
<1>2. \A t \in Tasks : Safe(t) /\ Hosted(t)
  BY DEF ManagerInit, Safe, Hosted, HostedStates, SettledStates, PreAttemptStates, OpenEpochs,
     Quiescent
<1>3. driver \in Drivers /\ driver.task = "none"
  BY IdleIsDriver DEF ManagerInit, PhaseAfter
<1>4. NoWorktree \in Managed /\ ~NoWorktree.ignored /\ NoRevision \in Int /\ Base \in Nat
  BY DEF NoWorktree, Managed, NoRevision, Base
<1>5. ManagerTypes
  BY <1>3, <1>4 DEF ManagerInit, ManagerTypes
<1>6. \A t \in Tasks : RowTruth(t)
  BY <1>4 DEF ManagerInit, RowTruth, Unwritten
<1>7. \A t \in Tasks : LoopTruth(t)
  BY <1>3, WorkspaceAssumption DEF LoopTruth, WorkspaceAssumption
<1> QED
  BY <1>1, <1>2, <1>5, <1>6, <1>7 DEF MInv, HInv, IInv

LEMMA UnchangedKeeps == ASSUME MInv, HInv', UNCHANGED mgrVars PROVE MInv'
<1>1. Reads /\ driver' \in Drivers /\ faults' \in Nat /\ driver' = driver
  BY DEF mgrVars, Reads, NoStore, gitVars, MInv, ManagerTypes
<1>2. ASSUME NEW t \in Tasks PROVE LoopTruth(t)'
  <2>1. Same(t) /\ LoopTruth(t)
    BY <1>1 DEF Same, Reads, NoStore, gitVars, storeVars, MInv
  <2> QED
    BY <1>1, <2>1, SameKeepsLoop
<1> QED
  BY <1>1, <1>2, ReadsKeep

LEMMA ManagerKeeps == MInv /\ [ManagerNext]_mgrVars => MInv'
<1> SUFFICES ASSUME MInv, [ManagerNext]_mgrVars PROVE MInv'
  OBVIOUS
<1>1. HInv'
  BY StoreKept
<1>2. CASE UNCHANGED mgrVars
  BY <1>1, <1>2, UnchangedKeeps
<1>3. ASSUME NEW t \in Tasks, EnsureStep(t) PROVE MInv'
  BY <1>1, <1>3, EnsureKeeps, EnsureNewKeeps, EnsureRehydrateKeeps, EnsureReadsKeep,
     AddWorktreeKeeps, MarkReadyKeeps, MarkFailedKeeps, StepBlocksKeeps DEF EnsureStep
<1>4. ASSUME NEW t \in Tasks, CheckpointStep(t) PROVE MInv'
  BY <1>1, <1>4, CheckpointBlockedKeeps, CaptureKeeps, AnchorKeeps, RecordCheckpointKeeps,
     AbortKeeps, RemoveWorktreeKeeps, FinishCheckpointKeeps, ReconcileKeeps, ReleaseRefKeeps,
     ReleaseReceiptKeeps, RemoveTerminalKeeps, FinishRemovalKeeps DEF CheckpointStep
<1>5. CASE DaemonStep
  BY <1>1, <1>3, <1>4, <1>5, NextPhaseKeeps, DriveBlockedChoiceKeeps, SkipKeeps DEF DaemonStep
<1>6. ASSUME NEW t \in Tasks,
             \/ AddWorktreeFails(t) \/ RecordFails(t) \/ RemoveWorktreeFails(t) \/ CallFails(t)
             \/ Write(t) \/ SealCommit(t) \/ RecordWorkspaceHead(t) \/ Others(t)
      PROVE  MInv'
  BY <1>1, <1>6, AddWorktreeKeeps, RecordFailsKeeps, RemoveWorktreeKeeps, CallFailsKeeps,
     WriteKeeps, SealCommitKeeps, RecordWorkspaceHeadKeeps, OthersKeep
<1> QED
  BY <1>1, <1>2, <1>5, <1>6, CrashKeeps DEF ManagerNext

(* What the rows, refs and worktrees of a reachable state have in common.  *)
THEOREM ManagerInvariant == ManagerSpec => []MInv
BY ManagerInitially, ManagerKeeps, PTL DEF ManagerSpec

(* The manager does nothing to the rows of tasks but the store's           *)
(* transactions: what TaskStore promises of a step holds here.             *)
THEOREM ManagerUsesStore == ManagerSpec => [][Next]_storeVars
<1>1. [ManagerNext]_mgrVars => [Next]_storeVars
  BY ManagerUsesStoreStep, CallsAreTransactions
<1> QED
  BY <1>1, PTL DEF ManagerSpec

(* WorkKept: whatever crashes or fails, the last content a worker left is  *)
(* in the registered worktree or in a snapshot that a live ref holds.      *)
THEOREM WorkIsKept == ManagerSpec => []WorkKept
<1>1. MInv => WorkKept
  <2> SUFFICES ASSUME MInv, NEW t \in Tasks, state[t] \notin TerminalStates, epoch[t] > 0
               PROVE  InWorktree(t) \/ InSnapshot(t)
    BY DEF WorkKept
  <2>1. RowTruth(t) /\ ~Unwritten(t)
    BY DEF MInv, Unwritten
  <2>2. workspace[t] \in WorkspaceStates \cup {"NONE"}
    BY DEF MInv, HInv, IInv, TypeOK
  <2> QED
    BY <2>1, <2>2 DEF RowTruth, WorkspaceStates, Restoring, Present, Captured
<1> QED
  BY <1>1, ManagerInvariant, PTL

(* CheckpointTruth: a READY row is a registered worktree, a CHECKPOINTED   *)
(* one waits in its snapshot, and an attempt starts on what was left.      *)
THEOREM RowsAreTrue == ManagerSpec => []CheckpointTruth
<1>1. MInv => CheckpointTruth
  <2> SUFFICES ASSUME MInv, NEW t \in Tasks
               PROVE  /\ workspace[t] = "READY" => Registered(t)
                      /\ workspace[t] = "CHECKPOINTED" =>
                           /\ LatestIs(t, "COMPACTED") /\ Len(rows[t]) \in refs[t]
                           /\ worktrees[t] = NoWorktree
                      /\ state[t] = "WORKSPACE_READY" => InWorktree(t)
    BY DEF CheckpointTruth
  <2>1. RowTruth(t) /\ Hosted(t)
    BY DEF MInv, HInv
  <2> QED
    BY <2>1 DEF RowTruth, Hosted, HostedStates, Present, InWorktree, InSnapshot
<1> QED
  BY <1>1, ManagerInvariant, PTL

================================================================================
