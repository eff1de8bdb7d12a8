---------------------------- MODULE WorkspaceManager ----------------------------
(***************************************************************************)
(* workspace.Manager: the git worktrees that tasks work in, how the one of *)
(* a blocked task is compacted into a private ref, rebuilt when the task   *)
(* resumes and removed when it ends.  The daemon's loop is the only caller *)
(* and runs one operation at a time; workers, the owner, git failures and  *)
(* crashes come in between.  Every action is one git command or one store  *)
(* transaction; the transactions are those of TaskStore.                   *)
(***************************************************************************)
EXTENDS TaskStore, Sequences

CONSTANTS MaxWork,          \* bound on what workers write, that is on tree contents
          MaxCheckpoints,   \* bound on the checkpoints of a task
          MaxFaults         \* bound on crashes and failed commands

ASSUME WorkspaceAssumption ==
  "none" \notin Tasks /\ MaxWork \in Nat /\ MaxCheckpoints \in Nat /\ MaxFaults \in Nat

VARIABLES
  headRow,    \* workspaces.head_revision, NoRevision while it is empty
  rows,       \* workspace_checkpoints of each task by version
  refs,       \* versions whose private ref refs/mar/checkpoints/* exists
  worktrees,  \* what is at each managed path, see NoWorktree
  made,       \* history: the last content a worker has left, tracked and ignored
  driver,     \* the daemon's loop, see Idle
  faults

gitVars == <<refs, worktrees>>
mgrVars == <<storeVars, headRow, rows, gitVars, made, driver, faults>>

(* A commit is named by the content of its tree, a number that grows with  *)
(* what workers write; 0 is the base of every task.                        *)
Base       == 0
NoRevision == -1
Partial    == -2                     \* a checkout that git did not complete

(* at: nothing, a directory git does not know, or a registered worktree;   *)
(* ignored: it holds ignored material that no tool can rebuild.            *)
NoWorktree == [at |-> "nothing", head |-> NoRevision, tree |-> NoRevision, ignored |-> FALSE]
Residue    == [NoWorktree EXCEPT !.at = "directory"]
Worktree(revision, tree) ==
  [at |-> "worktree", head |-> revision, tree |-> tree, ignored |-> FALSE]
Registered(t) == worktrees[t].at = "worktree"
Clean(t)      == worktrees[t].tree = worktrees[t].head       \* requireCleanBaseline

(* The latest checkpoint row.                                              *)
Latest(t)        == rows[t][Len(rows[t])]
LatestIs(t, s)   == rows[t] # <<>> /\ Latest(t).state = s
SetLatest(t, s)  == rows' = [rows EXCEPT ![t][Len(rows[t])].state = s]
Expected(t)      == IF headRow[t] = NoRevision THEN Base ELSE headRow[t]

--------------------------------------------------------------------------------
(* The daemon's loop: one phase after the other, in each the listed tasks. *)
(* arg: the snapshot being captured, or the version being released.        *)
PhaseAfter == [reclaim |-> "choices", choices |-> "reconcile", reconcile |-> "release",
               release |-> "schedule", schedule |-> "reclaim"]
Idle(phase, todo) == [phase |-> phase, todo |-> todo, task |-> "none", op |-> "none",
                      pc |-> "none", arg |-> NoRevision]
Busy      == driver.task # "none"
At(t, pc) == driver.task = t /\ driver.pc = pc
Go(pc)    == driver' = [driver EXCEPT !.pc = pc]
Start(t, op, pc, arg) ==
  driver' = [driver EXCEPT !.todo = @ \ {t}, !.task = t, !.op = op, !.pc = pc, !.arg = arg]
Return    == driver' = Idle(driver.phase, driver.todo)

Fault    == faults < MaxFaults /\ faults' = faults + 1
NoStore  == UNCHANGED <<storeVars, headRow, rows, made>>
Reads    == NoStore /\ UNCHANGED gitVars
Rows     == UNCHANGED <<gitVars, made, faults>>

TerminalCandidates   == {t \in Tasks : Removable(t) /\ Quiescent(t)
                                       /\ workspace[t] \in {"READY", "FAILED", "REMOVING"}}
CheckpointCandidates == {t \in Tasks : /\ state[t] = "BLOCKED" /\ workspace[t] = "READY"
                                       /\ Quiescent(t) /\ result[t] # "VERIFIED_BLOCKED"
                                       /\ headRow[t] # NoRevision}
Releasable(t) == {n \in DOMAIN rows[t] : rows[t][n].state = "REHYDRATED" /\ rows[t][n].active}
Candidates(phase) ==
  CASE phase = "reclaim"   -> TerminalCandidates
    [] phase = "choices"   -> {t \in Tasks : state[t] = "BLOCKED" /\ choice[t]}
    [] phase = "reconcile" -> {t \in Tasks : workspace[t] = "CHECKPOINTING"}
    [] phase = "release"   -> {t \in Tasks : Releasable(t) # {}}

(* The last phase serves one waiting task, or, if there is none or its     *)
(* claim is denied, compacts blocked workspaces; the gate may be closed.   *)
Waiting == {t \in Tasks : state[t] = "WAITING_RESOURCE"}
ScheduleLists == {{t} : t \in Waiting} \cup {CheckpointCandidates, {}}

NextPhase ==
  /\ ~Busy /\ driver.todo = {}
  /\ LET next == PhaseAfter[driver.phase] IN
       IF next = "schedule" THEN \E list \in ScheduleLists : driver' = Idle(next, list)
                            ELSE driver' = Idle(next, Candidates(next))
  /\ Reads /\ UNCHANGED faults

--------------------------------------------------------------------------------
(* EnsureMutable.                                                          *)

Ensure(t) ==
  /\ ~Busy /\ driver.phase = "schedule" /\ t \in driver.todo
  /\ state[t] = "WAITING_RESOURCE"
  /\ Start(t, "ensure", "begin", NoRevision) /\ Reads /\ UNCHANGED faults

(* BeginWorkspace inserts the row or finds it; a checkpointed one begins   *)
(* to be rehydrated.  A path whose row is new is not inspected.            *)
EnsureNew(t) ==
  /\ At(t, "begin") /\ BeginWorkspace(t)
  /\ Go("add") /\ UNCHANGED <<headRow, rows>> /\ Rows
EnsureRehydrate(t) ==
  /\ At(t, "begin")
  /\ LatestIs(t, "COMPACTED") /\ BeginWorkspaceRehydrate(t)
  /\ headRow' = [headRow EXCEPT ![t] = Latest(t).snapshot]
  /\ SetLatest(t, "REHYDRATING")
  /\ Go("inspect") /\ Rows
EnsureOld(t) ==
  /\ At(t, "begin")
  /\ \/ state[t] = "WAITING_RESOURCE" /\ workspace[t] = "PREPARING" /\ Go("inspect")
     \/ /\ state[t] # "WAITING_RESOURCE" \/ workspace[t] \notin {"NONE", "CHECKPOINTED", "PREPARING"}
        /\ IF workspace[t] = "READY" THEN Return ELSE Go("block")
  /\ Reads /\ UNCHANGED faults

Inspect(t) ==
  /\ At(t, "inspect")
  /\ Go(CASE ~Registered(t) -> "add"
          [] Registered(t) /\ worktrees[t].head = Expected(t) -> "clean"
          [] OTHER -> "block")
  /\ Reads /\ UNCHANGED faults

(* A directory that is in the way is never overwritten.                    *)
AddWorktree(t) ==
  /\ At(t, "add")
  /\ IF worktrees[t] = NoWorktree
       THEN worktrees' = [worktrees EXCEPT ![t] = Worktree(Expected(t), Expected(t))]
       ELSE UNCHANGED worktrees
  /\ Go("verify")
  /\ NoStore /\ UNCHANGED <<refs, faults>>

(* git fails: before or after it did its work, or half way.                *)
AddWorktreeFails(t) ==
  /\ At(t, "add") /\ worktrees[t] = NoWorktree /\ Fault
  /\ \/ UNCHANGED worktrees
     \/ \E tree \in {Expected(t), Partial} :
          worktrees' = [worktrees EXCEPT ![t] = Worktree(Expected(t), tree)]
  /\ Go("verify") /\ NoStore /\ UNCHANGED refs

(* What git shows decides, whether or not the command reported an error.   *)
Verify(t) ==
  /\ At(t, "verify")
  /\ Go(IF Registered(t) /\ worktrees[t].head = Expected(t) THEN "clean" ELSE "fail")
  /\ Reads /\ UNCHANGED faults

CleanBaseline(t) ==
  /\ At(t, "clean") /\ Go(IF Clean(t) THEN "mark" ELSE "fail")
  /\ Reads /\ UNCHANGED faults

(* markWorkspaceReady: a cancelled task makes the transaction conflict.    *)
FinishRehydrate(t) == LatestIs(t, "REHYDRATING") /\ Latest(t).snapshot = worktrees[t].head
MarkReady(t) ==
  /\ At(t, "mark") /\ MarkWorkspaceReady(t) /\ Return
  /\ headRow' = [headRow EXCEPT ![t] = worktrees[t].head]
  /\ IF FinishRehydrate(t) THEN SetLatest(t, "REHYDRATED") ELSE UNCHANGED rows
  /\ Rows
MarkFailed(t) ==
  /\ At(t, "fail") /\ MarkWorkspaceFailed(t) /\ Return
  /\ UNCHANGED <<headRow, rows>> /\ Rows
MarkConflict(t) ==
  /\ At(t, "mark") \/ At(t, "fail")
  /\ state[t] # "WAITING_RESOURCE"
  /\ Go("block") /\ Reads /\ UNCHANGED faults

(* Scheduler.Step blocks a task that still waits after an error.           *)
StepBlocks(t) ==
  /\ At(t, "block") /\ Return
  /\ IF state[t] = "WAITING_RESOURCE"
       THEN BlockTask(t, "WAITING_RESOURCE") /\ UNCHANGED <<headRow, rows, made>>
       ELSE NoStore
  /\ UNCHANGED <<gitVars, faults>>

--------------------------------------------------------------------------------
(* CheckpointBlocked: capture, anchor, record, remove, finish.             *)

CheckpointBlocked(t) ==
  /\ ~Busy /\ driver.phase = "schedule" /\ t \in driver.todo
  /\ Len(rows[t]) < MaxCheckpoints                   \* the model's bound
  /\ BeginWorkspaceCheckpoint(t)
  /\ Start(t, "checkpoint", "capture", NoRevision)
  /\ UNCHANGED <<headRow, rows>> /\ Rows

(* Head, ignored files and status are compared and the tree is committed   *)
(* through a temporary index: no writer is left, so this is one step.      *)
Capturable(t) == Registered(t) /\ worktrees[t].head = headRow[t] /\ ~worktrees[t].ignored

CaptureTree(t, tree) ==
  /\ At(t, "capture")
  /\ IF Capturable(t) THEN driver' = [driver EXCEPT !.pc = "anchor", !.arg = tree] ELSE Go("abort")
  /\ Reads /\ UNCHANGED faults

(* Mutant: the HEAD is captured, and what is not committed is forgotten.   *)
CaptureHead(t) == CaptureTree(t, worktrees[t].head)
Capture(t)     == CaptureTree(t, worktrees[t].tree)

NextVersion(t) == Len(rows[t]) + 1
Anchor(t) ==
  /\ At(t, "anchor") /\ Go("record")
  /\ refs' = [refs EXCEPT ![t] = @ \cup {NextVersion(t)}]
  /\ NoStore /\ UNCHANGED <<worktrees, faults>>

RecordCheckpoint(t) ==
  /\ At(t, "record") /\ workspace[t] = "CHECKPOINTING" /\ Go("remove")
  /\ rows' = [rows EXCEPT ![t] = Append(@, [original |-> worktrees[t].head, snapshot |-> driver.arg,
                                            state |-> "CAPTURED", active |-> TRUE])]
  /\ UNCHANGED <<storeVars, headRow>> /\ Rows
(* The record fails: its ref is taken back, the deferred abort follows.    *)
RecordFails(t) ==
  /\ At(t, "record") /\ Fault /\ Go("abort")
  /\ refs' = [refs EXCEPT ![t] = @ \ {NextVersion(t)}]
  /\ NoStore /\ UNCHANGED worktrees

Abort(t) ==
  /\ At(t, "abort") /\ AbortWorkspaceCheckpoint(t) /\ Return
  /\ UNCHANGED <<headRow, rows>> /\ Rows

(* git worktree remove --force, then os.RemoveAll: shared by compaction,   *)
(* its recovery and removal.                                               *)
RemoveWorktree(t) ==
  /\ At(t, "remove")
  /\ worktrees' = [worktrees EXCEPT ![t] = NoWorktree]
  /\ Go("finish") /\ NoStore /\ UNCHANGED <<refs, faults>>
(* A file in use: the registration goes, the directory stays, and the next *)
(* pass removes it.                                                        *)
RemoveWorktreeFails(t) ==
  /\ At(t, "remove") /\ Fault /\ Return
  /\ \/ UNCHANGED worktrees
     \/ worktrees' = [worktrees EXCEPT ![t] = Residue]
  /\ NoStore /\ UNCHANGED refs

FinishCheckpoint(t) ==
  /\ At(t, "finish") /\ driver.op = "checkpoint"
  /\ LatestIs(t, "CAPTURED") /\ FinishWorkspaceCheckpoint(t)
  /\ SetLatest(t, "COMPACTED") /\ Return
  /\ UNCHANGED headRow /\ Rows

--------------------------------------------------------------------------------
(* ReconcileCheckpointTransactions: what a crash left CHECKPOINTING.       *)

ReadyToFinish(t) ==
  /\ LatestIs(t, "CAPTURED") /\ Latest(t).original = headRow[t]
  /\ Len(rows[t]) \in refs[t]
  /\ Registered(t) => worktrees[t].head = Latest(t).original

ReconcileBy(t, abort, finish) ==
  /\ ~Busy /\ driver.phase = "reconcile" /\ t \in driver.todo
  /\ workspace[t] = "CHECKPOINTING"
  /\ \/ abort  /\ Start(t, "checkpoint", "abort", NoRevision)
     \/ finish /\ Start(t, "checkpoint", "remove", NoRevision)
  /\ Reads /\ UNCHANGED faults

(* Mutants: an interrupted transaction is always taken back; or only one   *)
(* that has recorded its snapshot is looked at again.                      *)
ReconcileAborting(t) == ReconcileBy(t, TRUE, FALSE)
ReconcileRecorded(t) == ReconcileBy(t, FALSE, ReadyToFinish(t))

(* Without a snapshot the worktree is kept, with one the compaction is     *)
(* finished; anything else is unsafe and left alone, see Skip.             *)
NothingRecorded(t) == rows[t] = <<>> /\ Registered(t)
Reconcile(t) == ReconcileBy(t, NothingRecorded(t), ReadyToFinish(t))

(* releaseRehydratedCheckpointRef: the ref goes, then the row says so.     *)
Release(t, versions) ==
  /\ ~Busy /\ driver.phase = "release" /\ t \in driver.todo
  /\ \E n \in versions :
       /\ Start(t, "release", "receipt", n)
       /\ refs' = [refs EXCEPT ![t] = @ \ {n}]
  /\ NoStore /\ UNCHANGED <<worktrees, faults>>

(* Mutant: a ref that is already gone is taken for an error.               *)
ReleaseRefPresent(t) == Release(t, Releasable(t) \cap refs[t])
ReleaseRef(t)        == Release(t, Releasable(t))

ReleaseReceipt(t) ==
  /\ At(t, "receipt") /\ Return
  /\ rows' = [rows EXCEPT ![t][driver.arg].active = FALSE]
  /\ UNCHANGED <<storeVars, headRow>> /\ Rows

--------------------------------------------------------------------------------
(* RemoveTerminal.                                                         *)

RemoveTerminal(t) ==
  /\ ~Busy /\ driver.phase = "reclaim" /\ t \in driver.todo
  /\ IF workspace[t] = "REMOVING" THEN Removable(t) /\ Quiescent(t) /\ UNCHANGED storeVars
                                  ELSE BeginWorkspaceRemoval(t)
  /\ Start(t, "remove", "remove", NoRevision)
  /\ UNCHANGED <<headRow, rows>> /\ Rows

FinishRemoval(t) ==
  /\ At(t, "finish") /\ driver.op = "remove"
  /\ FinishWorkspaceRemoval(t) /\ Return
  /\ UNCHANGED <<headRow, rows>> /\ Rows

--------------------------------------------------------------------------------
(* The rest of the loop, faults, workers and the owner.                    *)

(* driveBlockedChoices, for a task without a candidate to integrate.       *)
DriveBlockedChoice(t) ==
  /\ ~Busy /\ driver.phase = "choices" /\ t \in driver.todo
  /\ choice[t] /\ RecoverBlockedChoice(t)
  /\ driver' = [driver EXCEPT !.todo = @ \ {t}]
  /\ UNCHANGED <<headRow, rows>> /\ Rows

(* A listed task that has changed meanwhile, or is unsafe, is skipped.     *)
Served(t) ==
  \/ driver.phase = "reclaim" /\ Removable(t) /\ Quiescent(t)
       /\ workspace[t] \in {"READY", "FAILED", "REMOVING"}
  \/ driver.phase = "choices" /\ choice[t] /\ state[t] = "BLOCKED" /\ Quiescent(t)
  \/ driver.phase = "reconcile" /\ workspace[t] = "CHECKPOINTING"
       /\ (ReadyToFinish(t) \/ NothingRecorded(t))
  \/ driver.phase = "release" /\ Releasable(t) # {}
  \/ driver.phase = "schedule" /\ state[t] = "WAITING_RESOURCE"
  \/ driver.phase = "schedule" /\ t \in CheckpointCandidates
       /\ Len(rows[t]) < MaxCheckpoints
Skip(t) ==
  /\ ~Busy /\ t \in driver.todo /\ ~Served(t)
  /\ driver' = [driver EXCEPT !.todo = @ \ {t}]
  /\ Reads /\ UNCHANGED faults

(* A command or transaction that only reads, or has no effect when it      *)
(* fails, returns an error.                                                *)
CallFails(t) ==
  /\ driver.task = t /\ Fault /\ Reads
  /\ \/ driver.pc \in {"begin", "inspect", "mark", "fail"} /\ Go("block")
     \/ driver.pc \in {"verify", "clean"} /\ Go("fail")
     \/ driver.pc = "verify" /\ Go("block")
     \/ driver.pc \in {"capture", "anchor"} /\ Go("abort")
     \/ driver.pc \in {"abort", "finish", "receipt", "block"} /\ Return

Crash == Fault /\ driver' = Idle("reclaim", {}) /\ Reads

(* A worker writes while its attempt is open, authoritative or not.        *)
Write(t) ==
  /\ ~Quiescent(t) /\ Registered(t)
  /\ \/ /\ made[t].tree < MaxWork
        /\ made' = [made EXCEPT ![t].tree = @ + 1]
        /\ worktrees' = [worktrees EXCEPT ![t].tree = made[t].tree + 1]
     \/ /\ ~made[t].ignored
        /\ made' = [made EXCEPT ![t].ignored = TRUE]
        /\ worktrees' = [worktrees EXCEPT ![t].ignored = TRUE]
  /\ UNCHANGED <<storeVars, headRow, rows, refs, driver, faults>>

(* The sealer commits, then records the head if it still may.              *)
SealCommit(t) ==
  /\ ~Quiescent(t) /\ Registered(t) /\ ~Clean(t)
  /\ worktrees' = [worktrees EXCEPT ![t].head = worktrees[t].tree]
  /\ UNCHANGED <<storeVars, headRow, rows, refs, made, driver, faults>>
RecordWorkspaceHead(t) ==
  /\ epoch[t] \in Epochs /\ Authoritative(t, epoch[t])
  /\ workspace[t] = "READY" /\ Registered(t)
  /\ headRow[t] # worktrees[t].head
  /\ headRow' = [headRow EXCEPT ![t] = worktrees[t].head]
  /\ UNCHANGED <<storeVars, rows, gitVars, made, driver, faults>>

(* Attempts begin, are fenced, block and end, and the owner steers and     *)
(* cancels, at any time.                                                   *)
Attempts(t) ==
  \/ AdvancePreExecution(t, "WAITING_RESOURCE") \/ BeginAttempt(t)
  \/ \E e \in Epochs : \/ LogicalFenceAttempt(t, e) \/ ConfirmAttemptTerminated(t, e)
                       \/ TransitionForAttempt(t, e, "BLOCKED") \/ RequirePhysicalRecovery(t, e)
Others(t) ==
  /\ \/ Attempts(t) \/ RequestTaskCancellation(t) \/ FinalizeTaskCancellation(t)
     \/ state[t] = "BLOCKED" /\ ~choice[t] /\ Steer(t, TRUE)
  /\ UNCHANGED <<headRow, rows, gitVars, made, driver, faults>>

--------------------------------------------------------------------------------
(* The tasks have passed preflight; nothing is materialized yet.           *)
ManagerInit ==
  /\ state         = [t \in Tasks |-> "WAITING_RESOURCE"]
  /\ epoch         = [t \in Tasks |-> 0]
  /\ authority     = [t \in Tasks |-> [e \in Epochs |-> "NONE"]]
  /\ cancelControl = [t \in Tasks |-> FALSE]
  /\ choice        = [t \in Tasks |-> FALSE]
  /\ workspace     = [t \in Tasks |-> "NONE"]
  /\ result        = [t \in Tasks |-> "NONE"]
  /\ integration   = [t \in Tasks |-> "NONE"]
  /\ headRow = [t \in Tasks |-> NoRevision]
  /\ rows = [t \in Tasks |-> <<>>] /\ refs = [t \in Tasks |-> {}]
  /\ worktrees = [t \in Tasks |-> NoWorktree]
  /\ made = [t \in Tasks |-> [tree |-> Base, ignored |-> FALSE]]
  /\ driver = Idle("reclaim", {}) /\ faults = 0

EnsureStep(t) ==
  \/ Ensure(t) \/ EnsureNew(t) \/ EnsureRehydrate(t) \/ EnsureOld(t) \/ Inspect(t)
  \/ AddWorktree(t) \/ Verify(t) \/ CleanBaseline(t) \/ MarkReady(t) \/ MarkFailed(t)
  \/ MarkConflict(t) \/ StepBlocks(t)
CheckpointStep(t) ==
  \/ CheckpointBlocked(t) \/ Capture(t) \/ Anchor(t) \/ RecordCheckpoint(t) \/ Abort(t)
  \/ RemoveWorktree(t) \/ FinishCheckpoint(t) \/ Reconcile(t)
  \/ ReleaseRef(t) \/ ReleaseReceipt(t) \/ RemoveTerminal(t) \/ FinishRemoval(t)
DaemonStep ==
  \/ NextPhase
  \/ \E t \in Tasks : EnsureStep(t) \/ CheckpointStep(t) \/ DriveBlockedChoice(t) \/ Skip(t)

ManagerNext ==
  \/ DaemonStep \/ Crash
  \/ \E t \in Tasks : \/ AddWorktreeFails(t) \/ RecordFails(t) \/ RemoveWorktreeFails(t)
                      \/ CallFails(t) \/ Write(t) \/ SealCommit(t)
                      \/ RecordWorkspaceHead(t) \/ Others(t)

ManagerSpec     == ManagerInit /\ [][ManagerNext]_mgrVars
(* One goroutine runs the daemon's loop; nothing else is fair.             *)
FairManagerSpec == ManagerSpec /\ WF_mgrVars(DaemonStep)

--------------------------------------------------------------------------------
(* Whatever fails or crashes, the last content a worker has left exists    *)
(* until its task has ended: in the registered worktree or, without        *)
(* irreproducible ignored files, in the snapshot a live private ref holds. *)
InWorktree(t) == Registered(t) /\ worktrees[t].tree = made[t].tree /\ worktrees[t].ignored = made[t].ignored
InSnapshot(t) == /\ rows[t] # <<>> /\ Len(rows[t]) \in refs[t]
                 /\ Latest(t).snapshot = made[t].tree /\ ~made[t].ignored
WorkKept ==
  \A t \in Tasks :
    state[t] \notin TerminalStates /\ epoch[t] > 0 => InWorktree(t) \/ InSnapshot(t)

(* The row never says more than git: a READY workspace is a registered     *)
(* worktree, a compacted one waits in its latest snapshot alone, and an    *)
(* attempt starts on exactly the content the last one left.                *)
CheckpointTruth ==
  \A t \in Tasks :
    /\ workspace[t] = "READY" => Registered(t)
    /\ workspace[t] = "CHECKPOINTED" =>
         LatestIs(t, "COMPACTED") /\ Len(rows[t]) \in refs[t] /\ worktrees[t] = NoWorktree
    /\ state[t] = "WORKSPACE_READY" => InWorktree(t)

(* An interrupted compaction is finished or taken back, as long as the     *)
(* latest checkpoint row belongs to it or there is none.                   *)
CheckpointSettles ==
  \A t \in Tasks : workspace[t] = "CHECKPOINTING" /\ (rows[t] = <<>> \/ LatestIs(t, "CAPTURED"))
                   ~> workspace[t] # "CHECKPOINTING"

(* The private ref of a rehydrated checkpoint does not stay for ever.      *)
RefsReleased ==
  \A t \in Tasks : \A n \in 1..MaxCheckpoints :
    n \in Releasable(t) ~> n \notin refs[t] /\ n \notin Releasable(t)

(* "Crash before a durable snapshot was recorded leaves no replacement     *)
(* authority behind. If the managed worktree still exists, restore READY": *)
(* every interrupted compaction settles.                                   *)
CheckpointRecovered ==
  \A t \in Tasks : workspace[t] = "CHECKPOINTING" ~> workspace[t] # "CHECKPOINTING"
================================================================================
