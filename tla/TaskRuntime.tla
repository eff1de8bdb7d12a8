------------------------------ MODULE TaskRuntime ------------------------------
(***************************************************************************)
(* The processes that drive the durable truth of TaskStore: the daemon     *)
(* (startup recovery, reconciliation, its step loop), one TaskRunner per   *)
(* launched task, the worker process tree and the verification tree of an  *)
(* attempt, and the owner.  Each action is at most one store transaction,  *)
(* so a crash, a cancellation or another process falls between any two.    *)
(***************************************************************************)
EXTENDS TaskStore

CONSTANTS MaxFaults,       \* bound on crashes, lost proofs and failed store or git calls
          MaxAttempts,     \* DaemonConfig.MaxAttempts, the automatic retry budget
          RunnerRecovers   \* the runner implements physicalRecoveryRunner

ASSUME FaultAssumption == MaxFaults \in Nat /\ MaxAttempts \in Nat /\ RunnerRecovers \in BOOLEAN

VARIABLES
  daemon,    \* "down", or the phase of Daemon.Run: "recover", "reconcile", "up"
  pending,   \* RecoverPending's list: integrations still to drive at startup
  runner,    \* the runner of each task, see Idle
  worker,    \* by task, the epochs whose worker process tree is alive
  sandbox,   \* by task, the epochs whose verification process tree is alive
  armed,     \* by task, the epochs with an ASSIGNED recovery marker
  faults     \* faults so far

procVars == <<daemon, pending, runner, worker, sandbox, armed, faults>>
vars     == <<storeVars, procVars>>

(* pc: the next step; proof: worker.Run returned a valid TerminationProof; *)
(* outcome: the agent's terminal status, "error" if worker.Run failed.     *)
Outcomes == {"error", "candidate", "BLOCKED", "RETRY_WAIT"}
Idle == [pc |-> "none", epoch |-> 0, proof |-> FALSE, outcome |-> "none"]

At(t, pc) == daemon # "down" /\ runner[t].pc = pc
Go(t, pc) == runner' = [runner EXCEPT ![t].pc = pc]
End(t)    == runner' = [runner EXCEPT ![t] = Idle]
Returned(t, outcome, proof) ==
  runner' = [runner EXCEPT ![t] = [@ EXCEPT !.pc = "check", !.outcome = outcome, !.proof = proof]]
Fault     == faults < MaxFaults /\ faults' = faults + 1
NoFault   == UNCHANGED faults

(* The processes other than the runner stay as they are.                   *)
OnlyRunner == UNCHANGED <<daemon, pending, worker, sandbox, armed>>

--------------------------------------------------------------------------------
(* TaskRunner: admission and the worker process.                           *)

Launch(t) ==
  /\ daemon = "up" /\ runner[t] = Idle
  /\ state[t] = "WORKSPACE_READY" /\ workspace[t] = "READY"
  /\ Go(t, "begin")
  /\ OnlyRunner /\ NoFault /\ UNCHANGED storeVars

(* The owner may have cancelled meanwhile; an exhausted convergence budget *)
(* blocks instead of beginning.                                            *)
RunnerBegin(t) ==
  /\ At(t, "begin")
  /\ \/ BeginAttempt(t)
        /\ runner' = [runner EXCEPT ![t] = [@ EXCEPT !.pc = "start", !.epoch = epoch[t] + 1]]
     \/ BlockTask(t, "WORKSPACE_READY") /\ End(t)
     \/ state[t] # "WORKSPACE_READY" /\ End(t) /\ UNCHANGED storeVars
  /\ OnlyRunner /\ NoFault

(* The worker is created suspended, assigned to its named job, marked and  *)
(* resumed; a failure on the way kills it and returns no proof.            *)
StartWorker(t) ==
  /\ At(t, "start")
  /\ armed' = [armed EXCEPT ![t] = @ \cup {runner[t].epoch}]
  /\ worker' = [worker EXCEPT ![t] = @ \cup {runner[t].epoch}]
  /\ Go(t, "run")
  /\ NoFault /\ UNCHANGED <<daemon, pending, sandbox, storeVars>>

StartFails(t) ==
  /\ At(t, "start") /\ Fault
  /\ Returned(t, "error", FALSE)
  /\ OnlyRunner /\ UNCHANGED storeVars

RequestWebTurn(t) ==
  /\ At(t, "run")
  /\ TransitionForAttempt(t, runner[t].epoch, "INPUT_REQUIRED")
  /\ OnlyRunner /\ NoFault /\ UNCHANGED runner

(* A result, an error frame, a failed heartbeat: the job is empty before   *)
(* the proof exists.                                                       *)
WorkerFinishes(t) ==
  /\ At(t, "run")
  /\ worker' = [worker EXCEPT ![t] = @ \ {runner[t].epoch}]
  /\ \E outcome \in Outcomes : Returned(t, outcome, TRUE)
  /\ NoFault /\ UNCHANGED <<daemon, pending, sandbox, armed, storeVars>>

(* The context has ended, for an accepted cancellation, for want of disk   *)
(* space or to shut down: the job is terminated.                           *)
WorkerStopped(t) ==
  /\ At(t, "run")
  /\ worker' = [worker EXCEPT ![t] = @ \ {runner[t].epoch}]
  /\ Returned(t, "error", TRUE)
  /\ NoFault /\ UNCHANGED <<daemon, pending, sandbox, armed, storeVars>>

(* The job did not empty within StopTimeout: the handle is closed and the  *)
(* run fails without a proof.                                              *)
WorkerUnconfirmed(t) ==
  /\ At(t, "run") /\ Fault
  /\ Returned(t, "error", FALSE)
  /\ OnlyRunner /\ UNCHANGED storeVars

(* KILL_ON_JOB_CLOSE: once nothing holds the job, its processes die.       *)
WorkerDies(t) ==
  \E e \in worker[t] :
    /\ runner[t].pc # "run" \/ runner[t].epoch # e
    /\ worker' = [worker EXCEPT ![t] = @ \ {e}]
    /\ UNCHANGED <<daemon, pending, runner, sandbox, armed, faults, storeVars>>

SandboxDies(t) ==
  \E e \in sandbox[t] :
    /\ runner[t].pc # "commands" \/ runner[t].epoch # e
    /\ sandbox' = [sandbox EXCEPT ![t] = @ \ {e}]
    /\ UNCHANGED <<daemon, pending, runner, worker, armed, faults, storeVars>>

--------------------------------------------------------------------------------
(* TaskRunner: what follows worker.Run.                                    *)

(* Mutants: a cancelled run is confirmed terminated without a proof; a     *)
(* cancelled run is treated like any failed one.                           *)
CheckCancelWithoutProof(t) ==
  /\ At(t, "check") /\ cancelControl[t] /\ Go(t, "cancelConfirm")
  /\ OnlyRunner /\ NoFault /\ UNCHANGED storeVars
CheckCancelAsFailure(t) ==
  /\ At(t, "check") /\ Go(t, IF runner[t].proof THEN "failBlock" ELSE "recoveryBlock")
  /\ OnlyRunner /\ NoFault /\ UNCHANGED storeVars

CheckCancel(t) ==
  /\ At(t, "check")
  /\ LET r == runner[t] IN
       \/ cancelControl[t] /\ IF r.proof THEN Go(t, "cancelConfirm") ELSE End(t)
       \/ /\ ~cancelControl[t] /\ r.outcome = "error"
          /\ Go(t, IF r.proof THEN "failBlock" ELSE "recoveryBlock")
       \/ ~cancelControl[t] /\ r.outcome = "candidate" /\ Go(t, "verify")
       \/ /\ ~cancelControl[t] /\ r.outcome = "candidate"       \* the context has ended
          /\ runner' = [runner EXCEPT ![t] = [r EXCEPT !.pc = "finish", !.outcome = "BLOCKED"]]
       \/ ~cancelControl[t] /\ r.outcome \in {"BLOCKED", "RETRY_WAIT"} /\ Go(t, "finish")
  /\ OnlyRunner /\ NoFault /\ UNCHANGED storeVars

Confirm(t) ==
  IF runner[t].epoch \in OpenEpochs(t)
    THEN ConfirmAttemptTerminated(t, runner[t].epoch)
    ELSE UNCHANGED storeVars                                     \* idempotent

CanTransition(t, to) ==
  Authoritative(t, runner[t].epoch) /\ <<state[t], to>> \in AttemptTransitions

BlockWhileAuthoritative(t) ==
  IF CanTransition(t, "BLOCKED")
    THEN TransitionForAttempt(t, runner[t].epoch, "BLOCKED")
    ELSE UNCHANGED storeVars

ConfirmStep(t) ==
  /\ \/ At(t, "cancelConfirm") /\ Go(t, "cancelFinalize")
     \/ At(t, "verifyConfirm") /\ Go(t, "verifyCancelCheck")
     \/ At(t, "confirm") /\ End(t)
  /\ Confirm(t) /\ OnlyRunner /\ NoFault

CancelFinalize(t) ==
  /\ At(t, "cancelFinalize")
  /\ IF state[t] = "CANCELLED" THEN UNCHANGED storeVars ELSE FinalizeTaskCancellation(t)
  /\ End(t) /\ OnlyRunner /\ NoFault

(* failWorker and recoveryBlock go on whether or not the task is blocked;  *)
(* finishNonCandidate returns before the confirmation if it is not.        *)
BlockStep(t) ==
  /\ \/ At(t, "failBlock") /\ Go(t, "confirm")
     \/ At(t, "recoveryBlock") /\ Go(t, "recoveryFence")
  /\ BlockWhileAuthoritative(t) /\ OnlyRunner /\ NoFault

RecoveryFence(t) ==
  /\ At(t, "recoveryFence")
  /\ IF Authoritative(t, runner[t].epoch)
       THEN LogicalFenceAttempt(t, runner[t].epoch) ELSE UNCHANGED storeVars
  /\ End(t) /\ OnlyRunner /\ NoFault

(* Mutant: a refused transition is tried again instead of given up.        *)
FinishNonCandidateRetries(t) ==
  /\ At(t, "finish")
  /\ IF CanTransition(t, runner[t].outcome)
       THEN TransitionForAttempt(t, runner[t].epoch, runner[t].outcome) /\ Go(t, "confirm")
       ELSE UNCHANGED <<runner, storeVars>>
  /\ OnlyRunner /\ NoFault

FinishNonCandidate(t) ==
  /\ At(t, "finish")
  /\ IF CanTransition(t, runner[t].outcome)
       THEN TransitionForAttempt(t, runner[t].epoch, runner[t].outcome) /\ Go(t, "confirm")
       ELSE End(t) /\ UNCHANGED storeVars
  /\ OnlyRunner /\ NoFault

--------------------------------------------------------------------------------
(* TaskRunner: verification, under the authority of the still open attempt *)

BeginVerification(t) ==
  /\ At(t, "verify")
  /\ TransitionForAttempt(t, runner[t].epoch, "VERIFYING")
  /\ sandbox' = [sandbox EXCEPT ![t] = @ \cup {runner[t].epoch}]
  /\ Go(t, "commands")
  /\ NoFault /\ UNCHANGED <<daemon, pending, worker, armed>>

(* The runtime cannot be created, or Verify fails before its commands.     *)
VerificationRefused(t) ==
  /\ At(t, "verify")
  /\ Go(t, "failBlock") \/ Returned(t, "error", TRUE)
  /\ OnlyRunner /\ NoFault /\ UNCHANGED storeVars

PersistOutcome(t) ==
  /\ At(t, "commands")
  /\ PersistVerificationOutcome(t, runner[t].epoch)
  /\ sandbox' = [sandbox EXCEPT ![t] = @ \ {runner[t].epoch}]
  /\ Go(t, "verifyConfirm")
  /\ NoFault /\ UNCHANGED <<daemon, pending, worker, armed>>

(* A command whose tree could not be confirmed dead is recorded as a       *)
(* failed command, like any other command error.                           *)
PersistUnconfirmed(t) ==
  /\ At(t, "commands") /\ Fault
  /\ PersistVerificationOutcome(t, runner[t].epoch) /\ state'[t] = "RETRY_WAIT"
  /\ Go(t, "verifyConfirm")
  /\ OnlyRunner

VerificationFails(t) ==
  /\ At(t, "commands")
  /\ sandbox' = [sandbox EXCEPT ![t] = @ \ {runner[t].epoch}]
  /\ Returned(t, "error", TRUE)
  /\ NoFault /\ UNCHANGED <<daemon, pending, worker, armed, storeVars>>

(* Mutant: the controls are not read again after verification.             *)
VerifyWithoutCancelCheck(t) ==
  /\ At(t, "verifyCancelCheck")
  /\ IF result[t] = "VERIFIED" THEN Go(t, "integrate") ELSE End(t)
  /\ OnlyRunner /\ NoFault /\ UNCHANGED storeVars

VerifyCancelCheck(t) ==
  /\ At(t, "verifyCancelCheck")
  /\ \/ cancelControl[t] /\ Go(t, "cancelFinalize")
     \/ ~cancelControl[t] /\ result[t] = "VERIFIED" /\ Go(t, "integrate")
     \/ ~cancelControl[t] /\ result[t] # "VERIFIED" /\ End(t)
  /\ OnlyRunner /\ NoFault /\ UNCHANGED storeVars

--------------------------------------------------------------------------------
(* integration.Manager: the runner drives it after verification, the       *)
(* daemon at startup and for an owner's retry.                             *)

Integrate(t) ==
  /\ At(t, "integrate")
  /\ \/ PrepareIntegrationAttempt(t) /\ Go(t, "dispatch")
     \/ BlockVerifiedIntegration(t) /\ End(t)
     \/ state[t] # "VERIFIED" /\ End(t) /\ UNCHANGED storeVars
  /\ OnlyRunner /\ NoFault

RetryBlockedVerifiedIntegration(t) ==
  /\ daemon = "up" /\ runner[t] = Idle /\ choice[t]
  /\ \/ PrepareBlockedVerifiedIntegrationAttempt(t) /\ Go(t, "dispatch")
     \/ AcknowledgeBlockedVerifiedIntegrationRetry(t) /\ UNCHANGED runner
  /\ OnlyRunner /\ NoFault

Driven(t) == /\ End(t) /\ pending' = pending \ {t}
             /\ UNCHANGED <<daemon, worker, sandbox, armed>>

DriveDispatch(t) ==
  /\ At(t, "dispatch") /\ NoFault
  /\ \/ MarkIntegrationDispatched(t) /\ Go(t, "publish") /\ OnlyRunner
     \/ BlockIntegrationAttempt(t) /\ Driven(t)

DrivePublish(t) ==
  /\ At(t, "publish") /\ NoFault
  /\ FinalizeIntegrationApplied(t) \/ BlockIntegrationAttempt(t)
  /\ Driven(t)

(* The owner's checkout is in the way: the attempt stays dispatched, and   *)
(* startup goes on.                                                        *)
WorktreeSyncRequired(t) ==
  /\ At(t, "publish") /\ Fault /\ Driven(t) /\ UNCHANGED storeVars

(* Any other error ends the drive, and at startup Daemon.Run with it.      *)
DriveError(t) ==
  /\ IF daemon = "recover"
       THEN /\ daemon' = "down" /\ pending' = {}
            /\ runner' = [u \in Tasks |-> Idle]
       ELSE End(t) /\ UNCHANGED <<daemon, pending>>
  /\ UNCHANGED <<worker, sandbox, armed, storeVars>>

(* The owner cancelled while the attempt was prepared: neither dispatch    *)
(* nor block can be recorded.                                              *)
DriveConflict(t) ==
  /\ At(t, "dispatch") /\ state[t] # "READY_TO_INTEGRATE"
  /\ DriveError(t) /\ NoFault

DriveFails(t) ==
  /\ At(t, "dispatch") \/ At(t, "publish")
  /\ DriveError(t) /\ Fault

--------------------------------------------------------------------------------
(* The daemon.                                                             *)

DaemonStart ==
  /\ daemon = "down" /\ daemon' = "recover"
  /\ pending' = {t \in Tasks : integration[t] \in {"PREPARED", "DISPATCHED"}}
  /\ UNCHANGED <<runner, worker, sandbox, armed, faults, storeVars>>

RecoverPending(t) ==
  /\ daemon = "recover" /\ t \in pending
  /\ \A u \in Tasks : runner[u] = Idle                           \* one at a time
  /\ Go(t, IF integration[t] = "PREPARED" THEN "dispatch" ELSE "publish")
  /\ OnlyRunner /\ NoFault /\ UNCHANGED storeVars

RecoverPendingDone ==
  /\ daemon = "recover" /\ pending = {} /\ daemon' = "reconcile"
  /\ UNCHANGED <<pending, runner, worker, sandbox, armed, faults, storeVars>>

(* Mutant: a task that is already BLOCKED is taken as settled.             *)
UnreconciledUnlessBlocked(t) ==
  state[t] \notin TerminalStates \cup {"BLOCKED"} /\ ~Quiescent(t)

Unreconciled(t) == /\ state[t] \notin TerminalStates /\ ~Quiescent(t)
                   /\ state[t] # "BLOCKED" \/ Authoritative(t, epoch[t])

(* An attempt without a supervisor in this process.                        *)
ReconcileUnprovenAttempts(t) ==
  /\ daemon \in {"reconcile", "up"} /\ runner[t] = Idle
  /\ Unreconciled(t) /\ RequirePhysicalRecovery(t, epoch[t])
  /\ UNCHANGED procVars

(* A supervised one whose authority is gone, or whose lease has run out    *)
(* because heartbeats stalled (a fault).                                   *)
ReconcileExpired(t) ==
  /\ daemon = "up" /\ runner[t] # Idle
  /\ Unreconciled(t) /\ RequirePhysicalRecovery(t, epoch[t])
  /\ IF Authoritative(t, epoch[t]) THEN Fault ELSE NoFault
  /\ OnlyRunner /\ UNCHANGED runner

ReconcileDone ==
  /\ daemon = "reconcile" /\ \A t \in Tasks : ~Unreconciled(t)
  /\ daemon' = "up"
  /\ UNCHANGED <<pending, runner, worker, sandbox, armed, faults, storeVars>>

(* Mutants: the confirmation is written although the job was not emptied;  *)
(* only an attempt that still has its authority is recovered.              *)
RecoverAttemptWithoutKilling(t) ==
  /\ RunnerRecovers /\ daemon \in {"reconcile", "up"}
  /\ ~Unreconciled(t) /\ epoch[t] \in armed[t] \cap OpenEpochs(t)
  /\ ConfirmAttemptTerminated(t, epoch[t])
  /\ UNCHANGED procVars

(* Reopens the named job of a marked attempt and kills what is left of it. *)
RecoverAttemptTermination(t) ==
  /\ RunnerRecovers /\ daemon \in {"reconcile", "up"}
  /\ ~Unreconciled(t) /\ epoch[t] \in armed[t] \cap OpenEpochs(t)
  /\ worker' = [worker EXCEPT ![t] = @ \ {epoch[t]}]
  /\ ConfirmAttemptTerminated(t, epoch[t])
  /\ UNCHANGED <<daemon, pending, runner, sandbox, armed, faults>>

(* One daemon step on one task: preflight, owner choices, retries, the     *)
(* scheduler's workspace work and the reclaiming of terminal workspaces.   *)
(* They follow one another in one goroutine, and nothing else writes a     *)
(* workspace row: what a choice or a launch read of it still holds when    *)
(* its transaction runs.                                                   *)
DriveBlockedChoice(t) == /\ choice[t] /\ Quiescent(t) /\ result[t] # "VERIFIED_BLOCKED"
                         /\ RecoverBlockedChoice(t)
DriveRetry(t) == IF epoch[t] >= MaxAttempts THEN BlockTask(t, "RETRY_WAIT")
                                            ELSE RecoverTaskToWorkspaceReady(t, "RETRY_WAIT")
DaemonStep(t) ==
  /\ daemon = "up"
  /\ \/ AdvancePreExecution(t, "PREFLIGHT") \/ AdvancePreExecution(t, "WAITING_RESOURCE")
     \/ BlockTask(t, "PREFLIGHT") \/ BlockTask(t, "WAITING_RESOURCE")
     \/ DriveBlockedChoice(t) \/ DriveRetry(t)
     \/ WorkspaceNext(t) \/ ReconcileWorkspaceReady(t)
  /\ UNCHANGED procVars

(* The owner's client shares the database and needs no daemon.             *)
Owner(t) ==
  /\ \/ SubmitTask(t) \/ RequestTaskCancellation(t) \/ PublishTaskInput(t)
     \/ \E blockedChoice \in BOOLEAN : Steer(t, blockedChoice)
  /\ UNCHANGED procVars

--------------------------------------------------------------------------------
(* Faults.  The daemon's death closes every job handle it held (a graceful *)
(* shutdown is the same after the runners have ended); a runner whose      *)
(* store call fails or times out returns at once.                          *)

Crash ==
  /\ daemon # "down" /\ Fault
  /\ daemon' = "down" /\ pending' = {} /\ runner' = [t \in Tasks |-> Idle]
  /\ UNCHANGED <<worker, sandbox, armed, storeVars>>

RunnerFails(t) ==
  /\ runner[t].pc \notin {"none", "start", "run", "dispatch", "publish"} /\ Fault
  /\ End(t)
  /\ OnlyRunner /\ UNCHANGED storeVars

--------------------------------------------------------------------------------
RuntimeInit ==
  /\ Init
  /\ daemon = "down" /\ pending = {} /\ faults = 0
  /\ runner  = [t \in Tasks |-> Idle]
  /\ worker  = [t \in Tasks |-> {}]
  /\ sandbox = [t \in Tasks |-> {}]
  /\ armed   = [t \in Tasks |-> {}]

RunnerStep(t) ==
  \/ RunnerBegin(t) \/ StartWorker(t) \/ StartFails(t) \/ RequestWebTurn(t)
  \/ WorkerFinishes(t) \/ WorkerStopped(t) \/ WorkerUnconfirmed(t) \/ CheckCancel(t) \/ ConfirmStep(t)
  \/ CancelFinalize(t) \/ BlockStep(t) \/ RecoveryFence(t) \/ FinishNonCandidate(t)
  \/ BeginVerification(t) \/ VerificationRefused(t) \/ PersistOutcome(t)
  \/ PersistUnconfirmed(t) \/ VerificationFails(t) \/ VerifyCancelCheck(t) \/ Integrate(t)
DriveStep(t) ==
  \/ DriveDispatch(t) \/ DrivePublish(t) \/ WorktreeSyncRequired(t)
  \/ DriveConflict(t) \/ DriveFails(t)
StartupStep == \/ DaemonStart \/ RecoverPendingDone \/ ReconcileDone
               \/ \E t \in Tasks : RecoverPending(t)
ReconcileStep(t) ==
  ReconcileUnprovenAttempts(t) \/ ReconcileExpired(t) \/ RecoverAttemptTermination(t)
LoopStep(t) == Launch(t) \/ RetryBlockedVerifiedIntegration(t) \/ DaemonStep(t)

RuntimeNext ==
  \/ StartupStep \/ Crash
  \/ \E t \in Tasks : \/ RunnerStep(t) \/ DriveStep(t) \/ ReconcileStep(t) \/ LoopStep(t)
                      \/ WorkerDies(t) \/ SandboxDies(t) \/ RunnerFails(t) \/ Owner(t)

RuntimeSpec == RuntimeInit /\ [][RuntimeNext]_vars

--------------------------------------------------------------------------------
(* No second writer: whatever crashed, was lost or was cancelled, a worker *)
(* tree that is still alive belongs to the one open attempt of its task,   *)
(* in a workspace that is neither compacted, rebuilt nor removed under it. *)
NoSecondWriter ==
  \A t \in Tasks : worker[t] # {} =>
    worker[t] = {epoch[t]} /\ ~Quiescent(t) /\ workspace[t] = "READY"

(* A workspace that an open attempt may write to, or that is about to host *)
(* one, is READY, although neither the admission nor the replacement of an *)
(* attempt looks at it in its transaction: the loop compacts, rebuilds and *)
(* removes only what no attempt and no retry is waiting for.               *)
WorkspaceHeld ==
  \A t \in Tasks : ~Quiescent(t) \/ state[t] \in {"WORKSPACE_READY", "RETRY_WAIT"}
                   => workspace[t] = "READY"

(* A cancellation that was accepted wins: from then on nothing of the task *)
(* is dispatched, finalized or reported complete.                          *)
AcceptedCancelWins ==
  \A t \in Tasks : cancelControl[t] => /\ state[t] \notin {"INTEGRATING", "COMPLETE"}
                                       /\ integration[t] \notin {"DISPATCHED", "COMPLETE"}

(* The attempts and processes of every task implement one exclusive       *)
(* writer per workspace.                                                   *)
Writer == INSTANCE ExclusiveWriter
            WITH holder <- [t \in Tasks |-> IF Quiescent(t) THEN 0 ELSE epoch[t]],
                 last   <- epoch,
                 live   <- [t \in Tasks |-> worker[t] # {}],
                 closed <- [t \in Tasks |-> state[t] \in TerminalStates]
ImplementsExclusiveWriter == Writer!Spec

--------------------------------------------------------------------------------
(* Fairness.  A goroutine that can take its next step takes it; the ticker *)
(* keeps calling step; the kernel completes KILL_ON_JOB_CLOSE; and the     *)
(* service manager restarts a daemon that ended.  Of a worker at work it   *)
(* is only assumed that a run whose task was cancelled or whose authority  *)
(* is gone is stopped, by the cancellation monitor or the next heartbeat:  *)
(* left alone it may go on for ever, as one does that got its answer and   *)
(* waits for a slot and an admission nobody grants.  Nothing obliges an    *)
(* owner to act, or a fault to happen.                                     *)
Wanted(t)      == ~cancelControl[t] /\ Authoritative(t, runner[t].epoch)
WorkerEnds(t)  == WorkerFinishes(t) \/ WorkerStopped(t) \/ WorkerUnconfirmed(t)
StopUnwanted(t)   == WorkerEnds(t) /\ ~Wanted(t)
RunnerProgress(t) == RunnerStep(t) /\ runner[t].pc # "run"
FairRuntimeSpec ==
  /\ RuntimeSpec /\ WF_vars(StartupStep)
  /\ \A t \in Tasks : /\ WF_vars(RunnerProgress(t)) /\ WF_vars(StopUnwanted(t))
                      /\ WF_vars(DriveStep(t))
                      /\ WF_vars(ReconcileUnprovenAttempts(t))
                      /\ WF_vars(RecoverAttemptTermination(t))
                      /\ WF_vars(WorkerDies(t))

(* Every launched run ends and gives its execution slot back, unless its   *)
(* worker stays at work for ever on a task that wants it.                  *)
AtWork(t)  == runner[t].pc = "run" /\ Wanted(t)
RunnerEnds == \A t \in Tasks : runner[t] # Idle ~> (runner[t] = Idle \/ []AtWork(t))

DaemonRecurs == []<>(daemon = "up")
Orphaned(t)  == ~Quiescent(t) /\ runner[t] = Idle

(* An open attempt that lost its runner is fenced and its task parked in   *)
(* BLOCKED, unless its termination gets proven first.                      *)
OrphanSettled ==
  DaemonRecurs => \A t \in Tasks : Orphaned(t) ~>
    Quiescent(t) \/ (state[t] = "BLOCKED" /\ ~Authoritative(t, epoch[t]))

(* A cancellation accepted while the worker runs ends in CANCELLED, when   *)
(* no fault comes between.                                                 *)
CancelDuringRunHonoured ==
  \A t \in Tasks : /\ cancelControl[t] /\ runner[t].pc = "run" /\ faults = MaxFaults
                  ~> state[t] = "CANCELLED"

(* A daemon that starts gets through its integration recovery.             *)
StartupCompletes == daemon = "recover" ~> daemon = "up"
================================================================================
