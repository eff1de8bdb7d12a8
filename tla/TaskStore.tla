------------------------------- MODULE TaskStore -------------------------------
(***************************************************************************)
(* The durable truth of MAR: the SQLite rows of tasks, execution attempts, *)
(* task controls, workspaces, task results and integration attempts, and   *)
(* the transactions of internal/store on them, as internal/service exposes *)
(* them.  Every transaction is one atomic action (SQLite serialises them). *)
(* Next lets any caller run any of them at any time, with stale epochs     *)
(* too: what holds here holds whatever the daemon, the runners, the owner  *)
(* and a crash do in between.                                              *)
(***************************************************************************)
EXTENDS Integers, FiniteSets

CONSTANTS Tasks,      \* the task identities
          MaxEpoch    \* bound on run_epoch, that is on attempts per task

ASSUME EpochAssumption == MaxEpoch \in Nat

Epochs == 1..MaxEpoch

PreAttemptStates == {"SUBMITTED", "PREFLIGHT", "WAITING_RESOURCE", "WORKSPACE_READY"}
TerminalStates   == {"COMPLETE", "FAILED", "CANCELLED"}
TaskStates == PreAttemptStates \cup TerminalStates \cup
              {"RUNNING", "VERIFYING", "REVIEWING", "READY_TO_INTEGRATE", "INTEGRATING",
               "VERIFIED", "INPUT_REQUIRED", "BLOCKED", "RETRY_WAIT"}

AuthorityStates   == {"ACTIVE", "LOGICALLY_FENCED", "PHYSICALLY_TERMINATED"}
WorkspaceStates   == {"PREPARING", "READY", "FAILED", "CHECKPOINTING", "CHECKPOINTED",
                      "REMOVING", "REMOVED"}
IntegrationStates == {"PREPARED", "DISPATCHED", "COMPLETE", "BLOCKED"}

(* The latest task result: its verdict and, for a verified one, its        *)
(* integration_status.                                                     *)
Results == {"UNVERIFIED", "VERIFIED", "VERIFIED_BLOCKED", "VERIFIED_INTEGRATED"}

VARIABLES
  state,          \* tasks.state, "ABSENT" before SubmitTask
  epoch,          \* tasks.run_epoch
  authority,      \* execution_attempts.authority_state by task and epoch, "NONE" if no row
  cancelControl,  \* a CANCEL row exists in task_controls
  choice,         \* the latest control is a blocked_choice newer than tasks.updated_at
  workspace,      \* workspaces.state, "NONE" if no row
  result,         \* the latest task result, "NONE" if there is none
  integration     \* status of the latest integration attempt, "NONE" if none

storeVars == <<state, epoch, authority, cancelControl, choice, workspace, result, integration>>

--------------------------------------------------------------------------------
(* A mutation-capable attempt: its process tree may still write.           *)
OpenEpochs(t) == {e \in Epochs : authority[t][e] \in {"ACTIVE", "LOGICALLY_FENCED"}}
Quiescent(t)  == OpenEpochs(t) = {}

(* The fencing predicate of every attempt-scoped call.                     *)
Authoritative(t, e) == epoch[t] = e /\ authority[t][e] = "ACTIVE"

(* Rewriting a tasks row advances updated_at, so an earlier blocked_choice *)
(* is no longer fresh.                                                     *)
Move(t, to) == /\ state'  = [state EXCEPT ![t] = to]
               /\ choice' = [choice EXCEPT ![t] = FALSE]
Touch(t) == choice' = [choice EXCEPT ![t] = FALSE]

SetAuthority(t, e, a) == authority' = [authority EXCEPT ![t][e] = a]

--------------------------------------------------------------------------------
(* Submission and the steps before an attempt exists.                      *)

SubmitTask(t) ==
  /\ state[t] = "ABSENT"
  /\ Move(t, "SUBMITTED")
  /\ UNCHANGED <<epoch, authority, cancelControl, workspace, result, integration>>

OrchestratorTransition(t, from, to) ==
  /\ state[t] = from
  /\ Quiescent(t)
  /\ Move(t, to)
  /\ UNCHANGED <<epoch, authority, cancelControl, workspace, result, integration>>

(* The last edge asks for no workspace row.  The daemon takes the first    *)
(* two and reaches WORKSPACE_READY by MarkWorkspaceReady.                  *)
PreExecutionTransitions == {<<"SUBMITTED", "PREFLIGHT">>, <<"PREFLIGHT", "WAITING_RESOURCE">>,
                            <<"WAITING_RESOURCE", "WORKSPACE_READY">>}

AdvancePreExecution(t, to) ==
  /\ <<state[t], to>> \in PreExecutionTransitions
  /\ OrchestratorTransition(t, state[t], to)

(* Preflight failure, workspace preparation failure, an exhausted retry or *)
(* convergence budget, and an invariant broken in WORKSPACE_READY: each    *)
(* blocks a quiescent task.                                                *)
BlockTask(t, from) ==
  /\ from \in {"PREFLIGHT", "WAITING_RESOURCE", "WORKSPACE_READY", "RETRY_WAIT"}
  /\ OrchestratorTransition(t, from, "BLOCKED")

(* A task that never had a workspace or an attempt goes back to preflight: *)
(* a BLOCKED one by the owner's choice, a WORKSPACE_READY one (which the   *)
(* last edge above leaves without a row) by ReconcileWorkspaceReady.       *)
RecoverNoWorkspaceToPreflight(t, from) ==
  /\ state[t] = from /\ epoch[t] = 0 /\ workspace[t] = "NONE"
  /\ \A e \in Epochs : authority[t][e] = "NONE"
  /\ Move(t, "PREFLIGHT")
  /\ UNCHANGED <<epoch, authority, cancelControl, workspace, result, integration>>

--------------------------------------------------------------------------------
(* Execution attempts: admission, authority, fencing, physical termination *)

(* Mutant: the attempt is inserted, but tasks.run_epoch is not advanced.   *)
BeginAttemptWithoutEpoch(t) ==
  /\ state[t] = "WORKSPACE_READY" /\ Quiescent(t) /\ epoch[t] < MaxEpoch
  /\ SetAuthority(t, epoch[t] + 1, "ACTIVE")
  /\ Move(t, "RUNNING")
  /\ UNCHANGED <<epoch, cancelControl, workspace, result, integration>>

BeginAttempt(t) ==
  /\ state[t] = "WORKSPACE_READY" /\ Quiescent(t)
  /\ epoch[t] < MaxEpoch                             \* the model's bound
  /\ epoch' = [epoch EXCEPT ![t] = @ + 1]
  /\ SetAuthority(t, epoch[t] + 1, "ACTIVE")
  /\ Move(t, "RUNNING")
  /\ UNCHANGED <<cancelControl, workspace, result, integration>>

(* Mutant: fencing checks the epoch but not that the attempt is active.    *)
LogicalFenceAttemptOfAnyAuthority(t, e) ==
  /\ epoch[t] = e
  /\ SetAuthority(t, e, "LOGICALLY_FENCED")
  /\ UNCHANGED <<state, epoch, cancelControl, choice, workspace, result, integration>>

LogicalFenceAttempt(t, e) ==
  /\ Authoritative(t, e)
  /\ SetAuthority(t, e, "LOGICALLY_FENCED")
  /\ UNCHANGED <<state, epoch, cancelControl, choice, workspace, result, integration>>

ConfirmAttemptTerminated(t, e) ==
  /\ e \in OpenEpochs(t)
  /\ SetAuthority(t, e, "PHYSICALLY_TERMINATED")
  /\ UNCHANGED <<state, epoch, cancelControl, choice, workspace, result, integration>>

AttemptTransitions ==
  {<<"RUNNING", to>> : to \in {"VERIFYING", "INPUT_REQUIRED", "BLOCKED", "RETRY_WAIT"}} \cup
  {<<"INPUT_REQUIRED", to>> : to \in {"BLOCKED", "RETRY_WAIT"}} \cup
  {<<"VERIFYING", "BLOCKED">>, <<"REVIEWING", "BLOCKED">>}

(* Mutant: the transition compares the epoch and forgets the authority.    *)
TransitionForAnyAttempt(t, e, to) ==
  /\ epoch[t] = e /\ <<state[t], to>> \in AttemptTransitions
  /\ Move(t, to)
  /\ UNCHANGED <<epoch, authority, cancelControl, workspace, result, integration>>

(* The targets some caller in src asks for; the table also allows FAILED,  *)
(* CANCELLED, REVIEWING, VERIFIED and READY_TO_INTEGRATE, which none does. *)
TransitionForAttempt(t, e, to) ==
  /\ Authoritative(t, e)
  /\ <<state[t], to>> \in AttemptTransitions
  /\ Move(t, to)
  /\ UNCHANGED <<epoch, authority, cancelControl, workspace, result, integration>>

(* The answer to a web turn, or an owner's input, resumes the same attempt *)
PublishTaskInput(t) ==
  /\ state[t] = "INPUT_REQUIRED" /\ epoch[t] \in Epochs /\ Authoritative(t, epoch[t])
  /\ Move(t, "RUNNING")
  /\ UNCHANGED <<epoch, authority, cancelControl, workspace, result, integration>>

(* A failed verification command sends the task to RETRY_WAIT; any other   *)
(* outcome short of VERIFIED blocks it.                                    *)
OutcomeTargets == {<<"VERIFIED", "VERIFIED">>, <<"UNVERIFIED", "RETRY_WAIT">>,
                   <<"UNVERIFIED", "BLOCKED">>}

PersistVerificationOutcome(t, e) ==
  /\ Authoritative(t, e)
  /\ state[t] = "VERIFYING" /\ workspace[t] = "READY"
  /\ \E outcome \in OutcomeTargets :
       /\ result' = [result EXCEPT ![t] = outcome[1]]
       /\ Move(t, outcome[2])
  /\ UNCHANGED <<epoch, authority, cancelControl, workspace, integration>>

FenceIfActive(t, e) ==
  authority' = [authority EXCEPT ![t][e] = IF @ = "ACTIVE" THEN "LOGICALLY_FENCED" ELSE @]

(* Daemon reconciliation of an attempt without a live supervisor.  An      *)
(* already BLOCKED task keeps its updated_at.                              *)
RequirePhysicalRecovery(t, e) ==
  /\ epoch[t] = e /\ e \in OpenEpochs(t)
  /\ state[t] \notin TerminalStates
  /\ FenceIfActive(t, e)
  /\ IF state[t] = "BLOCKED" THEN UNCHANGED <<state, choice>> ELSE Move(t, "BLOCKED")
  /\ UNCHANGED <<epoch, cancelControl, workspace, result, integration>>

(* Mutant: a replacement is prepared without asking for the termination of *)
(* the predecessor.                                                        *)
RecoverTaskWithoutTermination(t, from) ==
  /\ state[t] = from
  /\ Move(t, "WORKSPACE_READY")
  /\ UNCHANGED <<epoch, authority, cancelControl, workspace, result, integration>>

(* A replacement for a RUNNING or RETRY_WAIT task (RecoverForReplacement)  *)
(* or for a BLOCKED one (RecoverBlockedChoice below).  The workspace row   *)
(* is not part of the statement: who calls must know that it is READY.     *)
ReplaceableStates == {"RUNNING", "RETRY_WAIT", "BLOCKED"}
RecoverTaskToWorkspaceReady(t, from) ==
  /\ state[t] = from /\ Quiescent(t)
  /\ Move(t, "WORKSPACE_READY")
  /\ UNCHANGED <<epoch, authority, cancelControl, workspace, result, integration>>

RecoverBlockedCheckpointToWaitingResource(t) ==
  /\ state[t] = "BLOCKED" /\ workspace[t] = "CHECKPOINTED" /\ Quiescent(t)
  /\ Move(t, "WAITING_RESOURCE")
  /\ UNCHANGED <<epoch, authority, cancelControl, workspace, result, integration>>

(* Only the blocker record is rewritten, which consumes the owner's choice *)
SetTaskBlocker(t) ==
  /\ state[t] = "BLOCKED"
  /\ Touch(t)
  /\ UNCHANGED <<state, epoch, authority, cancelControl, workspace, result, integration>>

(* Two calls of the service that first read the workspace row and then run *)
(* one of the transactions above, which do not compare it.  As one step    *)
(* they are right only for a caller that is the sole writer of workspace   *)
(* rows, as the daemon's loop is: Next, where anybody calls, has the bare  *)
(* transactions in any order instead, and they are for the modules of      *)
(* that loop.  RecoverBlockedChoice resolves an owner's blocked_choice; in *)
(* the last case the workspace cannot host a replacement.                  *)
RecoverBlockedChoice(t) ==
  \/ RecoverNoWorkspaceToPreflight(t, "BLOCKED")
  \/ RecoverBlockedCheckpointToWaitingResource(t)
  \/ workspace[t] = "READY" /\ RecoverTaskToWorkspaceReady(t, "BLOCKED")
  \/ /\ workspace[t] \notin {"READY", "CHECKPOINTED"}
     /\ workspace[t] = "NONE" => epoch[t] > 0 /\ Quiescent(t)
     /\ SetTaskBlocker(t)

(* launchReady met a WORKSPACE_READY task whose workspace is not READY.    *)
(* Such a task is quiescent, so the call's third way out, the recovery of  *)
(* an open attempt, belongs to callers that race an admission: in Next it  *)
(* is RequirePhysicalRecovery.                                             *)
ReconcileWorkspaceReady(t) ==
  /\ workspace[t] # "READY"
  /\ \/ RecoverNoWorkspaceToPreflight(t, "WORKSPACE_READY")
     \/ ~(workspace[t] = "NONE" /\ epoch[t] = 0) /\ BlockTask(t, "WORKSPACE_READY")

--------------------------------------------------------------------------------
(* Controls.  Idempotent replays change nothing and are left out.          *)

SteerableStates == {"RUNNING", "VERIFYING", "REVIEWING", "READY_TO_INTEGRATE",
                    "INPUT_REQUIRED", "BLOCKED", "RETRY_WAIT"}

Steer(t, blockedChoice) ==
  /\ state[t] \in SteerableStates
  /\ choice' = [choice EXCEPT ![t] = blockedChoice]
  /\ UNCHANGED <<state, epoch, authority, cancelControl, workspace, result, integration>>

(* Before an attempt the task is cancelled outright.  Later the active     *)
(* attempt is only fenced, and the task is cancelled at once exactly when  *)
(* nothing was fenced and nothing is left to terminate.                    *)
RequestTaskCancellation(t) ==
  /\ state[t] \notin TerminalStates \cup {"INTEGRATING", "ABSENT"}
  /\ cancelControl' = [cancelControl EXCEPT ![t] = TRUE]
  /\ IF state[t] \in PreAttemptStates \/ Quiescent(t)
       THEN Move(t, "CANCELLED") /\ UNCHANGED authority
       ELSE /\ authority' = [authority EXCEPT ![t] = [e \in Epochs |->
                 IF e = epoch[t] /\ @[e] = "ACTIVE" THEN "LOGICALLY_FENCED" ELSE @[e]]]
            /\ Touch(t)                         \* a cancel is now the latest control
            /\ UNCHANGED state
  /\ UNCHANGED <<epoch, workspace, result, integration>>

FinalizeTaskCancellation(t) ==
  /\ state[t] \notin {"CANCELLED", "ABSENT"}
  /\ cancelControl[t] /\ Quiescent(t)
  /\ Move(t, "CANCELLED")
  /\ UNCHANGED <<epoch, authority, cancelControl, workspace, result, integration>>

--------------------------------------------------------------------------------
(* The workspace row and the task transitions it is tied to.               *)

BeginWorkspace(t) ==
  /\ state[t] = "WAITING_RESOURCE" /\ workspace[t] = "NONE"
  /\ workspace' = [workspace EXCEPT ![t] = "PREPARING"]
  /\ UNCHANGED <<state, epoch, authority, cancelControl, choice, result, integration>>

BeginWorkspaceRehydrate(t) ==
  /\ state[t] = "WAITING_RESOURCE" /\ workspace[t] = "CHECKPOINTED"
  /\ workspace' = [workspace EXCEPT ![t] = "PREPARING"]
  /\ UNCHANGED <<state, epoch, authority, cancelControl, choice, result, integration>>

MarkWorkspace(t, ws, to) ==
  /\ state[t] = "WAITING_RESOURCE" /\ workspace[t] = "PREPARING"
  /\ workspace' = [workspace EXCEPT ![t] = ws]
  /\ Move(t, to)
  /\ UNCHANGED <<epoch, authority, cancelControl, result, integration>>

MarkWorkspaceReady(t)  == MarkWorkspace(t, "READY", "WORKSPACE_READY")
MarkWorkspaceFailed(t) == MarkWorkspace(t, "FAILED", "BLOCKED")

(* Mutant: a blocked workspace is compacted under an unterminated attempt. *)
BeginWorkspaceCheckpointUnderWriter(t) ==
  /\ state[t] = "BLOCKED" /\ workspace[t] = "READY" /\ result[t] # "VERIFIED_BLOCKED"
  /\ workspace' = [workspace EXCEPT ![t] = "CHECKPOINTING"]
  /\ UNCHANGED <<state, epoch, authority, cancelControl, choice, result, integration>>

(* A blocked task that nothing writes to may be compacted, unless it holds *)
(* a verified candidate that is waiting for integration.                   *)
BeginWorkspaceCheckpoint(t) ==
  /\ state[t] = "BLOCKED" /\ workspace[t] = "READY" /\ Quiescent(t)
  /\ result[t] # "VERIFIED_BLOCKED"
  /\ workspace' = [workspace EXCEPT ![t] = "CHECKPOINTING"]
  /\ UNCHANGED <<state, epoch, authority, cancelControl, choice, result, integration>>

EndWorkspaceCheckpoint(t, ws) ==
  /\ workspace[t] = "CHECKPOINTING"
  /\ workspace' = [workspace EXCEPT ![t] = ws]
  /\ UNCHANGED <<state, epoch, authority, cancelControl, choice, result, integration>>

AbortWorkspaceCheckpoint(t)  == EndWorkspaceCheckpoint(t, "READY")
FinishWorkspaceCheckpoint(t) == EndWorkspaceCheckpoint(t, "CHECKPOINTED")

Removable(t) == \/ state[t] \in {"CANCELLED", "FAILED"}
                \/ state[t] = "COMPLETE" /\ result[t] = "VERIFIED_INTEGRATED"

BeginWorkspaceRemoval(t) ==
  /\ Removable(t) /\ Quiescent(t) /\ workspace[t] \in {"READY", "FAILED"}
  /\ workspace' = [workspace EXCEPT ![t] = "REMOVING"]
  /\ UNCHANGED <<state, epoch, authority, cancelControl, choice, result, integration>>

FinishWorkspaceRemoval(t) ==
  /\ Removable(t) /\ workspace[t] = "REMOVING"
  /\ workspace' = [workspace EXCEPT ![t] = "REMOVED"]
  /\ UNCHANGED <<state, epoch, authority, cancelControl, choice, result, integration>>

--------------------------------------------------------------------------------
(* Integration of a verified result.                                       *)

Prepare(t, from, verified) ==
  /\ state[t] = from /\ result[t] = verified
  /\ Quiescent(t) /\ workspace[t] = "READY"
  /\ integration' = [integration EXCEPT ![t] = "PREPARED"]
  /\ Move(t, "READY_TO_INTEGRATE")
  /\ UNCHANGED <<epoch, authority, cancelControl, workspace, result>>

PrepareIntegrationAttempt(t)                == Prepare(t, "VERIFIED", "VERIFIED")
PrepareBlockedVerifiedIntegrationAttempt(t) == Prepare(t, "BLOCKED", "VERIFIED_BLOCKED")

AcknowledgeBlockedVerifiedIntegrationRetry(t) ==
  /\ state[t] = "BLOCKED" /\ result[t] = "VERIFIED_BLOCKED" /\ Quiescent(t)
  /\ Touch(t)
  /\ UNCHANGED <<state, epoch, authority, cancelControl, workspace, result, integration>>

(* Mutants: the dispatch leaves the task row for a later transaction; the  *)
(* dispatch does not compare the task's state.                             *)
MarkIntegrationDispatchedAlone(t) ==
  /\ integration[t] = "PREPARED" /\ state[t] = "READY_TO_INTEGRATE"
  /\ integration' = [integration EXCEPT ![t] = "DISPATCHED"]
  /\ UNCHANGED <<state, epoch, authority, cancelControl, choice, workspace, result>>

(* The publication linearization point: the task leaves READY_TO_INTEGRATE *)
(* in the transaction that dispatches the attempt, or neither happens.     *)
MarkIntegrationDispatched(t) ==
  /\ integration[t] = "PREPARED" /\ state[t] = "READY_TO_INTEGRATE"
  /\ integration' = [integration EXCEPT ![t] = "DISPATCHED"]
  /\ Move(t, "INTEGRATING")
  /\ UNCHANGED <<epoch, authority, cancelControl, workspace, result>>

FinalizeIntegrationApplied(t) ==
  /\ integration[t] = "DISPATCHED" /\ state[t] = "INTEGRATING"
  /\ integration' = [integration EXCEPT ![t] = "COMPLETE"]
  /\ result' = [result EXCEPT ![t] = "VERIFIED_INTEGRATED"]
  /\ Move(t, "COMPLETE")
  /\ UNCHANGED <<epoch, authority, cancelControl, workspace>>

BlockVerifiedIntegration(t) ==
  /\ state[t] = "VERIFIED" /\ result[t] = "VERIFIED"
  /\ result' = [result EXCEPT ![t] = "VERIFIED_BLOCKED"]
  /\ Move(t, "BLOCKED")
  /\ UNCHANGED <<epoch, authority, cancelControl, workspace, integration>>

BlockIntegrationAttempt(t) ==
  /\ \/ integration[t] = "PREPARED" /\ state[t] = "READY_TO_INTEGRATE"
     \/ integration[t] = "DISPATCHED" /\ state[t] = "INTEGRATING"
  /\ integration' = [integration EXCEPT ![t] = "BLOCKED"]
  /\ result' = [result EXCEPT ![t] = "VERIFIED_BLOCKED"]
  /\ Move(t, "BLOCKED")
  /\ UNCHANGED <<epoch, authority, cancelControl, workspace>>

--------------------------------------------------------------------------------
Init ==
  /\ state         = [t \in Tasks |-> "ABSENT"]
  /\ epoch         = [t \in Tasks |-> 0]
  /\ authority     = [t \in Tasks |-> [e \in Epochs |-> "NONE"]]
  /\ cancelControl = [t \in Tasks |-> FALSE]
  /\ choice        = [t \in Tasks |-> FALSE]
  /\ workspace     = [t \in Tasks |-> "NONE"]
  /\ result        = [t \in Tasks |-> "NONE"]
  /\ integration   = [t \in Tasks |-> "NONE"]

PreExecutionNext(t) ==
  \/ SubmitTask(t) \/ BeginAttempt(t)
  \/ \E to \in PreAttemptStates : AdvancePreExecution(t, to)
  \/ \E from \in TaskStates : BlockTask(t, from)
  \/ \E from \in ReplaceableStates : RecoverTaskToWorkspaceReady(t, from)
  \/ \E from \in {"BLOCKED", "WORKSPACE_READY"} : RecoverNoWorkspaceToPreflight(t, from)
  \/ RecoverBlockedCheckpointToWaitingResource(t) \/ SetTaskBlocker(t)

AttemptNext(t) ==
  \/ \E e \in Epochs : LogicalFenceAttempt(t, e) \/ ConfirmAttemptTerminated(t, e)
  \/ \E e \in Epochs, to \in TaskStates : TransitionForAttempt(t, e, to)
  \/ \E e \in Epochs : PersistVerificationOutcome(t, e) \/ RequirePhysicalRecovery(t, e)
  \/ PublishTaskInput(t)

ControlNext(t) ==
  \/ \E blockedChoice \in BOOLEAN : Steer(t, blockedChoice)
  \/ RequestTaskCancellation(t) \/ FinalizeTaskCancellation(t)

WorkspaceNext(t) ==
  \/ BeginWorkspace(t) \/ BeginWorkspaceRehydrate(t)
  \/ MarkWorkspaceReady(t) \/ MarkWorkspaceFailed(t)
  \/ BeginWorkspaceCheckpoint(t) \/ AbortWorkspaceCheckpoint(t) \/ FinishWorkspaceCheckpoint(t)
  \/ BeginWorkspaceRemoval(t) \/ FinishWorkspaceRemoval(t)

IntegrationNext(t) ==
  \/ PrepareIntegrationAttempt(t) \/ PrepareBlockedVerifiedIntegrationAttempt(t)
  \/ AcknowledgeBlockedVerifiedIntegrationRetry(t) \/ MarkIntegrationDispatched(t)
  \/ FinalizeIntegrationApplied(t) \/ BlockVerifiedIntegration(t) \/ BlockIntegrationAttempt(t)

Next == \E t \in Tasks : \/ PreExecutionNext(t) \/ AttemptNext(t) \/ ControlNext(t)
                         \/ WorkspaceNext(t) \/ IntegrationNext(t)

Spec == Init /\ [][Next]_storeVars

--------------------------------------------------------------------------------
(* Every row has one of the values its column's CHECK and the Go           *)
(* constants admit.                                                        *)
TypeOK ==
  /\ state         \in [Tasks -> TaskStates \cup {"ABSENT"}]
  /\ epoch         \in [Tasks -> 0..MaxEpoch]
  /\ authority     \in [Tasks -> [Epochs -> AuthorityStates \cup {"NONE"}]]
  /\ cancelControl \in [Tasks -> BOOLEAN]
  /\ choice        \in [Tasks -> BOOLEAN]
  /\ workspace     \in [Tasks -> WorkspaceStates \cup {"NONE"}]
  /\ result        \in [Tasks -> Results \cup {"NONE"}]
  /\ integration   \in [Tasks -> IntegrationStates \cup {"NONE"}]

(* A task whose state says that no attempt owns it has no attempt that may *)
(* still write: in particular no replacement is admitted, and nothing is   *)
(* integrated, completed or cancelled, over a live predecessor.            *)
SettledStates == PreAttemptStates \cup {"ABSENT", "READY_TO_INTEGRATE", "INTEGRATING",
                                        "COMPLETE", "CANCELLED"}
SettledQuiescent == \A t \in Tasks : state[t] \in SettledStates => Quiescent(t)

(* At most one attempt of a task is open, and it is the one its run_epoch  *)
(* names: a superseded epoch has always been confirmed terminated.         *)
OnlyCurrentAttemptOpen == \A t \in Tasks : OpenEpochs(t) \subseteq {epoch[t]}

(* A task on its way into the branch, or reported complete, is backed by   *)
(* an integration attempt in the matching state and a verified result.     *)
IntegrationBacked ==
  \A t \in Tasks :
    /\ state[t] = "READY_TO_INTEGRATE" => integration[t] = "PREPARED"
    /\ state[t] = "INTEGRATING" => integration[t] = "DISPATCHED"
    /\ state[t] \in {"READY_TO_INTEGRATE", "INTEGRATING"} =>
         result[t] \in {"VERIFIED", "VERIFIED_BLOCKED"} /\ workspace[t] = "READY"
    /\ state[t] = "COMPLETE" => integration[t] = "COMPLETE" /\ result[t] = "VERIFIED_INTEGRATED"

(* Fencing is irreversible: a fenced attempt never becomes active again, a *)
(* terminated one never reopens, and run_epoch never goes back.            *)
AuthorityRank(a) == CASE a = "NONE" -> 0 [] a = "ACTIVE" -> 1
                      [] a = "LOGICALLY_FENCED" -> 2 [] a = "PHYSICALLY_TERMINATED" -> 3
FencingIrreversible ==
  [][\A t \in Tasks : /\ epoch'[t] >= epoch[t]
                      /\ \A e \in Epochs : AuthorityRank(authority'[t][e]) >=
                                           AuthorityRank(authority[t][e])]_storeVars

(* Once the current attempt has lost its authority, nothing moves a        *)
(* running task anywhere but to BLOCKED or CANCELLED, or to its            *)
(* replacement when the attempt is confirmed dead: a stale candidate is    *)
(* never verified, and no stale verdict asks for a retry.                  *)
FencedAttemptCannotAdvance ==
  [][\A t \in Tasks :
       /\ state[t] \in {"RUNNING", "VERIFYING", "INPUT_REQUIRED"}
       /\ ~ \E e \in Epochs : Authoritative(t, e)
       => /\ result'[t] = result[t]
          /\ \/ state'[t] \in {state[t], "BLOCKED", "CANCELLED"}
             \/ state'[t] = "WORKSPACE_READY" /\ Quiescent(t)]_storeVars
================================================================================
