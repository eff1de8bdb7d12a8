---------------------------- MODULE TaskStoreProofs ----------------------------
(***************************************************************************)
(* Proofs about TaskStore, for every set of tasks and every MaxEpoch.  The *)
(* inductive invariant IInv is TypeOK and, for each task, the conjunction  *)
(* of the three safety invariants and of one more fact: no attempt has an  *)
(* epoch beyond run_epoch.  Each needs the others: an admission keeps one  *)
(* attempt open because a WORKSPACE_READY task is quiescent, and a task    *)
(* stays settled because the epochs beyond its own are unused.             *)
(***************************************************************************)
EXTENDS TaskStore, TLAPS

Safe(t) ==
  /\ state[t] \in SettledStates => Quiescent(t)
  /\ OpenEpochs(t) \subseteq {epoch[t]}
  /\ \A e \in Epochs : e > epoch[t] => authority[t][e] = "NONE"
  /\ state[t] = "READY_TO_INTEGRATE" => integration[t] = "PREPARED"
  /\ state[t] = "INTEGRATING" => integration[t] = "DISPATCHED"
  /\ state[t] \in {"READY_TO_INTEGRATE", "INTEGRATING"} =>
       result[t] \in {"VERIFIED", "VERIFIED_BLOCKED"} /\ workspace[t] = "READY"
  /\ state[t] = "COMPLETE" => integration[t] = "COMPLETE" /\ result[t] = "VERIFIED_INTEGRATED"

IInv == TypeOK /\ \A t \in Tasks : Safe(t)

(* The pre-execution operations keep the type invariant.                   *)
LEMMA TypedPreExecution ==
  ASSUME TypeOK, NEW t \in Tasks, PreExecutionNext(t)
  PROVE  TypeOK'
<1> USE EpochAssumption DEF TypeOK, Epochs, TaskStates, PreAttemptStates, TerminalStates,
         AuthorityStates, WorkspaceStates, Results, IntegrationStates
<1>1. CASE SubmitTask(t)
  BY <1>1 DEF SubmitTask, Move
<1>2. CASE \E to \in PreAttemptStates : AdvancePreExecution(t, to)
  BY <1>2 DEF AdvancePreExecution, PreExecutionTransitions, OrchestratorTransition, Move
<1>3. CASE BeginAttempt(t)
  BY <1>3 DEF BeginAttempt, Move, SetAuthority
<1>4. CASE \E from \in TaskStates : BlockTask(t, from)
  BY <1>4 DEF BlockTask, OrchestratorTransition, Move
<1>5. CASE \E from \in ReplaceableStates : RecoverTaskToWorkspaceReady(t, from)
  BY <1>5 DEF RecoverTaskToWorkspaceReady, ReplaceableStates, Move
<1>6. CASE \E from \in {"BLOCKED", "WORKSPACE_READY"} : RecoverNoWorkspaceToPreflight(t, from)
  BY <1>6 DEF RecoverNoWorkspaceToPreflight, Move
<1>7. CASE RecoverBlockedCheckpointToWaitingResource(t) \/ SetTaskBlocker(t)
  BY <1>7 DEF RecoverBlockedCheckpointToWaitingResource, SetTaskBlocker, Move, Touch
<1> QED BY <1>1, <1>2, <1>3, <1>4, <1>5, <1>6, <1>7 DEF PreExecutionNext

(* The operations of an attempt keep the type invariant.                   *)
LEMMA TypedAttempt ==
  ASSUME TypeOK, NEW t \in Tasks, AttemptNext(t)
  PROVE  TypeOK'
<1> USE EpochAssumption DEF TypeOK, Epochs, TaskStates, PreAttemptStates, TerminalStates,
         AuthorityStates, WorkspaceStates, Results, IntegrationStates
<1>1. CASE \E e \in Epochs : LogicalFenceAttempt(t, e)
  BY <1>1 DEF LogicalFenceAttempt, SetAuthority, Authoritative
<1>2. CASE \E e \in Epochs : ConfirmAttemptTerminated(t, e)
  BY <1>2 DEF ConfirmAttemptTerminated, SetAuthority
<1>3. CASE \E e \in Epochs, to \in TaskStates : TransitionForAttempt(t, e, to)
  BY <1>3 DEF TransitionForAttempt, AttemptTransitions, Authoritative, Move
<1>4. CASE \E e \in Epochs : PersistVerificationOutcome(t, e)
  BY <1>4 DEF PersistVerificationOutcome, OutcomeTargets, Authoritative, Move
<1>5. CASE \E e \in Epochs : RequirePhysicalRecovery(t, e)
  <2>1. PICK e \in Epochs : RequirePhysicalRecovery(t, e)
    BY <1>5
  <2>2. authority' \in [Tasks -> [Epochs -> AuthorityStates \cup {"NONE"}]]
    BY <2>1 DEF RequirePhysicalRecovery, FenceIfActive
  <2>3. /\ state' \in [Tasks -> TaskStates \cup {"ABSENT"}]
        /\ choice' \in [Tasks -> BOOLEAN]
    BY <2>1 DEF RequirePhysicalRecovery, Move
  <2> QED
    BY <2>1, <2>2, <2>3 DEF RequirePhysicalRecovery
<1>6. CASE PublishTaskInput(t)
  BY <1>6 DEF PublishTaskInput, Authoritative, Move
<1> QED BY <1>1, <1>2, <1>3, <1>4, <1>5, <1>6 DEF AttemptNext

(* The control operations keep the type invariant.                         *)
LEMMA TypedControl ==
  ASSUME TypeOK, NEW t \in Tasks, ControlNext(t)
  PROVE  TypeOK'
<1> USE EpochAssumption DEF TypeOK, Epochs, TaskStates, PreAttemptStates, TerminalStates,
         AuthorityStates, WorkspaceStates, Results, IntegrationStates
<1>1. CASE \E blockedChoice \in BOOLEAN : Steer(t, blockedChoice)
  BY <1>1 DEF Steer
<1>2. CASE RequestTaskCancellation(t)
  <2>1. CASE state[t] \in PreAttemptStates \/ Quiescent(t)
    BY <1>2, <2>1 DEF RequestTaskCancellation, Move
  <2>2. CASE ~ (state[t] \in PreAttemptStates \/ Quiescent(t))
    <3> DEFINE fenced == [e \in Epochs |->
                            IF e = epoch[t] /\ authority[t][e] = "ACTIVE"
                              THEN "LOGICALLY_FENCED" ELSE authority[t][e]]
    <3>1. authority' = [authority EXCEPT ![t] = fenced]
      BY <1>2, <2>2 DEF RequestTaskCancellation
    <3>2. fenced \in [Epochs -> AuthorityStates \cup {"NONE"}]
      OBVIOUS
    <3>3. authority' \in [Tasks -> [Epochs -> AuthorityStates \cup {"NONE"}]]
      <4> HIDE DEF fenced
      <4> QED BY <3>1, <3>2
    <3> QED
      BY <1>2, <2>2, <3>3 DEF RequestTaskCancellation, Touch
  <2> QED BY <2>1, <2>2
<1>3. CASE FinalizeTaskCancellation(t)
  BY <1>3 DEF FinalizeTaskCancellation, Move
<1> QED BY <1>1, <1>2, <1>3 DEF ControlNext

(* The workspace operations keep the type invariant.                       *)
LEMMA TypedWorkspace ==
  ASSUME TypeOK, NEW t \in Tasks, WorkspaceNext(t)
  PROVE  TypeOK'
<1> USE EpochAssumption DEF TypeOK, Epochs, TaskStates, PreAttemptStates, TerminalStates,
         AuthorityStates, WorkspaceStates, Results, IntegrationStates
<1>1. CASE BeginWorkspace(t)
  BY <1>1 DEF BeginWorkspace
<1>2. CASE BeginWorkspaceRehydrate(t)
  BY <1>2 DEF BeginWorkspaceRehydrate
<1>3. CASE MarkWorkspaceReady(t)
  BY <1>3 DEF MarkWorkspaceReady, MarkWorkspace, Move
<1>4. CASE MarkWorkspaceFailed(t)
  BY <1>4 DEF MarkWorkspaceFailed, MarkWorkspace, Move
<1>5. CASE BeginWorkspaceCheckpoint(t)
  BY <1>5 DEF BeginWorkspaceCheckpoint
<1>6. CASE AbortWorkspaceCheckpoint(t)
  BY <1>6 DEF AbortWorkspaceCheckpoint, EndWorkspaceCheckpoint
<1>7. CASE FinishWorkspaceCheckpoint(t)
  BY <1>7 DEF FinishWorkspaceCheckpoint, EndWorkspaceCheckpoint
<1>8. CASE BeginWorkspaceRemoval(t)
  BY <1>8 DEF BeginWorkspaceRemoval, Removable
<1>9. CASE FinishWorkspaceRemoval(t)
  BY <1>9 DEF FinishWorkspaceRemoval, Removable
<1> QED BY <1>1, <1>2, <1>3, <1>4, <1>5, <1>6, <1>7, <1>8, <1>9 DEF WorkspaceNext

(* The integration operations keep the type invariant.                     *)
LEMMA TypedIntegration ==
  ASSUME TypeOK, NEW t \in Tasks, IntegrationNext(t)
  PROVE  TypeOK'
<1> USE EpochAssumption DEF TypeOK, Epochs, TaskStates, PreAttemptStates, TerminalStates,
         AuthorityStates, WorkspaceStates, Results, IntegrationStates
<1>1. CASE PrepareIntegrationAttempt(t)
  BY <1>1 DEF PrepareIntegrationAttempt, Prepare, Move
<1>2. CASE PrepareBlockedVerifiedIntegrationAttempt(t)
  BY <1>2 DEF PrepareBlockedVerifiedIntegrationAttempt, Prepare, Move
<1>3. CASE AcknowledgeBlockedVerifiedIntegrationRetry(t)
  BY <1>3 DEF AcknowledgeBlockedVerifiedIntegrationRetry, Touch
<1>4. CASE MarkIntegrationDispatched(t)
  BY <1>4 DEF MarkIntegrationDispatched, Move
<1>5. CASE FinalizeIntegrationApplied(t)
  BY <1>5 DEF FinalizeIntegrationApplied, Move
<1>6. CASE BlockVerifiedIntegration(t)
  BY <1>6 DEF BlockVerifiedIntegration, Move
<1>7. CASE BlockIntegrationAttempt(t)
  BY <1>7 DEF BlockIntegrationAttempt, Move
<1> QED BY <1>1, <1>2, <1>3, <1>4, <1>5, <1>6, <1>7 DEF IntegrationNext

(* The pre-execution operations keep every task safe.                      *)
LEMMA SafePreExecution ==
  ASSUME IInv, NEW t \in Tasks, PreExecutionNext(t)
  PROVE  \A u \in Tasks : Safe(u)'
<1> SUFFICES ASSUME NEW u \in Tasks PROVE Safe(u)'
  OBVIOUS
<1> USE EpochAssumption DEF IInv, TypeOK, Safe, SettledStates, PreAttemptStates, OpenEpochs, Quiescent, Epochs
<1>1. CASE SubmitTask(t)
  BY <1>1 DEF SubmitTask, Move
<1>2. CASE \E to \in PreAttemptStates : AdvancePreExecution(t, to)
  BY <1>2 DEF AdvancePreExecution, PreExecutionTransitions, OrchestratorTransition, Move
<1>3. CASE BeginAttempt(t)
  BY <1>3 DEF BeginAttempt, Move, SetAuthority
<1>4. CASE \E from \in TaskStates : BlockTask(t, from)
  BY <1>4 DEF BlockTask, OrchestratorTransition, Move
<1>5. CASE \E from \in ReplaceableStates : RecoverTaskToWorkspaceReady(t, from)
  BY <1>5 DEF RecoverTaskToWorkspaceReady, ReplaceableStates, Move
<1>6. CASE \E from \in {"BLOCKED", "WORKSPACE_READY"} : RecoverNoWorkspaceToPreflight(t, from)
  BY <1>6 DEF RecoverNoWorkspaceToPreflight, Move
<1>7. CASE RecoverBlockedCheckpointToWaitingResource(t) \/ SetTaskBlocker(t)
  BY <1>7 DEF RecoverBlockedCheckpointToWaitingResource, SetTaskBlocker, Move, Touch
<1> QED BY <1>1, <1>2, <1>3, <1>4, <1>5, <1>6, <1>7 DEF PreExecutionNext

(* The operations of an attempt keep every task safe.                      *)
LEMMA SafeAttempt ==
  ASSUME IInv, NEW t \in Tasks, AttemptNext(t)
  PROVE  \A u \in Tasks : Safe(u)'
<1> SUFFICES ASSUME NEW u \in Tasks PROVE Safe(u)'
  OBVIOUS
<1> USE EpochAssumption DEF IInv, TypeOK, Safe, SettledStates, PreAttemptStates, OpenEpochs, Quiescent, Epochs
<1>1. CASE \E e \in Epochs : LogicalFenceAttempt(t, e)
  BY <1>1 DEF LogicalFenceAttempt, SetAuthority, Authoritative
<1>2. CASE \E e \in Epochs : ConfirmAttemptTerminated(t, e)
  BY <1>2 DEF ConfirmAttemptTerminated, SetAuthority
<1>3. CASE \E e \in Epochs, to \in TaskStates : TransitionForAttempt(t, e, to)
  BY <1>3 DEF TransitionForAttempt, AttemptTransitions, Authoritative, Move
<1>4. CASE \E e \in Epochs : PersistVerificationOutcome(t, e)
  BY <1>4 DEF PersistVerificationOutcome, OutcomeTargets, Authoritative, Move
<1>5. CASE \E e \in Epochs : RequirePhysicalRecovery(t, e)
  BY <1>5 DEF RequirePhysicalRecovery, FenceIfActive, Move
<1>6. CASE PublishTaskInput(t)
  BY <1>6 DEF PublishTaskInput, Authoritative, Move
<1> QED BY <1>1, <1>2, <1>3, <1>4, <1>5, <1>6 DEF AttemptNext

(* The control operations keep every task safe.                            *)
LEMMA SafeControl ==
  ASSUME IInv, NEW t \in Tasks, ControlNext(t)
  PROVE  \A u \in Tasks : Safe(u)'
<1> SUFFICES ASSUME NEW u \in Tasks PROVE Safe(u)'
  OBVIOUS
<1> USE EpochAssumption DEF IInv, TypeOK, Safe, SettledStates, PreAttemptStates, OpenEpochs, Quiescent, Epochs
<1>1. CASE \E blockedChoice \in BOOLEAN : Steer(t, blockedChoice)
  BY <1>1 DEF Steer
<1>2. CASE RequestTaskCancellation(t)
  <2>1. CASE state[t] \in PreAttemptStates \/ Quiescent(t)
    BY <1>2, <2>1 DEF RequestTaskCancellation, Move
  <2>2. CASE ~(state[t] \in PreAttemptStates \/ Quiescent(t))
    <3>1. UNCHANGED <<state, epoch, workspace, result, integration>>
      BY <1>2, <2>2 DEF RequestTaskCancellation
    <3>2. \A e \in Epochs : authority'[u][e] =
            IF u = t /\ e = epoch[t] /\ authority[t][e] = "ACTIVE"
              THEN "LOGICALLY_FENCED" ELSE authority[u][e]
      BY <1>2, <2>2 DEF RequestTaskCancellation
    <3>3. OpenEpochs(u)' = OpenEpochs(u)
      BY <3>2
    <3>4. \A e \in Epochs : authority[u][e] = "NONE" => authority'[u][e] = "NONE"
      BY <3>2
    <3> QED
      BY <3>1, <3>3, <3>4
  <2> QED
    BY <2>1, <2>2
<1>3. CASE FinalizeTaskCancellation(t)
  BY <1>3 DEF FinalizeTaskCancellation, Move
<1> QED BY <1>1, <1>2, <1>3 DEF ControlNext

(* The workspace operations keep every task safe.                          *)
LEMMA SafeWorkspace ==
  ASSUME IInv, NEW t \in Tasks, WorkspaceNext(t)
  PROVE  \A u \in Tasks : Safe(u)'
<1> SUFFICES ASSUME NEW u \in Tasks PROVE Safe(u)'
  OBVIOUS
<1> USE EpochAssumption DEF IInv, TypeOK, Safe, SettledStates, PreAttemptStates, OpenEpochs, Quiescent, Epochs
<1>1. CASE BeginWorkspace(t)
  BY <1>1 DEF BeginWorkspace
<1>2. CASE BeginWorkspaceRehydrate(t)
  BY <1>2 DEF BeginWorkspaceRehydrate
<1>3. CASE MarkWorkspaceReady(t)
  BY <1>3 DEF MarkWorkspaceReady, MarkWorkspace, Move
<1>4. CASE MarkWorkspaceFailed(t)
  BY <1>4 DEF MarkWorkspaceFailed, MarkWorkspace, Move
<1>5. CASE BeginWorkspaceCheckpoint(t)
  BY <1>5 DEF BeginWorkspaceCheckpoint
<1>6. CASE AbortWorkspaceCheckpoint(t)
  BY <1>6 DEF AbortWorkspaceCheckpoint, EndWorkspaceCheckpoint
<1>7. CASE FinishWorkspaceCheckpoint(t)
  BY <1>7 DEF FinishWorkspaceCheckpoint, EndWorkspaceCheckpoint
<1>8. CASE BeginWorkspaceRemoval(t)
  BY <1>8 DEF BeginWorkspaceRemoval, Removable
<1>9. CASE FinishWorkspaceRemoval(t)
  BY <1>9 DEF FinishWorkspaceRemoval, Removable
<1> QED BY <1>1, <1>2, <1>3, <1>4, <1>5, <1>6, <1>7, <1>8, <1>9 DEF WorkspaceNext

(* The integration operations keep every task safe.                        *)
LEMMA SafeIntegration ==
  ASSUME IInv, NEW t \in Tasks, IntegrationNext(t)
  PROVE  \A u \in Tasks : Safe(u)'
<1> SUFFICES ASSUME NEW u \in Tasks PROVE Safe(u)'
  OBVIOUS
<1> USE EpochAssumption DEF IInv, TypeOK, Safe, SettledStates, PreAttemptStates, OpenEpochs, Quiescent, Epochs
<1>1. CASE PrepareIntegrationAttempt(t)
  BY <1>1 DEF PrepareIntegrationAttempt, Prepare, Move
<1>2. CASE PrepareBlockedVerifiedIntegrationAttempt(t)
  BY <1>2 DEF PrepareBlockedVerifiedIntegrationAttempt, Prepare, Move
<1>3. CASE AcknowledgeBlockedVerifiedIntegrationRetry(t)
  BY <1>3 DEF AcknowledgeBlockedVerifiedIntegrationRetry, Touch
<1>4. CASE MarkIntegrationDispatched(t)
  BY <1>4 DEF MarkIntegrationDispatched, Move
<1>5. CASE FinalizeIntegrationApplied(t)
  BY <1>5 DEF FinalizeIntegrationApplied, Move
<1>6. CASE BlockVerifiedIntegration(t)
  BY <1>6 DEF BlockVerifiedIntegration, Move
<1>7. CASE BlockIntegrationAttempt(t)
  BY <1>7 DEF BlockIntegrationAttempt, Move
<1> QED BY <1>1, <1>2, <1>3, <1>4, <1>5, <1>6, <1>7 DEF IntegrationNext

(* The empty store satisfies the invariant.                                *)
LEMMA Initially == Init => IInv
BY EpochAssumption DEF Init, IInv, TypeOK, Safe, SettledStates, PreAttemptStates, OpenEpochs,
   Quiescent, Epochs

(* Every transaction preserves the invariant.                              *)
LEMMA Inductive == IInv /\ [Next]_storeVars => IInv'
<1> SUFFICES ASSUME IInv, [Next]_storeVars PROVE IInv'
  OBVIOUS
<1>1. CASE UNCHANGED storeVars
  BY <1>1 DEF storeVars, IInv, TypeOK, Safe, OpenEpochs, Quiescent
<1>2. ASSUME NEW t \in Tasks, PreExecutionNext(t) PROVE IInv'
  BY <1>2, TypedPreExecution, SafePreExecution DEF IInv
<1>3. ASSUME NEW t \in Tasks, AttemptNext(t) PROVE IInv'
  BY <1>3, TypedAttempt, SafeAttempt DEF IInv
<1>4. ASSUME NEW t \in Tasks, ControlNext(t) PROVE IInv'
  BY <1>4, TypedControl, SafeControl DEF IInv
<1>5. ASSUME NEW t \in Tasks, WorkspaceNext(t) PROVE IInv'
  BY <1>5, TypedWorkspace, SafeWorkspace DEF IInv
<1>6. ASSUME NEW t \in Tasks, IntegrationNext(t) PROVE IInv'
  BY <1>6, TypedIntegration, SafeIntegration DEF IInv
<1> QED BY <1>1, <1>2, <1>3, <1>4, <1>5, <1>6 DEF Next

(* Every reachable store satisfies the inductive invariant.                *)
THEOREM StoreInvariant == Spec => []IInv
BY Initially, Inductive, PTL DEF Spec

(* Every row keeps one of the values the schema admits.                    *)
THEOREM TypeCorrect == Spec => []TypeOK
<1>1. IInv => TypeOK BY DEF IInv
<1> QED BY <1>1, StoreInvariant, PTL

(* No replacement is admitted, and nothing is integrated, completed or     *)
(* cancelled, while an attempt of the task may still write.                *)
THEOREM SettledTasksAreQuiescent == Spec => []SettledQuiescent
<1>1. IInv => SettledQuiescent BY DEF IInv, Safe, SettledQuiescent
<1> QED BY <1>1, StoreInvariant, PTL

(* At most one attempt of a task is open: the one run_epoch names.         *)
THEOREM OneOpenAttempt == Spec => []OnlyCurrentAttemptOpen
<1>1. IInv => OnlyCurrentAttemptOpen BY DEF IInv, Safe, OnlyCurrentAttemptOpen
<1> QED BY <1>1, StoreInvariant, PTL

(* COMPLETE is only ever reported over a finalized integration of a        *)
(* verified result.                                                        *)
THEOREM CompletionIsBacked == Spec => []IntegrationBacked
<1>1. IInv => IntegrationBacked BY DEF IInv, Safe, IntegrationBacked
<1> QED BY <1>1, StoreInvariant, PTL

--------------------------------------------------------------------------------
(* What a step may never do: the two action properties of TaskStore.       *)
Forward(u) == /\ epoch'[u] >= epoch[u]
              /\ \A e \in Epochs : AuthorityRank(authority'[u][e]) >= AuthorityRank(authority[u][e])

(* The operations that touch neither run_epoch nor an authority state.     *)
LEMMA SameAuthority ==
  ASSUME IInv, UNCHANGED <<epoch, authority>>, NEW u \in Tasks
  PROVE  Forward(u)
<1>1. epoch[u] \in 0..MaxEpoch
  BY DEF IInv, TypeOK
<1>2. \A e \in Epochs : authority[u][e] \in AuthorityStates \cup {"NONE"}
  BY DEF IInv, TypeOK
<1>3. \A a \in AuthorityStates \cup {"NONE"} : AuthorityRank(a) \in Nat
  BY DEF AuthorityStates, AuthorityRank
<1> QED
  BY <1>1, <1>2, <1>3, EpochAssumption DEF Forward

(* The operations that only move open attempts towards termination.        *)
LEMMA ClosingAuthority ==
  ASSUME IInv, epoch' = epoch, NEW u \in Tasks,
         \A e \in Epochs : \/ authority'[u][e] = authority[u][e]
                           \/ authority[u][e] = "ACTIVE" /\ authority'[u][e] = "LOGICALLY_FENCED"
                           \/ authority[u][e] # "PHYSICALLY_TERMINATED"
                              /\ authority'[u][e] = "PHYSICALLY_TERMINATED"
  PROVE  Forward(u)
<1>1. epoch[u] \in 0..MaxEpoch
  BY DEF IInv, TypeOK
<1>2. ASSUME NEW e \in Epochs
      PROVE  AuthorityRank(authority'[u][e]) >= AuthorityRank(authority[u][e])
  <2>1. authority[u][e] \in AuthorityStates \cup {"NONE"}
    BY DEF IInv, TypeOK
  <2> QED
    BY <2>1 DEF AuthorityStates, AuthorityRank
<1> QED
  BY <1>1, <1>2, EpochAssumption DEF Forward

(* Admission opens an epoch that no attempt has used.                      *)
LEMMA OpeningAuthority ==
  ASSUME IInv, NEW t \in Tasks, BeginAttempt(t), NEW u \in Tasks
  PROVE  Forward(u)
<1>1. /\ epoch[u] \in 0..MaxEpoch /\ epoch'[u] >= epoch[u]
  BY EpochAssumption DEF IInv, TypeOK, BeginAttempt
<1>2. ASSUME NEW e \in Epochs
      PROVE  AuthorityRank(authority'[u][e]) >= AuthorityRank(authority[u][e])
  <2>1. authority[u][e] \in AuthorityStates \cup {"NONE"}
    BY DEF IInv, TypeOK
  <2>2. u = t /\ e = epoch[t] + 1 => authority[u][e] = "NONE" /\ authority'[u][e] = "ACTIVE"
    BY <1>1, EpochAssumption DEF IInv, TypeOK, Safe, BeginAttempt, SetAuthority, Epochs
  <2>3. ~(u = t /\ e = epoch[t] + 1) => authority'[u][e] = authority[u][e]
    BY DEF IInv, TypeOK, BeginAttempt, SetAuthority
  <2> QED
    BY <2>1, <2>2, <2>3 DEF AuthorityStates, AuthorityRank
<1> QED
  BY <1>1, <1>2 DEF Forward

(* Every transaction moves the authority of every task forward only.       *)
LEMMA AuthorityForward ==
  ASSUME IInv, [Next]_storeVars, NEW u \in Tasks
  PROVE  Forward(u)
<1>1. CASE UNCHANGED storeVars
  BY <1>1, SameAuthority DEF storeVars
<1>2. ASSUME NEW t \in Tasks, PreExecutionNext(t) PROVE Forward(u)
  <2>1. BeginAttempt(t) \/ UNCHANGED <<epoch, authority>>
    BY <1>2 DEF PreExecutionNext, SubmitTask, AdvancePreExecution, OrchestratorTransition,
       BlockTask, RecoverTaskToWorkspaceReady, SetTaskBlocker, RecoverNoWorkspaceToPreflight,
       RecoverBlockedCheckpointToWaitingResource
  <2> QED
    BY <2>1, SameAuthority, OpeningAuthority
<1>3. ASSUME NEW t \in Tasks, AttemptNext(t) PROVE Forward(u)
  <2>1. CASE \E e \in Epochs : LogicalFenceAttempt(t, e)
    BY <2>1, ClosingAuthority DEF LogicalFenceAttempt, SetAuthority, Authoritative, IInv, TypeOK
  <2>2. CASE \E e \in Epochs : ConfirmAttemptTerminated(t, e)
    BY <2>2, ClosingAuthority DEF ConfirmAttemptTerminated, SetAuthority, OpenEpochs, IInv, TypeOK
  <2>3. CASE \E e \in Epochs : RequirePhysicalRecovery(t, e)
    BY <2>3, ClosingAuthority DEF RequirePhysicalRecovery, FenceIfActive, IInv, TypeOK
  <2>4. CASE UNCHANGED <<epoch, authority>>
    BY <2>4, SameAuthority
  <2> QED
    BY <1>3, <2>1, <2>2, <2>3, <2>4
       DEF AttemptNext, TransitionForAttempt, PersistVerificationOutcome, PublishTaskInput
<1>4. ASSUME NEW t \in Tasks, ControlNext(t) PROVE Forward(u)
  <2>1. CASE RequestTaskCancellation(t) /\ authority' # authority
    <3>1. /\ epoch' = epoch
          /\ \A e \in Epochs : authority'[u][e] =
               IF u = t /\ e = epoch[t] /\ authority[t][e] = "ACTIVE"
                 THEN "LOGICALLY_FENCED" ELSE authority[u][e]
      BY <2>1 DEF RequestTaskCancellation, IInv, TypeOK
    <3> QED
      BY <3>1, ClosingAuthority
  <2>2. CASE UNCHANGED <<epoch, authority>>
    BY <2>2, SameAuthority
  <2> QED
    BY <1>4, <2>1, <2>2
       DEF ControlNext, Steer, RequestTaskCancellation, FinalizeTaskCancellation
<1>5. ASSUME NEW t \in Tasks, WorkspaceNext(t) PROVE Forward(u)
  <2>1. UNCHANGED <<epoch, authority>>
    BY <1>5 DEF WorkspaceNext, BeginWorkspace, BeginWorkspaceRehydrate, MarkWorkspaceReady,
       MarkWorkspaceFailed, MarkWorkspace, BeginWorkspaceCheckpoint, AbortWorkspaceCheckpoint,
       FinishWorkspaceCheckpoint, EndWorkspaceCheckpoint, BeginWorkspaceRemoval,
       FinishWorkspaceRemoval
  <2> QED
    BY <2>1, SameAuthority
<1>6. ASSUME NEW t \in Tasks, IntegrationNext(t) PROVE Forward(u)
  <2>1. UNCHANGED <<epoch, authority>>
    BY <1>6 DEF IntegrationNext, PrepareIntegrationAttempt, Prepare,
       PrepareBlockedVerifiedIntegrationAttempt, AcknowledgeBlockedVerifiedIntegrationRetry,
       MarkIntegrationDispatched, FinalizeIntegrationApplied, BlockVerifiedIntegration,
       BlockIntegrationAttempt
  <2> QED
    BY <2>1, SameAuthority
<1> QED
  BY <1>1, <1>2, <1>3, <1>4, <1>5, <1>6 DEF Next

(* A fenced attempt never becomes active again, a terminated one never     *)
(* reopens, and run_epoch never goes back.                                 *)
THEOREM FencingHolds == Spec => FencingIrreversible
<1>1. IInv /\ [Next]_storeVars =>
        [\A t \in Tasks : /\ epoch'[t] >= epoch[t]
                          /\ \A e \in Epochs : AuthorityRank(authority'[t][e]) >=
                                               AuthorityRank(authority[t][e])]_storeVars
  BY AuthorityForward DEF Forward
<1> QED
  BY <1>1, StoreInvariant, PTL DEF Spec, FencingIrreversible

Stalled(u) == /\ state[u] \in {"RUNNING", "VERIFYING", "INPUT_REQUIRED"}
              /\ ~ \E e \in Epochs : Authoritative(u, e)
Held(u)    == /\ result'[u] = result[u]
              /\ \/ state'[u] \in {state[u], "BLOCKED", "CANCELLED"}
                 \/ state'[u] = "WORKSPACE_READY" /\ Quiescent(u)

(* A task whose current attempt lost its authority is held.                *)
LEMMA StalledIsHeld ==
  ASSUME IInv, [Next]_storeVars, NEW u \in Tasks, Stalled(u)
  PROVE  Held(u)
<1> USE EpochAssumption DEF IInv, TypeOK, Safe, Stalled, Held, PreAttemptStates, SettledStates
<1>1. CASE UNCHANGED storeVars
  BY <1>1 DEF storeVars
<1>2. ASSUME NEW t \in Tasks, PreExecutionNext(t) PROVE Held(u)
  BY <1>2 DEF PreExecutionNext, SubmitTask, AdvancePreExecution, PreExecutionTransitions,
     OrchestratorTransition, BlockTask, BeginAttempt, RecoverTaskToWorkspaceReady,
     SetTaskBlocker, RecoverNoWorkspaceToPreflight, RecoverBlockedCheckpointToWaitingResource,
     Move, Touch
<1>3. ASSUME NEW t \in Tasks, AttemptNext(t) PROVE Held(u)
  <2>1. CASE \E e \in Epochs : LogicalFenceAttempt(t, e) \/ ConfirmAttemptTerminated(t, e)
    BY <2>1 DEF LogicalFenceAttempt, ConfirmAttemptTerminated
  <2>2. CASE \E e \in Epochs, to \in TaskStates : TransitionForAttempt(t, e, to)
    BY <2>2 DEF TransitionForAttempt, Move
  <2>3. CASE \E e \in Epochs : PersistVerificationOutcome(t, e)
    BY <2>3 DEF PersistVerificationOutcome, Move
  <2>4. CASE \E e \in Epochs : RequirePhysicalRecovery(t, e)
    BY <2>4 DEF RequirePhysicalRecovery, Move
  <2>5. CASE PublishTaskInput(t)
    BY <2>5 DEF PublishTaskInput, Move
  <2> QED
    BY <1>3, <2>1, <2>2, <2>3, <2>4, <2>5 DEF AttemptNext
<1>4. ASSUME NEW t \in Tasks, ControlNext(t) PROVE Held(u)
  BY <1>4 DEF ControlNext, Steer, RequestTaskCancellation, FinalizeTaskCancellation, Move, Touch
<1>5. ASSUME NEW t \in Tasks, WorkspaceNext(t) PROVE Held(u)
  BY <1>5 DEF WorkspaceNext, BeginWorkspace, BeginWorkspaceRehydrate, MarkWorkspaceReady,
     MarkWorkspaceFailed, MarkWorkspace, BeginWorkspaceCheckpoint, AbortWorkspaceCheckpoint,
     FinishWorkspaceCheckpoint, EndWorkspaceCheckpoint, BeginWorkspaceRemoval,
     FinishWorkspaceRemoval, Move
<1>6. ASSUME NEW t \in Tasks, IntegrationNext(t) PROVE Held(u)
  BY <1>6 DEF IntegrationNext, PrepareIntegrationAttempt, Prepare,
     PrepareBlockedVerifiedIntegrationAttempt, AcknowledgeBlockedVerifiedIntegrationRetry,
     MarkIntegrationDispatched, FinalizeIntegrationApplied, BlockVerifiedIntegration,
     BlockIntegrationAttempt, Move, Touch
<1> QED
  BY <1>1, <1>2, <1>3, <1>4, <1>5, <1>6 DEF Next

(* An attempt without authority can neither have its candidate verified    *)
(* nor ask for a retry: its task only blocks, is cancelled, or is replaced *)
(* when the attempt is confirmed dead.                                     *)
THEOREM FencedAttemptHeld == Spec => FencedAttemptCannotAdvance
<1>1. IInv /\ [Next]_storeVars =>
        [\A t \in Tasks :
           /\ state[t] \in {"RUNNING", "VERIFYING", "INPUT_REQUIRED"}
           /\ ~ \E e \in Epochs : Authoritative(t, e)
           => /\ result'[t] = result[t]
              /\ \/ state'[t] \in {state[t], "BLOCKED", "CANCELLED"}
                 \/ state'[t] = "WORKSPACE_READY" /\ Quiescent(t)]_storeVars
  BY StalledIsHeld DEF Stalled, Held
<1> QED
  BY <1>1, StoreInvariant, PTL DEF Spec, FencedAttemptCannotAdvance

--------------------------------------------------------------------------------
(* Transactions that neither open nor close an attempt.                    *)
Keeps == epoch' = epoch /\ \A u \in Tasks : OpenEpochs(u)' = OpenEpochs(u)

(* A transaction that leaves epoch and authority alone is one of them.     *)
LEMMA KeepsUnchanged == UNCHANGED <<epoch, authority>> => Keeps
BY DEF Keeps, OpenEpochs

(* So is a transition of the task under an attempt,                        *)
LEMMA KeepsTransition ==
  ASSUME NEW t \in Tasks, NEW e, NEW to, TransitionForAttempt(t, e, to)
  PROVE  Keeps
BY KeepsUnchanged DEF TransitionForAttempt

(* the recording of a verification,                                        *)
LEMMA KeepsOutcome ==
  ASSUME NEW t \in Tasks, NEW e, PersistVerificationOutcome(t, e)
  PROVE  Keeps
BY KeepsUnchanged DEF PersistVerificationOutcome

(* the fencing of an orphan, which leaves its attempt open,                *)
LEMMA KeepsRecovery ==
  ASSUME IInv, NEW t \in Tasks, NEW e, RequirePhysicalRecovery(t, e)
  PROVE  Keeps
BY DEF RequirePhysicalRecovery, FenceIfActive, Keeps, OpenEpochs, IInv, TypeOK

(* a logical fence, for the same reason,                                   *)
LEMMA KeepsFence ==
  ASSUME IInv, NEW t \in Tasks, NEW e, LogicalFenceAttempt(t, e)
  PROVE  Keeps
BY DEF LogicalFenceAttempt, SetAuthority, Authoritative, Keeps, OpenEpochs, IInv, TypeOK

(* a cancellation, which at most fences,                                   *)
LEMMA KeepsCancellation ==
  ASSUME IInv, NEW t \in Tasks, RequestTaskCancellation(t)
  PROVE  Keeps
<1>1. CASE state[t] \in PreAttemptStates \/ Quiescent(t)
  BY <1>1, KeepsUnchanged DEF RequestTaskCancellation
<1>2. CASE ~(state[t] \in PreAttemptStates \/ Quiescent(t))
  <2>1. epoch' = epoch
    BY DEF RequestTaskCancellation
  <2>2. \A u \in Tasks : \A e \in Epochs : authority'[u][e] =
          IF u = t /\ e = epoch[t] /\ authority[t][e] = "ACTIVE"
            THEN "LOGICALLY_FENCED" ELSE authority[u][e]
    BY <1>2 DEF RequestTaskCancellation, IInv, TypeOK
  <2> QED
    BY <2>1, <2>2 DEF Keeps, OpenEpochs
<1> QED
  BY <1>1, <1>2

(* and every transaction on the workspace.                                 *)
LEMMA KeepsWorkspace ==
  ASSUME NEW t \in Tasks, WorkspaceNext(t)
  PROVE  Keeps
BY KeepsUnchanged DEF WorkspaceNext, BeginWorkspace, BeginWorkspaceRehydrate, MarkWorkspaceReady,
   MarkWorkspaceFailed, MarkWorkspace, BeginWorkspaceCheckpoint, AbortWorkspaceCheckpoint,
   FinishWorkspaceCheckpoint, EndWorkspaceCheckpoint, BeginWorkspaceRemoval,
   FinishWorkspaceRemoval

--------------------------------------------------------------------------------
(* The transactions of the store as these processes call them: those that  *)
(* do not compare the workspace, only where it is known to be READY.       *)
Call(t) ==
  \/ SubmitTask(t) \/ BeginAttempt(t)
  \/ \E to \in {"PREFLIGHT", "WAITING_RESOURCE"} : AdvancePreExecution(t, to)
  \/ \E from : BlockTask(t, from)
  \/ RecoverTaskToWorkspaceReady(t, "RETRY_WAIT")
  \/ RecoverBlockedChoice(t) \/ ReconcileWorkspaceReady(t)
  \/ AttemptNext(t) \/ ControlNext(t) \/ WorkspaceNext(t) \/ IntegrationNext(t)

Calls == \E t \in Tasks : Call(t)

(* Each is a step that the store allows whoever calls it.                  *)
LEMMA CallsAreTransactions == Calls => Next
<1> SUFFICES ASSUME NEW t \in Tasks, Call(t) PROVE Next
  BY DEF Calls
<1>1. CASE \E to \in {"PREFLIGHT", "WAITING_RESOURCE"} : AdvancePreExecution(t, to)
  BY <1>1 DEF Next, PreExecutionNext, PreAttemptStates
<1>2. CASE ReconcileWorkspaceReady(t) \/ \E from : BlockTask(t, from)
  BY <1>2 DEF ReconcileWorkspaceReady, BlockTask, Next, PreExecutionNext, TaskStates,
     PreAttemptStates
<1>3. CASE RecoverTaskToWorkspaceReady(t, "RETRY_WAIT") \/ RecoverBlockedChoice(t)
  BY <1>3 DEF RecoverBlockedChoice, ReplaceableStates, Next, PreExecutionNext
<1> QED
  BY <1>1, <1>2, <1>3 DEF Call, Next, PreExecutionNext

--------------------------------------------------------------------------------
(* Called that way, a workspace is READY wherever an attempt is open or    *)
(* about to be admitted.                                                   *)
HostedStates == {"WORKSPACE_READY", "RETRY_WAIT"}
Hosted(t) == ~Quiescent(t) \/ state[t] \in HostedStates => workspace[t] = "READY"
HInv == IInv /\ \A t \in Tasks : Hosted(t)

(* A workspace stays with its host while its row is left alone, no attempt *)
(* opens, and the task comes to need a host only where the row is READY.   *)
LEMMA HostedFrame ==
  ASSUME HInv, NEW u \in Tasks, workspace'[u] = workspace[u],
         Quiescent(u) => Quiescent(u)' \/ workspace[u] = "READY",
         state'[u] \in HostedStates => state[u] \in HostedStates \/ workspace[u] = "READY"
  PROVE  Hosted(u)'
BY DEF HInv, Hosted

(* The calls of the processes keep it there.                               *)
LEMMA HostedKept ==
  ASSUME HInv, [Calls]_storeVars, NEW u \in Tasks
  PROVE  Hosted(u)'
<1> DEFINE Lasts == Quiescent(u) => Quiescent(u)'
<1>a. ASSUME UNCHANGED <<epoch, authority>> PROVE Lasts
  BY <1>a DEF Quiescent, OpenEpochs
<1>b. ASSUME Keeps PROVE Lasts
  BY <1>b DEF Keeps, Quiescent
<1>c. IInv /\ TypeOK /\ Hosted(u) /\ Safe(u)
  BY DEF HInv, IInv
<1> HIDE DEF Lasts
<1>1. CASE UNCHANGED storeVars
  BY <1>1, <1>a, HostedFrame DEF storeVars, Lasts
<1>2. ASSUME NEW t \in Tasks, NEW from, NEW to, to \notin HostedStates,
             OrchestratorTransition(t, from, to)
      PROVE  Hosted(u)'
  BY <1>2, <1>a, <1>c, HostedFrame DEF OrchestratorTransition, Move, TypeOK, Lasts
<1>3. ASSUME NEW t \in Tasks, \/ SubmitTask(t) \/ ReconcileWorkspaceReady(t)
                             \/ \E to \in {"PREFLIGHT", "WAITING_RESOURCE"} : AdvancePreExecution(t, to)
                             \/ \E from : BlockTask(t, from)
      PROVE  Hosted(u)'
  BY <1>2, <1>3, <1>a, <1>c, HostedFrame DEF SubmitTask, ReconcileWorkspaceReady, BlockTask,
     AdvancePreExecution, RecoverNoWorkspaceToPreflight, Move, TypeOK, HostedStates, Lasts
<1>4. ASSUME NEW t \in Tasks, BeginAttempt(t) PROVE Hosted(u)'
  <2>1. /\ workspace' = workspace /\ state[t] = "WORKSPACE_READY"
        /\ \A v \in Tasks \ {t} : state'[v] = state[v] /\ authority'[v] = authority[v]
    BY <1>4, <1>c DEF BeginAttempt, Move, SetAuthority, TypeOK
  <2>2. u # t => Lasts
    BY <2>1 DEF Quiescent, OpenEpochs, Lasts
  <2> QED
    BY <2>1, <2>2, <1>c, HostedFrame DEF Hosted, HostedStates, Lasts
<1>5. ASSUME NEW t \in Tasks, \/ RecoverTaskToWorkspaceReady(t, "RETRY_WAIT")
                             \/ RecoverBlockedChoice(t)
      PROVE  Hosted(u)'
  <2>1. workspace' = workspace /\ Lasts
    BY <1>5, <1>a DEF RecoverTaskToWorkspaceReady, RecoverBlockedChoice, SetTaskBlocker,
       RecoverNoWorkspaceToPreflight, RecoverBlockedCheckpointToWaitingResource
  <2>2. state'[u] \in HostedStates => state[u] \in HostedStates \/ workspace[u] = "READY"
    BY <1>5, <1>c DEF RecoverTaskToWorkspaceReady, RecoverBlockedChoice, SetTaskBlocker,
       RecoverNoWorkspaceToPreflight, RecoverBlockedCheckpointToWaitingResource, Move, TypeOK,
       HostedStates
  <2> QED
    BY <2>1, <2>2, HostedFrame DEF Lasts
<1>6. ASSUME NEW t \in Tasks, AttemptNext(t) PROVE Hosted(u)'
  <2>1. CASE \E e \in Epochs : ConfirmAttemptTerminated(t, e)
    <3>1. Lasts
      BY <2>1, <1>c DEF ConfirmAttemptTerminated, SetAuthority, Quiescent, OpenEpochs, TypeOK, Lasts
    <3> QED
      BY <2>1, <3>1, HostedFrame DEF ConfirmAttemptTerminated, Lasts
  <2>2. CASE \E e \in Epochs, to \in TaskStates : TransitionForAttempt(t, e, to)
    <3>1. ~Quiescent(t) /\ Move(t, state'[t]) /\ workspace' = workspace
      BY <2>2, <1>c DEF TransitionForAttempt, Authoritative, Quiescent, OpenEpochs, Move, TypeOK
    <3>2. u = t => workspace[u] = "READY"
      BY <1>c, <3>1 DEF Hosted
    <3>3. u # t => state'[u] = state[u]
      BY <1>c, <3>1 DEF Move, TypeOK
    <3> QED
      BY <1>b, <2>2, <3>1, <3>2, <3>3, KeepsTransition, HostedFrame DEF Lasts
  <2>3. CASE \E e \in Epochs : PersistVerificationOutcome(t, e)
    <3>1. workspace[t] = "READY" /\ workspace' = workspace /\ (u # t => state'[u] = state[u])
      BY <2>3, <1>c DEF PersistVerificationOutcome, Move, TypeOK
    <3> QED
      BY <1>b, <2>3, <3>1, KeepsOutcome, HostedFrame DEF Lasts
  <2>4. CASE \E e \in Epochs : LogicalFenceAttempt(t, e) \/ RequirePhysicalRecovery(t, e)
    <3>1. Lasts
      BY <1>b, <1>c, <2>4, KeepsFence, KeepsRecovery
    <3>2. workspace' = workspace /\ (state'[u] \in HostedStates => state[u] \in HostedStates)
      BY <2>4, <1>c DEF LogicalFenceAttempt, RequirePhysicalRecovery, Move, TypeOK, HostedStates
    <3> QED
      BY <3>1, <3>2, HostedFrame DEF Lasts
  <2>5. CASE PublishTaskInput(t)
    BY <2>5, <1>a, <1>c, HostedFrame DEF PublishTaskInput, Move, TypeOK, HostedStates, Lasts
  <2> QED
    BY <1>6, <2>1, <2>2, <2>3, <2>4, <2>5 DEF AttemptNext
<1>7. ASSUME NEW t \in Tasks, ControlNext(t) PROVE Hosted(u)'
  <2>1. Lasts
    BY <1>7, <1>a, <1>b, <1>c, KeepsCancellation DEF ControlNext, Steer, FinalizeTaskCancellation
  <2>2. workspace' = workspace /\ (state'[u] \in HostedStates => state[u] \in HostedStates)
    BY <1>7, <1>c DEF ControlNext, Steer, FinalizeTaskCancellation, RequestTaskCancellation, Move,
       TypeOK, HostedStates
  <2> QED
    BY <2>1, <2>2, HostedFrame DEF Lasts
<1>8. ASSUME NEW t \in Tasks, WorkspaceNext(t) PROVE Hosted(u)'
  <2>1. Keeps /\ Lasts
    BY <1>8, <1>b, KeepsWorkspace
  <2>2. \A v \in Tasks \ {t} : workspace'[v] = workspace[v] /\ state'[v] = state[v]
    BY <1>8, <1>c DEF WorkspaceNext, BeginWorkspace, BeginWorkspaceRehydrate, MarkWorkspaceReady,
       MarkWorkspaceFailed, MarkWorkspace, BeginWorkspaceCheckpoint, AbortWorkspaceCheckpoint,
       FinishWorkspaceCheckpoint, EndWorkspaceCheckpoint, BeginWorkspaceRemoval,
       FinishWorkspaceRemoval, Move, TypeOK
  <2>3. CASE u # t
    BY <2>1, <2>2, <2>3, HostedFrame DEF Lasts
  <2>4. CASE u = t
    <3>1. CASE \/ BeginWorkspace(t) \/ BeginWorkspaceRehydrate(t) \/ MarkWorkspaceReady(t)
               \/ MarkWorkspaceFailed(t)
      BY <1>c, <2>1, <2>4, <3>1 DEF BeginWorkspace, BeginWorkspaceRehydrate, MarkWorkspaceReady,
         MarkWorkspaceFailed, MarkWorkspace, Move, TypeOK, Safe, SettledStates, PreAttemptStates,
         Lasts, Hosted, HostedStates
    <3>2. CASE \/ BeginWorkspaceCheckpoint(t) \/ AbortWorkspaceCheckpoint(t)
               \/ FinishWorkspaceCheckpoint(t)
      BY <1>c, <2>1, <2>4, <3>2 DEF BeginWorkspaceCheckpoint, AbortWorkspaceCheckpoint,
         FinishWorkspaceCheckpoint, EndWorkspaceCheckpoint, TypeOK, Lasts, Hosted, HostedStates
    <3>3. CASE BeginWorkspaceRemoval(t) \/ FinishWorkspaceRemoval(t)
      BY <1>c, <2>1, <2>4, <3>3 DEF BeginWorkspaceRemoval, FinishWorkspaceRemoval, Removable, TypeOK,
         Lasts, Hosted, HostedStates
    <3> QED
      BY <1>8, <3>1, <3>2, <3>3 DEF WorkspaceNext
  <2> QED
    BY <2>3, <2>4
<1>9. ASSUME NEW t \in Tasks, IntegrationNext(t) PROVE Hosted(u)'
  <2>1. /\ UNCHANGED <<epoch, authority, workspace>>
        /\ UNCHANGED state \/ \E to \in {"READY_TO_INTEGRATE", "INTEGRATING", "COMPLETE", "BLOCKED"} :
                               Move(t, to)
    BY <1>9 DEF IntegrationNext, PrepareIntegrationAttempt, PrepareBlockedVerifiedIntegrationAttempt,
       Prepare, AcknowledgeBlockedVerifiedIntegrationRetry, MarkIntegrationDispatched,
       FinalizeIntegrationApplied, BlockVerifiedIntegration, BlockIntegrationAttempt
  <2> QED
    BY <2>1, <1>a, <1>c, HostedFrame DEF Move, TypeOK, HostedStates, Lasts
<1> QED
  BY <1>1, <1>3, <1>4, <1>5, <1>6, <1>7, <1>8, <1>9 DEF Calls, Call

(* The invariant that such callers keep.                                   *)
LEMMA CallsKeep == HInv /\ [Calls]_storeVars => HInv'
<1> SUFFICES ASSUME HInv, [Calls]_storeVars PROVE HInv'
  OBVIOUS
<1>1. [Next]_storeVars
  BY CallsAreTransactions
<1> QED
  BY <1>1, HostedKept, Inductive DEF HInv
================================================================================
