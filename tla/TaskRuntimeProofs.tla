--------------------------- MODULE TaskRuntimeProofs ---------------------------
(***************************************************************************)
(* Proofs about TaskRuntime, for any set of tasks, any number of attempts, *)
(* faults and automatic retries, and whether or not the runner recovers.   *)
(* A runtime step is a step of the store, so the invariant of TaskStore    *)
(* holds here too; what it lacks is what the processes know.  Custody says *)
(* that a worker only lives under the open attempt, that a runner at work  *)
(* has the epoch of its task, and that it confirms only what has died.     *)
(* Decided says what a cancellation and a verified result rule out, Hosted *)
(* that the workspace of an attempt is READY: the store's transactions do  *)
(* not compare it, but the calls these processes make of them keep it.     *)
(* From them follow the safety properties, and that the attempts implement *)
(* ExclusiveWriter.                                                        *)
(***************************************************************************)
EXTENDS TaskRuntime, TaskStoreProofs

(* The steps of a runner that has an attempt, those of them at which its   *)
(* worker is known to be dead, and those after the attempt is closed.      *)
Proven    == {"cancelConfirm", "failBlock", "confirm", "finish", "verify", "commands",
              "verifyConfirm"}
Engaged   == Proven \cup {"start", "run", "check", "recoveryBlock", "recoveryFence",
                          "cancelFinalize", "verifyCancelCheck"}
Concluded == {"verifyCancelCheck", "integrate"}
Steps     == Engaged \cup Concluded \cup {"none", "begin", "dispatch", "publish"}

Runners   == [pc : Steps, epoch : 0..MaxEpoch, proof : BOOLEAN,
              outcome : Outcomes \cup {"none"}]

RuntimeTypes ==
  /\ runner \in [Tasks -> Runners]
  /\ worker \in [Tasks -> SUBSET Epochs]
  /\ armed  \in [Tasks -> SUBSET Epochs]

Custody(t) ==
  /\ worker[t] \subseteq OpenEpochs(t)
  /\ \A e \in armed[t] : e <= epoch[t]
  /\ runner[t].pc \in Engaged => runner[t].epoch = epoch[t] /\ epoch[t] \in Epochs
  /\ runner[t].pc = "start" => epoch[t] \in OpenEpochs(t) /\ epoch[t] \notin armed[t]
  /\ runner[t].pc \in Proven => epoch[t] \notin worker[t]
  /\ runner[t].pc = "check" => IF runner[t].proof THEN epoch[t] \notin worker[t]
                                                  ELSE runner[t].outcome = "error"

Decided(t) ==
  /\ runner[t].pc \in Concluded => Quiescent(t)
  /\ runner[t].pc = "integrate" /\ cancelControl[t] => state[t] # "VERIFIED"
  /\ cancelControl[t] => state[t] \notin {"READY_TO_INTEGRATE", "INTEGRATING", "COMPLETE"}
  /\ integration[t] = "DISPATCHED" => state[t] = "INTEGRATING"
  /\ integration[t] = "COMPLETE" => state[t] = "COMPLETE"
  /\ result[t] = "VERIFIED_BLOCKED" =>
       /\ Quiescent(t)
       /\ state[t] \in {"BLOCKED", "READY_TO_INTEGRATE", "INTEGRATING", "CANCELLED"}
       /\ cancelControl[t] => state[t] = "CANCELLED"

RInv == IInv /\ RuntimeTypes /\ \A t \in Tasks : Custody(t) /\ Decided(t) /\ Hosted(t)

(* The system starts with no process, no attempt and no result.            *)
LEMMA RuntimeInitially == RuntimeInit => RInv
<1> SUFFICES ASSUME RuntimeInit PROVE RInv
  OBVIOUS
<1>1. IInv
  BY Initially DEF RuntimeInit
<1>2. RuntimeTypes
  BY EpochAssumption DEF RuntimeInit, RuntimeTypes, Runners, Idle, Steps, Outcomes, Epochs
<1>3. ASSUME NEW t \in Tasks PROVE Custody(t) /\ Decided(t) /\ Hosted(t)
  BY DEF RuntimeInit, Init, Custody, Decided, Hosted, HostedStates, Quiescent, OpenEpochs, Idle,
     Engaged, Proven, Concluded
<1> QED
  BY <1>1, <1>2, <1>3 DEF RInv

--------------------------------------------------------------------------------
(* A step of a runner is a transaction of the store, or none.              *)
LEMMA RunnerStoreStep ==
  ASSUME RInv, NEW t \in Tasks, RunnerStep(t)
  PROVE  [Calls]_storeVars
<1> USE DEF RInv, Custody, Engaged, Proven, At, Calls, Call
<1>1. CASE RunnerBegin(t)
  BY <1>1 DEF RunnerBegin
<1>2. CASE \/ StartWorker(t) \/ StartFails(t) \/ WorkerFinishes(t) \/ WorkerStopped(t)
           \/ WorkerUnconfirmed(t) \/ CheckCancel(t) \/ VerificationRefused(t)
           \/ VerificationFails(t) \/ VerifyCancelCheck(t)
  BY <1>2 DEF StartWorker, StartFails, WorkerFinishes, WorkerStopped, WorkerUnconfirmed,
     CheckCancel, VerificationRefused, VerificationFails, VerifyCancelCheck
<1>3. CASE RequestWebTurn(t)
  BY <1>3 DEF RequestWebTurn, AttemptNext, TaskStates
<1>4. CASE ConfirmStep(t)
  BY <1>4 DEF ConfirmStep, Confirm, AttemptNext, OpenEpochs
<1>5. CASE CancelFinalize(t)
  BY <1>5 DEF CancelFinalize, ControlNext
<1>6. CASE BlockStep(t)
  BY <1>6 DEF BlockStep, BlockWhileAuthoritative, AttemptNext, TaskStates
<1>7. CASE RecoveryFence(t)
  BY <1>7 DEF RecoveryFence, AttemptNext
<1>8. CASE FinishNonCandidate(t)
  <2>1. UNCHANGED storeVars \/ TransitionForAttempt(t, runner[t].epoch, runner[t].outcome)
    BY <1>8 DEF FinishNonCandidate
  <2>2. ASSUME TransitionForAttempt(t, runner[t].epoch, runner[t].outcome)
        PROVE  runner[t].epoch \in Epochs /\ runner[t].outcome \in TaskStates
    BY <1>8, <2>2 DEF FinishNonCandidate, TransitionForAttempt, AttemptTransitions, TaskStates
  <2> QED
    BY <2>1, <2>2 DEF AttemptNext
<1>9. CASE BeginVerification(t)
  BY <1>9 DEF BeginVerification, AttemptNext, TaskStates
<1>10. CASE PersistOutcome(t) \/ PersistUnconfirmed(t)
  BY <1>10 DEF PersistOutcome, PersistUnconfirmed, AttemptNext
<1>11. CASE Integrate(t)
  BY <1>11 DEF Integrate, IntegrationNext
<1> QED
  BY <1>1, <1>2, <1>3, <1>4, <1>5, <1>6, <1>7, <1>8, <1>9, <1>10, <1>11 DEF RunnerStep

(* So is every other step of the runtime.                                  *)
LEMMA StoreStep ==
  ASSUME RInv, [RuntimeNext]_vars
  PROVE  [Calls]_storeVars
<1>1. CASE UNCHANGED vars
  BY <1>1 DEF vars
<1>2. CASE StartupStep \/ Crash
  BY <1>2 DEF StartupStep, DaemonStart, RecoverPendingDone, ReconcileDone, RecoverPending, Crash
<1>3. ASSUME NEW t \in Tasks, RunnerStep(t) PROVE [Calls]_storeVars
  BY <1>3, RunnerStoreStep
<1>4. ASSUME NEW t \in Tasks, DriveStep(t) PROVE [Calls]_storeVars
  BY <1>4 DEF DriveStep, DriveDispatch, DrivePublish, WorktreeSyncRequired, DriveConflict,
     DriveFails, DriveError, Calls, Call, IntegrationNext
<1>5. ASSUME NEW t \in Tasks, ReconcileStep(t) PROVE [Calls]_storeVars
  BY <1>5 DEF ReconcileStep, ReconcileUnprovenAttempts, ReconcileExpired,
     RecoverAttemptTermination, RequirePhysicalRecovery, OpenEpochs, Calls, Call, AttemptNext
<1>6. ASSUME NEW t \in Tasks, LoopStep(t) PROVE [Calls]_storeVars
  <2>1. CASE Launch(t) \/ RetryBlockedVerifiedIntegration(t)
    BY <2>1 DEF Launch, RetryBlockedVerifiedIntegration, Calls, Call, IntegrationNext
  <2>2. CASE DaemonStep(t)
    BY <2>2 DEF DaemonStep, DriveBlockedChoice, DriveRetry, Calls, Call
  <2> QED
    BY <1>6, <2>1, <2>2 DEF LoopStep
<1>7. ASSUME NEW t \in Tasks, WorkerDies(t) \/ SandboxDies(t) \/ RunnerFails(t)
      PROVE  [Calls]_storeVars
  BY <1>7 DEF WorkerDies, SandboxDies, RunnerFails
<1>8. ASSUME NEW t \in Tasks, Owner(t) PROVE [Calls]_storeVars
  BY <1>8 DEF Owner, Calls, Call, ControlNext, AttemptNext
<1> QED
  BY <1>1, <1>2, <1>3, <1>4, <1>5, <1>6, <1>7, <1>8 DEF RuntimeNext

--------------------------------------------------------------------------------
(* How the record of a runner changes: it goes on to a step, with what its *)
(* worker left, gives up, or takes the attempt it has begun.               *)
Moves(t, pc, outcome, proof) ==
  /\ runner' \in [Tasks -> Runners]
  /\ \A u \in Tasks \ {t} : runner'[u] = runner[u]
  /\ runner'[t].pc = pc /\ runner'[t].epoch = runner[t].epoch
  /\ runner'[t].outcome = outcome /\ runner'[t].proof = proof

(* What Go leaves in the place of the runner.                              *)
LEMMA GoMoves ==
  ASSUME RuntimeTypes, NEW t \in Tasks, NEW pc \in Steps, Go(t, pc)
  PROVE  Moves(t, pc, runner[t].outcome, runner[t].proof)
BY DEF RuntimeTypes, Runners, Go, Moves

(* What Returned, the end of a worker, leaves there.                       *)
LEMMA ReturnedMoves ==
  ASSUME RuntimeTypes, NEW t \in Tasks, NEW outcome \in Outcomes, NEW proof \in BOOLEAN,
         Returned(t, outcome, proof)
  PROVE  Moves(t, "check", outcome, proof)
BY DEF RuntimeTypes, Runners, Returned, Moves, Steps, Engaged

(* A runner that ends is idle again.                                       *)
LEMMA EndMoves ==
  ASSUME RuntimeTypes, NEW t \in Tasks, End(t)
  PROVE  /\ runner' \in [Tasks -> Runners]
         /\ \A u \in Tasks \ {t} : runner'[u] = runner[u]
         /\ runner'[t] = Idle
BY EpochAssumption DEF RuntimeTypes, Runners, End, Idle, Steps

(* What the admission of an attempt leaves there.                          *)
LEMMA BeginMoves ==
  ASSUME RInv, NEW t \in Tasks, BeginAttempt(t),
         runner' = [runner EXCEPT ![t] = [@ EXCEPT !.pc = "start", !.epoch = epoch[t] + 1]]
  PROVE  /\ runner' \in [Tasks -> Runners]
         /\ \A u \in Tasks \ {t} : runner'[u] = runner[u]
         /\ runner'[t].pc = "start" /\ runner'[t].epoch = epoch[t] + 1
<1>1. epoch[t] + 1 \in 0..MaxEpoch /\ "start" \in Steps
  BY EpochAssumption DEF RInv, IInv, TypeOK, BeginAttempt, Steps, Engaged
<1>2. runner \in [Tasks -> Runners]
  BY DEF RInv, RuntimeTypes
<1> QED
  BY <1>1, <1>2 DEF Runners

--------------------------------------------------------------------------------
(* What the processes hold keeps its type.                                 *)
LEMMA RunnerTyped ==
  ASSUME RInv, NEW t \in Tasks, RunnerStep(t)
  PROVE  RuntimeTypes'
<1>1. runner' \in [Tasks -> Runners]
  <2> USE GoMoves, ReturnedMoves, EndMoves DEF RInv, Steps, Engaged, Proven, Concluded, Outcomes,
          Moves
  <2>1. CASE RunnerBegin(t)
    BY <2>1, BeginMoves DEF RunnerBegin
  <2>2. CASE RequestWebTurn(t)
    BY <2>2 DEF RequestWebTurn, RuntimeTypes
  <2>3. CASE CheckCancel(t)
    <3>1. CASE runner' = [runner EXCEPT ![t] =
                            [runner[t] EXCEPT !.pc = "finish", !.outcome = "BLOCKED"]]
      BY <3>1 DEF RuntimeTypes, Runners
    <3> QED
      BY <2>3, <3>1 DEF CheckCancel
  <2>4. CASE StartWorker(t) \/ StartFails(t) \/ WorkerUnconfirmed(t) \/ WorkerFinishes(t)
             \/ WorkerStopped(t)
    BY <2>4 DEF StartWorker, StartFails, WorkerUnconfirmed, WorkerFinishes, WorkerStopped
  <2>5. CASE ConfirmStep(t) \/ CancelFinalize(t) \/ BlockStep(t) \/ RecoveryFence(t)
             \/ FinishNonCandidate(t)
    BY <2>5 DEF ConfirmStep, CancelFinalize, BlockStep, RecoveryFence, FinishNonCandidate
  <2>6. CASE BeginVerification(t) \/ VerificationRefused(t) \/ PersistOutcome(t)
             \/ PersistUnconfirmed(t) \/ VerificationFails(t) \/ VerifyCancelCheck(t)
             \/ Integrate(t)
    BY <2>6 DEF BeginVerification, VerificationRefused, PersistOutcome, PersistUnconfirmed,
       VerificationFails, VerifyCancelCheck, Integrate
  <2> QED
    BY <2>1, <2>2, <2>3, <2>4, <2>5, <2>6 DEF RunnerStep
<1>2. worker' \in [Tasks -> SUBSET Epochs] /\ armed' \in [Tasks -> SUBSET Epochs]
  <2>1. CASE StartWorker(t)
    BY <2>1 DEF StartWorker, RInv, RuntimeTypes, Custody, Engaged, At
  <2>2. CASE WorkerFinishes(t) \/ WorkerStopped(t)
    BY <2>2 DEF WorkerFinishes, WorkerStopped, RInv, RuntimeTypes
  <2>3. CASE UNCHANGED <<worker, armed>>
    BY <2>3 DEF RInv, RuntimeTypes
  <2> QED
    BY <2>1, <2>2, <2>3 DEF RunnerStep, RunnerBegin, StartFails, RequestWebTurn, WorkerUnconfirmed,
       CheckCancel, ConfirmStep, CancelFinalize, BlockStep, RecoveryFence, FinishNonCandidate,
       BeginVerification, VerificationRefused, PersistOutcome, PersistUnconfirmed,
       VerificationFails, VerifyCancelCheck, Integrate, OnlyRunner
<1> QED
  BY <1>1, <1>2 DEF RuntimeTypes

(* What the processes hold keeps its type in every step.                   *)
LEMMA Typed ==
  ASSUME RInv, [RuntimeNext]_vars
  PROVE  RuntimeTypes'
<1>1. CASE UNCHANGED vars
  BY <1>1 DEF vars, procVars, RInv, RuntimeTypes
<1>2. ASSUME runner' = [u \in Tasks |-> Idle] PROVE runner' \in [Tasks -> Runners]
  BY <1>2, EpochAssumption DEF Idle, Runners, Steps
<1>3. CASE Crash
  BY <1>2, <1>3 DEF Crash, RInv, RuntimeTypes
<1>4. CASE StartupStep
  BY <1>4, GoMoves DEF StartupStep, DaemonStart, RecoverPendingDone, ReconcileDone, RecoverPending,
     OnlyRunner, RInv, RuntimeTypes, Steps, Moves
<1>5. ASSUME NEW t \in Tasks, RunnerStep(t) PROVE RuntimeTypes'
  BY <1>5, RunnerTyped
<1>6. ASSUME NEW t \in Tasks, DriveStep(t) PROVE RuntimeTypes'
  BY <1>2, <1>6, GoMoves, EndMoves DEF DriveStep, DriveDispatch, DrivePublish, WorktreeSyncRequired,
     DriveConflict, DriveFails, DriveError, Driven, OnlyRunner, RInv, RuntimeTypes, Steps, Moves
<1>7. ASSUME NEW t \in Tasks, ReconcileStep(t) PROVE RuntimeTypes'
  BY <1>7 DEF ReconcileStep, ReconcileUnprovenAttempts, ReconcileExpired, OnlyRunner, procVars,
     RecoverAttemptTermination, RInv, RuntimeTypes
<1>8. ASSUME NEW t \in Tasks, LoopStep(t) PROVE RuntimeTypes'
  BY <1>8, GoMoves DEF LoopStep, Launch, RetryBlockedVerifiedIntegration, DaemonStep, OnlyRunner,
     procVars, RInv, RuntimeTypes, Steps, Moves
<1>9. ASSUME NEW t \in Tasks, WorkerDies(t) \/ SandboxDies(t) \/ RunnerFails(t)
      PROVE  RuntimeTypes'
  BY <1>9, EndMoves DEF WorkerDies, SandboxDies, RunnerFails, OnlyRunner, RInv, RuntimeTypes
<1>10. ASSUME NEW t \in Tasks, Owner(t) PROVE RuntimeTypes'
  BY <1>10 DEF Owner, procVars, RInv, RuntimeTypes
<1> QED
  BY <1>1, <1>3, <1>4, <1>5, <1>6, <1>7, <1>8, <1>9, <1>10 DEF RuntimeNext

--------------------------------------------------------------------------------
(* Custody is kept while no attempt is opened or closed, no worker started *)
(* and the runner stays where it is or gives up.                           *)
LEMMA CustodyFrame ==
  ASSUME RInv, Keeps, NEW u \in Tasks, runner'[u] = runner[u] \/ runner'[u] = Idle,
         worker'[u] \subseteq worker[u], armed' = armed
  PROVE  Custody(u)'
<1>1. Idle.pc \notin Engaged /\ "start" \in Engaged /\ "check" \in Engaged /\ Proven \subseteq Engaged
  BY DEF Idle, Engaged, Proven
<1>2. Custody(u) /\ epoch'[u] = epoch[u] /\ OpenEpochs(u)' = OpenEpochs(u)
  BY DEF RInv, Keeps
<1> QED
  BY <1>1, <1>2 DEF Custody

(* It is kept by a runner that goes on, if it has what its next step asks. *)
LEMMA CustodyMoves ==
  ASSUME RInv, Keeps, NEW t \in Tasks, NEW pc \in Steps \ {"start"}, NEW outcome, NEW proof,
         Moves(t, pc, outcome, proof), armed' = armed,
         \A u \in Tasks : worker'[u] \subseteq worker[u],
         pc \in Engaged => runner[t].pc \in Engaged,
         pc \in Proven => epoch[t] \notin worker'[t],
         pc = "check" => IF proof THEN epoch[t] \notin worker'[t] ELSE outcome = "error",
         NEW u \in Tasks
  PROVE  Custody(u)'
<1>1. CASE u # t
  BY <1>1, CustodyFrame DEF Moves
<1>2. CASE u = t
  <2>1. Custody(t) /\ epoch'[t] = epoch[t] /\ OpenEpochs(t)' = OpenEpochs(t)
    BY DEF RInv, Keeps
  <2> QED
    BY <1>2, <2>1 DEF Custody, Moves
<1> QED
  BY <1>1, <1>2

(* The steps of a runner keep custody.                                     *)
LEMMA RunnerCustody ==
  ASSUME RInv, NEW t \in Tasks, RunnerStep(t), NEW u \in Tasks
  PROVE  Custody(u)'
<1> DEFINE Same == \A v \in Tasks : worker'[v] \subseteq worker[v]
           r == runner[t]
<1>0. /\ RuntimeTypes /\ runner[t].proof \in BOOLEAN /\ Custody(t) /\ Custody(u)
      /\ Proven \subseteq Engaged /\ Engaged \subseteq Steps /\ "start" \notin Proven
  BY DEF RInv, RuntimeTypes, Runners, Engaged, Proven, Steps
<1>1. CASE RunnerBegin(t)
  <2>1. CASE BeginAttempt(t) /\ runner' = [runner EXCEPT ![t] =
                                             [@ EXCEPT !.pc = "start", !.epoch = epoch[t] + 1]]
    <3>1. /\ \A v \in Tasks \ {t} : runner'[v] = runner[v]
          /\ runner'[t].pc = "start" /\ runner'[t].epoch = epoch[t] + 1
      BY <2>1, BeginMoves
    <3>2. /\ worker' = worker /\ armed' = armed
          /\ worker[t] = {} /\ epoch'[t] = epoch[t] + 1 /\ epoch[t] \in 0..MaxEpoch
          /\ epoch[t] + 1 \in Epochs /\ armed[t] \subseteq Epochs
      BY <1>0, <1>1, <2>1, EpochAssumption DEF RunnerBegin, OnlyRunner, BeginAttempt, Custody,
         Quiescent,
         RInv, IInv, TypeOK, Epochs, RuntimeTypes
    <3>3. /\ OpenEpochs(t)' = {epoch[t] + 1}
          /\ u # t => epoch'[u] = epoch[u] /\ OpenEpochs(u)' = OpenEpochs(u)
      BY <2>1, <3>2 DEF BeginAttempt, SetAuthority, OpenEpochs, Quiescent, RInv, IInv, TypeOK
    <3>4. CASE u = t
      BY <1>0, <3>1, <3>2, <3>3, <3>4, EpochAssumption DEF Custody, Engaged, Proven, Epochs
    <3>5. CASE u # t
      BY <1>0, <3>1, <3>2, <3>3, <3>5 DEF Custody
    <3> QED
      BY <3>4, <3>5
  <2>2. CASE End(t) /\ UNCHANGED <<epoch, authority>>
    BY <1>0, <1>1, <2>2, KeepsUnchanged, EndMoves, CustodyFrame DEF RunnerBegin, OnlyRunner
  <2> QED
    BY <1>1, <2>1, <2>2 DEF RunnerBegin, BlockTask, OrchestratorTransition, storeVars
<1>2. CASE StartWorker(t)
  <2>1. /\ Moves(t, "run", r.outcome, r.proof) /\ Keeps
        /\ \A v \in Tasks \ {t} : worker'[v] = worker[v] /\ armed'[v] = armed[v]
        /\ worker'[t] = worker[t] \cup {r.epoch} /\ armed'[t] = armed[t] \cup {r.epoch}
        /\ r.pc = "start"
    BY <1>0, <1>2, GoMoves, KeepsUnchanged
       DEF StartWorker, storeVars, At, Steps, Engaged, RInv, RuntimeTypes
  <2>2. epoch[t] \in 0..MaxEpoch /\ "start" \in Engaged
    BY DEF RInv, IInv, TypeOK, Engaged
  <2> QED
    BY <1>0, <2>1, <2>2, EpochAssumption DEF Custody, Keeps, Moves, Proven, Engaged
<1>3. CASE StartFails(t) \/ WorkerUnconfirmed(t)
  <2>1. /\ Moves(t, "check", "error", FALSE) /\ Keeps /\ Same /\ armed' = armed
        /\ r.pc \in Engaged
    BY <1>0, <1>3, ReturnedMoves, KeepsUnchanged DEF StartFails, WorkerUnconfirmed, storeVars,
       OnlyRunner, At, Outcomes, Engaged
  <2> QED
    BY <1>0, <2>1, CustodyMoves DEF Engaged, Proven
<1>4. CASE RequestWebTurn(t)
  BY <1>4, KeepsTransition, CustodyFrame DEF RequestWebTurn, OnlyRunner
<1>5. CASE WorkerFinishes(t) \/ WorkerStopped(t)
  <2>1. PICK outcome \in Outcomes : Moves(t, "check", outcome, TRUE)
    BY <1>0, <1>5, ReturnedMoves DEF WorkerFinishes, WorkerStopped, Outcomes
  <2>2. /\ Keeps /\ Same /\ armed' = armed /\ r.pc \in Engaged /\ epoch[t] \notin worker'[t]
    BY <1>0, <1>5, KeepsUnchanged DEF WorkerFinishes, WorkerStopped, storeVars, At, Engaged,
       RuntimeTypes, Custody
  <2> QED
    BY <1>0, <2>1, <2>2, CustodyMoves DEF Engaged, Proven
<1>6. CASE CheckCancel(t)
  <2>1. Keeps /\ Same /\ armed' = armed /\ worker' = worker /\ r.pc = "check" /\ r.pc \in Engaged
    BY <1>6, KeepsUnchanged DEF CheckCancel, storeVars, OnlyRunner, At, Engaged
  <2>2. CASE End(t)
    BY <1>0, <2>1, <2>2, EndMoves, CustodyFrame
  <2>3. ASSUME NEW pc \in Proven, r.proof, Go(t, pc) PROVE Custody(u)'
    BY <1>0, <2>1, <2>3, GoMoves, CustodyMoves DEF Proven, Custody
  <2>4. CASE ~r.proof /\ Go(t, "recoveryBlock")
    BY <1>0, <2>1, <2>4, GoMoves, CustodyMoves DEF Proven, Engaged, Custody
  <2>5. CASE r.proof /\ runner' = [runner EXCEPT ![t] = [r EXCEPT !.pc = "finish", !.outcome = "BLOCKED"]]
    <3>1. Moves(t, "finish", "BLOCKED", r.proof)
      BY <1>0, <2>5 DEF RuntimeTypes, Runners, Moves, Steps, Engaged, Proven, Outcomes
    <3> QED
      BY <1>0, <2>1, <2>5, <3>1, CustodyMoves DEF Proven, Custody
  <2>6. r.outcome # "error" => r.proof
    BY <1>0, <2>1 DEF Custody
  <2> QED
    BY <1>6, <2>2, <2>3, <2>4, <2>5, <2>6 DEF CheckCancel, Proven
<1>8. CASE CancelFinalize(t) \/ RecoveryFence(t)
  <2>1. Keeps /\ Same /\ armed' = armed /\ End(t)
    BY <1>8, KeepsUnchanged, KeepsFence DEF CancelFinalize, FinalizeTaskCancellation,
       RecoveryFence, OnlyRunner, storeVars, RInv
  <2> QED
    BY <1>0, <2>1, EndMoves, CustodyFrame
<1>9. CASE BlockStep(t)
  <2>1. Keeps /\ Same /\ worker' = worker /\ armed' = armed
    BY <1>9, KeepsUnchanged, KeepsTransition DEF BlockStep, BlockWhileAuthoritative, OnlyRunner,
       storeVars
  <2>2. PICK pc \in {"confirm", "recoveryFence"} :
          Go(t, pc) /\ r.pc \in Engaged /\ (pc = "confirm" => r.pc \in Proven)
    BY <1>9 DEF BlockStep, At, Engaged, Proven
  <2> QED
    BY <1>0, <2>1, <2>2, GoMoves, CustodyMoves DEF Proven, Engaged, Custody
<1>10. CASE FinishNonCandidate(t)
  <2>1. Keeps /\ Same /\ worker' = worker /\ armed' = armed /\ r.pc \in Proven
    BY <1>10, KeepsUnchanged, KeepsTransition DEF FinishNonCandidate, OnlyRunner, storeVars, At,
       Proven
  <2>2. End(t) \/ Go(t, "confirm")
    BY <1>10 DEF FinishNonCandidate
  <2> QED
    BY <1>0, <2>1, <2>2, EndMoves, CustodyFrame, GoMoves, CustodyMoves DEF Proven, Custody
<1>11. CASE \/ BeginVerification(t) \/ VerificationRefused(t) \/ PersistOutcome(t)
            \/ PersistUnconfirmed(t) \/ VerificationFails(t)
  <2>1. Keeps /\ Same /\ worker' = worker /\ armed' = armed
    BY <1>11, KeepsUnchanged, KeepsTransition, KeepsOutcome DEF BeginVerification,
       VerificationRefused, PersistOutcome, PersistUnconfirmed, VerificationFails, OnlyRunner,
       storeVars
  <2>2. r.pc \in Proven
    BY <1>11 DEF BeginVerification, VerificationRefused, PersistOutcome, PersistUnconfirmed,
       VerificationFails, At, Proven
  <2>3. \/ Go(t, "commands") \/ Go(t, "failBlock") \/ Go(t, "verifyConfirm")
        \/ Returned(t, "error", TRUE)
    BY <1>11 DEF BeginVerification, VerificationRefused, PersistOutcome, PersistUnconfirmed,
       VerificationFails
  <2>4. ASSUME NEW pc \in Proven, Go(t, pc) PROVE Custody(u)'
    BY <1>0, <2>1, <2>2, <2>4, GoMoves, CustodyMoves DEF Proven, Custody
  <2>5. CASE Returned(t, "error", TRUE)
    BY <1>0, <2>1, <2>2, <2>5, ReturnedMoves, CustodyMoves DEF Proven, Engaged, Custody, Outcomes
  <2> QED
    BY <2>3, <2>4, <2>5 DEF Proven
<1>12. CASE ConfirmStep(t)
  <2>1. r.pc \in Proven /\ worker' = worker /\ armed' = armed /\ epoch' = epoch
    BY <1>12 DEF ConfirmStep, At, Proven, OnlyRunner, Confirm, ConfirmAttemptTerminated, storeVars
  <2>2. /\ OpenEpochs(t)' = OpenEpochs(t) \ {epoch[t]}
        /\ \A v \in Tasks \ {t} : OpenEpochs(v)' = OpenEpochs(v)
    BY <1>0, <1>12, <2>1 DEF ConfirmStep, Confirm, ConfirmAttemptTerminated, SetAuthority,
       OpenEpochs,
       storeVars, Custody, RInv, IInv, TypeOK
  <2>3. \/ runner'[t] = Idle
        \/ runner'[t].pc \in {"cancelFinalize", "verifyCancelCheck"} /\ runner'[t].epoch = r.epoch
    BY <1>0, <1>12, GoMoves, EndMoves DEF ConfirmStep, Moves, Steps, Engaged
  <2>4. \A v \in Tasks \ {t} : runner'[v] = runner[v]
    BY <1>0, <1>12, GoMoves, EndMoves DEF ConfirmStep, Moves, Steps, Engaged
  <2> QED
    BY <1>0, <2>1, <2>2, <2>3, <2>4 DEF Custody, Idle, Engaged, Proven
<1>13. CASE VerifyCancelCheck(t) \/ Integrate(t)
  <2>1. Keeps /\ Same /\ worker' = worker /\ armed' = armed
    BY <1>13, KeepsUnchanged DEF VerifyCancelCheck, Integrate, PrepareIntegrationAttempt, Prepare,
       BlockVerifiedIntegration, storeVars, OnlyRunner
  <2>2. \/ End(t) \/ Go(t, "integrate") \/ Go(t, "dispatch")
        \/ Go(t, "cancelFinalize") /\ r.pc \in Engaged
    BY <1>13 DEF VerifyCancelCheck, Integrate, At, Engaged
  <2> QED
    BY <1>0, <2>1, <2>2, EndMoves, CustodyFrame, GoMoves, CustodyMoves
       DEF Proven, Engaged, Concluded, Steps
<1> QED
  BY <1>1, <1>2, <1>3, <1>4, <1>5, <1>6, <1>8, <1>9, <1>10, <1>11, <1>12, <1>13
     DEF RunnerStep

(* So do all other steps.                                                  *)
LEMMA CustodyKept ==
  ASSUME RInv, [RuntimeNext]_vars, NEW u \in Tasks
  PROVE  Custody(u)'
<1>0. RuntimeTypes /\ Custody(u) /\ UNCHANGED storeVars => Keeps
  BY KeepsUnchanged DEF RInv, storeVars
<1>1. CASE UNCHANGED vars
  BY <1>0, <1>1, CustodyFrame DEF vars, procVars, storeVars, RInv
<1>2. CASE StartupStep \/ Crash
  <2>1. Keeps /\ UNCHANGED <<worker, armed>>
    BY <1>2, KeepsUnchanged DEF StartupStep, DaemonStart, RecoverPendingDone, ReconcileDone,
       RecoverPending, Crash, OnlyRunner, storeVars
  <2>2. CASE \E t \in Tasks : RecoverPending(t)
    <3>1. PICK t \in Tasks, pc \in {"dispatch", "publish"} : Go(t, pc)
      BY <2>2 DEF RecoverPending
    <3> QED
      BY <2>1, <3>1, GoMoves, CustodyMoves DEF RInv, Proven, Engaged, Steps
  <2>3. CASE runner'[u] = runner[u] \/ runner'[u] = Idle
    BY <2>1, <2>3, CustodyFrame
  <2> QED
    BY <1>2, <2>2, <2>3 DEF StartupStep, DaemonStart, RecoverPendingDone, ReconcileDone, Crash
<1>3. ASSUME NEW t \in Tasks, RunnerStep(t) PROVE Custody(u)'
  BY <1>3, RunnerCustody
<1>4. ASSUME NEW t \in Tasks, DriveStep(t) PROVE Custody(u)'
  <2>1. Keeps /\ UNCHANGED <<worker, armed>>
    BY <1>4, KeepsUnchanged DEF DriveStep, DriveDispatch, DrivePublish, WorktreeSyncRequired,
       DriveConflict, DriveFails, DriveError, Driven, OnlyRunner, storeVars,
       MarkIntegrationDispatched, BlockIntegrationAttempt, FinalizeIntegrationApplied
  <2>2. \/ Go(t, "publish") \/ End(t) \/ runner' = [v \in Tasks |-> Idle]
    BY <1>4 DEF DriveStep, DriveDispatch, DrivePublish, WorktreeSyncRequired,
       DriveConflict, DriveFails, DriveError, Driven
  <2> QED
    BY <2>1, <2>2, EndMoves, GoMoves, CustodyFrame, CustodyMoves DEF RInv, Proven, Engaged, Steps
<1>5. ASSUME NEW t \in Tasks, ReconcileStep(t) PROVE Custody(u)'
  <2>1. CASE RecoverAttemptTermination(t)
    <3>1. /\ UNCHANGED <<runner, armed, epoch>>
          /\ worker'[t] = worker[t] \ {epoch[t]} /\ epoch[t] \in armed[t] \cap OpenEpochs(t)
          /\ OpenEpochs(t)' = OpenEpochs(t) \ {epoch[t]}
          /\ \A v \in Tasks \ {t} : worker'[v] = worker[v] /\ OpenEpochs(v)' = OpenEpochs(v)
      BY <2>1 DEF RecoverAttemptTermination, ConfirmAttemptTerminated, SetAuthority, OpenEpochs,
         RInv, RuntimeTypes, IInv, TypeOK
    <3>2. Custody(u) /\ Custody(t)
      BY DEF RInv
    <3> QED
      BY <3>1, <3>2 DEF Custody
  <2>2. CASE \/ ReconcileUnprovenAttempts(t) \/ ReconcileExpired(t)
    BY <2>2, KeepsRecovery, CustodyFrame DEF ReconcileUnprovenAttempts, ReconcileExpired,
       OnlyRunner, procVars, RInv
  <2> QED
    BY <1>5, <2>1, <2>2 DEF ReconcileStep
<1>6. ASSUME NEW t \in Tasks, LoopStep(t) PROVE Custody(u)'
  <2>1. CASE Launch(t) \/ RetryBlockedVerifiedIntegration(t)
    <3>1. Keeps /\ UNCHANGED <<worker, armed>>
      BY <2>1, KeepsUnchanged DEF Launch, RetryBlockedVerifiedIntegration, OnlyRunner, storeVars,
         PrepareBlockedVerifiedIntegrationAttempt, Prepare,
         AcknowledgeBlockedVerifiedIntegrationRetry
    <3>2. \/ Go(t, "begin") \/ Go(t, "dispatch") \/ UNCHANGED runner
      BY <2>1 DEF Launch, RetryBlockedVerifiedIntegration
    <3> QED
      BY <3>1, <3>2, GoMoves, CustodyFrame, CustodyMoves DEF RInv, Proven, Engaged, Steps
  <2>2. CASE DaemonStep(t)
    <3>1. Keeps
      BY <2>2, KeepsUnchanged, KeepsWorkspace DEF DaemonStep, AdvancePreExecution, BlockTask,
         OrchestratorTransition, DriveBlockedChoice, RecoverBlockedChoice, SetTaskBlocker, DriveRetry,
         RecoverNoWorkspaceToPreflight, RecoverBlockedCheckpointToWaitingResource,
         RecoverTaskToWorkspaceReady, ReconcileWorkspaceReady
    <3> QED
      BY <2>2, <3>1, CustodyFrame DEF DaemonStep, procVars
  <2> QED
    BY <1>6, <2>1, <2>2 DEF LoopStep
<1>7. ASSUME NEW t \in Tasks, WorkerDies(t) \/ SandboxDies(t) \/ RunnerFails(t)
      PROVE  Custody(u)'
  <2>1. Keeps /\ armed' = armed /\ worker'[u] \subseteq worker[u]
    BY <1>0, <1>7 DEF WorkerDies, SandboxDies, RunnerFails, OnlyRunner, RInv, RuntimeTypes
  <2>2. runner'[u] = runner[u] \/ runner'[u] = Idle
    BY <1>7, EndMoves DEF WorkerDies, SandboxDies, RunnerFails, RInv
  <2> QED
    BY <2>1, <2>2, CustodyFrame
<1>8. ASSUME NEW t \in Tasks, Owner(t) PROVE Custody(u)'
  <2>1. Keeps
    BY <1>8, KeepsUnchanged, KeepsCancellation DEF Owner, SubmitTask, PublishTaskInput, Steer, RInv
  <2> QED
    BY <1>8, <2>1, CustodyFrame DEF Owner, procVars
<1> QED
  BY <1>1, <1>2, <1>3, <1>4, <1>5, <1>6, <1>7, <1>8 DEF RuntimeNext

--------------------------------------------------------------------------------
(* What is decided stays decided while neither the attempt nor the columns *)
(* it speaks of change, and no runner reaches the steps that conclude.     *)
LEMMA DecidedFrame ==
  ASSUME RInv, Keeps, NEW u \in Tasks,
         UNCHANGED <<state, cancelControl, result, integration>>,
         runner'[u].pc \in Concluded => runner'[u].pc = runner[u].pc
  PROVE  Decided(u)'
<1>1. Decided(u) /\ Quiescent(u)' = Quiescent(u)
  BY DEF RInv, Keeps, Quiescent
<1> QED
  BY <1>1 DEF Decided, Concluded

(* It also stays decided when a task without a verified candidate on its   *)
(* way into the branch moves to another such state.                        *)
LEMMA DecidedMove ==
  ASSUME RInv, NEW t \in Tasks, NEW to, Keeps, Move(t, to),
         UNCHANGED <<cancelControl, result, integration>>,
         state[t] \notin {"INTEGRATING", "COMPLETE"},
         to \notin {"READY_TO_INTEGRATE", "INTEGRATING", "COMPLETE", "VERIFIED"},
         result[t] = "VERIFIED_BLOCKED" => to = "CANCELLED",
         \A u \in Tasks : runner'[u].pc \in Concluded => runner'[u].pc = runner[u].pc,
         NEW u \in Tasks
  PROVE  Decided(u)'
<1>1. Decided(u) /\ Quiescent(u)' = Quiescent(u)
  BY DEF RInv, Keeps, Quiescent
<1>2. state'[u] = IF u = t THEN to ELSE state[u]
  BY DEF Move, RInv, IInv, TypeOK
<1> QED
  BY <1>1, <1>2 DEF Decided, Concluded

(* The steps of a runner keep what is decided.                             *)
LEMMA RunnerDecided ==
  ASSUME RInv, NEW t \in Tasks, RunnerStep(t), NEW u \in Tasks
  PROVE  Decided(u)'
<1> DEFINE r == runner[t]
           Quiet == \A v \in Tasks : runner'[v].pc \in Concluded => runner'[v].pc = runner[v].pc
<1>0. /\ RuntimeTypes /\ IInv /\ TypeOK /\ Safe(t) /\ Decided(t) /\ Decided(u) /\ Custody(t)
      /\ Idle.pc \notin Concluded /\ Concluded \subseteq Steps /\ Engaged \subseteq Steps
  BY DEF RInv, IInv, Idle, Concluded, Steps
<1>a. ASSUME NEW pc \in Steps \ Concluded, Go(t, pc) PROVE Quiet
  BY <1>0, <1>a, GoMoves DEF Moves
<1>b. ASSUME End(t) PROVE Quiet
  BY <1>0, <1>b, EndMoves
<1>c. ASSUME NEW outcome \in Outcomes, NEW proof \in BOOLEAN, Returned(t, outcome, proof) PROVE Quiet
  BY <1>0, <1>c, ReturnedMoves DEF Moves, Concluded
<1>d. UNCHANGED runner => Quiet
  OBVIOUS
<1>e. ASSUME NEW to \in {"BLOCKED", "RETRY_WAIT", "INPUT_REQUIRED", "VERIFYING"}, r.pc \in Engaged,
             TransitionForAttempt(t, r.epoch, to), Quiet
      PROVE  Decided(u)'
  <2>1. ~Quiescent(t) /\ state[t] \notin {"INTEGRATING", "COMPLETE"}
    BY <1>0, <1>e DEF TransitionForAttempt, AttemptTransitions, Authoritative, Custody,
       Quiescent, OpenEpochs
  <2>2. Keeps /\ Move(t, to) /\ UNCHANGED <<cancelControl, result, integration>>
    BY <1>e, KeepsTransition DEF TransitionForAttempt
  <2> QED
    BY <1>0, <1>e, <2>1, <2>2, DecidedMove DEF Decided
<1> HIDE DEF Quiet
<1>1. CASE RunnerBegin(t)
  <2>1. CASE BeginAttempt(t) /\ runner' = [runner EXCEPT ![t] =
                                             [@ EXCEPT !.pc = "start", !.epoch = epoch[t] + 1]]
    <3>1. /\ \A v \in Tasks \ {t} : runner'[v] = runner[v]
          /\ runner'[t].pc = "start"
      BY <2>1, BeginMoves
    <3>2. /\ state[t] = "WORKSPACE_READY" /\ state' = [state EXCEPT ![t] = "RUNNING"]
          /\ UNCHANGED <<cancelControl, result, integration>>
          /\ \A v \in Tasks \ {t} : OpenEpochs(v)' = OpenEpochs(v)
      BY <1>0, <2>1 DEF BeginAttempt, Move, SetAuthority, OpenEpochs, TypeOK
    <3> QED
      BY <1>0, <3>1, <3>2 DEF Decided, Concluded, Quiescent, TypeOK
  <2>2. CASE BlockTask(t, "WORKSPACE_READY") /\ End(t)
    BY <1>0, <1>b, <2>2, DecidedMove, KeepsUnchanged DEF BlockTask, OrchestratorTransition,
       Quiet, Decided
  <2>3. CASE End(t) /\ UNCHANGED storeVars
    BY <1>0, <1>b, <2>3, DecidedFrame, KeepsUnchanged DEF storeVars, Quiet
  <2> QED
    BY <1>1, <2>1, <2>2, <2>3 DEF RunnerBegin
<1>2. CASE \/ StartWorker(t) \/ StartFails(t) \/ WorkerFinishes(t) \/ WorkerStopped(t)
           \/ WorkerUnconfirmed(t) \/ VerificationRefused(t) \/ VerificationFails(t)
  <2>1. UNCHANGED storeVars
    BY <1>2 DEF StartWorker, StartFails, WorkerFinishes, WorkerStopped, WorkerUnconfirmed,
       VerificationRefused, VerificationFails
  <2>2. \/ \E pc \in {"run", "failBlock"} : Go(t, pc)
        \/ \E outcome \in Outcomes, proof \in BOOLEAN : Returned(t, outcome, proof)
    BY <1>2 DEF StartWorker, StartFails, WorkerFinishes, WorkerStopped, WorkerUnconfirmed,
       VerificationRefused, VerificationFails, Outcomes
  <2>3. Quiet
    BY <1>a, <1>c, <2>2 DEF Steps, Engaged, Proven, Concluded
  <2> QED
    BY <2>1, <2>3, DecidedFrame, KeepsUnchanged DEF storeVars, Quiet
<1>3. CASE RequestWebTurn(t)
  BY <1>3, <1>d, <1>e DEF RequestWebTurn, At, Engaged
<1>4. CASE CheckCancel(t)
  <2>1. CASE runner' = [runner EXCEPT ![t] = [r EXCEPT !.pc = "finish", !.outcome = "BLOCKED"]]
    BY <1>0, <1>4, <2>1, DecidedFrame, KeepsUnchanged
       DEF CheckCancel, RuntimeTypes, Runners, storeVars, Concluded
  <2>2. CASE End(t) \/ \E pc \in Proven \cup {"recoveryBlock"} : Go(t, pc)
    <3>1. Quiet
      BY <1>a, <1>b, <2>2 DEF Steps, Engaged, Proven, Concluded
    <3> QED
      BY <1>4, <3>1, DecidedFrame, KeepsUnchanged DEF CheckCancel, storeVars, Quiet
  <2> QED
    BY <1>4, <2>1, <2>2 DEF CheckCancel, Proven
<1>5. CASE ConfirmStep(t)
  <2>1. /\ UNCHANGED <<state, epoch, cancelControl, result, integration>>
        /\ OpenEpochs(t)' = OpenEpochs(t) \ {epoch[t]} /\ OpenEpochs(t) \subseteq {epoch[t]}
        /\ \A v \in Tasks \ {t} : OpenEpochs(v)' = OpenEpochs(v)
    BY <1>0, <1>5 DEF ConfirmStep, Confirm, ConfirmAttemptTerminated, SetAuthority, OpenEpochs, At,
       storeVars, Custody, TypeOK, Safe, Engaged, Proven
  <2>2. /\ \A v \in Tasks \ {t} : runner'[v] = runner[v]
        /\ runner'[t].pc # "integrate"
    BY <1>0, <1>5, GoMoves, EndMoves DEF ConfirmStep, Moves, Steps, Engaged, Idle
  <2> QED
    BY <1>0, <2>1, <2>2 DEF Decided, Quiescent
<1>6. CASE CancelFinalize(t)
  <2>1. CASE FinalizeTaskCancellation(t)
    BY <1>0, <1>6, <1>b, <2>1, DecidedMove, KeepsUnchanged
       DEF CancelFinalize, FinalizeTaskCancellation, Decided, Quiet
  <2>2. CASE UNCHANGED storeVars
    BY <1>6, <1>b, <2>2, DecidedFrame, KeepsUnchanged DEF CancelFinalize, storeVars, Quiet
  <2> QED
    BY <1>6, <2>1, <2>2 DEF CancelFinalize
<1>7. CASE RecoveryFence(t)
  BY <1>0, <1>7, <1>b, DecidedFrame, KeepsUnchanged, KeepsFence
     DEF RecoveryFence, LogicalFenceAttempt, storeVars, Quiet
<1>8. CASE BlockStep(t)
  <2>1. r.pc \in Engaged /\ Quiet
    BY <1>8, <1>a DEF BlockStep, At, Engaged, Proven, Steps, Concluded
  <2> QED
    BY <1>8, <1>e, <2>1, DecidedFrame, KeepsUnchanged DEF BlockStep, BlockWhileAuthoritative,
       storeVars, Quiet
<1>9. CASE FinishNonCandidate(t)
  <2>1. r.pc \in Engaged /\ Quiet
    BY <1>9, <1>a, <1>b DEF FinishNonCandidate, At, Engaged, Proven, Steps, Concluded
  <2>2. TransitionForAttempt(t, r.epoch, r.outcome) =>
          r.outcome \in {"BLOCKED", "RETRY_WAIT", "INPUT_REQUIRED", "VERIFYING"}
    BY DEF TransitionForAttempt, AttemptTransitions
  <2> QED
    BY <1>9, <1>e, <2>1, <2>2, DecidedFrame, KeepsUnchanged DEF FinishNonCandidate, storeVars, Quiet
<1>10. CASE BeginVerification(t)
  BY <1>10, <1>a, <1>e DEF BeginVerification, At, Engaged, Proven, Steps, Concluded
<1>11. CASE PersistOutcome(t) \/ PersistUnconfirmed(t)
  <2>1. /\ Quiet /\ PersistVerificationOutcome(t, r.epoch) /\ Keeps
        /\ \A v \in Tasks \ {t} : runner'[v] = runner[v]
        /\ runner'[t].pc = "verifyConfirm"
    BY <1>0, <1>11, <1>a, GoMoves, KeepsOutcome DEF PersistOutcome, PersistUnconfirmed, Steps,
       Concluded,
       Engaged, Proven, Moves
  <2>2. /\ state[t] = "VERIFYING" /\ UNCHANGED <<cancelControl, integration>>
        /\ \A v \in Tasks \ {t} : state'[v] = state[v] /\ result'[v] = result[v]
        /\ result'[t] # "VERIFIED_BLOCKED" /\ state'[t] \in {"VERIFIED", "RETRY_WAIT", "BLOCKED"}
    BY <1>0, <2>1 DEF PersistVerificationOutcome, Move, OutcomeTargets, TypeOK
  <2>3. CASE u = t
    BY <1>0, <2>1, <2>2, <2>3 DEF Decided, Concluded
  <2>4. CASE u # t
    BY <1>0, <2>1, <2>2, <2>4 DEF Decided, Keeps, Quiescent
  <2> QED
    BY <2>3, <2>4
<1>12. CASE VerifyCancelCheck(t)
  <2>1. UNCHANGED storeVars /\ Keeps /\ r.pc = "verifyCancelCheck"
    BY <1>12, KeepsUnchanged DEF VerifyCancelCheck, storeVars, At
  <2>2. CASE Go(t, "integrate") /\ ~cancelControl[t]
    BY <1>0, <2>1, <2>2, GoMoves DEF Decided, Moves, Concluded, Steps, Keeps, Quiescent, storeVars
  <2>3. CASE End(t) \/ Go(t, "cancelFinalize")
    BY <1>a, <1>b, <2>1, <2>3, DecidedFrame DEF storeVars, Quiet, Steps, Engaged, Concluded
  <2> QED
    BY <1>12, <2>2, <2>3 DEF VerifyCancelCheck
<1>13. CASE Integrate(t)
  <2>1. r.pc = "integrate" /\ Quiescent(t) /\ (state[t] = "VERIFIED" => ~cancelControl[t])
    BY <1>0, <1>13 DEF Integrate, At, Decided, Concluded
  <2>2. Quiet /\ \A v \in Tasks \ {t} : runner'[v] = runner[v]
    BY <1>0, <1>13, <1>a, <1>b, GoMoves, EndMoves DEF Integrate, Steps, Engaged, Concluded, Moves
  <2>3. runner'[t].pc \notin Concluded
    BY <1>0, <1>13, GoMoves, EndMoves DEF Integrate, Steps, Concluded, Moves
  <2>4. CASE PrepareIntegrationAttempt(t) \/ BlockVerifiedIntegration(t)
    <3>1. /\ Keeps /\ UNCHANGED cancelControl /\ state[t] = "VERIFIED"
          /\ \A v \in Tasks \ {t} : /\ state'[v] = state[v] /\ result'[v] = result[v]
                                   /\ integration'[v] = integration[v]
          /\ integration'[t] \in {integration[t], "PREPARED"}
          /\ \/ state'[t] = "READY_TO_INTEGRATE" /\ result'[t] = "VERIFIED"
             \/ state'[t] = "BLOCKED"
      BY <1>0, <2>4, KeepsUnchanged
         DEF PrepareIntegrationAttempt, Prepare, BlockVerifiedIntegration, Move, TypeOK
    <3> QED
      BY <1>0, <2>1, <2>2, <2>3, <3>1 DEF Decided, Keeps, Quiescent
  <2>5. CASE UNCHANGED storeVars
    BY <2>2, <2>5, DecidedFrame, KeepsUnchanged DEF storeVars, Quiet
  <2> QED
    BY <1>13, <2>4, <2>5 DEF Integrate
<1> QED
  BY <1>1, <1>2, <1>3, <1>4, <1>5, <1>6, <1>7, <1>8, <1>9, <1>10, <1>11, <1>12, <1>13
     DEF RunnerStep

(* So do all other steps.                                                  *)
LEMMA DecidedKept ==
  ASSUME RInv, [RuntimeNext]_vars, NEW u \in Tasks
  PROVE  Decided(u)'
<1> DEFINE Quiet == \A v \in Tasks : runner'[v].pc \in Concluded => runner'[v].pc = runner[v].pc
<1>0. /\ RuntimeTypes /\ IInv /\ TypeOK /\ \A t \in Tasks : Safe(t) /\ Decided(t)
      /\ Idle.pc \notin Concluded
      /\ UNCHANGED storeVars => Keeps /\ UNCHANGED <<state, cancelControl, result, integration>>
  BY KeepsUnchanged DEF RInv, IInv, Idle, Concluded, storeVars
<1>a. ASSUME NEW t \in Tasks, NEW pc \in {"begin", "dispatch", "publish"}, Go(t, pc) PROVE Quiet
  BY <1>0, <1>a, GoMoves DEF Moves, Steps, Concluded
<1>b. ASSUME NEW t \in Tasks, End(t) PROVE Quiet
  BY <1>0, <1>b, EndMoves
<1>c. ASSUME runner' = [v \in Tasks |-> Idle] PROVE Quiet
  BY <1>0, <1>c
<1>d. UNCHANGED runner => Quiet
  OBVIOUS
<1> HIDE DEF Quiet
<1>1. CASE UNCHANGED vars
  BY <1>0, <1>1, <1>d, DecidedFrame DEF vars, procVars, Quiet
<1>2. CASE StartupStep \/ Crash
  <2>1. Quiet
    BY <1>2, <1>a, <1>c, <1>d DEF StartupStep, DaemonStart, RecoverPendingDone, ReconcileDone,
       RecoverPending, Crash
  <2>2. UNCHANGED storeVars
    BY <1>2 DEF StartupStep, DaemonStart, RecoverPendingDone, ReconcileDone, RecoverPending, Crash
  <2> QED
    BY <1>0, <2>1, <2>2, DecidedFrame DEF Quiet
<1>3. ASSUME NEW t \in Tasks, RunnerStep(t) PROVE Decided(u)'
  BY <1>3, RunnerDecided
<1>4. ASSUME NEW t \in Tasks, DriveStep(t) PROVE Decided(u)'
  <2>1. Quiet
    BY <1>4, <1>a, <1>b, <1>c DEF DriveStep, DriveDispatch, DrivePublish, WorktreeSyncRequired,
       DriveConflict, DriveFails, DriveError, Driven
  <2>2. \/ UNCHANGED storeVars \/ MarkIntegrationDispatched(t) \/ BlockIntegrationAttempt(t)
        \/ FinalizeIntegrationApplied(t)
    BY <1>4 DEF DriveStep, DriveDispatch, DrivePublish, WorktreeSyncRequired, DriveConflict,
       DriveFails, DriveError
  <2>3. CASE UNCHANGED storeVars
    BY <1>0, <2>1, <2>3, DecidedFrame DEF Quiet
  <2>4. ASSUME ~UNCHANGED storeVars PROVE Decided(u)'
    <3>1. /\ Keeps /\ UNCHANGED cancelControl /\ state[t] \in {"READY_TO_INTEGRATE", "INTEGRATING"}
          /\ \A v \in Tasks \ {t} : /\ state'[v] = state[v] /\ result'[v] = result[v]
                                   /\ integration'[v] = integration[v]
          /\ \/ /\ state'[t] = "INTEGRATING" /\ integration'[t] = "DISPATCHED"
                /\ result'[t] = result[t]
             \/ state'[t] = "BLOCKED" /\ integration'[t] = "BLOCKED"
             \/ /\ state'[t] = "COMPLETE" /\ integration'[t] = "COMPLETE"
                /\ result'[t] = "VERIFIED_INTEGRATED"
      BY <1>0, <2>2, <2>4, KeepsUnchanged DEF MarkIntegrationDispatched, BlockIntegrationAttempt,
         FinalizeIntegrationApplied, Move, TypeOK
    <3>2. Quiescent(t) /\ ~cancelControl[t]
      BY <1>0, <3>1 DEF Safe, SettledStates, Decided
    <3>3. CASE u = t
      BY <1>0, <2>1, <3>1, <3>2, <3>3 DEF Decided, Quiet, Keeps, Quiescent, Concluded
    <3>4. CASE u # t
      BY <1>0, <2>1, <3>1, <3>4 DEF Decided, Quiet, Keeps, Quiescent, Concluded
    <3> QED
      BY <3>3, <3>4
  <2> QED
    BY <2>3, <2>4
<1>5. ASSUME NEW t \in Tasks, ReconcileStep(t) PROVE Decided(u)'
  <2>1. UNCHANGED runner
    BY <1>5 DEF ReconcileStep, ReconcileUnprovenAttempts, ReconcileExpired,
       RecoverAttemptTermination, procVars
  <2>2. CASE RecoverAttemptTermination(t)
    <3>1. /\ UNCHANGED <<state, cancelControl, result, integration>>
          /\ \A v \in Tasks : OpenEpochs(v)' \subseteq OpenEpochs(v)
      BY <1>0, <2>2 DEF RecoverAttemptTermination, ConfirmAttemptTerminated, SetAuthority,
         OpenEpochs,
         TypeOK
    <3> QED
      BY <1>0, <2>1, <3>1 DEF Decided, Quiescent
  <2>3. CASE RequirePhysicalRecovery(t, epoch[t])
    <3>1. ~Quiescent(t) /\ state[t] \notin {"INTEGRATING", "COMPLETE"}
      BY <1>0, <2>3 DEF RequirePhysicalRecovery, Quiescent, Safe, SettledStates, TerminalStates
    <3>2. Keeps /\ UNCHANGED <<cancelControl, result, integration>>
      BY <1>0, <2>3, KeepsRecovery DEF RequirePhysicalRecovery
    <3>3. CASE UNCHANGED state
      BY <2>1, <3>2, <3>3, DecidedFrame
    <3>4. CASE Move(t, "BLOCKED")
      BY <1>0, <2>1, <3>1, <3>2, <3>4, DecidedMove DEF Decided
    <3> QED
      BY <2>3, <3>3, <3>4 DEF RequirePhysicalRecovery
  <2> QED
    BY <1>5, <2>2, <2>3 DEF ReconcileStep, ReconcileUnprovenAttempts, ReconcileExpired
<1>6. ASSUME NEW t \in Tasks, LoopStep(t) PROVE Decided(u)'
  <2>1. CASE Launch(t)
    BY <1>0, <1>a, <2>1, DecidedFrame DEF Launch, Quiet
  <2>2. CASE RetryBlockedVerifiedIntegration(t)
    <3>1. Quiet
      BY <1>a, <1>d, <2>2 DEF RetryBlockedVerifiedIntegration
    <3>2. CASE AcknowledgeBlockedVerifiedIntegrationRetry(t)
      BY <3>1, <3>2, DecidedFrame, KeepsUnchanged DEF AcknowledgeBlockedVerifiedIntegrationRetry,
         Quiet
    <3>3. CASE PrepareBlockedVerifiedIntegrationAttempt(t)
      <4>1. /\ Keeps /\ UNCHANGED <<cancelControl, result>>
            /\ state[t] = "BLOCKED" /\ result[t] = "VERIFIED_BLOCKED" /\ Quiescent(t)
            /\ state' = [state EXCEPT ![t] = "READY_TO_INTEGRATE"]
            /\ integration' = [integration EXCEPT ![t] = "PREPARED"]
        BY <3>3, KeepsUnchanged DEF PrepareBlockedVerifiedIntegrationAttempt, Prepare, Move
      <4> QED
        BY <1>0, <3>1, <4>1 DEF Decided, Quiet, Keeps, Quiescent, Concluded, TypeOK
    <3> QED
      BY <2>2, <3>2, <3>3 DEF RetryBlockedVerifiedIntegration
  <2>3. CASE DaemonStep(t)
    <3>1. Quiet
      BY <1>d, <2>3 DEF DaemonStep, procVars
    <3>2. CASE \E from \in PreAttemptStates \cup {"RETRY_WAIT"},
                  to \in {"PREFLIGHT", "WAITING_RESOURCE", "BLOCKED"} :
                 OrchestratorTransition(t, from, to)
      BY <1>0, <3>1, <3>2, DecidedMove, KeepsUnchanged DEF OrchestratorTransition, Quiet, Decided,
         PreAttemptStates
    <3>3. CASE DriveBlockedChoice(t)
      <4>1. CASE SetTaskBlocker(t)
        BY <3>1, <4>1, DecidedFrame, KeepsUnchanged DEF SetTaskBlocker, Quiet
      <4>2. CASE RecoverNoWorkspaceToPreflight(t, "BLOCKED")
        BY <1>0, <3>1, <3>3, <4>2, DecidedMove, KeepsUnchanged
           DEF DriveBlockedChoice, RecoverNoWorkspaceToPreflight, Quiet
      <4>3. CASE RecoverBlockedCheckpointToWaitingResource(t)
        BY <1>0, <3>1, <3>3, <4>3, DecidedMove, KeepsUnchanged
           DEF DriveBlockedChoice, RecoverBlockedCheckpointToWaitingResource, Quiet
      <4>4. CASE RecoverTaskToWorkspaceReady(t, "BLOCKED")
        BY <1>0, <3>1, <3>3, <4>4, DecidedMove, KeepsUnchanged
           DEF DriveBlockedChoice, RecoverTaskToWorkspaceReady, Quiet
      <4> QED
        BY <3>3, <4>1, <4>2, <4>3, <4>4 DEF DriveBlockedChoice, RecoverBlockedChoice
    <3>4. CASE RecoverTaskToWorkspaceReady(t, "RETRY_WAIT")
      BY <1>0, <3>1, <3>4, DecidedMove, KeepsUnchanged DEF RecoverTaskToWorkspaceReady, Quiet,
         Decided
    <3>5. CASE WorkspaceNext(t)
      <4>1. CASE MarkWorkspaceReady(t)
        BY <1>0, <3>1, <4>1, DecidedMove, KeepsUnchanged
           DEF MarkWorkspaceReady, MarkWorkspace, Quiet, Decided
      <4>2. CASE MarkWorkspaceFailed(t)
        BY <1>0, <3>1, <4>2, DecidedMove, KeepsUnchanged
           DEF MarkWorkspaceFailed, MarkWorkspace, Quiet, Decided
      <4>3. CASE UNCHANGED <<state, cancelControl, result, integration>>
        BY <3>1, <3>5, <4>3, DecidedFrame, KeepsWorkspace DEF Quiet
      <4> QED
        BY <3>5, <4>1, <4>2, <4>3 DEF WorkspaceNext, BeginWorkspace, BeginWorkspaceRehydrate,
           BeginWorkspaceCheckpoint, AbortWorkspaceCheckpoint, FinishWorkspaceCheckpoint,
           EndWorkspaceCheckpoint, BeginWorkspaceRemoval, FinishWorkspaceRemoval
    <3>6. CASE RecoverNoWorkspaceToPreflight(t, "WORKSPACE_READY")
      BY <1>0, <3>1, <3>6, DecidedMove, KeepsUnchanged DEF RecoverNoWorkspaceToPreflight, Quiet,
         Decided
    <3> QED
      BY <2>3, <3>2, <3>3, <3>4, <3>5, <3>6 DEF DaemonStep, AdvancePreExecution,
         PreExecutionTransitions, BlockTask, DriveRetry, ReconcileWorkspaceReady, PreAttemptStates
  <2> QED
    BY <1>6, <2>1, <2>2, <2>3 DEF LoopStep
<1>7. ASSUME NEW t \in Tasks, WorkerDies(t) \/ SandboxDies(t) \/ RunnerFails(t)
      PROVE  Decided(u)'
  <2>1. Quiet /\ UNCHANGED storeVars
    BY <1>7, <1>b, <1>d DEF WorkerDies, SandboxDies, RunnerFails
  <2> QED
    BY <1>0, <2>1, DecidedFrame DEF Quiet
<1>8. ASSUME NEW t \in Tasks, Owner(t) PROVE Decided(u)'
  <2>1. Quiet /\ UNCHANGED runner
    BY <1>8, <1>d DEF Owner, procVars
  <2>2. CASE SubmitTask(t)
    BY <1>0, <2>1, <2>2, DecidedMove, KeepsUnchanged DEF SubmitTask, Quiet, Decided
  <2>3. CASE PublishTaskInput(t)
    BY <1>0, <2>1, <2>3, DecidedMove, KeepsUnchanged DEF PublishTaskInput, Quiet, Decided
  <2>4. CASE \E blockedChoice \in BOOLEAN : Steer(t, blockedChoice)
    BY <2>1, <2>4, DecidedFrame, KeepsUnchanged DEF Steer, Quiet
  <2>5. CASE RequestTaskCancellation(t)
    <3>1. /\ Keeps /\ UNCHANGED <<result, integration>>
          /\ state[t] \notin {"INTEGRATING", "COMPLETE"}
          /\ \A v \in Tasks \ {t} : cancelControl'[v] = cancelControl[v] /\ state'[v] = state[v]
          /\ state'[t] = IF state[t] \in PreAttemptStates \/ Quiescent(t) THEN "CANCELLED" ELSE state[t]
      BY <1>0, <2>5, KeepsCancellation
         DEF RequestTaskCancellation, TerminalStates, Move, TypeOK
    <3>2. state[t] \in {"READY_TO_INTEGRATE"} => Quiescent(t)
      BY <1>0 DEF Safe, SettledStates
    <3>3. CASE u = t
      BY <1>0, <2>1, <3>1, <3>2, <3>3 DEF Decided, Keeps, Quiescent, Concluded
    <3>4. CASE u # t
      BY <1>0, <2>1, <3>1, <3>4 DEF Decided, Keeps, Quiescent
    <3> QED
      BY <3>3, <3>4
  <2> QED
    BY <1>8, <2>2, <2>3, <2>4, <2>5 DEF Owner
<1> QED
  BY <1>1, <1>2, <1>3, <1>4, <1>5, <1>6, <1>7, <1>8 DEF RuntimeNext

--------------------------------------------------------------------------------
(* Every step of the runtime preserves the invariant.                      *)
LEMMA RuntimeInductive == RInv /\ [RuntimeNext]_vars => RInv'
<1> SUFFICES ASSUME RInv, [RuntimeNext]_vars PROVE RInv'
  OBVIOUS
<1>1. [Calls]_storeVars /\ [Next]_storeVars
  BY StoreStep, CallsAreTransactions
<1> QED
  BY <1>1, Inductive, Typed, CustodyKept, DecidedKept, HostedKept DEF RInv, HInv

(* Whatever the daemon, the runners, the owner and faults do, the stores   *)
(* and processes satisfy the inductive invariant.                          *)
THEOREM RuntimeInvariant == RuntimeSpec => []RInv
BY RuntimeInitially, RuntimeInductive, PTL DEF RuntimeSpec

(* The processes of MAR use the store only by its transactions: what holds *)
(* of the store for any caller holds of the running system.                *)
THEOREM RuntimeUsesStore == RuntimeSpec => Spec
<1>1. RuntimeInit => Init
  BY DEF RuntimeInit
<1>2. RInv /\ [RuntimeNext]_vars => [Next]_storeVars
  BY StoreStep, CallsAreTransactions
<1> QED
  BY <1>1, <1>2, RuntimeInvariant, PTL DEF RuntimeSpec, Spec

(* No second writer: a worker that lives belongs to the one open attempt   *)
(* of its task, in a workspace that is READY.                              *)
THEOREM WritersAreExclusive == RuntimeSpec => []NoSecondWriter
<1>1. RInv => NoSecondWriter
  <2> SUFFICES ASSUME RInv, NEW t \in Tasks, worker[t] # {}
               PROVE  worker[t] = {epoch[t]} /\ ~Quiescent(t) /\ workspace[t] = "READY"
    BY DEF NoSecondWriter
  <2>1. worker[t] \subseteq OpenEpochs(t) /\ OpenEpochs(t) \subseteq {epoch[t]}
    BY DEF RInv, IInv, Safe, Custody
  <2>2. ~Quiescent(t)
    BY <2>1 DEF Quiescent
  <2> QED
    BY <2>1, <2>2 DEF RInv, Hosted
<1> QED
  BY <1>1, RuntimeInvariant, PTL

(* A workspace that an open attempt may write to, or that is about to host *)
(* one, is READY: it is not compacted, rebuilt or removed under a writer.  *)
THEOREM WorkspaceStaysReady == RuntimeSpec => []WorkspaceHeld
<1>1. RInv => WorkspaceHeld
  BY DEF RInv, Hosted, HostedStates, WorkspaceHeld
<1> QED
  BY <1>1, RuntimeInvariant, PTL

(* An accepted cancellation wins: nothing of the task is dispatched,       *)
(* finalized or reported complete from then on.                            *)
THEOREM CancellationWins == RuntimeSpec => []AcceptedCancelWins
<1>1. RInv => AcceptedCancelWins
  BY DEF RInv, Decided, AcceptedCancelWins
<1> QED
  BY <1>1, RuntimeInvariant, PTL

--------------------------------------------------------------------------------
(* The refinement of ExclusiveWriter: what a runtime step does to the      *)
(* holder of a workspace, to its processes and to the task's end.          *)
Holder == [t \in Tasks |-> IF Quiescent(t) THEN 0 ELSE epoch[t]]
Live   == [t \in Tasks |-> worker[t] # {}]
Closed == [t \in Tasks |-> state[t] \in TerminalStates]

(* Initially nobody holds a workspace and nobody writes.                   *)
LEMMA WriterInit == RuntimeInit => Writer!Init
<1> SUFFICES ASSUME RuntimeInit PROVE Writer!Init
  OBVIOUS
<1>1. \A t \in Tasks : Quiescent(t) /\ worker[t] = {} /\ state[t] = "ABSENT"
  BY DEF RuntimeInit, Init, Quiescent, OpenEpochs
<1>2. epoch = [t \in Tasks |-> 0]
  BY DEF RuntimeInit, Init
<1>3. Holder = [t \in Tasks |-> 0]
  BY <1>1 DEF Holder
<1>4. \A t \in Tasks : (worker[t] # {}) = FALSE /\ (state[t] \in TerminalStates) = FALSE
  BY <1>1 DEF TerminalStates
<1>5. Live = [t \in Tasks |-> FALSE] /\ Closed = [t \in Tasks |-> FALSE]
  BY <1>4, Zenon DEF Live, Closed
<1> QED
  BY <1>2, <1>3, <1>5 DEF Writer!Init, Holder, Live, Closed

(* Nothing happens to the writer.                                          *)
LEMMA WriterStutters ==
  ASSUME Keeps, \A t \in Tasks : worker'[t] = {} <=> worker[t] = {},
         \A t \in Tasks : state'[t] \in TerminalStates <=> state[t] \in TerminalStates
  PROVE  [Writer!Next]_(Writer!vars)
<1>1. Holder' = Holder /\ epoch' = epoch
  BY DEF Keeps, Holder, Quiescent
<1>2. Live' = Live
  BY DEF Live
<1>3. Closed' = Closed
  BY DEF Closed
<1> QED
  BY <1>1, <1>2, <1>3 DEF Writer!vars, Holder, Live, Closed

(* An admission grants.                                                    *)
LEMMA WriterGrants ==
  ASSUME RInv, NEW t \in Tasks, BeginAttempt(t), worker' = worker
  PROVE  [Writer!Next]_(Writer!vars)
<1>1. /\ OpenEpochs(t)' = {epoch[t] + 1} /\ OpenEpochs(t) = {}
      /\ \A u \in Tasks \ {t} : OpenEpochs(u)' = OpenEpochs(u)
      /\ epoch[t] \in 0..MaxEpoch /\ epoch' = [epoch EXCEPT ![t] = epoch[t] + 1]
      /\ state[t] = "WORKSPACE_READY" /\ state' = [state EXCEPT ![t] = "RUNNING"]
  BY EpochAssumption DEF BeginAttempt, SetAuthority, Move, OpenEpochs, Quiescent, RInv, IInv,
     TypeOK, Epochs
<1>2. epoch \in [Tasks -> 0..MaxEpoch] /\ state \in [Tasks -> TaskStates \cup {"ABSENT"}]
  BY DEF RInv, IInv, TypeOK
<1>3. Holder' = [Holder EXCEPT ![t] = epoch[t] + 1]
  BY <1>1, <1>2 DEF Holder, Quiescent
<1>4. Live' = Live
  BY DEF Live
<1>5. Closed' = Closed
  BY <1>1, <1>2 DEF Closed, TerminalStates
<1>6. Holder[t] = 0 /\ ~Closed[t]
  BY <1>1 DEF Holder, Quiescent, Closed, TerminalStates
<1>7. Writer!Grant(t)
  BY <1>1, <1>3, <1>4, <1>5, <1>6 DEF Writer!Grant, Holder, Live, Closed
<1> QED
  BY <1>7 DEF Writer!Next

(* A worker that starts writes.                                            *)
LEMMA WriterWrites ==
  ASSUME RInv, NEW t \in Tasks, NEW e, ~Quiescent(t), UNCHANGED storeVars,
         worker' = [worker EXCEPT ![t] = @ \cup {e}]
  PROVE  [Writer!Next]_(Writer!vars)
<1>1. worker \in [Tasks -> SUBSET Epochs] /\ epoch[t] \in Epochs
  BY DEF RInv, RuntimeTypes, IInv, Safe, Quiescent, OpenEpochs
<1>2. Holder' = Holder /\ Closed' = Closed /\ epoch' = epoch
  BY DEF Holder, Closed, Quiescent, OpenEpochs, storeVars
<1>3. Live' = [Live EXCEPT ![t] = TRUE]
  BY <1>1 DEF Live
<1>4. Holder[t] # 0
  BY <1>1, EpochAssumption DEF Holder, Epochs
<1>5. Writer!Write(t)
  BY <1>2, <1>3, <1>4 DEF Writer!Write, Holder, Live, Closed
<1> QED
  BY <1>5 DEF Writer!Next

(* A worker that ends stops, unless another one is left.                   *)
LEMMA WriterStops ==
  ASSUME RInv, NEW t \in Tasks, NEW e, UNCHANGED storeVars,
         worker' = [worker EXCEPT ![t] = @ \ {e}]
  PROVE  [Writer!Next]_(Writer!vars)
<1>1. worker \in [Tasks -> SUBSET Epochs]
  BY DEF RInv, RuntimeTypes
<1>2. Holder' = Holder /\ Closed' = Closed /\ epoch' = epoch
  BY DEF Holder, Closed, Quiescent, OpenEpochs, storeVars
<1>3. CASE worker'[t] = {}
  <2>1. Live' = [Live EXCEPT ![t] = FALSE]
    BY <1>1, <1>3 DEF Live
  <2>2. Writer!Stop(t)
    BY <1>2, <2>1 DEF Writer!Stop, Holder, Live, Closed
  <2> QED
    BY <2>2 DEF Writer!Next
<1>4. CASE worker'[t] # {}
  <2>1. \A u \in Tasks : worker'[u] = {} <=> worker[u] = {}
    BY <1>1, <1>4
  <2> QED
    BY <2>1, WriterStutters, KeepsUnchanged DEF storeVars
<1> QED
  BY <1>3, <1>4

(* A termination that is confirmed releases: nothing of the attempt lives. *)
LEMMA WriterReleases ==
  ASSUME RInv, RInv', NEW t \in Tasks, ConfirmAttemptTerminated(t, epoch[t]),
         \A u \in Tasks \ {t} : worker'[u] = worker[u]
  PROVE  [Writer!Next]_(Writer!vars)
<1>1. /\ OpenEpochs(t)' = {}
      /\ \A u \in Tasks \ {t} : OpenEpochs(u)' = OpenEpochs(u)
      /\ epoch' = epoch /\ state' = state
  BY DEF RInv, IInv, TypeOK, Safe, ConfirmAttemptTerminated, SetAuthority, OpenEpochs
<1>2. worker'[t] = {}
  BY <1>1 DEF RInv, Custody
<1>3. Holder' = [Holder EXCEPT ![t] = 0]
  BY <1>1 DEF Holder, Quiescent
<1>4. Live' = [Live EXCEPT ![t] = FALSE]
  BY <1>2 DEF Live
<1>5. Closed' = Closed
  BY <1>1 DEF Closed
<1>6. Writer!Release(t)
  BY <1>1, <1>3, <1>4, <1>5 DEF Writer!Release, Holder, Live, Closed
<1> QED
  BY <1>6 DEF Writer!Next

(* A task that ends closes: it has no attempt that could still write.      *)
LEMMA WriterCloses ==
  ASSUME RInv, NEW t \in Tasks, NEW to \in TerminalStates, Keeps, worker' = worker,
         Quiescent(t), state' = [state EXCEPT ![t] = to]
  PROVE  [Writer!Next]_(Writer!vars)
<1>1. Holder' = Holder /\ epoch' = epoch /\ Live' = Live
  BY DEF Keeps, Holder, Quiescent, Live
<1>2. Holder[t] = 0
  BY DEF Holder
<1>3. ~Live[t]
  BY DEF RInv, Custody, Quiescent, Live
<1>4. state \in [Tasks -> TaskStates \cup {"ABSENT"}]
  BY DEF RInv, IInv, TypeOK
<1>5. Closed' = [Closed EXCEPT ![t] = TRUE]
  BY <1>4 DEF Closed
<1>6. Writer!Close(t)
  BY <1>1, <1>2, <1>3, <1>5 DEF Writer!Close, Holder, Live, Closed
<1> QED
  BY <1>6 DEF Writer!Next

(* A transition between states that do not end the task is no step.        *)
LEMMA WriterMoves ==
  ASSUME RInv, NEW t \in Tasks, NEW to, Keeps, worker' = worker, Move(t, to),
         state[t] \notin TerminalStates, to \notin TerminalStates
  PROVE  [Writer!Next]_(Writer!vars)
<1>1. \A u \in Tasks : state'[u] \in TerminalStates <=> state[u] \in TerminalStates
  BY DEF RInv, IInv, TypeOK, Move
<1> QED
  BY <1>1, WriterStutters

(* Nor is a step that leaves everything the writer sees alone.             *)
LEMMA WriterUnmoved ==
  ASSUME Keeps, worker' = worker, state' = state
  PROVE  [Writer!Next]_(Writer!vars)
BY WriterStutters

(* The steps of a runner, as the writer sees them.                         *)
LEMMA RunnerRefines ==
  ASSUME RInv, RInv', NEW t \in Tasks, RunnerStep(t)
  PROVE  [Writer!Next]_(Writer!vars)
<1> DEFINE Implements == [Writer!Next]_(Writer!vars)
<1>a. UNCHANGED storeVars => Keeps /\ state' = state
  BY KeepsUnchanged DEF storeVars
<1>b. ASSUME NEW e, NEW to, TransitionForAttempt(t, e, to), worker' = worker PROVE Implements
  <2>1. state[t] \notin TerminalStates /\ to \notin TerminalStates /\ Move(t, to)
    BY <1>b DEF TransitionForAttempt, AttemptTransitions, TerminalStates
  <2> QED
    BY <1>b, <2>1, KeepsTransition, WriterMoves
<1> HIDE DEF Implements
<1>1. CASE RunnerBegin(t)
  <2>1. CASE BeginAttempt(t)
    BY <1>1, <2>1, WriterGrants DEF RunnerBegin, OnlyRunner, Implements
  <2>2. CASE BlockTask(t, "WORKSPACE_READY")
    BY <1>1, <2>2, WriterMoves, KeepsUnchanged
       DEF RunnerBegin, OnlyRunner, BlockTask, OrchestratorTransition, TerminalStates, Implements
  <2>3. CASE UNCHANGED storeVars
    BY <1>1, <1>a, <2>3, WriterUnmoved DEF RunnerBegin, OnlyRunner, Implements
  <2> QED
    BY <1>1, <2>1, <2>2, <2>3 DEF RunnerBegin
<1>2. CASE StartWorker(t)
  <2>1. ~Quiescent(t)
    BY <1>2 DEF StartWorker, At, RInv, Custody, Quiescent
  <2> QED
    BY <1>2, <2>1, WriterWrites DEF StartWorker, Implements
<1>3. CASE WorkerFinishes(t) \/ WorkerStopped(t)
  BY <1>3, WriterStops DEF WorkerFinishes, WorkerStopped, Implements
<1>4. CASE \/ StartFails(t) \/ WorkerUnconfirmed(t) \/ CheckCancel(t) \/ VerificationRefused(t)
           \/ VerificationFails(t) \/ VerifyCancelCheck(t)
  BY <1>4, <1>a, WriterUnmoved DEF StartFails, WorkerUnconfirmed, CheckCancel, VerificationRefused,
     VerificationFails, VerifyCancelCheck, OnlyRunner, Implements
<1>5. CASE RequestWebTurn(t) \/ BeginVerification(t)
  BY <1>5, <1>b DEF RequestWebTurn, BeginVerification, OnlyRunner, Implements
<1>6. CASE ConfirmStep(t)
  <2>1. runner[t].epoch = epoch[t] /\ worker' = worker
    BY <1>6 DEF ConfirmStep, At, OnlyRunner, RInv, Custody, Engaged, Proven
  <2> QED
    BY <1>6, <1>a, <2>1, WriterReleases, WriterUnmoved DEF ConfirmStep, Confirm, Implements
<1>7. CASE CancelFinalize(t)
  BY <1>7, <1>a, WriterCloses, WriterUnmoved, KeepsUnchanged DEF CancelFinalize,
     FinalizeTaskCancellation, Move, TerminalStates, OnlyRunner, Implements
<1>8. CASE BlockStep(t)
  BY <1>8, <1>a, <1>b, WriterUnmoved DEF BlockStep, BlockWhileAuthoritative, OnlyRunner, Implements
<1>9. CASE RecoveryFence(t)
  BY <1>9, <1>a, KeepsFence, WriterUnmoved
     DEF RecoveryFence, LogicalFenceAttempt, OnlyRunner, RInv, Implements
<1>10. CASE FinishNonCandidate(t)
  BY <1>10, <1>a, <1>b, WriterUnmoved DEF FinishNonCandidate, OnlyRunner, Implements
<1>11. CASE PersistOutcome(t) \/ PersistUnconfirmed(t)
  <2>1. PersistVerificationOutcome(t, runner[t].epoch) /\ worker' = worker
    BY <1>11 DEF PersistOutcome, PersistUnconfirmed, OnlyRunner
  <2>2. PICK to \in {"VERIFIED", "RETRY_WAIT", "BLOCKED"} : Move(t, to)
    BY <2>1 DEF PersistVerificationOutcome, OutcomeTargets
  <2> QED
    BY <2>1, <2>2, KeepsOutcome, WriterMoves DEF PersistVerificationOutcome, TerminalStates,
       Implements
<1>12. CASE Integrate(t)
  BY <1>12, <1>a, WriterMoves, WriterUnmoved, KeepsUnchanged DEF Integrate,
     PrepareIntegrationAttempt,
     Prepare, BlockVerifiedIntegration, TerminalStates, OnlyRunner, Implements
<1> QED
  BY <1>1, <1>2, <1>3, <1>4, <1>5, <1>6, <1>7, <1>8, <1>9, <1>10, <1>11, <1>12
     DEF RunnerStep, Implements

(* All steps.                                                              *)
LEMMA StepRefines ==
  ASSUME RInv, RInv', [RuntimeNext]_vars
  PROVE  [Writer!Next]_(Writer!vars)
<1> DEFINE Implements == [Writer!Next]_(Writer!vars)
<1>a. UNCHANGED storeVars => Keeps /\ state' = state
  BY KeepsUnchanged DEF storeVars
<1>b. \A t \in Tasks : state[t] \in {"READY_TO_INTEGRATE", "INTEGRATING"} \cup PreAttemptStates
                      => Quiescent(t)
  BY DEF RInv, IInv, Safe, SettledStates
<1> HIDE DEF Implements
<1>1. CASE UNCHANGED vars
  BY <1>1, <1>a, WriterUnmoved DEF vars, procVars, Implements
<1>2. CASE StartupStep \/ Crash
  BY <1>2, <1>a, WriterUnmoved DEF StartupStep, DaemonStart, RecoverPendingDone, ReconcileDone,
     RecoverPending, Crash, OnlyRunner, Implements
<1>3. ASSUME NEW t \in Tasks, RunnerStep(t) PROVE Implements
  BY <1>3, RunnerRefines DEF Implements
<1>4. ASSUME NEW t \in Tasks, DriveStep(t) PROVE Implements
  <2>1. worker' = worker
    BY <1>4 DEF DriveStep, DriveDispatch, DrivePublish, WorktreeSyncRequired, DriveConflict,
       DriveFails, DriveError, Driven, OnlyRunner
  <2>2. \/ UNCHANGED storeVars \/ MarkIntegrationDispatched(t) \/ BlockIntegrationAttempt(t)
        \/ FinalizeIntegrationApplied(t)
    BY <1>4 DEF DriveStep, DriveDispatch, DrivePublish, WorktreeSyncRequired, DriveConflict,
       DriveFails, DriveError
  <2>3. CASE UNCHANGED storeVars
    BY <1>a, <2>1, <2>3, WriterUnmoved DEF Implements
  <2>4. CASE MarkIntegrationDispatched(t) \/ BlockIntegrationAttempt(t)
    BY <2>1, <2>4, WriterMoves, KeepsUnchanged
       DEF MarkIntegrationDispatched, BlockIntegrationAttempt, TerminalStates, Implements
  <2>5. CASE FinalizeIntegrationApplied(t)
    BY <1>b, <2>1, <2>5, WriterCloses, KeepsUnchanged
       DEF FinalizeIntegrationApplied, Move, TerminalStates, Implements
  <2> QED
    BY <2>2, <2>3, <2>4, <2>5
<1>5. ASSUME NEW t \in Tasks, ReconcileStep(t) PROVE Implements
  <2>1. CASE RecoverAttemptTermination(t)
    BY <2>1, WriterReleases DEF RecoverAttemptTermination, RInv, RuntimeTypes, Implements
  <2>2. CASE RequirePhysicalRecovery(t, epoch[t]) /\ worker' = worker
    <3>1. Keeps
      BY <2>2, KeepsRecovery DEF RInv
    <3> QED
      BY <2>2, <3>1, WriterMoves, WriterUnmoved DEF RequirePhysicalRecovery, TerminalStates,
         Implements
  <2> QED
    BY <1>5, <2>1, <2>2 DEF ReconcileStep, ReconcileUnprovenAttempts, ReconcileExpired, OnlyRunner,
       procVars
<1>6. ASSUME NEW t \in Tasks, LoopStep(t) PROVE Implements
  <2>1. CASE Launch(t)
    BY <1>a, <2>1, WriterUnmoved DEF Launch, OnlyRunner, Implements
  <2>2. CASE RetryBlockedVerifiedIntegration(t)
    BY <2>2, WriterMoves, WriterUnmoved, KeepsUnchanged DEF RetryBlockedVerifiedIntegration,
       PrepareBlockedVerifiedIntegrationAttempt, Prepare, TerminalStates, OnlyRunner,
       AcknowledgeBlockedVerifiedIntegrationRetry, Implements
  <2>3. CASE DaemonStep(t)
    <3>1. worker' = worker
      BY <2>3 DEF DaemonStep, procVars
    <3>2. CASE (\E to : AdvancePreExecution(t, to)) \/ \E from \in TaskStates : BlockTask(t, from)
      BY <3>1, <3>2, WriterMoves, KeepsUnchanged DEF AdvancePreExecution, PreExecutionTransitions,
         BlockTask, OrchestratorTransition, TerminalStates, Implements
    <3>3. CASE DriveBlockedChoice(t) \/ RecoverTaskToWorkspaceReady(t, "RETRY_WAIT")
      BY <3>1, <3>3, WriterMoves, WriterUnmoved, KeepsUnchanged DEF DriveBlockedChoice,
         RecoverBlockedChoice, RecoverNoWorkspaceToPreflight, RecoverTaskToWorkspaceReady,
         RecoverBlockedCheckpointToWaitingResource, SetTaskBlocker, TerminalStates, Implements
    <3>4. CASE WorkspaceNext(t)
      <4>1. Keeps
        BY <3>4, KeepsWorkspace
      <4>2. \/ state' = state
            \/ state[t] = "WAITING_RESOURCE" /\ \E to \in {"WORKSPACE_READY", "BLOCKED"} : Move(t, to)
        BY <3>4 DEF WorkspaceNext, BeginWorkspace, BeginWorkspaceRehydrate, MarkWorkspaceReady,
           MarkWorkspaceFailed, MarkWorkspace, BeginWorkspaceCheckpoint, AbortWorkspaceCheckpoint,
           FinishWorkspaceCheckpoint, EndWorkspaceCheckpoint, BeginWorkspaceRemoval,
           FinishWorkspaceRemoval
      <4> QED
        BY <3>1, <4>1, <4>2, WriterMoves, WriterUnmoved DEF TerminalStates, Implements
    <3>5. CASE RecoverNoWorkspaceToPreflight(t, "WORKSPACE_READY")
      BY <3>1, <3>5, WriterMoves, KeepsUnchanged DEF RecoverNoWorkspaceToPreflight, TerminalStates,
         Implements
    <3> QED
      BY <2>3, <3>2, <3>3, <3>4, <3>5 DEF DaemonStep, DriveRetry, ReconcileWorkspaceReady, TaskStates,
         PreAttemptStates
  <2> QED
    BY <1>6, <2>1, <2>2, <2>3 DEF LoopStep
<1>7. ASSUME NEW t \in Tasks, WorkerDies(t) \/ SandboxDies(t) \/ RunnerFails(t)
      PROVE  Implements
  BY <1>7, <1>a, WriterStops, WriterUnmoved
     DEF WorkerDies, SandboxDies, RunnerFails, OnlyRunner, Implements
<1>8. ASSUME NEW t \in Tasks, Owner(t) PROVE Implements
  <2>1. worker' = worker
    BY <1>8 DEF Owner, procVars
  <2>2. CASE SubmitTask(t) \/ PublishTaskInput(t)
    BY <2>1, <2>2, WriterMoves, KeepsUnchanged
       DEF SubmitTask, PublishTaskInput, TerminalStates, Implements
  <2>3. CASE \E blockedChoice \in BOOLEAN : Steer(t, blockedChoice)
    BY <2>1, <2>3, WriterUnmoved, KeepsUnchanged DEF Steer, Implements
  <2>4. CASE RequestTaskCancellation(t)
    <3>1. Keeps
      BY <2>4, KeepsCancellation DEF RInv
    <3>2. CASE state[t] \in PreAttemptStates \/ Quiescent(t)
      BY <1>b, <2>1, <2>4, <3>1, <3>2, WriterCloses
         DEF RequestTaskCancellation, Move, TerminalStates, Implements
    <3>3. CASE ~(state[t] \in PreAttemptStates \/ Quiescent(t))
      BY <2>1, <2>4, <3>1, <3>3, WriterUnmoved DEF RequestTaskCancellation, Implements
    <3> QED
      BY <3>2, <3>3
  <2> QED
    BY <1>8, <2>2, <2>3, <2>4 DEF Owner
<1> QED
  BY <1>1, <1>2, <1>3, <1>4, <1>5, <1>6, <1>7, <1>8 DEF RuntimeNext, Implements

(* The attempts and processes of every task implement one exclusive writer *)
(* per workspace.                                                          *)
THEOREM RuntimeRefinesWriter == RuntimeSpec => ImplementsExclusiveWriter
<1>1. RuntimeInit => Writer!Init
  BY WriterInit
<1>2. RInv /\ RInv' /\ [RuntimeNext]_vars => [Writer!Next]_(Writer!vars)
  BY StepRefines
<1> QED
  BY <1>1, <1>2, RuntimeInvariant, PTL DEF RuntimeSpec, ImplementsExclusiveWriter, Writer!Spec
================================================================================
