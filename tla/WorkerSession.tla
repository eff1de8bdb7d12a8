------------------------------ MODULE WorkerSession ------------------------------
(***************************************************************************)
(* One attempt seen from inside: the agent loop of the worker process, its *)
(* RPCs to the parent, the web turns a brain answers, the owner's controls *)
(* and the convergence budget that bounds all attempts of a task together. *)
(* Each RPC, poll and store transaction is one action, so an answer, a     *)
(* control, a fence, a timeout or a crash falls between any two of them.   *)
(* The brain is the web one, or an external harness runs in place of the   *)
(* loop; the projection mode of the loop is the only one the child uses.   *)
(* Transactions are those of TaskStore.                                    *)
(***************************************************************************)
EXTENDS TaskStore, Sequences, SequencesExt

CONSTANTS MaxTaskDecisions,  \* DefaultTaskMaxModelDecisions (24)
          MaxTaskCalls,      \* DefaultTaskMaxWorkerToolCalls (64)
          MaxTaskAttempts,   \* DefaultTaskMaxAttempts (3)
          MaxEpisode,        \* DefaultWebEpisodeMaxDecisions (12)
          NoProgressLimit,   \* equal progress in a row that stops a task (2)
          ControlPage,       \* controls one ControlsSince returns (32)
          MaxControls,       \* bound on the controls of a task
          MaxFaults          \* bound on crashes and broken workers

ASSUME SessionAssumption ==
  /\ {MaxTaskDecisions, MaxTaskCalls, MaxTaskAttempts, MaxEpisode, NoProgressLimit,
      ControlPage} \subseteq Nat \ {0}
  /\ MaxControls \in Nat /\ MaxFaults \in Nat

VARIABLES
  log,       \* task_controls of each task by version, see Control
  turns,     \* web_turns of each task in the order they were published
  progress,  \* by task and epoch, what its latest semantic checkpoint says
  sess,      \* the runner and worker of each task, see NoSession
  executed,  \* history: tool calls the workers of a task have carried out
  faults

sessionVars == <<log, turns, progress, executed, faults>>
allVars     == <<storeVars, sess, sessionVars>>

(* A control, and the attempt whose termination it is known to follow.     *)
(* Steering with the kind blocked_choice is told apart: it approves.       *)
Kinds == {"STEER", "CHOICE", "INPUT", "CANCEL"}
Control(t, kind) ==
  [kind |-> kind,
   after |-> IF epoch[t] \in Epochs /\ authority[t][epoch[t]] = "PHYSICALLY_TERMINATED"
               THEN epoch[t] ELSE 0]

(* An answer as the loop tells them apart: coding tools, the three         *)
(* reserved ones, or what blocks: finish_task saying so, and every message *)
(* that breaks the protocol, calling nothing among others.                 *)
Pending == [kind |-> "pending", calls |-> 0]
Answers == [kind : {"tools"}, calls : 1..2]
           \cup [kind : {"checkpoint", "input", "finish"}, calls : {1}]
           \cup [kind : {"block"}, calls : 0..1]

(* seen: control version consumed; latest: the newest version when the     *)
(* projection or an input wait began; got: the web turn asked; calls: tool *)
(* calls admitted so far; todo: those of this turn not yet executed.       *)
NoSession == [pc |-> "none", epoch |-> 0, turn |-> 0, seen |-> 0, latest |-> 0, got |-> 0,
              calls |-> 0, todo |-> 0, maxTurns |-> 0, maxCalls |-> 0, outcome |-> "none"]

At(t, pc)          == sess[t].pc = pc
Go(t, pc)          == sess' = [sess EXCEPT ![t].pc = pc]
End(t)             == sess' = [sess EXCEPT ![t] = NoSession]
Ended(s, outcome)  == [NoSession EXCEPT !.pc = "ended", !.epoch = s.epoch, !.outcome = outcome]
Result(t, outcome) == sess' = [sess EXCEPT ![t] = Ended(@, outcome)]
Fault              == faults < MaxFaults /\ faults' = faults + 1
Records            == UNCHANGED sessionVars
Reads              == UNCHANGED storeVars /\ Records

Authority(t) == Authoritative(t, sess[t].epoch)          \* AttemptAuthoritative
LowerOf(a, b) == IF a < b THEN a ELSE b

--------------------------------------------------------------------------------
(* The convergence budget, reconstructed from durable rows.                *)

Answered(t)        == {k \in DOMAIN turns[t] : turns[t][k].answer # Pending}
CallsOf(w)         == 1..w.answer.calls
CallsAnswered(t)   == UNION {{k} \X CallsOf(turns[t][k]) : k \in DOMAIN turns[t]}
ModelDecisions(t)  == Cardinality(Answered(t))
WorkerToolCalls(t) == Cardinality(CallsAnswered(t))
Attempts(t)        == epoch[t]

(* What an attempt has to show: its latest valid checkpoint, if any.       *)
ProgressOf(t, e) == progress[t][e]

(* Trailing terminated attempts whose progress equals the last one's.      *)
Terminated(t) == {e \in Epochs : authority[t][e] = "PHYSICALLY_TERMINATED"}
NoProgressStreak(t) ==
  LET last == CHOOSE e \in Terminated(t) : \A d \in Terminated(t) : d <= e
  IN IF Terminated(t) = {} THEN 0
     ELSE Cardinality({e \in Terminated(t) \ {last} :
            \A d \in Terminated(t) : d >= e => ProgressOf(t, d) = ProgressOf(t, last)})

(* One more attempt after the automatic ones needs the owner's choice as   *)
(* the latest control, made after the last attempt was proven terminated.  *)
ManualAttemptOverrideAllowed(t) ==
  /\ log[t] # <<>> /\ Last(log[t]).kind = "CHOICE"
  /\ epoch[t] \in Epochs /\ Last(log[t]).after = epoch[t]

ExhaustedReason(t) ==
  \/ NoProgressStreak(t) >= NoProgressLimit
  \/ ModelDecisions(t) >= MaxTaskDecisions
  \/ WorkerToolCalls(t) >= MaxTaskCalls
  \/ Attempts(t) >= MaxTaskAttempts /\ ~ManualAttemptOverrideAllowed(t)

(* Mutant: each attempt gets the whole budget of the task.                 *)
BoundedAgentConfigAfresh(t) ==
  [maxTurns |-> LowerOf(MaxEpisode, MaxTaskDecisions), maxCalls |-> MaxTaskCalls]
BoundedAgentConfig(t) ==
  [maxTurns |-> LowerOf(MaxEpisode, MaxTaskDecisions - ModelDecisions(t)),
   maxCalls |-> MaxTaskCalls - WorkerToolCalls(t)]

--------------------------------------------------------------------------------
(* The runner: admission.                                                  *)

CheckBudget(t) ==
  /\ At(t, "none") /\ state[t] = "WORKSPACE_READY" /\ workspace[t] = "READY"
  /\ IF ExhaustedReason(t)
       THEN BlockTask(t, "WORKSPACE_READY") /\ UNCHANGED sess
       ELSE /\ sess' = [sess EXCEPT ![t] = [NoSession EXCEPT !.pc = "begin",
                          !.maxTurns = BoundedAgentConfig(t).maxTurns,
                          !.maxCalls = BoundedAgentConfig(t).maxCalls]]
            /\ UNCHANGED storeVars
  /\ Records

(* The loop begins its first turn with everything unread; which brain it   *)
(* is, the configuration of this daemon says.                              *)
FirstTurn(s, e)    == [s EXCEPT !.pc = "check", !.epoch = e, !.turn = 1]
HarnessStart(s, e) == [s EXCEPT !.pc = "harness", !.epoch = e]

(* The owner may have cancelled meanwhile.                                 *)
Begin(t) ==
  /\ At(t, "begin")
  /\ \/ /\ BeginAttempt(t)
        /\ \E start \in {FirstTurn(sess[t], epoch[t] + 1), HarnessStart(sess[t], epoch[t] + 1)} :
             sess' = [sess EXCEPT ![t] = start]
     \/ state[t] # "WORKSPACE_READY" /\ End(t) /\ UNCHANGED storeVars
  /\ Records

(* A program of its own, in the sandbox and with a deadline: it asks       *)
(* nothing and reads no controls, and when it ends well it has a candidate.*)
HarnessRuns(t) ==
  /\ At(t, "harness") /\ Reads
  /\ \E outcome \in {"candidate", "error"} : Result(t, outcome)

--------------------------------------------------------------------------------
(* The loop, up to the question.                                           *)

(* A lost authority cancels the worker; the runner then blocks the task.   *)
CheckAttempt(t) ==
  /\ At(t, "check")
  /\ IF Authority(t) THEN Go(t, "controls") ELSE Result(t, "BLOCKED")
  /\ Reads

Page(t) == SubSeq(log[t], sess[t].seen + 1, LowerOf(Len(log[t]), sess[t].seen + ControlPage))
Has(page, kind) == \E k \in DOMAIN page : page[k].kind = kind

(* Mutant: the version is not advanced past what has been read.            *)
ConsumedNothing(t) == sess[t].seen
Consumed(t) == sess[t].seen + Len(Page(t))

(* One page per turn.  The brain is not shown these controls but those the *)
(* projection finds; only a cancellation counts here.                      *)
ConsumeControls(t) ==
  /\ At(t, "controls")
  /\ IF Has(Page(t), "CANCEL")
       THEN Result(t, "BLOCKED")
       ELSE sess' = [sess EXCEPT ![t].pc = "project", ![t].seen = Consumed(t)]
  /\ Reads

(* DecisionProjectionState validates authority and reads the latest        *)
(* control, then the latest of each kind.                                  *)
ProjectLatest(t) ==
  /\ At(t, "project")
  /\ IF Authority(t) THEN sess' = [sess EXCEPT ![t].pc = "kinds", ![t].latest = Len(log[t])]
                     ELSE Result(t, "BLOCKED")
  /\ Reads

(* A control that came in between has a version beyond the latest: the     *)
(* projection is refused and the task blocked.                             *)
ProjectionFits(t) == Len(log[t]) <= sess[t].latest
ProjectKinds(t) ==
  /\ At(t, "kinds")
  /\ IF ProjectionFits(t) THEN sess' = [sess EXCEPT ![t].pc = "ask", ![t].latest = 0]
                          ELSE Result(t, "BLOCKED")
  /\ Reads

(* Mutant: the request is identified by its turn, without the epoch.       *)
SameRequestAnyEpoch(t) == {k \in DOMAIN turns[t] : turns[t][k].turn = sess[t].turn}
SameRequest(t) == {k \in DOMAIN turns[t] : /\ turns[t][k].turn = sess[t].turn
                                           /\ turns[t][k].epoch = sess[t].epoch}

(* The turn is published and the task waits for the brain.                 *)
PublishWebTurn(t) ==
  /\ SameRequest(t) = {} /\ state[t] = "RUNNING" /\ Authority(t)
  /\ turns' = [turns EXCEPT ![t] = Append(@, [epoch |-> sess[t].epoch,
                                              turn |-> sess[t].turn, answer |-> Pending])]
  /\ Move(t, "INPUT_REQUIRED")
  /\ UNCHANGED <<epoch, authority, cancelControl, workspace, result, integration>>

Waits(t, k) == sess' = [sess EXCEPT ![t].pc = "wait", ![t].got = k]

(* RequestWebTurnForAttempt.  A task that is not RUNNING and an attempt    *)
(* that is stale fail the turn; a turn published before is taken up again. *)
AskBrain(t) ==
  /\ At(t, "ask")
  /\ \/ PublishWebTurn(t) /\ Waits(t, Len(turns[t]) + 1)
     \/ /\ \E k \in SameRequest(t) : Waits(t, k)
        /\ UNCHANGED <<storeVars, turns>>
     \/ /\ SameRequest(t) = {} /\ ~(state[t] = "RUNNING" /\ Authority(t))
        /\ Result(t, "BLOCKED") /\ UNCHANGED <<storeVars, turns>>
  /\ UNCHANGED <<log, progress, executed, faults>>

--------------------------------------------------------------------------------
(* Waiting for the brain, outside the active execution clock.              *)

Asked(t) == turns[t][sess[t].got]

(* A worker that gave its execution slot up for the wait (not every one    *)
(* does: Park may refuse, or the answer be there already) must have it     *)
(* back before the answer is handed over.                                  *)
PollAnswer(t) ==
  /\ At(t, "wait") /\ Asked(t).answer # Pending
  /\ Go(t, "act") \/ Go(t, "resume")
  /\ Reads

(* resumeExecutionCapacity: the daemon has a free slot and the governor    *)
(* admits the claim.  Capacity says when; here it is the environment's.    *)
CapacityGranted(t) == At(t, "resume") /\ Go(t, "act") /\ Reads

(* No timer runs while the slot is awaited: a refused heartbeat ends it,   *)
(* the end of the run's context, or an error of the governor.              *)
ResumeEnds(t) == At(t, "resume") /\ Result(t, "BLOCKED") /\ Reads

(* Mutant: only a refused heartbeat ends the wait.                         *)
WaitEndsFenced(t) ==
  /\ At(t, "wait") /\ ~Authority(t)
  /\ Result(t, "BLOCKED") /\ Reads

(* The timer of 24 hours, or a heartbeat of a fenced attempt, even if the  *)
(* answer came since the last poll.                                        *)
WaitEnds(t) == At(t, "wait") /\ Result(t, "BLOCKED") /\ Reads

(* A brain may answer any turn it has ever been shown, once.  Delivered    *)
(* again the same answer changes nothing and another one is refused.       *)
RespondWebTurn(t, k, answer) ==
  /\ turns[t][k].answer = Pending /\ state[t] = "INPUT_REQUIRED"
  /\ Authoritative(t, turns[t][k].epoch)
  /\ turns' = [turns EXCEPT ![t][k].answer = answer]
  /\ Move(t, "RUNNING")
  /\ UNCHANGED <<epoch, authority, cancelControl, workspace, result, integration>>

Respond(t) ==
  /\ \E k \in DOMAIN turns[t], answer \in Answers : RespondWebTurn(t, k, answer)
  /\ UNCHANGED <<sess, log, progress, executed, faults>>

--------------------------------------------------------------------------------
(* Acting on the answer.                                                   *)

Turned(s) == [s EXCEPT !.pc = "check", !.turn = @ + 1, !.got = 0, !.todo = 0, !.latest = 0]
NextTurn(t, s) ==
  sess' = [sess EXCEPT ![t] = IF s.turn < s.maxTurns THEN Turned(s) ELSE Ended(s, "RETRY_WAIT")]

OverCallBudget(t) == sess[t].calls + Asked(t).answer.calls > sess[t].maxCalls

ActOn(t) ==
  /\ At(t, "act")
  /\ LET kind == Asked(t).answer.kind IN
       \/ kind = "block" /\ Result(t, "BLOCKED")
       \/ OverCallBudget(t) /\ Result(t, "RETRY_WAIT")
       \/ kind = "finish" /\ ~OverCallBudget(t) /\ Result(t, "candidate")
       \/ /\ kind \notin {"block", "finish"} /\ ~OverCallBudget(t)
          /\ sess' = [sess EXCEPT ![t].calls = @ + Asked(t).answer.calls,
                                  ![t].todo = Asked(t).answer.calls, ![t].pc = kind]
  /\ Reads

(* One call after the other; the authority is asked again before one that  *)
(* writes, not before one that reads.                                      *)
ExecuteTools(t) ==
  /\ At(t, "tools")
  /\ \/ /\ executed' = [executed EXCEPT ![t] = @ + 1]
        /\ IF sess[t].todo > 1 THEN sess' = [sess EXCEPT ![t].todo = @ - 1]
                               ELSE NextTurn(t, sess[t])
     \/ ~Authority(t) /\ Result(t, "BLOCKED") /\ UNCHANGED executed
  /\ UNCHANGED <<storeVars, log, turns, progress, faults>>

PublishCheckpoint(t) == progress' = [progress EXCEPT ![t][sess[t].epoch] = "some"]

Checkpoint(t) ==
  /\ At(t, "checkpoint")
  /\ IF Authority(t)
       THEN PublishCheckpoint(t) /\ NextTurn(t, sess[t])
       ELSE Result(t, "BLOCKED") /\ UNCHANGED progress
  /\ UNCHANGED <<storeVars, log, turns, executed, faults>>

EnterInputRequired(t) ==
  /\ At(t, "input")
  /\ IF Authority(t) /\ state[t] = "RUNNING"
       THEN /\ TransitionForAttempt(t, sess[t].epoch, "INPUT_REQUIRED")
            /\ sess' = [sess EXCEPT ![t].pc = "waitInput", ![t].latest = Len(log[t])]
       ELSE Result(t, "BLOCKED") /\ UNCHANGED storeVars
  /\ Records

(* waitForInput: every poll asks for the authority and the next page.      *)
PollInput(t) ==
  /\ At(t, "waitInput")
  /\ LET page == Page(t)
         s    == [sess[t] EXCEPT !.seen = Consumed(t)]
     IN \/ (~Authority(t) \/ Has(page, "CANCEL")) /\ Result(t, "BLOCKED")
        \/ /\ Authority(t) /\ ~Has(page, "CANCEL") /\ Has(page, "INPUT")
           /\ NextTurn(t, s)
        \/ /\ Authority(t) /\ page # <<>> /\ ~Has(page, "CANCEL") /\ ~Has(page, "INPUT")
           /\ sess' = [sess EXCEPT ![t] = s]
  /\ Reads

(* The active execution clock, which runs while the owner is asked.        *)
ClockExpires(t) ==
  /\ sess[t].pc \in {"check", "tools", "waitInput"}
  /\ Result(t, "RETRY_WAIT") /\ Reads

--------------------------------------------------------------------------------
(* The runner: what follows the worker's result.                           *)

InWorker(t) == sess[t].pc \in {"harness", "check", "controls", "project", "kinds", "ask", "wait",
                               "resume", "act", "tools", "checkpoint", "input", "waitInput"}

(* A heartbeat is refused, or the worker breaks or breaks the protocol.    *)
WorkerFails(t) ==
  /\ InWorker(t) /\ Result(t, "error")
  /\ IF Authority(t) THEN Fault ELSE UNCHANGED faults
  /\ UNCHANGED <<storeVars, log, turns, progress, executed>>

CheckCancel(t) ==
  /\ At(t, "ended")
  /\ Go(t, CASE cancelControl[t] -> "confirm"
             [] ~cancelControl[t] /\ sess[t].outcome = "candidate" -> "verify"
             [] OTHER -> "finish")
  /\ Reads

CanTransition(t, to) == Authority(t) /\ <<state[t], to>> \in AttemptTransitions

(* A failed worker is confirmed terminated in any case, a finished one     *)
(* only when its outcome could be recorded.                                *)
Finish(t) ==
  /\ At(t, "finish")
  /\ LET to == IF sess[t].outcome = "error" THEN "BLOCKED" ELSE sess[t].outcome IN
       \/ CanTransition(t, to) /\ TransitionForAttempt(t, sess[t].epoch, to) /\ Go(t, "confirm")
       \/ /\ ~CanTransition(t, to) /\ UNCHANGED storeVars
          /\ IF sess[t].outcome = "error" THEN Go(t, "confirm") ELSE End(t)
  /\ Records

Verify(t) ==
  /\ At(t, "verify")
  /\ \/ /\ CanTransition(t, "VERIFYING") /\ Go(t, "outcome")
        /\ TransitionForAttempt(t, sess[t].epoch, "VERIFYING")
     \/ ~CanTransition(t, "VERIFYING") /\ Go(t, "confirm") /\ UNCHANGED storeVars
  /\ Records
VerifyOutcome(t) ==
  /\ At(t, "outcome") /\ Go(t, "confirm")
  /\ IF CanTransition(t, "BLOCKED") THEN PersistVerificationOutcome(t, sess[t].epoch)
                                    ELSE UNCHANGED storeVars
  /\ Records

Confirm(t) ==
  /\ At(t, "confirm") /\ Go(t, "finalize") /\ Records
  /\ IF sess[t].epoch \in OpenEpochs(t) THEN ConfirmAttemptTerminated(t, sess[t].epoch)
                                       ELSE UNCHANGED storeVars
Finalize(t) ==
  /\ At(t, "finalize") /\ End(t) /\ Records
  /\ IF cancelControl[t] /\ state[t] # "CANCELLED" THEN FinalizeTaskCancellation(t)
                                                  ELSE UNCHANGED storeVars

--------------------------------------------------------------------------------
(* The daemon around the sessions, and the owner.                          *)

(* The daemon dies and takes the worker with it.                           *)
Crash ==
  /\ \E t \in Tasks : ~At(t, "none")
  /\ Fault /\ sess' = [t \in Tasks |-> NoSession]
  /\ UNCHANGED <<storeVars, log, turns, progress, executed>>

(* Orphans are fenced, and terminated once that can be proven; a lease     *)
(* that runs out fences a live attempt.                                    *)
Reconcile(t) ==
  /\ epoch[t] \in Epochs /\ ~Quiescent(t) /\ UNCHANGED <<sess, log, turns, progress, executed>>
  /\ \/ /\ At(t, "none") /\ (state[t] # "BLOCKED" \/ Authoritative(t, epoch[t]))
        /\ RequirePhysicalRecovery(t, epoch[t]) /\ UNCHANGED faults
     \/ At(t, "none") /\ ConfirmAttemptTerminated(t, epoch[t]) /\ UNCHANGED faults
     \/ ~At(t, "none") /\ Authority(t) /\ RequirePhysicalRecovery(t, epoch[t]) /\ Fault

(* The automatic retry has a limit of its own, DaemonConfig.MaxAttempts.   *)
Replace(t) ==
  /\ At(t, "none")
  /\ \/ BlockTask(t, "RETRY_WAIT") \/ RecoverTaskToWorkspaceReady(t, "RETRY_WAIT")
     \/ choice[t] /\ Quiescent(t) /\ RecoverBlockedChoice(t)
  /\ UNCHANGED sess /\ Records

Publish(t, kind) ==
  /\ Len(log[t]) < MaxControls                             \* the model's bound
  /\ log' = [log EXCEPT ![t] = Append(@, Control(t, kind))]
  /\ UNCHANGED <<sess, turns, progress, executed, faults>>

OwnerSteers(t)  == \/ Steer(t, FALSE) /\ Publish(t, "STEER")
                   \/ Steer(t, TRUE) /\ Publish(t, "CHOICE")
OwnerInputs(t)  == PublishTaskInput(t) /\ Publish(t, "INPUT")
OwnerCancels(t) == RequestTaskCancellation(t) /\ Publish(t, "CANCEL")

--------------------------------------------------------------------------------
(* The task has its workspace; no attempt has begun.                       *)
SessionInit ==
  /\ state         = [t \in Tasks |-> "WORKSPACE_READY"]
  /\ epoch         = [t \in Tasks |-> 0]
  /\ authority     = [t \in Tasks |-> [e \in Epochs |-> "NONE"]]
  /\ cancelControl = [t \in Tasks |-> FALSE]
  /\ choice        = [t \in Tasks |-> FALSE]
  /\ workspace     = [t \in Tasks |-> "READY"]
  /\ result        = [t \in Tasks |-> "NONE"]
  /\ integration   = [t \in Tasks |-> "NONE"]
  /\ log = [t \in Tasks |-> <<>>] /\ turns = [t \in Tasks |-> <<>>]
  /\ progress = [t \in Tasks |-> [e \in Epochs |-> "none"]]
  /\ sess = [t \in Tasks |-> NoSession]
  /\ executed = [t \in Tasks |-> 0] /\ faults = 0

LoopStep(t) ==
  \/ HarnessRuns(t) \/ CheckAttempt(t) \/ ConsumeControls(t) \/ ProjectLatest(t) \/ ProjectKinds(t)
  \/ AskBrain(t) \/ PollAnswer(t) \/ ActOn(t) \/ ExecuteTools(t)
  \/ Checkpoint(t) \/ EnterInputRequired(t) \/ PollInput(t)
RunnerStep(t) ==
  \/ CheckBudget(t) \/ Begin(t) \/ CheckCancel(t) \/ Finish(t) \/ Verify(t)
  \/ VerifyOutcome(t) \/ Confirm(t) \/ Finalize(t)
TimerStep(t)  == WaitEnds(t) \/ ClockExpires(t)
ResumeStep(t) == CapacityGranted(t) \/ ResumeEnds(t)
DaemonStep(t) == Reconcile(t) \/ Replace(t)
OwnerStep(t)  == OwnerSteers(t) \/ OwnerInputs(t) \/ OwnerCancels(t)

SessionNext ==
  \/ Crash
  \/ \E t \in Tasks : \/ LoopStep(t) \/ RunnerStep(t) \/ TimerStep(t) \/ ResumeStep(t)
                      \/ WorkerFails(t)
                      \/ DaemonStep(t) \/ OwnerStep(t) \/ Respond(t)

SessionSpec == SessionInit /\ [][SessionNext]_allVars

(* The worker, its runner and the two timers go on, and the heartbeat of a *)
(* fenced attempt is refused while it waits for its slot.  Nothing obliges *)
(* a brain to answer, an owner to speak, the daemon and the governor to    *)
(* grant a slot, or a fault to happen.                                     *)
FairSessionSpec ==
  /\ SessionSpec
  /\ \A t \in Tasks : /\ WF_allVars(LoopStep(t)) /\ WF_allVars(RunnerStep(t))
                      /\ WF_allVars(TimerStep(t))
                      /\ WF_allVars(ResumeEnds(t) /\ ~Authority(t))

--------------------------------------------------------------------------------
(* A worker acts only on the answer to the question it asked itself, in    *)
(* this attempt and this turn, never on one left over from an earlier one. *)
AnswerForAsker ==
  \A t \in Tasks : sess[t].pc \in {"resume", "act", "tools", "checkpoint", "input",
                                       "waitInput"} =>
    /\ Asked(t).epoch = sess[t].epoch /\ Asked(t).turn = sess[t].turn
    /\ Asked(t).answer # Pending

(* Over all attempts of a task, crashes and restarts included, the brain   *)
(* decides and the workers act no more often than the task's budget says,  *)
(* and the durable rows never account for less than was carried out.       *)
WithinTaskBudget ==
  \A t \in Tasks : /\ ModelDecisions(t) <= MaxTaskDecisions
                   /\ executed[t] <= MaxTaskCalls /\ executed[t] <= WorkerToolCalls(t)

(* As long as all controls of a task fit one page, a worker that asked its *)
(* owner goes on only with an input given after it asked.                  *)
InputNotReplayed ==
  [][\A t \in Tasks :
       sess[t].pc = "waitInput" /\ sess'[t].pc = "check" /\ Len(log[t]) <= ControlPage
       => \E k \in (sess[t].latest + 1)..Len(log[t]) : log[t][k].kind = "INPUT"]_allVars

(* A session ends, whether or not a brain or an owner ever answers, unless *)
(* it has its answer and the slot it waits for is never granted: then only *)
(* the loss of its authority, by a cancellation for one, ends it.          *)
Starved(t)  == At(t, "resume") /\ Authority(t)
SessionEnds == \A t \in Tasks : sess[t].pc # "none" ~> (sess[t].pc = "none" \/ []Starved(t))
================================================================================
