-------------------------------- MODULE Candidate --------------------------------
(***************************************************************************)
(* From a worker's claim that it is done to a candidate the integration    *)
(* gate lets through: the side-effect ledger, the sealer that commits the  *)
(* worktree under it, the verifier that runs the profile and records the   *)
(* evidence, and the gate that asks whether the evidence is still fresh.   *)
(* Between two attempts a blocked task's worktree may be compacted into a  *)
(* commit that no seal made, and rebuilt from it.                          *)
(* Each git command and each store transaction is one action: a crash, a   *)
(* cancellation, a write to the worktree or a change of the toolchain      *)
(* falls between any two of them.  Transactions are those of TaskStore.    *)
(***************************************************************************)
EXTENDS TaskStore, Sequences

CONSTANTS Paths,       \* the paths of the repository
          TestPaths,   \* those a changed-test policy turns into a command
          ScopePaths,  \* those the profile's change scope admits
          MaxWrites,   \* bound on the contents written to a task's worktree
          MaxFaults,   \* bound on crashes, git errors, foreign writes and toolchain changes
          Earlier,     \* a task of the project that was verified before these begin
          Reseals      \* a caller may ask again for a seal that failed

ASSUME CandidateAssumption ==
  /\ TestPaths \subseteq Paths /\ ScopePaths \subseteq Paths
  /\ MaxWrites \in Nat /\ MaxFaults \in Nat /\ Reseals \in BOOLEAN /\ Earlier \notin Tasks

VARIABLES
  headRow,    \* workspaces.head_revision
  effects,    \* effect_intents, one seal operation by task and epoch
  evidence,   \* what the latest PASS evidence of a task says, or NoEvidence
  commits,    \* the commits above the base of a task; HEAD, or the snapshot of a
              \* compacted worktree, is the last
  index,      \* its git index
  tree,       \* its files
  written,    \* contents written to it so far
  toolchain,  \* the identity of the host's toolchain
  run,        \* the runner of each task: worker, sealer, verifier, see NoRun
  faults

ledgerVars    == <<headRow, effects, evidence>>
gitVars       == <<commits, index>>
outsideVars   == <<tree, written, toolchain, faults>>
candidateVars == <<storeVars, ledgerVars, gitVars, outsideVars, run>>

(* The content of a path is a number, 0 at the base; a new content is a    *)
(* new number.  A revision of a task is the number of commits it has.  A   *)
(* commit is of the epoch whose seal made it, or of 0 if it is a snapshot. *)
BaseTree    == [p \in Paths |-> 0]
GitHead(t)  == Len(commits[t])
TreeAt(t, revision) == IF revision = 0 THEN BaseTree ELSE commits[t][revision].tree
Diff(a, b)  == {p \in Paths : a[p] # b[p]}
ChangedPaths(t) == Diff(tree[t], TreeAt(t, GitHead(t)))
Only(a, b, paths) == [p \in Paths |-> IF p \in paths THEN a[p] ELSE b[p]]

(* The commands a profile stands for, given the paths that changed.        *)
Commands(paths) == {"static"} \cup (paths \cap TestPaths)

(* intent: the HEAD it expects and the tree whose hash it binds.           *)
NoEffect   == [state |-> "NONE", expected |-> 0, authorized |-> BaseTree]
NoEvidence == [revision |-> -1, passed |-> {}, planned |-> {}, env |-> 0, saw |-> {},
               oracle |-> BaseTree]

(* What a task that changed nothing leaves behind.                         *)
UnchangedEvidence == [revision |-> 0, passed |-> Commands({}), planned |-> Commands({}),
                      env |-> 0, saw |-> {<<BaseTree, 0>>}, oracle |-> BaseTree]

(* revision, paths: the sealed candidate; env: captured at the start; todo:*)
(* commands left; passed; ok: none has failed; saw: what the commands      *)
(* found, tree and toolchain; stable: the second look agreed.              *)
NoRun == [pc |-> "none", epoch |-> 0, revision |-> 0, paths |-> {}, env |-> 0, todo |-> {},
          passed |-> {}, ok |-> TRUE, saw |-> {}, stable |-> TRUE]

At(t, pc)    == run[t].pc = pc
Go(t, pc)    == run' = [run EXCEPT ![t].pc = pc]
End(t)       == run' = [run EXCEPT ![t] = NoRun]
Fail(t)      == run' = [run EXCEPT ![t] = [NoRun EXCEPT !.pc = "failed", !.epoch = run[t].epoch]]
Fault        == faults < MaxFaults /\ faults' = faults + 1
Effect(t)    == effects[t][run[t].epoch]
SetEffect(t, s) == effects' = [effects EXCEPT ![t][run[t].epoch].state = s]
Authority(t) == Authoritative(t, run[t].epoch)       \* ValidateAttemptAuthority
Outside      == UNCHANGED outsideVars
NoStore      == UNCHANGED <<storeVars, ledgerVars>>
Reads        == NoStore /\ UNCHANGED gitVars /\ Outside

--------------------------------------------------------------------------------
(* The worker writes until it claims a candidate or gives up; what it has  *)
(* written stays in the worktree for the next attempt.                     *)

Begin(t) ==
  /\ At(t, "none") /\ BeginAttempt(t)
  /\ run' = [run EXCEPT ![t] = [NoRun EXCEPT !.pc = "work", !.epoch = epoch[t] + 1]]
  /\ UNCHANGED ledgerVars /\ UNCHANGED gitVars /\ Outside

(* A new content, or the base's again.                                     *)
Work(t, p) ==
  /\ At(t, "work")
  /\ \/ /\ written[t] < MaxWrites                          \* the model's bound
        /\ written' = [written EXCEPT ![t] = @ + 1]
        /\ tree' = [tree EXCEPT ![t][p] = written[t] + 1]
     \/ tree[t][p] # 0 /\ tree' = [tree EXCEPT ![t][p] = 0] /\ UNCHANGED written
  /\ NoStore /\ UNCHANGED <<gitVars, toolchain, faults, run>>

CompleteCandidate(t) == At(t, "work") /\ Go(t, "seal") /\ Reads

GiveUp(t) ==
  /\ At(t, "work")
  /\ \E to \in {"BLOCKED", "RETRY_WAIT"} : TransitionForAttempt(t, run[t].epoch, to)
  /\ Go(t, "confirm") /\ UNCHANGED ledgerVars /\ UNCHANGED gitVars /\ Outside

--------------------------------------------------------------------------------
(* The ledger.  A dispatched effect is never dispatched again before it    *)
(* has been observed; one observed as not applied is rearmed explicitly.   *)

(* Plan and classify, for the operation of this attempt.                   *)
Decision(effect) ==
  CASE effect.state \in {"NONE", "PREPARED"} -> "dispatch"
    [] effect.state = "DISPATCHED"  -> "uncertain"
    [] effect.state = "APPLIED"     -> "applied"
    [] effect.state = "NOT_APPLIED" -> "rearm"

(* Plan: PrepareEffect needs authority unless the effect is past PREPARED. *)
PrepareEffect(t, intent) ==
  /\ Authority(t)
  /\ effects' = [effects EXCEPT ![t][run[t].epoch] = intent]

AuthorizeDispatch(t) ==
  Authority(t) /\ Effect(t).state = "PREPARED" /\ SetEffect(t, "DISPATCHED")

(* Only an effect that was observed as not applied goes back to PREPARED.  *)
Rearmed(effect) == [effect EXCEPT !.state = "PREPARED"]

(* ObserveEffect: no authority is asked of an observation.                 *)
Observe(t, outcome) == Effect(t).state = "DISPATCHED" /\ SetEffect(t, outcome)

--------------------------------------------------------------------------------
(* CandidateSealer.Seal.                                                   *)

Sealable(t) == Authority(t) /\ state[t] = "RUNNING" /\ workspace[t] = "READY"

(* No effect of this attempt yet: HEAD must be the durable one; without a  *)
(* change HEAD itself is the candidate.                                    *)
SealUnchanged(t) ==
  /\ At(t, "seal") /\ Sealable(t) /\ Effect(t).state = "NONE"
  /\ GitHead(t) = headRow[t] /\ ChangedPaths(t) = {}
  /\ run' = [run EXCEPT ![t].pc = "admit", ![t].revision = GitHead(t), ![t].paths = {}]
  /\ Reads
SealChanged(t) ==
  /\ At(t, "seal") /\ Sealable(t) /\ Effect(t).state = "NONE"
  /\ GitHead(t) = headRow[t] /\ ChangedPaths(t) # {}
  /\ PrepareEffect(t, [state |-> "PREPARED", expected |-> GitHead(t), authorized |-> tree[t]])
  /\ Go(t, "dispatch")
  /\ UNCHANGED <<storeVars, headRow, evidence, gitVars>> /\ Outside

(* resumeExistingSeal: the effect decides, not the worktree.               *)
SealAgain(t) ==
  /\ At(t, "seal") /\ Sealable(t) /\ Effect(t).state # "NONE"
  /\ LET decision == Decision(Effect(t)) IN
       IF decision \in {"dispatch", "rearm"}
         THEN /\ PrepareEffect(t, Rearmed(Effect(t)))
              /\ Go(t, "dispatch")
         ELSE UNCHANGED effects /\ Go(t, IF decision = "applied" THEN "inspect:applied"
                                                               ELSE "inspect:uncertain")
  /\ UNCHANGED <<storeVars, headRow, evidence, gitVars>> /\ Outside
SealRefused(t) ==
  /\ At(t, "seal")
  /\ ~Sealable(t) \/ (Effect(t).state = "NONE" /\ GitHead(t) # headRow[t])
  /\ Fail(t) /\ Reads

(* DISPATCHED is durable before git is asked to do anything.               *)
Dispatch(t) ==
  /\ At(t, "dispatch")
  /\ \/ /\ AuthorizeDispatch(t) /\ Go(t, "compare")
        /\ UNCHANGED <<storeVars, headRow, evidence>>
     \/ ~Authority(t) /\ Fail(t) /\ NoStore
  /\ UNCHANGED gitVars /\ Outside

IntentPaths(effect, t) == Diff(effect.authorized, TreeAt(t, effect.expected))
StateMatches(t) == \A p \in IntentPaths(Effect(t), t) : tree[t][p] = Effect(t).authorized[p]

Compare(t) ==
  /\ At(t, "compare")
  /\ IF StateMatches(t) THEN Go(t, "add") /\ NoStore
     ELSE /\ Observe(t, "NOT_APPLIED") /\ Fail(t)
          /\ UNCHANGED <<storeVars, headRow, evidence>>
  /\ UNCHANGED gitVars /\ Outside

(* A git command that is killed or times out may have done its work.       *)
GitAdd(t) ==
  /\ At(t, "add")
  /\ LET added == [index EXCEPT ![t] = Only(tree[t], @, IntentPaths(Effect(t), t))] IN
       \/ index' = added /\ Go(t, "commit") /\ UNCHANGED faults
       \/ index' \in {index, added} /\ Go(t, "inspect:error") /\ Fault
  /\ NoStore /\ UNCHANGED <<commits, tree, written, toolchain>>

GitCommit(t) ==
  /\ At(t, "commit")
  /\ LET commit    == [tree |-> index[t], epoch |-> run[t].epoch]
         committed == [commits EXCEPT ![t] = Append(@, commit)] IN
       \/ commits' = committed /\ Go(t, "inspect:applied") /\ UNCHANGED faults
       \/ commits' \in {commits, committed} /\ Go(t, "inspect:error") /\ Fault
  /\ NoStore /\ UNCHANGED <<index, tree, written, toolchain>>

(* Mutant: HEAD's parent and message are enough.                           *)
InspectByName(t) ==
  IF GitHead(t) = Effect(t).expected THEN "notApplied"
  ELSE IF GitHead(t) = Effect(t).expected + 1 /\ commits[t][GitHead(t)].epoch = run[t].epoch
    THEN "applied" ELSE "inconclusive"

(* HEAD where it was, or one commit further that is this operation's, with *)
(* its changed paths and its content; anything else settles nothing.       *)
InspectSeal(t) ==
  LET effect == Effect(t) IN
  IF GitHead(t) = effect.expected THEN "notApplied"
  ELSE IF /\ GitHead(t) = effect.expected + 1
          /\ commits[t][GitHead(t)].epoch = run[t].epoch              \* the message
          /\ Diff(TreeAt(t, GitHead(t)), TreeAt(t, effect.expected)) = IntentPaths(effect, t)
          /\ StateMatches(t)
          /\ \A p \in IntentPaths(effect, t) : tree[t][p] = TreeAt(t, GitHead(t))[p]
    THEN "applied" ELSE "inconclusive"

(* reconcileApplied, reconcileUncertain and reconcileAfterCommandError.    *)
Reconciling(t) == run[t].pc \in {"inspect:applied", "inspect:uncertain", "inspect:error"}
ReconcileSeal(t) ==
  /\ Reconciling(t)
  /\ LET found == InspectSeal(t) IN
       \/ /\ found = "applied" /\ Go(t, "record")
          /\ Observe(t, "APPLIED") \/ (Effect(t).state = "APPLIED" /\ UNCHANGED effects)
       \/ /\ found = "notApplied" /\ ~At(t, "inspect:applied")
          /\ Observe(t, "NOT_APPLIED") /\ Fail(t)
       \/ /\ found = "inconclusive" \/ (found = "notApplied" /\ At(t, "inspect:applied"))
          /\ UNCHANGED effects /\ Fail(t)
  /\ UNCHANGED <<storeVars, headRow, evidence, gitVars>> /\ Outside

(* RecordWorkspaceHeadForAttempt: from the head the intent expected, or    *)
(* already there.                                                          *)
RecordWorkspaceHead(t) ==
  /\ At(t, "record")
  /\ IF Authority(t) /\ workspace[t] = "READY" /\ headRow[t] \in {Effect(t).expected, GitHead(t)}
       THEN /\ headRow' = [headRow EXCEPT ![t] = GitHead(t)]
            /\ run' = [run EXCEPT ![t].pc = "admit", ![t].revision = GitHead(t),
                                  ![t].paths = IntentPaths(Effect(t), t)]
       ELSE UNCHANGED headRow /\ Fail(t)
  /\ UNCHANGED <<storeVars, effects, evidence, gitVars>> /\ Outside

(* The sealer's contract covers a caller that asks again.                  *)
Reseal(t) == Reseals /\ At(t, "failed") /\ Sealable(t) /\ Go(t, "seal") /\ Reads

--------------------------------------------------------------------------------
(* Verifier.Verify, from the sealed candidate on.                          *)

CleanAt(t, revision) ==                                  \* assertCandidateHead
  /\ workspace[t] = "READY" /\ headRow[t] = revision
  /\ GitHead(t) = revision /\ ChangedPaths(t) = {}

(* The change scope is asked of what this attempt changed.                 *)
Admissible(t) == run[t].paths \subseteq ScopePaths /\ CleanAt(t, run[t].revision)

Admit(t) ==
  /\ At(t, "admit")
  /\ \/ /\ Admissible(t) /\ TransitionForAttempt(t, run[t].epoch, "VERIFYING")
        /\ Go(t, "identify")
     \/ (~Admissible(t) \/ ~Authority(t)) /\ Fail(t) /\ UNCHANGED storeVars
  /\ UNCHANGED ledgerVars /\ UNCHANGED gitVars /\ Outside

(* Another task's PASS evidence for the same revision, profile and         *)
(* environment stands in for the commands of a candidate without changes.  *)
(* Only the base is a revision of two tasks.                               *)
Reusable(t, u) ==
  /\ u # t /\ run[t].paths = {} /\ run[t].revision = 0
  /\ evidence[u].revision = 0 /\ evidence[u].planned = Commands({})
  /\ evidence[u].env = toolchain

Identify(t) ==
  /\ At(t, "identify")
  /\ \/ \E u \in Tasks \cup {Earlier} : Reusable(t, u) /\
          run' = [run EXCEPT ![t].pc = "commands", ![t].env = toolchain,
                             ![t].passed = evidence[u].passed, ![t].saw = evidence[u].saw]
     \/ /\ \/ \A u \in Tasks \cup {Earlier} : ~Reusable(t, u)
           \/ run[t].paths = {}            \* an acceptance check that needs their output
        /\ run' = [run EXCEPT ![t].pc = "commands", ![t].env = toolchain,
                              ![t].todo = Commands(run[t].paths)]
  /\ Reads

(* One command after the other, up to the first that fails; authority is   *)
(* asked before each and once more at the end.                             *)
RunCommand(t, c) ==
  /\ At(t, "commands") /\ Authority(t) /\ c \in run[t].todo
  /\ LET looked == [run EXCEPT ![t].saw = @ \cup {<<tree[t], toolchain>>}] IN
       \/ run' = [looked EXCEPT ![t].todo = @ \ {c}, ![t].passed = @ \cup {c}]
       \/ run' = [looked EXCEPT ![t].todo = {}, ![t].ok = FALSE]
  /\ Reads
CommandsRun(t) ==
  /\ At(t, "commands") /\ Authority(t) /\ run[t].todo = {}
  /\ Go(t, "settle") /\ Reads
LosesAuthority(t) ==
  At(t, "commands") /\ ~Authority(t) /\ Fail(t) /\ Reads

(* Mutant: the worktree is looked at before the commands only.             *)
SettledOfToolchain(t) == toolchain = run[t].env
Settled(t) == toolchain = run[t].env /\ CleanAt(t, run[t].revision)

Settle(t) ==
  /\ At(t, "settle")
  /\ run' = [run EXCEPT ![t].pc = "persist", ![t].stable = Settled(t)]
  /\ Reads

(* The acceptance oracles: what a command printed, or a file's content now;*)
(* a criterion without one stays unverified.                               *)
OracleOutcomes == {"PASS", "FAIL", "UNVERIFIED"}

Verdict(s, oracle) ==
  IF ~s.ok \/ oracle = "FAIL" THEN "FAIL"
  ELSE IF ~s.stable \/ oracle = "UNVERIFIED" THEN "UNVERIFIED" ELSE "PASS"
Target(s, verdict) ==
  CASE verdict = "PASS" -> "VERIFIED"
    [] verdict = "FAIL" /\ ~s.ok -> "RETRY_WAIT"
    [] OTHER -> "BLOCKED"

(* The outcome is one transaction with the task's new state, fenced by the *)
(* attempt's authority and by the durable head.                            *)
Persist(t) ==
  /\ At(t, "persist")
  /\ \/ /\ headRow[t] = run[t].revision
        /\ \E oracle \in OracleOutcomes :
             LET verdict == Verdict(run[t], oracle) IN
             /\ PersistVerificationOutcome(t, run[t].epoch)
             /\ state'[t] = Target(run[t], verdict)
             /\ evidence' = [evidence EXCEPT ![t] = IF verdict # "PASS" THEN NoEvidence ELSE
                  [revision |-> run[t].revision, planned |-> Commands(run[t].paths),
                   passed |-> run[t].passed, env |-> run[t].env, saw |-> run[t].saw,
                   oracle |-> tree[t]]]
        /\ Go(t, "confirm") /\ UNCHANGED <<headRow, effects>>
     \/ (~Authority(t) \/ headRow[t] # run[t].revision) /\ Fail(t) /\ NoStore
  /\ UNCHANGED gitVars /\ Outside

--------------------------------------------------------------------------------
(* The runner afterwards: an error blocks the task if the attempt still    *)
(* has its authority; then the worker's termination is recorded.           *)

BlockFailed(t) ==
  /\ At(t, "failed")
  /\ \/ TransitionForAttempt(t, run[t].epoch, "BLOCKED")
     \/ ~Authority(t) /\ UNCHANGED storeVars
  /\ Go(t, "confirm") /\ UNCHANGED ledgerVars /\ UNCHANGED gitVars /\ Outside
Confirm(t) ==
  /\ At(t, "confirm") /\ ConfirmAttemptTerminated(t, run[t].epoch) /\ End(t)
  /\ UNCHANGED ledgerVars /\ UNCHANGED gitVars /\ Outside

(* EvidenceFresh: the gate derives the plan again, from all paths between  *)
(* the base and the candidate.                                             *)
(* Mutant: the plan recorded with the evidence is believed.                *)
EvidenceFreshAsPlanned(t) ==
  /\ evidence[t] # NoEvidence /\ CleanAt(t, evidence[t].revision)
  /\ evidence[t].env = toolchain
EvidenceFresh(t) ==
  /\ evidence[t] # NoEvidence /\ CleanAt(t, evidence[t].revision)
  /\ evidence[t].planned = Commands(Diff(TreeAt(t, evidence[t].revision), BaseTree))
  /\ evidence[t].env = toolchain

(* Integrate, up to the attempt it prepares; see Integration for the rest. *)
Integrate(t) ==
  /\ At(t, "none") /\ EvidenceFresh(t) /\ PrepareIntegrationAttempt(t)
  /\ UNCHANGED <<ledgerVars, run>> /\ UNCHANGED gitVars /\ Outside

--------------------------------------------------------------------------------
(* Compaction and rehydration.  WorkspaceManager has them call by call,    *)
(* with refs, checkpoint rows and crashes; here each is a first            *)
(* transaction and the rest, for what they do to HEAD and its durable row. *)

BeginCompaction(t) ==
  /\ BeginWorkspaceCheckpoint(t)
  /\ UNCHANGED <<ledgerVars, gitVars, run>> /\ Outside

Dirty(t) == {index[t], tree[t]} # {TreeAt(t, GitHead(t))}

(* Mutant: the worktree is compacted wherever its HEAD is.                 *)
CompactAnyHead(t) ==
  /\ FinishWorkspaceCheckpoint(t)
  /\ commits' = IF ~Dirty(t) THEN commits ELSE
                  [commits EXCEPT ![t] = Append(@, [tree |-> tree[t], epoch |-> 0])]
  /\ UNCHANGED <<ledgerVars, index, run>> /\ Outside

(* HEAD has to be the durable one.  What differs from it is committed on   *)
(* top of it, and the worktree removed.                                    *)
Compact(t) ==
  /\ FinishWorkspaceCheckpoint(t) /\ GitHead(t) = headRow[t]
  /\ commits' = IF ~Dirty(t) THEN commits ELSE
                  [commits EXCEPT ![t] = Append(@, [tree |-> tree[t], epoch |-> 0])]
  /\ UNCHANGED <<ledgerVars, index, run>> /\ Outside

(* Refused for its HEAD, or failed or crashed before its row.              *)
AbandonCompaction(t) ==
  /\ AbortWorkspaceCheckpoint(t)
  /\ UNCHANGED <<ledgerVars, gitVars, run>> /\ Outside

(* The snapshot becomes the durable head, then the worktree is built at it *)
BeginRehydration(t) ==
  /\ BeginWorkspaceRehydrate(t)
  /\ headRow' = [headRow EXCEPT ![t] = GitHead(t)]
  /\ UNCHANGED <<effects, evidence, gitVars, run>> /\ Outside
Rehydrate(t) ==
  /\ MarkWorkspaceReady(t)
  /\ index' = [index EXCEPT ![t] = TreeAt(t, GitHead(t))]
  /\ tree'  = [tree EXCEPT ![t] = TreeAt(t, GitHead(t))]
  /\ UNCHANGED <<ledgerVars, commits, run, written, toolchain, faults>>

--------------------------------------------------------------------------------
(* Around them: the owner, the daemon after a crash, and the host.         *)

Store(t, transaction) ==
  transaction /\ UNCHANGED <<ledgerVars, gitVars, run>> /\ Outside
OwnerCancels(t)   == Store(t, RequestTaskCancellation(t))
OwnerChooses(t)   == Store(t, state[t] = "BLOCKED" /\ ~choice[t] /\ Steer(t, TRUE))
RecoverAttempt(t) ==
  At(t, "none") /\ Store(t, \E e \in Epochs : \/ RequirePhysicalRecovery(t, e)
                                              \/ ConfirmAttemptTerminated(t, e))
CancelSettled(t)  == At(t, "none") /\ Store(t, FinalizeTaskCancellation(t))
Retry(t) ==
  Store(t, \/ RecoverTaskToWorkspaceReady(t, "RETRY_WAIT")
           \/ choice[t] /\ Quiescent(t) /\ RecoverBlockedChoice(t))

Crash == /\ run # [t \in Tasks |-> NoRun] /\ run' = [t \in Tasks |-> NoRun] /\ Fault
         /\ NoStore /\ UNCHANGED <<gitVars, tree, written, toolchain>>

(* A verification command, or a process MAR knows nothing of, leaves a new *)
(* content in the worktree; none puts back what it found.                  *)
ForeignWrite(t, p) ==
  /\ ~At(t, "work") /\ workspace[t] \in {"READY", "CHECKPOINTING"}
  /\ written[t] < MaxWrites /\ Fault
  /\ written' = [written EXCEPT ![t] = @ + 1]
  /\ tree' = [tree EXCEPT ![t][p] = written[t] + 1]
  /\ NoStore /\ UNCHANGED <<gitVars, toolchain, run>>
ToolchainChanges == /\ toolchain' = toolchain + 1 /\ Fault
                    /\ NoStore /\ UNCHANGED <<gitVars, tree, written, run>>

--------------------------------------------------------------------------------
CandidateInit ==
  /\ state         = [t \in Tasks |-> "WORKSPACE_READY"]
  /\ epoch         = [t \in Tasks |-> 0]
  /\ authority     = [t \in Tasks |-> [e \in Epochs |-> "NONE"]]
  /\ cancelControl = [t \in Tasks |-> FALSE]
  /\ choice        = [t \in Tasks |-> FALSE]
  /\ workspace     = [t \in Tasks |-> "READY"]
  /\ result        = [t \in Tasks |-> "NONE"]
  /\ integration   = [t \in Tasks |-> "NONE"]
  /\ headRow  = [t \in Tasks |-> 0]
  /\ effects  = [t \in Tasks |-> [e \in Epochs |-> NoEffect]]
  /\ evidence \in {[t \in Tasks \cup {Earlier} |-> IF t = Earlier THEN e ELSE NoEvidence] :
                     e \in {NoEvidence, UnchangedEvidence}}
  /\ commits  = [t \in Tasks |-> <<>>]
  /\ index    = [t \in Tasks |-> BaseTree]
  /\ tree     = [t \in Tasks |-> BaseTree]
  /\ written  = [t \in Tasks |-> 0]
  /\ run      = [t \in Tasks |-> NoRun]
  /\ toolchain = 0 /\ faults = 0

WorkerNext(t) == \/ Begin(t) \/ CompleteCandidate(t) \/ GiveUp(t)
                 \/ \E p \in Paths : Work(t, p) \/ ForeignWrite(t, p)
SealerNext(t) == \/ SealUnchanged(t) \/ SealChanged(t) \/ SealAgain(t) \/ SealRefused(t)
                 \/ Dispatch(t) \/ Compare(t) \/ GitAdd(t) \/ GitCommit(t)
                 \/ ReconcileSeal(t) \/ RecordWorkspaceHead(t) \/ Reseal(t)
VerifierNext(t) == \/ Admit(t) \/ Identify(t) \/ CommandsRun(t) \/ LosesAuthority(t)
                   \/ \E c \in Commands(Paths) : RunCommand(t, c)
                   \/ Settle(t) \/ Persist(t)
RunnerNext(t) == \/ BlockFailed(t) \/ Confirm(t) \/ Integrate(t)
CompactionNext(t) == \/ BeginCompaction(t) \/ Compact(t) \/ AbandonCompaction(t)
                     \/ BeginRehydration(t) \/ Rehydrate(t)
OutsideNext(t) == \/ OwnerCancels(t) \/ OwnerChooses(t) \/ RecoverAttempt(t)
                  \/ CancelSettled(t) \/ Retry(t)

CandidateNext ==
  \/ Crash \/ ToolchainChanges
  \/ \E t \in Tasks : \/ WorkerNext(t) \/ SealerNext(t) \/ VerifierNext(t)
                      \/ RunnerNext(t) \/ CompactionNext(t) \/ OutsideNext(t)

CandidateSpec == CandidateInit /\ [][CandidateNext]_candidateVars

--------------------------------------------------------------------------------
(* The ledger tells the truth about git: a seal observed as applied made   *)
(* one commit, of exactly the tree that was authorized on the head that    *)
(* was expected; one observed as not applied, or not dispatched, made none.*)
CommitsOf(t, e) == {k \in DOMAIN commits[t] : commits[t][k].epoch = e}
LedgerTruth ==
  \A t \in Tasks : \A e \in Epochs : LET effect == effects[t][e] IN
    /\ effect.state = "APPLIED" =>
         /\ CommitsOf(t, e) = {effect.expected + 1}
         /\ commits[t][effect.expected + 1].tree = effect.authorized
    /\ effect.state \in {"NONE", "PREPARED", "NOT_APPLIED"} => CommitsOf(t, e) = {}

(* Every commit below the durable head was sealed and observed, or is the  *)
(* snapshot of a compacted worktree: a commit whose seal is unsettled is   *)
(* never taken for the head, nor built upon.  And what a verified task     *)
(* would integrate is that head.                                           *)
HeadAccounted ==
  \A t \in Tasks :
    /\ \A k \in 1..headRow[t] :
         commits[t][k].epoch # 0 => effects[t][commits[t][k].epoch].state = "APPLIED"
    /\ state[t] \in {"VERIFIED", "READY_TO_INTEGRATE"} => evidence[t].revision = headRow[t]

(* A PASS is about what it says it is about: all planned commands passed,  *)
(* on the candidate's tree under the recorded toolchain and on nothing     *)
(* else.  The file oracles read after the last look at the worktree: what  *)
(* they say is about the candidate once the gate has let it through.       *)
CommandsSaw(t) == {<<TreeAt(t, evidence[t].revision), evidence[t].env>>}
EvidenceTrue ==
  \A t \in Tasks : evidence[t] # NoEvidence =>
    /\ evidence[t].passed = evidence[t].planned
    /\ evidence[t].saw = CommandsSaw(t)
    /\ state[t] = "READY_TO_INTEGRATE" =>
         evidence[t].oracle = TreeAt(t, evidence[t].revision)

(* What is let through to integration was tested whole: each test path     *)
(* that differs from the base has had its command pass.                    *)
GateSound ==
  \A t \in Tasks : state[t] = "READY_TO_INTEGRATE" =>
    \A p \in TestPaths :
      TreeAt(t, evidence[t].revision)[p] # 0 => p \in evidence[t].passed

(* "the profile rejects source changes": what is verified under a profile  *)
(* with a change scope differs from the base within that scope.            *)
VerifiedWithinScope ==
  \A t \in Tasks : state[t] = "VERIFIED" =>
    Diff(TreeAt(t, evidence[t].revision), BaseTree) \subseteq ScopePaths
================================================================================
