---------------------------- MODULE CandidateProofs ----------------------------
(***************************************************************************)
(* Proofs about Candidate, for any set of tasks, any paths and profile,    *)
(* any number of attempts, writes and faults.  The ledger is never further *)
(* from git than the one commit of the operation under way: while its      *)
(* effect is open, HEAD is where the effect expects it, or one commit of   *)
(* this very operation further.  That is what makes an observation sound,  *)
(* and what makes it safe to dispatch again after one that found nothing.  *)
(* A compaction commits too, but only while no runner is at work, and at   *)
(* the durable head: its snapshot is in nobody's way.                      *)
(***************************************************************************)
EXTENDS Candidate, TaskStoreProofs

Trees     == [Paths -> Nat]
Snapshots == [tree : Trees, epoch : 0..MaxEpoch]
EffectStates == {"NONE", "PREPARED", "DISPATCHED", "APPLIED", "NOT_APPLIED"}
Intents   == [state : EffectStates, expected : Nat, authorized : Trees]
Names     == Commands(Paths)
Looks     == Trees \X Nat
Evidences == [revision : Int, passed : SUBSET Names, planned : SUBSET Names, env : Nat,
              saw : SUBSET Looks, oracle : Trees]

(* The steps of a runner before, in and after the seal.                    *)
Idling     == {"none", "confirm"}
Inspecting == {"inspect:applied", "inspect:uncertain", "inspect:error"}
Dispatched == {"compare", "add", "commit"}
Verifying  == {"commands", "settle", "persist"}
Steps      == Idling \cup Inspecting \cup Dispatched \cup Verifying \cup
              {"work", "seal", "dispatch", "record", "failed", "admit", "identify"}
Runs == [pc : Steps, epoch : 0..MaxEpoch, revision : Nat, paths : SUBSET Paths, env : Nat,
         todo : SUBSET Names, passed : SUBSET Names, ok : BOOLEAN, saw : SUBSET Looks,
         stable : BOOLEAN]

CandidateTypes ==
  /\ headRow  \in [Tasks -> Nat]
  /\ effects  \in [Tasks -> [Epochs -> Intents]]
  /\ evidence \in [Tasks \cup {Earlier} -> Evidences]
  /\ commits  \in [Tasks -> Seq(Snapshots)]
  /\ index    \in [Tasks -> Trees]
  /\ tree     \in [Tasks -> Trees]
  /\ written  \in [Tasks -> Nat]
  /\ run      \in [Tasks -> Runs]
  /\ toolchain \in Nat /\ faults \in Nat

(* No commit is of an attempt to come, and the durable head is not ahead   *)
(* of git.                                                                 *)
History(t) ==
  /\ headRow[t] <= GitHead(t)
  /\ \A k \in DOMAIN commits[t] : commits[t][k].epoch <= epoch[t]
  /\ \A e \in Epochs : e > epoch[t] => effects[t][e].state = "NONE"
  /\ run[t].pc # "none" => run[t].epoch = epoch[t] /\ epoch[t] \in Epochs

(* What the ledger says of each attempt.                                   *)
Told(t, e) ==
  /\ effects[t][e].state = "APPLIED" =>
       /\ CommitsOf(t, e) = {effects[t][e].expected + 1}
       /\ commits[t][effects[t][e].expected + 1].tree = effects[t][e].authorized
  /\ effects[t][e].state \in {"NONE", "PREPARED", "NOT_APPLIED"} => CommitsOf(t, e) = {}

(* Where HEAD is for the operation under way.                              *)
Unmoved(t, e) == GitHead(t) = effects[t][e].expected /\ CommitsOf(t, e) = {}
Moved(t, e)   == /\ GitHead(t) = effects[t][e].expected + 1
                 /\ CommitsOf(t, e) = {effects[t][e].expected + 1}
Underway(t) ==
  LET e  == run[t].epoch
      s  == effects[t][run[t].epoch].state
      pc == run[t].pc
  IN pc # "none" =>
       /\ pc = "work" => s = "NONE"
       /\ pc = "dispatch" => s = "PREPARED"
       /\ pc \in Dispatched => s = "DISPATCHED" /\ Unmoved(t, e)
       /\ pc \in Inspecting => s \in {"DISPATCHED", "APPLIED"}
       /\ pc = "record" => s = "APPLIED"
       /\ s \in {"PREPARED", "NOT_APPLIED"} => GitHead(t) = effects[t][e].expected
       /\ s = "DISPATCHED" => Unmoved(t, e) \/ Moved(t, e)
       /\ s = "APPLIED" => Moved(t, e)

(* The commits up to a revision are snapshots or were sealed and observed; *)
(* those up to the durable head are, and it is what a verified task stands *)
(* for.                                                                    *)
Accounted(t, revision) ==
  \A k \in 1..revision :
    commits[t][k].epoch # 0 => effects[t][commits[t][k].epoch].state = "APPLIED"
Sealed(t) ==
  /\ Accounted(t, headRow[t])
  /\ state[t] \in {"VERIFIED", "READY_TO_INTEGRATE"} =>
       run[t].pc \in Idling /\ evidence[t].revision = headRow[t]

(* What passed and what is left are what the profile asks for.             *)
Complete(u) == evidence[u].passed = evidence[u].planned
Progress(t) ==
  LET r == run[t] IN
    /\ r.pc \in Verifying /\ r.ok => r.passed \cup r.todo = Commands(r.paths)
    /\ r.pc \in {"settle", "persist"} => r.todo = {}
    /\ r.pc \notin Verifying \cup Idling => r.ok /\ r.passed = {} /\ r.todo = {}

(* What the gate planned is what it found planned.                         *)
Whole(t) == Commands(Diff(TreeAt(t, evidence[t].revision), BaseTree))
Gated(t) == state[t] = "READY_TO_INTEGRATE" => evidence[t].planned = Whole(t)

Good(t) == /\ History(t) /\ (\A e \in Epochs : Told(t, e))
           /\ Underway(t) /\ Sealed(t) /\ Progress(t) /\ Gated(t)

(* A runner is that of an open attempt, so there is none where a workspace *)
(* is compacted or rebuilt; and all of a compacted worktree is accounted   *)
(* for, above the durable head too.                                        *)
Live(t)   == run[t].pc # "none" => run[t].epoch \in OpenEpochs(t)
Parked(t) == workspace[t] = "CHECKPOINTED" => Accounted(t, GitHead(t))

CInv == /\ HInv /\ CandidateTypes
        /\ \A u \in Tasks \cup {Earlier} : Complete(u)
        /\ \A t \in Tasks : Good(t) /\ Live(t) /\ Parked(t)

(* The first attempt finds the base, an empty ledger and what an earlier   *)
(* task may have left.                                                     *)
LEMMA CandidateInitially == CandidateInit => CInv
<1> SUFFICES ASSUME CandidateInit PROVE CInv
  OBVIOUS
<1>1. TypeOK
  BY EpochAssumption DEF CandidateInit, TypeOK, TaskStates, PreAttemptStates, WorkspaceStates,
     Results, IntegrationStates, AuthorityStates
<1>2. \A t \in Tasks : Safe(t)
  BY DEF CandidateInit, Safe, SettledStates, PreAttemptStates, OpenEpochs, Quiescent
<1>3. BaseTree \in Trees /\ {"static"} \subseteq Names
  BY DEF BaseTree, Trees, Names, Commands
<1>4. NoEffect \in Intents
  BY <1>3 DEF NoEffect, Intents, EffectStates
<1>5. Commands({}) = {"static"} /\ {} \subseteq Names
  BY DEF Commands
<1>6. NoEvidence \in Evidences /\ NoEvidence.passed = NoEvidence.planned
  BY <1>3, <1>5 DEF NoEvidence, Evidences
<1>7. UnchangedEvidence \in Evidences /\ UnchangedEvidence.passed = UnchangedEvidence.planned
  BY <1>3, <1>5 DEF UnchangedEvidence, Evidences, Looks
<1>8. NoRun \in Runs
  BY <1>5, EpochAssumption DEF NoRun, Runs, Steps, Idling
<1>9. CandidateTypes
  BY <1>3, <1>4, <1>6, <1>7, <1>8 DEF CandidateInit, CandidateTypes
<1>10. \A u \in Tasks \cup {Earlier} : Complete(u)
  BY <1>6, <1>7 DEF CandidateInit, Complete
<1>11. ASSUME NEW t \in Tasks PROVE Good(t)
  <2>1. /\ commits[t] = <<>> /\ headRow[t] = 0 /\ run[t] = NoRun /\ NoRun.pc = "none"
        /\ epoch[t] = 0 /\ state[t] = "WORKSPACE_READY" /\ DOMAIN commits[t] = {} /\ GitHead(t) = 0
        /\ \A e \in Epochs : effects[t][e] = NoEffect
    BY DEF CandidateInit, GitHead, NoRun
  <2>2. History(t)
    BY <2>1, <1>4 DEF History, NoEffect
  <2>3. \A e \in Epochs : Told(t, e)
    BY <2>1 DEF Told, CommitsOf, NoEffect
  <2>4. Underway(t) /\ Progress(t) /\ Gated(t)
    BY <2>1 DEF Underway, Progress, Gated, Verifying, Idling
  <2>5. Sealed(t)
    BY <2>1 DEF Sealed, Accounted
  <2> QED
    BY <2>2, <2>3, <2>4, <2>5 DEF Good
<1>12. \A t \in Tasks : Hosted(t) /\ Live(t) /\ Parked(t)
  BY DEF CandidateInit, Hosted, Live, Parked, NoRun
<1> QED
  BY <1>1, <1>2, <1>9, <1>10, <1>11, <1>12 DEF CInv, HInv, IInv

--------------------------------------------------------------------------------
(* A step is a transaction of the store, or none.                          *)
LEMMA CandidateStoreStep ==
  ASSUME CInv, NEW t \in Tasks, WorkerNext(t) \/ SealerNext(t) \/ VerifierNext(t)
                                \/ RunnerNext(t) \/ CompactionNext(t) \/ OutsideNext(t)
  PROVE  [Calls]_storeVars
<1> USE DEF Calls, Call
<1>0. run[t].pc # "none" => run[t].epoch \in Epochs
  BY DEF CInv, Good, History
<1>1. CASE WorkerNext(t)
  <2>1. CASE Begin(t)
    BY <2>1 DEF Begin
  <2>2. CASE GiveUp(t)
    BY <2>2, <1>0 DEF GiveUp, At, AttemptNext, TaskStates
  <2>3. CASE CompleteCandidate(t) \/ \E p \in Paths : Work(t, p) \/ ForeignWrite(t, p)
    BY <2>3 DEF CompleteCandidate, Work, ForeignWrite, Reads, NoStore
  <2> QED
    BY <1>1, <2>1, <2>2, <2>3 DEF WorkerNext
<1>2. CASE SealerNext(t)
  BY <1>2 DEF SealerNext, SealUnchanged, SealChanged, SealAgain, SealRefused, Dispatch, Compare,
     GitAdd, GitCommit, ReconcileSeal, RecordWorkspaceHead, Reseal, Reads, NoStore
<1>3. CASE VerifierNext(t)
  <2>1. CASE Admit(t)
    BY <2>1, <1>0 DEF Admit, At, AttemptNext, TaskStates
  <2>2. CASE Persist(t)
    BY <2>2, <1>0 DEF Persist, At, AttemptNext, NoStore
  <2>3. CASE \/ Identify(t) \/ CommandsRun(t) \/ LosesAuthority(t) \/ Settle(t)
             \/ \E c \in Commands(Paths) : RunCommand(t, c)
    BY <2>3 DEF Identify, CommandsRun, LosesAuthority, Settle, RunCommand, Reads, NoStore
  <2> QED
    BY <1>3, <2>1, <2>2, <2>3 DEF VerifierNext
<1>4. CASE RunnerNext(t)
  <2>1. CASE BlockFailed(t)
    BY <2>1, <1>0 DEF BlockFailed, At, AttemptNext, TaskStates
  <2>2. CASE Confirm(t)
    BY <2>2, <1>0 DEF Confirm, At, AttemptNext
  <2>3. CASE Integrate(t)
    BY <2>3 DEF Integrate, IntegrationNext
  <2> QED
    BY <1>4, <2>1, <2>2, <2>3 DEF RunnerNext
<1>5. CASE CompactionNext(t)
  BY <1>5 DEF CompactionNext, BeginCompaction, Compact, AbandonCompaction, BeginRehydration,
     Rehydrate, WorkspaceNext
<1>6. CASE OutsideNext(t)
  BY <1>6 DEF OutsideNext, OwnerCancels, OwnerChooses, RecoverAttempt, CancelSettled, Retry, Store,
     AttemptNext, ControlNext
<1> QED
  BY <1>1, <1>2, <1>3, <1>4, <1>5, <1>6

(* The rows keep their invariant.                                          *)
LEMMA CandidateKeepsStore ==
  ASSUME CInv, [CandidateNext]_candidateVars
  PROVE  HInv'
<1>1. [Calls]_storeVars
  BY CandidateStoreStep DEF CandidateNext, Crash, ToolchainChanges, NoStore, candidateVars
<1> QED
  BY <1>1, CallsKeep DEF CInv

--------------------------------------------------------------------------------
(* What the updates of a runner leave in its place.                        *)
Alone(t) == run' \in [Tasks -> Runs] /\ \A u \in Tasks \ {t} : run'[u] = run[u]
Turned(t, pc) ==
  /\ Alone(t)
  /\ run'[t].pc = pc /\ run'[t].epoch = run[t].epoch /\ run'[t].paths = run[t].paths
  /\ run'[t].todo = run[t].todo /\ run'[t].passed = run[t].passed /\ run'[t].ok = run[t].ok
  /\ run'[t].saw = run[t].saw /\ run'[t].env = run[t].env
  /\ run'[t].revision = run[t].revision

(* A runner goes on to its next step.                                      *)
LEMMA GoTurns ==
  ASSUME CandidateTypes, NEW t \in Tasks, NEW pc \in Steps, Go(t, pc)
  PROVE  Turned(t, pc)
BY DEF CandidateTypes, Runs, Go, Turned, Alone

(* A runner that has none of the local variables.                          *)
LEMMA NoRunTyped == NoRun \in Runs
BY EpochAssumption DEF NoRun, Runs, Steps, Idling

(* One record of the runners is replaced.                                  *)
LEMMA RunReplaced ==
  ASSUME run \in [Tasks -> Runs], NEW t \in Tasks, NEW r \in Runs, run' = [run EXCEPT ![t] = r]
  PROVE  Alone(t) /\ run'[t] = r
BY DEF Alone

(* A runner ends, or fails and keeps its attempt only.                     *)
LEMMA EndTurns ==
  ASSUME CandidateTypes, NEW t \in Tasks, End(t)
  PROVE  Alone(t) /\ run'[t] = NoRun
BY NoRunTyped, RunReplaced DEF CandidateTypes, End

Fresh(t, pc, e) ==
  /\ Alone(t) /\ run'[t].pc = pc /\ run'[t].epoch = e
  /\ run'[t].ok /\ run'[t].passed = {} /\ run'[t].todo = {} /\ run'[t].saw = {}

(* A runner of which only the step and the attempt are set.                *)
LEMMA FreshRun ==
  ASSUME CandidateTypes, NEW t \in Tasks, NEW pc \in Steps, NEW e \in 0..MaxEpoch,
         run' = [run EXCEPT ![t] = [NoRun EXCEPT !.pc = pc, !.epoch = e]]
  PROVE  Fresh(t, pc, e)
<1> DEFINE r == [NoRun EXCEPT !.pc = pc, !.epoch = e]
<1>1. r \in Runs
  BY NoRunTyped DEF Runs
<1>2. r.pc = pc /\ r.epoch = e /\ r.ok /\ r.passed = {} /\ r.todo = {} /\ r.saw = {}
  BY DEF NoRun
<1>3. run \in [Tasks -> Runs] /\ run' = [run EXCEPT ![t] = r]
  BY DEF CandidateTypes
<1>4. Alone(t) /\ run'[t] = r
  BY <1>1, <1>3, RunReplaced
<1> QED
  BY <1>2, <1>4 DEF Fresh

LEMMA FailTurns ==
  ASSUME CandidateTypes, NEW t \in Tasks, Fail(t)
  PROVE  Fresh(t, "failed", run[t].epoch)
<1>1. run[t].epoch \in 0..MaxEpoch
  BY DEF CandidateTypes, Runs
<1>2. "failed" \in Steps
  BY DEF Steps
<1> QED
  BY <1>1, <1>2, FreshRun DEF Fail

(* A new attempt.                                                          *)
LEMMA BeginTurns ==
  ASSUME CInv, NEW t \in Tasks, Begin(t)
  PROVE  epoch[t] + 1 \in Epochs /\ Fresh(t, "work", epoch[t] + 1)
<1>1. epoch[t] \in 0..MaxEpoch /\ epoch[t] < MaxEpoch
  BY DEF CInv, HInv, IInv, TypeOK, Begin, BeginAttempt
<1>2. epoch[t] + 1 \in Epochs /\ epoch[t] + 1 \in 0..MaxEpoch
  BY <1>1, EpochAssumption DEF Epochs
<1>3. "work" \in Steps
  BY DEF Steps
<1>4. run' = [run EXCEPT ![t] = [NoRun EXCEPT !.pc = "work", !.epoch = epoch[t] + 1]]
  BY DEF Begin
<1>5. CandidateTypes
  BY DEF CInv
<1> QED
  BY <1>2, <1>3, <1>4, <1>5, FreshRun

(* The paths a candidate changed, and the names of their commands.         *)
LEMMA PathsTyped ==
  /\ \A a, b : Diff(a, b) \in SUBSET Paths
  /\ \A paths \in SUBSET Paths : Commands(paths) \in SUBSET Names
BY DEF Diff, Commands, Names

(* A seal without a change, and one that was recorded.                     *)
LEMMA SealedTurns ==
  ASSUME CandidateTypes, NEW t \in Tasks, NEW paths \in SUBSET Paths,
         run' = [run EXCEPT ![t].pc = "admit", ![t].revision = GitHead(t), ![t].paths = paths]
  PROVE  /\ Alone(t) /\ run'[t].pc = "admit" /\ run'[t].epoch = run[t].epoch
         /\ run'[t].todo = run[t].todo /\ run'[t].passed = run[t].passed
         /\ run'[t].ok = run[t].ok /\ run'[t].saw = run[t].saw
         /\ run'[t].revision = GitHead(t)
<1> DEFINE r == [run[t] EXCEPT !.pc = "admit", !.revision = GitHead(t), !.paths = paths]
<1>1. GitHead(t) \in Nat /\ run \in [Tasks -> Runs] /\ run[t] \in Runs
  BY DEF CandidateTypes, GitHead
<1>2. "admit" \in Steps
  BY DEF Steps
<1>3. r \in Runs
  BY <1>1, <1>2 DEF Runs
<1>4. /\ r.pc = "admit" /\ r.epoch = run[t].epoch /\ r.todo = run[t].todo
      /\ r.passed = run[t].passed /\ r.ok = run[t].ok /\ r.saw = run[t].saw
      /\ r.revision = GitHead(t)
  BY <1>1 DEF Runs
<1>5. run' = [run EXCEPT ![t] = r]
  OBVIOUS
<1>6. Alone(t) /\ run'[t] = r
  BY <1>1, <1>3, <1>5, RunReplaced
<1> QED
  BY <1>4, <1>6

Identified(t) ==
  /\ Alone(t)
  /\ run'[t].pc = "commands" /\ run'[t].epoch = run[t].epoch
  /\ run'[t].passed \cup run'[t].todo = Commands(run'[t].paths)
  /\ run'[t].env = toolchain /\ run'[t].revision = run[t].revision
  /\ \/ run'[t].saw = run[t].saw /\ run'[t].passed = run[t].passed
     \/ \E u \in Tasks \cup {Earlier} : Reusable(t, u) /\ run'[t].saw = evidence[u].saw

(* The commands of a candidate, or those of an earlier task that stand for *)
(* them.                                                                   *)
LEMMA IdentifyTurns ==
  ASSUME CInv, NEW t \in Tasks, Identify(t)
  PROVE  Identified(t)
<1>1. /\ run \in [Tasks -> Runs] /\ run[t] \in Runs /\ toolchain \in Nat
      /\ run[t].pc = "identify" /\ Progress(t)
  BY DEF CInv, CandidateTypes, Good, Identify, At
<1>2. run[t].passed = {} /\ run[t].todo = {} /\ run[t].paths \in SUBSET Paths
  BY <1>1 DEF Progress, Verifying, Idling, Runs
<1>3. "commands" \in Steps
  BY DEF Steps, Verifying
<1>4. ASSUME NEW u \in Tasks \cup {Earlier}, Reusable(t, u),
             run' = [run EXCEPT ![t].pc = "commands", ![t].env = toolchain,
                                ![t].passed = evidence[u].passed, ![t].saw = evidence[u].saw]
      PROVE  Identified(t)
  <2> DEFINE r == [run[t] EXCEPT !.pc = "commands", !.env = toolchain,
                                 !.passed = evidence[u].passed, !.saw = evidence[u].saw]
  <2>1. evidence[u].passed \in SUBSET Names /\ evidence[u].saw \in SUBSET Looks
    BY DEF CInv, CandidateTypes, Evidences
  <2>2. evidence[u].passed = Commands(run[t].paths)
    BY <1>4 DEF Reusable, CInv, Complete
  <2>3. r \in Runs
    BY <1>1, <1>3, <2>1 DEF Runs
  <2>4. /\ r.pc = "commands" /\ r.epoch = run[t].epoch /\ r.paths = run[t].paths
        /\ r.passed = evidence[u].passed /\ r.todo = run[t].todo
        /\ r.env = toolchain /\ r.revision = run[t].revision /\ r.saw = evidence[u].saw
    BY <1>1 DEF Runs
  <2>5. run' = [run EXCEPT ![t] = r]
    BY <1>4
  <2>6. Alone(t) /\ run'[t] = r
    BY <1>1, <2>3, <2>5, RunReplaced
  <2> QED
    BY <1>2, <1>4, <2>2, <2>4, <2>6 DEF Identified
<1>5. ASSUME run' = [run EXCEPT ![t].pc = "commands", ![t].env = toolchain,
                                ![t].todo = Commands(run[t].paths)]
      PROVE  Identified(t)
  <2> DEFINE r == [run[t] EXCEPT !.pc = "commands", !.env = toolchain,
                                 !.todo = Commands(run[t].paths)]
  <2>1. Commands(run[t].paths) \in SUBSET Names
    BY <1>2, PathsTyped
  <2>2. r \in Runs
    BY <1>1, <1>3, <2>1 DEF Runs
  <2>3. /\ r.pc = "commands" /\ r.epoch = run[t].epoch /\ r.paths = run[t].paths
        /\ r.passed = run[t].passed /\ r.todo = Commands(run[t].paths)
        /\ r.env = toolchain /\ r.revision = run[t].revision /\ r.saw = run[t].saw
    BY <1>1 DEF Runs
  <2>4. run' = [run EXCEPT ![t] = r]
    BY <1>5
  <2>5. Alone(t) /\ run'[t] = r
    BY <1>1, <2>2, <2>4, RunReplaced
  <2> QED
    BY <1>2, <2>3, <2>5 DEF Identified
<1> QED
  BY <1>4, <1>5 DEF Identify

(* A command passes, or the first one fails.                               *)
LEMMA CommandTurns ==
  ASSUME CandidateTypes, NEW t \in Tasks, NEW c, RunCommand(t, c)
  PROVE  /\ Alone(t) /\ run'[t].pc = run[t].pc /\ run'[t].epoch = run[t].epoch
         /\ run'[t].paths = run[t].paths
         /\ \/ ~run'[t].ok
            \/ run'[t].ok = run[t].ok
               /\ run'[t].passed \cup run'[t].todo = run[t].passed \cup run[t].todo
         /\ run'[t].saw = run[t].saw \cup {<<tree[t], toolchain>>}
         /\ run'[t].env = run[t].env /\ run'[t].revision = run[t].revision
<1> DEFINE seen == run[t].saw \cup {<<tree[t], toolchain>>}
           good == [run[t] EXCEPT !.saw = seen, !.todo = run[t].todo \ {c},
                                  !.passed = run[t].passed \cup {c}]
           bad  == [run[t] EXCEPT !.saw = seen, !.todo = {}, !.ok = FALSE]
<1>1. run \in [Tasks -> Runs] /\ run[t] \in Runs /\ tree[t] \in Trees /\ toolchain \in Nat
  BY DEF CandidateTypes
<1>2. c \in run[t].todo
  BY DEF RunCommand
<1>3. seen \in SUBSET Looks
  BY <1>1 DEF Runs, Looks
<1> HIDE DEF seen
<1>4. good \in Runs /\ bad \in Runs
  BY <1>1, <1>2, <1>3 DEF Runs
<1>5. /\ good.pc = run[t].pc /\ good.epoch = run[t].epoch /\ good.paths = run[t].paths
      /\ good.ok = run[t].ok
      /\ good.passed = run[t].passed \cup {c} /\ good.todo = run[t].todo \ {c}
      /\ good.saw = seen /\ good.env = run[t].env /\ good.revision = run[t].revision
  BY <1>1 DEF Runs
<1>6. /\ bad.pc = run[t].pc /\ bad.epoch = run[t].epoch /\ bad.paths = run[t].paths /\ ~bad.ok
      /\ bad.saw = seen /\ bad.env = run[t].env /\ bad.revision = run[t].revision
  BY <1>1 DEF Runs
<1>7. \/ run' = [[run EXCEPT ![t].saw = seen] EXCEPT ![t].todo = @ \ {c}, ![t].passed = @ \cup {c}]
      \/ run' = [[run EXCEPT ![t].saw = seen] EXCEPT ![t].todo = {}, ![t].ok = FALSE]
  BY DEF RunCommand, seen
<1>8. run' = [run EXCEPT ![t] = good] \/ run' = [run EXCEPT ![t] = bad]
  BY <1>1, <1>7 DEF Runs
<1>9. Alone(t) /\ (run'[t] = good \/ run'[t] = bad)
  BY <1>1, <1>4, <1>8, RunReplaced
<1>10. good.passed \cup good.todo = run[t].passed \cup run[t].todo
  BY <1>2, <1>5
<1> HIDE DEF good, bad
<1> QED
  BY <1>5, <1>6, <1>9, <1>10 DEF seen

(* The second look.                                                        *)
LEMMA SettleTurns ==
  ASSUME CandidateTypes, NEW t \in Tasks, Settle(t)
  PROVE  Turned(t, "persist") /\ run'[t].stable = Settled(t)
<1> DEFINE agreed == Settled(t)
           r == [run[t] EXCEPT !.pc = "persist", !.stable = agreed]
<1>1. agreed \in BOOLEAN /\ run \in [Tasks -> Runs] /\ run[t] \in Runs
  BY DEF Settled, CandidateTypes
<1>2. run' = [run EXCEPT ![t].pc = "persist", ![t].stable = agreed]
  BY DEF Settle
<1>3. "persist" \in Steps
  BY DEF Steps, Verifying
<1> HIDE DEF agreed
<1>4. r \in Runs
  BY <1>1, <1>3 DEF Runs
<1>5. /\ r.pc = "persist" /\ r.epoch = run[t].epoch /\ r.paths = run[t].paths
      /\ r.todo = run[t].todo /\ r.passed = run[t].passed /\ r.ok = run[t].ok
      /\ r.saw = run[t].saw /\ r.env = run[t].env /\ r.revision = run[t].revision
      /\ r.stable = agreed
  BY <1>1 DEF Runs
<1>6. run' = [run EXCEPT ![t] = r]
  BY <1>2
<1>7. Alone(t) /\ run'[t] = r
  BY <1>1, <1>4, <1>6, RunReplaced
<1> QED
  BY <1>5, <1>7 DEF Turned, agreed

--------------------------------------------------------------------------------
(* What a step leaves of a task: its commits and what the ledger says.     *)
Still(t) == /\ epoch'[t] = epoch[t] /\ headRow'[t] = headRow[t]
            /\ effects'[t] = effects[t] /\ commits'[t] = commits[t]

(* A task that is verified after the step was so before.                   *)
Fits(t) == state'[t] \in {"VERIFIED", "READY_TO_INTEGRATE"} =>
             state'[t] = state[t] /\ evidence'[t] = evidence[t] /\ run'[t].pc \in Idling

(* A runner that goes on with its attempt, or ends.                        *)
Neutral == Idling \cup Verifying \cup {"seal", "failed", "admit", "identify"}
Onward(t) ==
  /\ run'[t].pc # "none" => run[t].pc # "none" /\ run'[t].epoch = run[t].epoch
  /\ run[t].pc \in Idling => run'[t].pc \in Idling
  /\ \/ run'[t].pc = run[t].pc \/ run'[t].pc \in Neutral
     \/ run[t].pc \in Dispatched /\ run'[t].pc \in Dispatched \cup Inspecting

(* What the ledger, git and the rows said they still say.                  *)
LEMMA StillTold ==
  ASSUME NEW t \in Tasks, Still(t)
  PROVE  /\ GitHead(t)' = GitHead(t)
         /\ \A e \in Epochs : CommitsOf(t, e)' = CommitsOf(t, e)
         /\ \A e \in Epochs : Told(t, e) => Told(t, e)'
<1>1. GitHead(t)' = GitHead(t) /\ \A e \in Epochs : CommitsOf(t, e)' = CommitsOf(t, e)
  BY DEF Still, GitHead, CommitsOf
<1> QED
  BY <1>1 DEF Still, Told

LEMMA UnderwayKept ==
  ASSUME NEW t \in Tasks, Still(t), Onward(t), History(t), Underway(t)
  PROVE  Underway(t)'
<1>1. SUFFICES ASSUME run'[t].pc # "none" PROVE Underway(t)'
  BY DEF Underway
<1> DEFINE e == run[t].epoch
<1>2. run'[t].epoch = e /\ run[t].pc # "none" /\ e \in Epochs
  BY <1>1 DEF Onward, History
<1>3. /\ Unmoved(t, e)' <=> Unmoved(t, e)
      /\ Moved(t, e)' <=> Moved(t, e)
      /\ effects'[t][e] = effects[t][e] /\ GitHead(t)' = GitHead(t)
  BY <1>2, StillTold DEF Still, Unmoved, Moved
<1> QED
  BY <1>2, <1>3 DEF Onward, Underway, Neutral, Idling, Verifying, Dispatched, Inspecting

LEMMA SealedKept ==
  ASSUME NEW t \in Tasks, Still(t), Fits(t), Sealed(t)
  PROVE  Sealed(t)'
BY DEF Still, Fits, Sealed, Accounted

LEMMA GatedKept ==
  ASSUME NEW t \in Tasks, Still(t), Fits(t), Gated(t)
  PROVE  Gated(t)'
BY DEF Still, Fits, Gated, Whole, TreeAt, BaseTree, Diff, Commands

LEMMA Frame ==
  ASSUME NEW t \in Tasks, Good(t), Still(t), Fits(t), Onward(t), Progress(t)'
  PROVE  Good(t)'
<1>1. History(t) /\ Underway(t) /\ Sealed(t) /\ Gated(t) /\ \A e \in Epochs : Told(t, e)
  BY DEF Good
<1>2. History(t)'
  BY <1>1, StillTold DEF History, Still, Onward
<1>3. (\A e \in Epochs : Told(t, e)')
  BY <1>1, StillTold
<1>4. Underway(t)' /\ Sealed(t)' /\ Gated(t)'
  BY <1>1, UnderwayKept, SealedKept, GatedKept
<1> QED
  BY <1>2, <1>3, <1>4 DEF Good

(* A task the step is not about.                                           *)
Apart(t) == Still(t) /\ state'[t] = state[t] /\ evidence'[t] = evidence[t] /\ run'[t] = run[t]

LEMMA ApartKept ==
  ASSUME NEW t \in Tasks, Good(t), Apart(t)
  PROVE  Good(t)'
<1>1. Fits(t) /\ Onward(t)
  BY DEF Good, Sealed, Apart, Fits, Onward
<1>2. Progress(t)'
  BY DEF Good, Progress, Apart, Commands
<1> QED
  BY <1>1, <1>2, Frame DEF Apart

--------------------------------------------------------------------------------
(* What a transaction does to the state of its task: it never verifies it. *)
Stored(t) ==
  /\ epoch' = epoch
  /\ \/ state' = state
     \/ \E to : to \notin {"VERIFIED", "READY_TO_INTEGRATE"} /\ state' = [state EXCEPT ![t] = to]

LEMMA StoreLeaves ==
  ASSUME NEW t \in Tasks,
         \/ \E e, to : TransitionForAttempt(t, e, to)
         \/ \E e : ConfirmAttemptTerminated(t, e) \/ RequirePhysicalRecovery(t, e)
         \/ RequestTaskCancellation(t) \/ FinalizeTaskCancellation(t) \/ Steer(t, TRUE)
         \/ \E from : RecoverTaskToWorkspaceReady(t, from)
         \/ RecoverBlockedChoice(t) \/ UNCHANGED storeVars
         \/ BeginWorkspaceCheckpoint(t) \/ EndWorkspaceCheckpoint(t, "READY")
         \/ EndWorkspaceCheckpoint(t, "CHECKPOINTED") \/ BeginWorkspaceRehydrate(t)
         \/ MarkWorkspaceReady(t)
  PROVE  Stored(t)
<1>1. CASE \E e, to : TransitionForAttempt(t, e, to)
  BY <1>1 DEF TransitionForAttempt, AttemptTransitions, Move, Stored
<1>2. CASE \E e : ConfirmAttemptTerminated(t, e)
  BY <1>2 DEF ConfirmAttemptTerminated, Stored
<1>3. CASE \E e : RequirePhysicalRecovery(t, e)
  BY <1>3 DEF RequirePhysicalRecovery, Move, Stored
<1>4. CASE RequestTaskCancellation(t)
  BY <1>4 DEF RequestTaskCancellation, Move, Stored
<1>5. CASE FinalizeTaskCancellation(t)
  BY <1>5 DEF FinalizeTaskCancellation, Move, Stored
<1>6. CASE Steer(t, TRUE) \/ UNCHANGED storeVars
  BY <1>6 DEF Steer, Stored, storeVars
<1>7. CASE \E from : RecoverTaskToWorkspaceReady(t, from)
  BY <1>7 DEF RecoverTaskToWorkspaceReady, Move, Stored
<1>8. CASE RecoverBlockedChoice(t)
  BY <1>8 DEF RecoverBlockedChoice, RecoverNoWorkspaceToPreflight,
     RecoverBlockedCheckpointToWaitingResource, RecoverTaskToWorkspaceReady, SetTaskBlocker, Move,
     Stored
<1>9. CASE \/ BeginWorkspaceCheckpoint(t) \/ EndWorkspaceCheckpoint(t, "READY")
           \/ EndWorkspaceCheckpoint(t, "CHECKPOINTED") \/ BeginWorkspaceRehydrate(t)
  BY <1>9 DEF BeginWorkspaceCheckpoint, EndWorkspaceCheckpoint, BeginWorkspaceRehydrate, Stored
<1>10. CASE MarkWorkspaceReady(t)
  BY <1>10 DEF MarkWorkspaceReady, MarkWorkspace, Move, Stored
<1> QED
  BY <1>1, <1>2, <1>3, <1>4, <1>5, <1>6, <1>7, <1>8, <1>9, <1>10

(* The new values of what is outside the ledger have their types.          *)
OutsideTypes == /\ index \in [Tasks -> Trees] /\ tree \in [Tasks -> Trees]
                /\ written \in [Tasks -> Nat] /\ toolchain \in Nat /\ faults \in Nat

(* What a step establishes of the ledger and of git.                       *)
Establishes == /\ CandidateTypes'
               /\ \A u \in Tasks \cup {Earlier} : Complete(u)'
               /\ \A u \in Tasks : Good(u)'

(* A step of one task that leaves the ledger and the commits as they are.  *)
Plain(t) == Stored(t) /\ UNCHANGED <<headRow, effects, evidence, commits>> /\ Alone(t)

LEMMA PlainStep ==
  ASSUME CInv, NEW t \in Tasks, Plain(t), OutsideTypes', Onward(t), Progress(t)'
  PROVE  Establishes
<1>0. state \in [Tasks -> TaskStates \cup {"ABSENT"}]
  BY DEF CInv, HInv, IInv, TypeOK
<1>1. CandidateTypes'
  BY DEF CInv, CandidateTypes, OutsideTypes, Plain, Alone
<1>2. \A u \in Tasks \cup {Earlier} : Complete(u)'
  BY DEF CInv, Complete, Plain
<1>3. ASSUME NEW u \in Tasks \ {t} PROVE Good(u)'
  <2>1. state'[u] = state[u] /\ epoch'[u] = epoch[u]
    BY <1>0 DEF Plain, Stored
  <2>2. Apart(u)
    BY <2>1 DEF Apart, Still, Plain, Alone
  <2> QED
    BY <2>2, ApartKept DEF CInv
<1>4. Good(t)'
  <2>1. Good(t) /\ Still(t)
    BY DEF CInv, Still, Plain, Stored
  <2>2. Fits(t)
    BY <1>0, <2>1 DEF Plain, Stored, Fits, Good, Sealed, Onward
  <2> QED
    BY <2>1, <2>2, Frame
<1> QED
  BY <1>1, <1>2, <1>3, <1>4 DEF Establishes

LEMMA RunnersTyped == CInv => CandidateTypes /\ OutsideTypes /\ run \in [Tasks -> Runs]
BY DEF CInv, CandidateTypes, OutsideTypes

LedgerKept == UNCHANGED <<headRow, effects, evidence, commits>>

(* A step that leaves the runner where it is.                              *)
LEMMA Steady ==
  ASSUME CInv, NEW t \in Tasks, Stored(t), LedgerKept, OutsideTypes', UNCHANGED run
  PROVE  Establishes
<1>1. Plain(t)
  BY RunnersTyped DEF Plain, Alone, LedgerKept
<1>2. Onward(t)
  BY DEF Onward
<1>3. Progress(t)'
  BY DEF CInv, Good, Progress, Commands
<1> QED
  BY <1>1, <1>2, <1>3, PlainStep

(* A step after which the runner fails.                                    *)
LEMMA Failing ==
  ASSUME CInv, NEW t \in Tasks, Stored(t), LedgerKept, OutsideTypes', Fail(t),
         run[t].pc \notin Idling
  PROVE  Establishes
<1>1. Fresh(t, "failed", run[t].epoch)
  BY FailTurns, RunnersTyped
<1>2. Plain(t)
  BY <1>1 DEF Plain, Fresh, LedgerKept
<1>3. Onward(t) /\ Progress(t)'
  BY <1>1 DEF Onward, Progress, Fresh, Idling, Verifying, Neutral
<1> QED
  BY <1>2, <1>3, PlainStep

(* What is left to run, and what has run, before the verifier starts.      *)
LEMMA EarlyProgress ==
  ASSUME CInv, NEW t \in Tasks, run[t].pc \notin Verifying \cup Idling,
         run'[t].pc \notin Verifying, run'[t].ok = run[t].ok,
         run'[t].passed = run[t].passed, run'[t].todo = run[t].todo
  PROVE  Progress(t)'
BY DEF CInv, Good, Progress, Verifying

(* A step after which the runner goes on.                                  *)
LEMMA Going ==
  ASSUME CInv, NEW t \in Tasks, Stored(t), LedgerKept, OutsideTypes', NEW pc \in Steps, Go(t, pc),
         run[t].pc \notin Idling,
         pc = "confirm" \/ {run[t].pc, pc} \cap Verifying = {},
         \/ pc \in Neutral \ {"none"}
         \/ run[t].pc \in Dispatched /\ pc \in Dispatched \cup Inspecting
  PROVE  Establishes
<1>1. Turned(t, pc)
  BY GoTurns, RunnersTyped
<1>2. Plain(t)
  BY <1>1 DEF Plain, Turned, LedgerKept
<1>3. Onward(t)
  BY <1>1 DEF Onward, Turned, Idling
<1>4. CASE pc = "confirm"
  <2>1. Progress(t)'
    BY <1>1, <1>4 DEF Progress, Turned, Idling, Verifying
  <2> QED
    BY <1>2, <1>3, <2>1, PlainStep
<1>5. CASE pc # "confirm"
  <2>1. Progress(t)'
    BY <1>1, <1>5, EarlyProgress DEF Turned
  <2> QED
    BY <1>2, <1>3, <2>1, PlainStep
<1> QED
  BY <1>4, <1>5

(* The commits of a task, and those below the durable head among them.     *)
LEMMA CommitTyped ==
  ASSUME CInv, NEW t \in Tasks
  PROVE  /\ GitHead(t) \in Nat /\ DOMAIN commits[t] = 1..GitHead(t)
         /\ \A k \in 1..GitHead(t) :
              commits[t][k] \in Snapshots /\ commits[t][k].epoch \in 0..MaxEpoch
         /\ 1..headRow[t] \subseteq 1..GitHead(t) /\ headRow[t] \in Nat
<1>1. commits[t] \in Seq(Snapshots) /\ headRow[t] \in Nat
  BY DEF CInv, CandidateTypes
<1>2. GitHead(t) \in Nat /\ DOMAIN commits[t] = 1..GitHead(t)
  BY <1>1 DEF GitHead
<1>3. \A k \in 1..GitHead(t) : commits[t][k] \in Snapshots
  BY <1>1 DEF GitHead
<1>4. \A k \in 1..GitHead(t) : commits[t][k].epoch \in 0..MaxEpoch
  BY <1>3 DEF Snapshots
<1>5. headRow[t] <= GitHead(t)
  BY DEF CInv, Good, History
<1> QED
  BY <1>1, <1>2, <1>3, <1>4, <1>5

(* One more commit of a task.                                              *)
LEMMA Appended ==
  ASSUME CInv, NEW t \in Tasks, NEW commit \in Snapshots,
         commits' = [commits EXCEPT ![t] = Append(@, commit)]
  PROVE  /\ commits' \in [Tasks -> Seq(Snapshots)]
         /\ \A u \in Tasks \ {t} : commits'[u] = commits[u]
         /\ GitHead(t)' = GitHead(t) + 1 /\ DOMAIN commits'[t] = 1..(GitHead(t) + 1)
         /\ \A k \in 1..GitHead(t) : commits'[t][k] = commits[t][k]
         /\ commits'[t][GitHead(t) + 1] = commit
         /\ \A d : d # commit.epoch => CommitsOf(t, d)' = CommitsOf(t, d)
<1> DEFINE n == GitHead(t)
<1>1. commits \in [Tasks -> Seq(Snapshots)] /\ n \in Nat /\ n = Len(commits[t])
      /\ DOMAIN commits[t] = 1..n
  BY CommitTyped DEF CInv, CandidateTypes, GitHead
<1>2. /\ commits' \in [Tasks -> Seq(Snapshots)] /\ commits'[t] = Append(commits[t], commit)
      /\ \A u \in Tasks \ {t} : commits'[u] = commits[u]
  BY <1>1
<1>3. /\ GitHead(t)' = n + 1 /\ DOMAIN commits'[t] = 1..(n + 1)
      /\ \A k \in 1..n : commits'[t][k] = commits[t][k]
      /\ commits'[t][n + 1] = commit
  BY <1>1, <1>2 DEF GitHead
<1>4. ASSUME NEW d, d # commit.epoch PROVE CommitsOf(t, d)' = CommitsOf(t, d)
  <2>1. ASSUME NEW k PROVE k \in CommitsOf(t, d)' <=> k \in CommitsOf(t, d)
    <3>1. k \in 1..(n + 1) <=> k \in 1..n \/ k = n + 1
      BY <1>1
    <3> QED
      BY <1>1, <1>3, <1>4, <3>1 DEF CommitsOf
  <2> QED
    BY <2>1 DEF CommitsOf
<1> QED
  BY <1>2, <1>3, <1>4

(* A step of the sealer on the effect of its operation.                    *)
LEMMA LedgerStep ==
  ASSUME CInv, NEW t \in Tasks, run[t].pc \notin Verifying \cup Idling,
         UNCHANGED <<storeVars, headRow, evidence, commits>>, OutsideTypes',
         NEW x \in Intents, effects' = [effects EXCEPT ![t][run[t].epoch] = x],
         Effect(t).state = "APPLIED" => x = Effect(t),
         Alone(t), run'[t].epoch = run[t].epoch, run'[t].pc \notin Verifying \cup Idling,
         run'[t].ok, run'[t].passed = {}, run'[t].todo = {},
         Told(t, run[t].epoch)', Underway(t)'
  PROVE  Establishes
<1> DEFINE e == run[t].epoch
<1>1. /\ e \in Epochs /\ e = epoch[t] /\ effects \in [Tasks -> [Epochs -> Intents]]
      /\ commits[t] \in Seq(Snapshots) /\ headRow[t] \in Nat
      /\ History(t) /\ Sealed(t) /\ \A d \in Epochs : Told(t, d)
  BY DEF CInv, CandidateTypes, Good, History, Idling
<1>2. effects' \in [Tasks -> [Epochs -> Intents]]
  BY <1>1
<1>3. CandidateTypes'
  BY <1>2, RunnersTyped DEF CandidateTypes, OutsideTypes, Alone
<1>4. \A u \in Tasks \cup {Earlier} : Complete(u)'
  BY DEF CInv, Complete
<1>5. ASSUME NEW u \in Tasks \ {t} PROVE Good(u)'
  <2>1. Apart(u)
    BY <1>1 DEF Apart, Still, Alone, storeVars
  <2> QED
    BY <2>1, ApartKept DEF CInv
<1>6. /\ effects'[t][e] = x
      /\ \A d \in Epochs \ {e} : effects'[t][d] = effects[t][d]
      /\ commits' = commits /\ headRow' = headRow /\ epoch' = epoch /\ state' = state
      /\ GitHead(t)' = GitHead(t)
  BY <1>1 DEF storeVars, GitHead
<1>7. History(t)'
  BY <1>1, <1>6, EpochAssumption DEF History, Idling, Epochs
<1>8. ASSUME NEW d \in Epochs PROVE Told(t, d)'
  <2>1. CASE d = e
    BY <2>1
  <2>2. CASE d # e
    BY <1>1, <1>6, <2>2 DEF Told, CommitsOf
  <2> QED
    BY <2>1, <2>2
<1>9. Sealed(t)'
  <2>1. ASSUME NEW k \in 1..headRow[t], commits[t][k].epoch # 0
        PROVE  effects'[t][commits[t][k].epoch].state = "APPLIED"
    <3>1. commits[t][k].epoch \in Epochs
      BY <2>1, CommitTyped, EpochAssumption DEF Epochs
    <3>2. effects[t][commits[t][k].epoch].state = "APPLIED"
      BY <1>1, <2>1 DEF Sealed, Accounted
    <3> QED
      BY <1>6, <3>1, <3>2 DEF Effect
  <2>2. state[t] \notin {"VERIFIED", "READY_TO_INTEGRATE"}
    BY <1>1 DEF Sealed
  <2> QED
    BY <1>6, <2>1, <2>2 DEF Sealed, Accounted
<1>10. Gated(t)' /\ Progress(t)'
  BY <1>1, <1>6 DEF Sealed, Gated, Progress
<1> QED
  BY <1>3, <1>4, <1>5, <1>7, <1>8, <1>9, <1>10 DEF Establishes, Good

--------------------------------------------------------------------------------
(* The host's writes, and the worker's.                                    *)
LEMMA Unstored == UNCHANGED storeVars => \A t \in Tasks : Stored(t)
BY DEF storeVars, Stored

LEMMA WritesTyped ==
  ASSUME OutsideTypes, NEW t \in Tasks, NEW p \in Paths, NEW n \in Nat,
         tree' = [tree EXCEPT ![t][p] = n]
  PROVE  tree' \in [Tasks -> Trees]
BY DEF OutsideTypes, Trees

LEMMA WorkerKeeps ==
  ASSUME CInv, NEW t \in Tasks,
         \/ CompleteCandidate(t) \/ GiveUp(t) \/ \E p \in Paths : Work(t, p) \/ ForeignWrite(t, p)
  PROVE  Establishes
<1>1. CASE CompleteCandidate(t)
  <2>1. "seal" \in Steps /\ "seal" \in Neutral \ {"none"} /\ {run[t].pc, "seal"} \cap Verifying = {}
        /\ run[t].pc \notin Idling
    BY <1>1 DEF CompleteCandidate, At, Steps, Neutral, Verifying, Idling
  <2>2. Stored(t) /\ LedgerKept /\ OutsideTypes' /\ Go(t, "seal")
    BY <1>1, RunnersTyped, Unstored DEF CompleteCandidate, Reads, NoStore, Outside, ledgerVars,
       gitVars, outsideVars, LedgerKept, OutsideTypes
  <2> QED
    BY <2>1, <2>2, Going
<1>2. CASE GiveUp(t)
  <2>1. "confirm" \in Steps /\ "confirm" \in Neutral \ {"none"} /\ run[t].pc \notin Idling
    BY <1>2 DEF GiveUp, At, Steps, Neutral, Idling
  <2>2. Stored(t)
    BY <1>2, StoreLeaves DEF GiveUp
  <2>3. LedgerKept /\ OutsideTypes' /\ Go(t, "confirm")
    BY <1>2, RunnersTyped DEF GiveUp, Outside, ledgerVars, gitVars, outsideVars, LedgerKept,
       OutsideTypes
  <2> QED
    BY <2>1, <2>2, <2>3, Going
<1>3. ASSUME NEW p \in Paths, Work(t, p) \/ ForeignWrite(t, p)
      PROVE  Establishes
  <2>1. UNCHANGED storeVars /\ LedgerKept /\ UNCHANGED <<index, toolchain, run>>
    BY <1>3 DEF Work, ForeignWrite, NoStore, ledgerVars, gitVars, LedgerKept
  <2>2. /\ \/ /\ written' = [written EXCEPT ![t] = @ + 1]
              /\ tree' = [tree EXCEPT ![t][p] = written[t] + 1]
           \/ written' = written /\ tree' = [tree EXCEPT ![t][p] = 0]
        /\ faults' = faults \/ faults' = faults + 1
    BY <1>3 DEF Work, ForeignWrite, Fault
  <2>3. OutsideTypes /\ written[t] + 1 \in Nat
    BY RunnersTyped DEF OutsideTypes
  <2>4. tree' \in [Tasks -> Trees]
    BY <2>2, <2>3, WritesTyped
  <2>5. written' \in [Tasks -> Nat]
    BY <2>2, <2>3 DEF OutsideTypes
  <2>6. OutsideTypes'
    BY <2>1, <2>2, <2>3, <2>4, <2>5 DEF OutsideTypes
  <2> QED
    BY <2>1, <2>6, Unstored, Steady
<1> QED
  BY <1>1, <1>2, <1>3

(* The verifier, up to what it persists.                                   *)
LEMMA VerifierKeeps ==
  ASSUME CInv, NEW t \in Tasks,
         \/ Admit(t) \/ Identify(t) \/ CommandsRun(t) \/ LosesAuthority(t) \/ Settle(t)
         \/ \E c \in Commands(Paths) : RunCommand(t, c)
  PROVE  Establishes
<1>1. LedgerKept /\ OutsideTypes'
  BY RunnersTyped DEF Admit, Identify, CommandsRun, LosesAuthority, Settle, RunCommand, Reads,
     NoStore, Outside, ledgerVars, gitVars, outsideVars, LedgerKept, OutsideTypes
<1>2. CASE Admit(t)
  <2>1. run[t].pc \notin Idling
    BY <1>2 DEF Admit, At, Idling
  <2>2. Stored(t)
    BY <1>2, StoreLeaves DEF Admit
  <2>3. CASE Fail(t)
    BY <1>1, <2>1, <2>2, <2>3, Failing
  <2>4. CASE Go(t, "identify")
    <3>1. "identify" \in Steps /\ "identify" \in Neutral \ {"none"}
          /\ {run[t].pc, "identify"} \cap Verifying = {}
      BY <1>2 DEF Admit, At, Steps, Neutral, Verifying, Idling
    <3> QED
      BY <1>1, <2>1, <2>2, <2>4, <3>1, Going
  <2> QED
    BY <1>2, <2>3, <2>4 DEF Admit
<1>3. CASE LosesAuthority(t)
  <2>1. run[t].pc \notin Idling /\ Stored(t) /\ Fail(t)
    BY <1>3, Unstored DEF LosesAuthority, At, Idling, Reads, NoStore
  <2> QED
    BY <1>1, <2>1, Failing
<1>4. ASSUME \/ Identify(t) \/ CommandsRun(t) \/ Settle(t)
             \/ \E c \in Commands(Paths) : RunCommand(t, c)
      PROVE  Establishes
  <2>1. Stored(t)
    BY <1>4, Unstored DEF Identify, CommandsRun, Settle, RunCommand, Reads, NoStore
  <2>2. Progress(t) /\ CandidateTypes
    BY DEF CInv, Good
  <2>3. CASE Identify(t)
    <3>1. Identified(t) /\ run[t].pc = "identify"
      BY <2>3, IdentifyTurns DEF Identify, At
    <3>2. Progress(t)' /\ Onward(t)
      BY <3>1 DEF Identified, Progress, Onward, Idling, Verifying, Neutral, Commands
    <3> QED
      BY <1>1, <2>1, <3>1, <3>2, PlainStep DEF Plain, Identified, LedgerKept
  <2>4. CASE \E c \in Commands(Paths) : RunCommand(t, c)
    <3>1. PICK c \in Commands(Paths) : RunCommand(t, c)
      BY <2>4
    <3>2. run[t].pc = "commands"
      BY <3>1 DEF RunCommand, At
    <3>3. /\ Alone(t) /\ run'[t].pc = run[t].pc /\ run'[t].epoch = run[t].epoch
          /\ run'[t].paths = run[t].paths
          /\ \/ ~run'[t].ok
             \/ run'[t].ok = run[t].ok
                /\ run'[t].passed \cup run'[t].todo = run[t].passed \cup run[t].todo
      BY <2>2, <3>1, CommandTurns
    <3>4. Progress(t)' /\ Onward(t)
      BY <2>2, <3>2, <3>3 DEF Progress, Onward, Idling, Verifying, Neutral, Commands
    <3> QED
      BY <1>1, <2>1, <3>3, <3>4, PlainStep DEF Plain, LedgerKept
  <2>5. CASE CommandsRun(t)
    <3>1. run[t].pc = "commands" /\ run[t].todo = {} /\ Go(t, "settle") /\ "settle" \in Steps
      BY <2>5 DEF CommandsRun, At, Steps, Verifying
    <3>2. Turned(t, "settle")
      BY <2>2, <3>1, GoTurns
    <3>3. Progress(t)' /\ Onward(t)
      BY <2>2, <3>1, <3>2 DEF Progress, Onward, Turned, Idling, Verifying, Neutral, Commands
    <3> QED
      BY <1>1, <2>1, <3>2, <3>3, PlainStep DEF Plain, Turned, LedgerKept
  <2>6. CASE Settle(t)
    <3>1. run[t].pc = "settle" /\ Turned(t, "persist")
      BY <2>2, <2>6, SettleTurns DEF Settle, At
    <3>2. Progress(t)' /\ Onward(t)
      BY <2>2, <3>1 DEF Progress, Onward, Turned, Idling, Verifying, Neutral, Commands
    <3> QED
      BY <1>1, <2>1, <3>1, <3>2, PlainStep DEF Plain, Turned, LedgerKept
  <2> QED
    BY <1>4, <2>3, <2>4, <2>5, <2>6
<1> QED
  BY <1>2, <1>3, <1>4

(* The runner's end, the owner and the recovery of a crash.                *)
LEMMA AroundKeeps ==
  ASSUME CInv, NEW t \in Tasks, BlockFailed(t) \/ Confirm(t) \/ OutsideNext(t)
  PROVE  Establishes
<1>1. CASE BlockFailed(t)
  <2>1. "confirm" \in Steps /\ "confirm" \in Neutral \ {"none"} /\ run[t].pc \notin Idling
    BY <1>1 DEF BlockFailed, At, Steps, Neutral, Idling
  <2>2. Stored(t)
    BY <1>1, StoreLeaves DEF BlockFailed
  <2>3. LedgerKept /\ OutsideTypes' /\ Go(t, "confirm")
    BY <1>1, RunnersTyped DEF BlockFailed, Outside, ledgerVars, gitVars, outsideVars, LedgerKept,
       OutsideTypes
  <2> QED
    BY <2>1, <2>2, <2>3, Going
<1>2. CASE Confirm(t)
  <2>1. Alone(t) /\ run'[t].pc = "none"
    BY <1>2, EndTurns, RunnersTyped DEF Confirm, NoRun
  <2>2. Plain(t) /\ OutsideTypes'
    BY <1>2, <2>1, StoreLeaves, RunnersTyped DEF Confirm, Plain, Outside, ledgerVars, gitVars,
       outsideVars, OutsideTypes
  <2>3. Onward(t) /\ Progress(t)'
    BY <2>1 DEF Onward, Progress, Idling, Verifying, Neutral
  <2> QED
    BY <2>2, <2>3, PlainStep
<1>3. CASE OutsideNext(t)
  <2>1. LedgerKept /\ OutsideTypes' /\ UNCHANGED run
    BY <1>3, RunnersTyped DEF OutsideNext, OwnerCancels, OwnerChooses, RecoverAttempt,
       CancelSettled, Retry, Store, Outside, ledgerVars, gitVars, outsideVars, LedgerKept,
       OutsideTypes
  <2>2. Stored(t)
    BY <1>3, StoreLeaves DEF OutsideNext, OwnerCancels, OwnerChooses, RecoverAttempt,
       CancelSettled, Retry, Store
  <2> QED
    BY <2>1, <2>2, Steady
<1> QED
  BY <1>1, <1>2, <1>3

(* A crash loses the runners; another toolchain changes nothing durable.   *)
LEMMA HostKeeps ==
  ASSUME CInv, Crash \/ ToolchainChanges
  PROVE  Establishes
<1>1. /\ UNCHANGED <<storeVars, headRow, effects, evidence, commits>> /\ OutsideTypes'
      /\ run' = run \/ run' = [t \in Tasks |-> NoRun]
  BY RunnersTyped DEF Crash, ToolchainChanges, Fault, NoStore, ledgerVars, gitVars, OutsideTypes
<1>2. run' \in [Tasks -> Runs]
  BY <1>1, RunnersTyped, NoRunTyped
<1>3. CandidateTypes'
  BY <1>1, <1>2, RunnersTyped DEF CandidateTypes, OutsideTypes
<1>4. \A u \in Tasks \cup {Earlier} : Complete(u)'
  BY <1>1 DEF CInv, Complete
<1>5. ASSUME NEW u \in Tasks PROVE Good(u)'
  <2>1. Good(u) /\ Still(u) /\ state'[u] = state[u] /\ evidence'[u] = evidence[u]
    BY <1>1 DEF CInv, Still, storeVars
  <2>2. run'[u] = run[u] \/ run'[u].pc = "none"
    BY <1>1 DEF NoRun
  <2>3. Fits(u) /\ Onward(u) /\ Progress(u)'
    BY <2>1, <2>2 DEF Fits, Onward, Progress, Good, Sealed, Idling, Verifying, Neutral, Commands
  <2> QED
    BY <2>1, <2>3, Frame
<1> QED
  BY <1>3, <1>4, <1>5 DEF Establishes

(* A new attempt finds no commit of its epoch and no effect.               *)
LEMMA BeginKeeps ==
  ASSUME CInv, NEW t \in Tasks, Begin(t)
  PROVE  Establishes
<1>1. epoch[t] + 1 \in Epochs /\ Fresh(t, "work", epoch[t] + 1)
  BY BeginTurns
<1>2. UNCHANGED <<headRow, effects, evidence, commits>> /\ OutsideTypes'
  BY RunnersTyped DEF Begin, Outside, ledgerVars, gitVars, outsideVars, OutsideTypes
<1>3. /\ epoch' = [epoch EXCEPT ![t] = @ + 1] /\ state' = [state EXCEPT ![t] = "RUNNING"]
      /\ state \in [Tasks -> TaskStates \cup {"ABSENT"}] /\ epoch \in [Tasks -> 0..MaxEpoch]
  BY DEF Begin, BeginAttempt, Move, CInv, HInv, IInv, TypeOK
<1>4. CandidateTypes'
  BY <1>1, <1>2, RunnersTyped DEF CandidateTypes, OutsideTypes, Fresh, Alone
<1>5. \A u \in Tasks \cup {Earlier} : Complete(u)'
  BY <1>2 DEF CInv, Complete
<1>6. ASSUME NEW u \in Tasks \ {t} PROVE Good(u)'
  <2>1. Apart(u)
    BY <1>1, <1>2, <1>3 DEF Apart, Still, Fresh, Alone
  <2> QED
    BY <2>1, ApartKept DEF CInv
<1>7. Good(t)'
  <2>1. /\ epoch'[t] = epoch[t] + 1 /\ state'[t] = "RUNNING" /\ epoch[t] \in Nat
        /\ Good(t) /\ GitHead(t)' = GitHead(t)
        /\ \A e \in Epochs : CommitsOf(t, e)' = CommitsOf(t, e)
    BY <1>2, <1>3, EpochAssumption DEF CInv, GitHead, CommitsOf
  <2>2. /\ run'[t].pc = "work" /\ run'[t].epoch = epoch[t] + 1
        /\ effects'[t][epoch[t] + 1].state = "NONE"
    BY <1>1, <1>2, <2>1 DEF Fresh, Good, History, Epochs
  <2>3. \A k \in DOMAIN commits'[t] : commits'[t][k].epoch <= epoch'[t]
    <3>1. \A k \in DOMAIN commits[t] : commits[t][k].epoch <= epoch[t]
                                       /\ commits[t][k].epoch \in 0..MaxEpoch
      BY <2>1, CommitTyped DEF Good, History
    <3> QED
      BY <1>2, <2>1, <3>1, EpochAssumption
  <2>4. \A e \in Epochs : e > epoch'[t] => effects'[t][e].state = "NONE"
    BY <1>2, <2>1 DEF Good, History, Epochs
  <2>5. History(t)'
    BY <1>1, <1>2, <2>1, <2>2, <2>3, <2>4 DEF Good, History
  <2>6. \A e \in Epochs : Told(t, e)'
    BY <1>2, <2>1 DEF Good, Told
  <2>7. Underway(t)'
    BY <1>2, <2>1, <2>2 DEF Underway, Dispatched, Inspecting
  <2>8. Sealed(t)' /\ Gated(t)'
    BY <1>2, <2>1 DEF Good, Sealed, Accounted, Gated
  <2>9. Progress(t)'
    BY <1>1 DEF Progress, Fresh, Verifying
  <2> QED
    BY <2>5, <2>6, <2>7, <2>8, <2>9 DEF Good
<1> QED
  BY <1>4, <1>5, <1>6, <1>7 DEF Establishes

(* What is verified is the durable head, with all its commands passed.     *)
LEMMA PersistKeeps ==
  ASSUME CInv, NEW t \in Tasks, Persist(t)
  PROVE  Establishes
<1>1. UNCHANGED <<headRow, effects, commits>> /\ OutsideTypes' /\ run[t].pc = "persist"
      /\ run[t].pc \notin Idling
  BY RunnersTyped DEF Persist, At, NoStore, Outside, ledgerVars, gitVars, outsideVars,
     OutsideTypes, Idling
<1>2. CASE Fail(t) /\ NoStore
  <2>1. Stored(t) /\ LedgerKept
    BY <1>1, <1>2, Unstored DEF NoStore, ledgerVars, LedgerKept
  <2> QED
    BY <1>1, <1>2, <2>1, Failing
<1>3. CASE ~(Fail(t) /\ NoStore)
  <2>1. /\ headRow[t] = run[t].revision /\ Go(t, "confirm")
        /\ PersistVerificationOutcome(t, run[t].epoch)
    BY <1>3 DEF Persist
  <2>2. PICK oracle \in OracleOutcomes :
          LET verdict == Verdict(run[t], oracle) IN
          /\ state'[t] = Target(run[t], verdict)
          /\ evidence' = [evidence EXCEPT ![t] = IF verdict # "PASS" THEN NoEvidence ELSE
               [revision |-> run[t].revision, planned |-> Commands(run[t].paths),
                passed |-> run[t].passed, env |-> run[t].env, saw |-> run[t].saw,
                oracle |-> tree[t]]]
    BY <1>3 DEF Persist
  <2> DEFINE passes == Verdict(run[t], oracle) = "PASS"
             found  == [revision |-> run[t].revision, planned |-> Commands(run[t].paths),
                        passed |-> run[t].passed, env |-> run[t].env, saw |-> run[t].saw,
                        oracle |-> tree[t]]
             new    == IF passes THEN found ELSE NoEvidence
  <2>3. evidence' = [evidence EXCEPT ![t] = new]
    BY <2>2
  <2>4. state'[t] # "READY_TO_INTEGRATE" /\ (state'[t] = "VERIFIED" => passes)
    BY <2>2 DEF Target
  <2>5. passes => run[t].ok
    BY DEF Verdict
  <2>6. /\ run[t] \in Runs /\ tree[t] \in Trees /\ run[t].paths \in SUBSET Paths
        /\ evidence \in [Tasks \cup {Earlier} -> Evidences] /\ Progress(t)
    BY DEF CInv, CandidateTypes, Good, Runs
  <2>7. passes => run[t].passed = Commands(run[t].paths)
    BY <1>1, <2>5, <2>6 DEF Progress, Verifying
  <2>8. /\ Commands(run[t].paths) \in SUBSET Names /\ Commands({}) \in SUBSET Names
        /\ BaseTree \in Trees
    BY <2>6, PathsTyped DEF BaseTree, Trees
  <2>9. found \in Evidences
    BY <2>6, <2>8 DEF Runs, Evidences
  <2>10. NoEvidence \in Evidences /\ NoEvidence.passed = NoEvidence.planned
    BY <2>8 DEF NoEvidence, Evidences
  <2> HIDE DEF passes
  <2>11. evidence' \in [Tasks \cup {Earlier} -> Evidences]
    BY <2>3, <2>6, <2>9, <2>10
  <2>12. evidence'[t] = new /\ \A u \in (Tasks \cup {Earlier}) \ {t} : evidence'[u] = evidence[u]
    BY <2>3, <2>6
  <2>13. Turned(t, "confirm")
    BY <2>1, GoTurns, RunnersTyped DEF Steps, Idling
  <2>14. CandidateTypes'
    BY <1>1, <2>11, <2>13, RunnersTyped DEF CandidateTypes, OutsideTypes, Turned, Alone
  <2>15. \A u \in Tasks \cup {Earlier} : Complete(u)'
    <3>1. new.passed = new.planned
      BY <2>7, <2>10
    <3> QED
      BY <2>12, <3>1 DEF CInv, Complete
  <2>16. /\ epoch' = epoch /\ \A u \in Tasks \ {t} : state'[u] = state[u]
    BY <2>1 DEF PersistVerificationOutcome, Move, CInv, HInv, IInv, TypeOK
  <2>17. ASSUME NEW u \in Tasks \ {t} PROVE Good(u)'
    <3>1. Apart(u)
      BY <1>1, <2>12, <2>13, <2>16 DEF Apart, Still, Turned, Alone
    <3> QED
      BY <3>1, ApartKept DEF CInv
  <2>18. Good(t)'
    <3>1. Good(t) /\ Still(t)
      BY <1>1, <2>16 DEF CInv, Still
    <3>2. Onward(t)
      BY <1>1, <2>13 DEF Onward, Turned, Idling, Neutral
    <3>3. Progress(t)' /\ Gated(t)'
      BY <2>4, <2>13 DEF Progress, Gated, Turned, Idling, Verifying
    <3>4. History(t)' /\ Underway(t)' /\ \A e \in Epochs : Told(t, e)'
      BY <3>1, <3>2, StillTold, UnderwayKept DEF Good, History, Still, Onward
    <3>5. state'[t] = "VERIFIED" => evidence'[t].revision = headRow'[t]
      BY <1>1, <2>1, <2>4, <2>12
    <3>6. Sealed(t)'
      BY <2>4, <2>13, <3>1, <3>5 DEF Good, Sealed, Accounted, Still, Turned, Idling
    <3> QED
      BY <3>3, <3>4, <3>6 DEF Good
  <2> QED
    BY <2>14, <2>15, <2>17, <2>18 DEF Establishes
<1> QED
  BY <1>2, <1>3

(* The gate lets through what it found planned for all that changed.       *)
LEMMA IntegrateKeeps ==
  ASSUME CInv, NEW t \in Tasks, Integrate(t)
  PROVE  Establishes
<1>1. /\ UNCHANGED <<headRow, effects, evidence, commits, run>> /\ OutsideTypes'
      /\ EvidenceFresh(t) /\ run[t].pc = "none"
  BY RunnersTyped DEF Integrate, At, Outside, ledgerVars, gitVars, outsideVars, OutsideTypes
<1>2. /\ state[t] = "VERIFIED" /\ epoch' = epoch
      /\ state' = [state EXCEPT ![t] = "READY_TO_INTEGRATE"]
      /\ state \in [Tasks -> TaskStates \cup {"ABSENT"}]
  BY DEF Integrate, PrepareIntegrationAttempt, Prepare, Move, CInv, HInv, IInv, TypeOK
<1>3. CandidateTypes'
  BY <1>1, RunnersTyped DEF CandidateTypes, OutsideTypes
<1>4. \A u \in Tasks \cup {Earlier} : Complete(u)'
  BY <1>1 DEF CInv, Complete
<1>5. ASSUME NEW u \in Tasks \ {t} PROVE Good(u)'
  <2>1. Apart(u)
    BY <1>1, <1>2 DEF Apart, Still
  <2> QED
    BY <2>1, ApartKept DEF CInv
<1>6. Good(t)'
  <2>1. Good(t) /\ Still(t) /\ Onward(t)
    BY <1>1, <1>2 DEF CInv, Still, Onward
  <2>2. Progress(t)'
    BY <1>1 DEF Progress, Idling, Verifying
  <2>3. History(t)' /\ Underway(t)' /\ \A e \in Epochs : Told(t, e)'
    BY <2>1, StillTold, UnderwayKept DEF Good, History, Still, Onward
  <2>4. Sealed(t)'
    BY <1>1, <1>2, <2>1 DEF Good, Sealed, Accounted
  <2>5. evidence[t].planned = Whole(t)
    BY <1>1 DEF EvidenceFresh, Whole
  <2>6. Gated(t)'
    BY <1>1, <2>5 DEF Gated, Whole, TreeAt, BaseTree, Diff, Commands
  <2> QED
    BY <2>2, <2>3, <2>4, <2>6 DEF Good
<1> QED
  BY <1>3, <1>4, <1>5, <1>6 DEF Establishes

--------------------------------------------------------------------------------
(* What holds while the sealer works.                                      *)
LEMMA SealerAt ==
  ASSUME CInv, NEW t \in Tasks, run[t].pc \notin Verifying \cup Idling
  PROVE  /\ run[t].epoch \in Epochs /\ run[t].epoch = epoch[t] /\ Effect(t) \in Intents
         /\ run[t].ok /\ run[t].passed = {} /\ run[t].todo = {}
         /\ Told(t, run[t].epoch) /\ Underway(t) /\ run[t].pc # "none"
         /\ tree[t] \in Trees /\ index[t] \in Trees
BY DEF CInv, Good, History, Progress, CandidateTypes, Idling, Effect

(* The effect and the commits after a step of the sealer on the effect.    *)
LEMMA EffectNow ==
  ASSUME CInv, NEW t \in Tasks, run[t].pc \notin Verifying \cup Idling, NEW x,
         effects' = [effects EXCEPT ![t][run[t].epoch] = x], commits' = commits
  PROVE  /\ effects'[t][run[t].epoch] = x /\ GitHead(t)' = GitHead(t)
         /\ \A e : CommitsOf(t, e)' = CommitsOf(t, e)
<1>1. run[t].epoch \in Epochs /\ effects \in [Tasks -> [Epochs -> Intents]]
  BY SealerAt DEF CInv, CandidateTypes
<1> QED
  BY <1>1 DEF GitHead, CommitsOf

(* Only the state of the effect is set.                                    *)
LEMMA EffectSet ==
  ASSUME CInv, NEW t \in Tasks, run[t].pc \notin Verifying \cup Idling, NEW s \in EffectStates,
         SetEffect(t, s)
  PROVE  LET x == [Effect(t) EXCEPT !.state = s] IN
         /\ x \in Intents /\ x.state = s /\ x.expected = Effect(t).expected
         /\ x.authorized = Effect(t).authorized
         /\ effects' = [effects EXCEPT ![t][run[t].epoch] = x]
<1>1. run[t].epoch \in Epochs /\ Effect(t) \in Intents /\ effects \in [Tasks -> [Epochs -> Intents]]
  BY SealerAt DEF CInv, CandidateTypes
<1> QED
  BY <1>1 DEF SetEffect, Effect, Intents

(* A step that leaves the files, the toolchain and the bounds.             *)
LEMMA OutsideKept ==
  ASSUME CInv, Outside, index' = index
  PROVE  OutsideTypes'
BY RunnersTyped DEF OutsideTypes, Outside, outsideVars

(* Goes on to a step of the sealer.                                        *)
LEMMA SealerGoes ==
  ASSUME CInv, NEW t \in Tasks, run[t].pc \notin Verifying \cup Idling,
         NEW pc \in Steps \ (Verifying \cup Idling), Go(t, pc) \/ (pc = "failed" /\ Fail(t))
  PROVE  /\ Alone(t) /\ run'[t].pc = pc /\ run'[t].epoch = run[t].epoch
         /\ run'[t].pc \notin Verifying \cup Idling
         /\ run'[t].ok /\ run'[t].passed = {} /\ run'[t].todo = {}
<1>1. CASE Go(t, pc)
  BY <1>1, GoTurns, RunnersTyped, SealerAt DEF Turned
<1>2. CASE pc = "failed" /\ Fail(t)
  BY <1>2, FailTurns, RunnersTyped DEF Fresh
<1> QED
  BY <1>1, <1>2

(* The steps of the sealer that are none of the ledger's.                  *)
LEMMA SealerLooks ==
  ASSUME CInv, NEW t \in Tasks,
         SealUnchanged(t) \/ SealRefused(t) \/ Reseal(t) \/ GitAdd(t)
  PROVE  Establishes
<1>1. Stored(t) /\ LedgerKept /\ run[t].pc \notin Verifying \cup Idling
  BY Unstored DEF SealUnchanged, SealRefused, Reseal, GitAdd, Reads, NoStore, At, gitVars,
     ledgerVars, LedgerKept, Idling, Verifying
<1>2. CASE SealRefused(t)
  <2>1. OutsideTypes' /\ Fail(t)
    BY <1>2, OutsideKept DEF SealRefused, Reads, gitVars
  <2> QED
    BY <1>1, <2>1, Failing
<1>3. CASE Reseal(t)
  <2>1. OutsideTypes' /\ Go(t, "seal")
    BY <1>3, OutsideKept DEF Reseal, Reads, gitVars
  <2>2. "seal" \in Steps /\ "seal" \in Neutral \ {"none"} /\ {run[t].pc, "seal"} \cap Verifying = {}
    BY <1>1 DEF Steps, Neutral, Verifying, Idling
  <2> QED
    BY <1>1, <2>1, <2>2, Going
<1>4. CASE SealUnchanged(t)
  <2>1. OutsideTypes'
    BY <1>4, OutsideKept DEF SealUnchanged, Reads, gitVars
  <2>2. /\ Alone(t) /\ run'[t].pc = "admit" /\ run'[t].epoch = run[t].epoch
        /\ run'[t].todo = run[t].todo /\ run'[t].passed = run[t].passed
        /\ run'[t].ok = run[t].ok
    BY <1>4, SealedTurns, RunnersTyped DEF SealUnchanged
  <2>3. Onward(t) /\ run'[t].pc \notin Verifying
    BY <1>1, <2>2 DEF Onward, Neutral, Verifying, Idling
  <2>4. Progress(t)'
    BY <1>1, <2>2, <2>3, EarlyProgress
  <2>5. Plain(t)
    BY <1>1, <2>2 DEF Plain, LedgerKept
  <2> QED
    BY <2>1, <2>3, <2>4, <2>5, PlainStep
<1>5. CASE GitAdd(t)
  <2> DEFINE added == [index EXCEPT ![t] = Only(tree[t], @, IntentPaths(Effect(t), t))]
  <2>1. added \in [Tasks -> Trees]
    <3>1. tree[t] \in Trees /\ index \in [Tasks -> Trees]
      BY DEF CInv, CandidateTypes
    <3>2. Only(tree[t], index[t], IntentPaths(Effect(t), t)) \in Trees
      BY <3>1 DEF Only, Trees
    <3> QED
      BY <3>1, <3>2
  <2>2. index' \in {index, added} /\ (faults' = faults \/ faults' = faults + 1)
        /\ UNCHANGED <<tree, written, toolchain>>
    BY <1>5 DEF GitAdd, Fault
  <2> HIDE DEF added
  <2>3. OutsideTypes'
    BY <2>1, <2>2, RunnersTyped DEF OutsideTypes
  <2>4. PICK pc \in {"commit", "inspect:error"} : Go(t, pc)
    BY <1>5 DEF GitAdd
  <2>5. run[t].pc \in Dispatched /\ pc \in Dispatched \cup Inspecting /\ pc \in Steps
        /\ {run[t].pc, pc} \cap Verifying = {}
    BY <1>5, <2>4 DEF GitAdd, At, Dispatched, Inspecting, Steps, Verifying
  <2> QED
    BY <1>1, <2>3, <2>4, <2>5, Going
<1> QED
  BY <1>2, <1>3, <1>4, <1>5

(* A change is planned under the authority of the attempt.                 *)
LEMMA SealChangedKeeps ==
  ASSUME CInv, NEW t \in Tasks, SealChanged(t)
  PROVE  Establishes
<1> DEFINE x == [state |-> "PREPARED", expected |-> GitHead(t), authorized |-> tree[t]]
<1>1. run[t].pc \notin Verifying \cup Idling
  BY DEF SealChanged, At, Verifying, Idling
<1>2. /\ effects' = [effects EXCEPT ![t][run[t].epoch] = x] /\ Effect(t).state = "NONE"
      /\ Go(t, "dispatch") /\ UNCHANGED <<storeVars, headRow, evidence, commits>> /\ OutsideTypes'
  BY OutsideKept DEF SealChanged, PrepareEffect, gitVars
<1>3. x \in Intents
  BY <1>1, SealerAt, CommitTyped DEF Intents, EffectStates
<1>4. "dispatch" \in Steps \ (Verifying \cup Idling)
  BY DEF Steps, Verifying, Idling
<1>5. /\ Alone(t) /\ run'[t].pc = "dispatch" /\ run'[t].epoch = run[t].epoch
      /\ run'[t].pc \notin Verifying \cup Idling
      /\ run'[t].ok /\ run'[t].passed = {} /\ run'[t].todo = {}
  BY <1>1, <1>2, <1>4, SealerGoes
<1>6. /\ effects'[t][run[t].epoch] = x /\ GitHead(t)' = GitHead(t)
      /\ \A e : CommitsOf(t, e)' = CommitsOf(t, e)
  BY <1>1, <1>2, EffectNow
<1>7. Told(t, run[t].epoch)'
  <2>1. CommitsOf(t, run[t].epoch) = {}
    BY <1>1, <1>2, SealerAt DEF Told, Effect
  <2> QED
    BY <1>5, <1>6, <2>1 DEF Told
<1>8. Underway(t)'
  BY <1>5, <1>6 DEF Underway, Dispatched, Inspecting
<1> QED
  BY <1>1, <1>2, <1>3, <1>5, <1>7, <1>8, LedgerStep

(* An operation that was begun: dispatched again only if nothing was done. *)
LEMMA SealAgainKeeps ==
  ASSUME CInv, NEW t \in Tasks, SealAgain(t)
  PROVE  Establishes
<1>1. run[t].pc \notin Verifying \cup Idling
  BY DEF SealAgain, At, Verifying, Idling
<1>2. /\ Effect(t) \in Intents /\ Told(t, run[t].epoch) /\ Underway(t)
      /\ run[t].pc # "none" /\ run[t].epoch \in Epochs
  BY <1>1, SealerAt
<1>3. UNCHANGED <<storeVars, headRow, evidence, commits>> /\ OutsideTypes'
  BY OutsideKept DEF SealAgain, gitVars
<1>4. CASE Effect(t).state \in {"PREPARED", "NOT_APPLIED"}
  <2> DEFINE x == [Effect(t) EXCEPT !.state = "PREPARED"]
  <2>1. effects' = [effects EXCEPT ![t][run[t].epoch] = x] /\ Go(t, "dispatch")
    BY <1>4 DEF SealAgain, Decision, PrepareEffect, Rearmed
  <2>2. x \in Intents /\ x.state = "PREPARED" /\ x.expected = Effect(t).expected
    BY <1>2 DEF Intents, EffectStates
  <2>3. "dispatch" \in Steps \ (Verifying \cup Idling)
    BY DEF Steps, Verifying, Idling
  <2>4. /\ Alone(t) /\ run'[t].pc = "dispatch" /\ run'[t].epoch = run[t].epoch
        /\ run'[t].pc \notin Verifying \cup Idling
        /\ run'[t].ok /\ run'[t].passed = {} /\ run'[t].todo = {}
    BY <1>1, <2>1, <2>3, SealerGoes
  <2>5. /\ effects'[t][run[t].epoch] = x /\ GitHead(t)' = GitHead(t)
        /\ \A e : CommitsOf(t, e)' = CommitsOf(t, e)
    BY <1>1, <1>3, <2>1, EffectNow
  <2>6. Told(t, run[t].epoch)'
    BY <1>2, <1>4, <2>2, <2>4, <2>5 DEF Told, Effect
  <2>7. Underway(t)'
    BY <1>2, <1>4, <2>2, <2>4, <2>5 DEF Underway, Dispatched, Inspecting, Effect
  <2> QED
    BY <1>1, <1>3, <1>4, <2>1, <2>2, <2>4, <2>6, <2>7, LedgerStep
<1>5. CASE Effect(t).state \in {"DISPATCHED", "APPLIED"}
  <2>1. /\ effects' = effects
        /\ \E pc \in {"inspect:applied", "inspect:uncertain"} : Go(t, pc)
    BY <1>5 DEF SealAgain, Decision
  <2>2. PICK pc \in {"inspect:applied", "inspect:uncertain"} : Go(t, pc)
    BY <2>1
  <2>3. pc \in Steps \ (Verifying \cup Idling)
    BY DEF Steps, Verifying, Idling, Inspecting
  <2>4. /\ Alone(t) /\ run'[t].pc = pc /\ run'[t].epoch = run[t].epoch
        /\ run'[t].pc \notin Verifying \cup Idling
        /\ run'[t].ok /\ run'[t].passed = {} /\ run'[t].todo = {}
    BY <1>1, <2>2, <2>3, SealerGoes
  <2>5. effects' = [effects EXCEPT ![t][run[t].epoch] = Effect(t)]
    BY <1>2, <2>1 DEF Effect, CInv, CandidateTypes
  <2>6. /\ effects'[t][run[t].epoch] = Effect(t) /\ GitHead(t)' = GitHead(t)
        /\ \A e : CommitsOf(t, e)' = CommitsOf(t, e)
    BY <1>1, <1>3, <2>5, EffectNow
  <2>7. Told(t, run[t].epoch)'
    BY <1>2, <1>3, <2>4, <2>6 DEF Told, Effect
  <2>8. Underway(t)'
    BY <1>2, <1>5, <2>4, <2>6 DEF Underway, Unmoved, Moved, Dispatched, Inspecting, Effect
  <2> QED
    BY <1>1, <1>2, <1>3, <2>4, <2>5, <2>7, <2>8, LedgerStep
<1>6. Effect(t).state \in EffectStates /\ Effect(t).state # "NONE"
  BY <1>2 DEF SealAgain, Intents
<1> QED
  BY <1>4, <1>5, <1>6 DEF EffectStates

(* The dispatch is durable before git is asked to do anything.             *)
LEMMA DispatchKeeps ==
  ASSUME CInv, NEW t \in Tasks, Dispatch(t)
  PROVE  Establishes
<1>1. run[t].pc \notin Verifying \cup Idling
  BY DEF Dispatch, At, Verifying, Idling
<1>2. /\ Effect(t) \in Intents /\ Told(t, run[t].epoch) /\ Underway(t)
      /\ run[t].pc = "dispatch" /\ run[t].epoch \in Epochs
  BY <1>1, SealerAt DEF Dispatch, At
<1>3. UNCHANGED <<storeVars, headRow, evidence, commits>> /\ OutsideTypes' /\ Stored(t)
  BY OutsideKept, Unstored DEF Dispatch, NoStore, ledgerVars, gitVars
<1>4. CASE Fail(t) /\ NoStore
  BY <1>1, <1>3, <1>4, Failing DEF NoStore, ledgerVars, LedgerKept
<1>5. CASE AuthorizeDispatch(t) /\ Go(t, "compare")
  <2> DEFINE x == [Effect(t) EXCEPT !.state = "DISPATCHED"]
  <2>1. Effect(t).state = "PREPARED" /\ SetEffect(t, "DISPATCHED") /\ "DISPATCHED" \in EffectStates
    BY <1>5 DEF AuthorizeDispatch, EffectStates
  <2>2. /\ x \in Intents /\ x.state = "DISPATCHED" /\ x.expected = Effect(t).expected
        /\ effects' = [effects EXCEPT ![t][run[t].epoch] = x]
    BY <1>1, <2>1, EffectSet
  <2>3. "compare" \in Steps \ (Verifying \cup Idling)
    BY DEF Steps, Verifying, Idling, Dispatched
  <2>4. /\ Alone(t) /\ run'[t].pc = "compare" /\ run'[t].epoch = run[t].epoch
        /\ run'[t].pc \notin Verifying \cup Idling
        /\ run'[t].ok /\ run'[t].passed = {} /\ run'[t].todo = {}
    BY <1>1, <1>5, <2>3, SealerGoes
  <2>5. /\ effects'[t][run[t].epoch] = x /\ GitHead(t)' = GitHead(t)
        /\ \A e : CommitsOf(t, e)' = CommitsOf(t, e)
    BY <1>1, <1>3, <2>2, EffectNow
  <2>6. Told(t, run[t].epoch)'
    BY <2>2, <2>4, <2>5 DEF Told
  <2>7. GitHead(t) = Effect(t).expected /\ CommitsOf(t, run[t].epoch) = {}
    BY <1>2, <2>1 DEF Underway, Told, Effect
  <2>8. Underway(t)'
    BY <2>2, <2>4, <2>5, <2>7 DEF Underway, Unmoved, Dispatched, Inspecting
  <2> QED
    BY <1>1, <1>3, <2>1, <2>2, <2>4, <2>6, <2>8, LedgerStep
<1> QED
  BY <1>4, <1>5 DEF Dispatch

(* An effect that is found not to have been applied.                       *)
LEMMA NotApplied ==
  ASSUME CInv, NEW t \in Tasks, run[t].pc \notin Verifying \cup Idling,
         Observe(t, "NOT_APPLIED"), Fail(t), GitHead(t) = Effect(t).expected,
         UNCHANGED <<storeVars, headRow, evidence, commits>>, OutsideTypes'
  PROVE  Establishes
<1> DEFINE x == [Effect(t) EXCEPT !.state = "NOT_APPLIED"]
<1>1. /\ Effect(t) \in Intents /\ Told(t, run[t].epoch) /\ Underway(t)
      /\ run[t].pc # "none" /\ run[t].epoch \in Epochs
  BY SealerAt
<1>2. Effect(t).state = "DISPATCHED" /\ SetEffect(t, "NOT_APPLIED")
      /\ "NOT_APPLIED" \in EffectStates
  BY DEF Observe, EffectStates
<1>3. /\ x \in Intents /\ x.state = "NOT_APPLIED" /\ x.expected = Effect(t).expected
      /\ effects' = [effects EXCEPT ![t][run[t].epoch] = x]
  BY <1>2, EffectSet
<1>4. "failed" \in Steps \ (Verifying \cup Idling)
  BY DEF Steps, Verifying, Idling
<1>5. /\ Alone(t) /\ run'[t].pc = "failed" /\ run'[t].epoch = run[t].epoch
      /\ run'[t].pc \notin Verifying \cup Idling
      /\ run'[t].ok /\ run'[t].passed = {} /\ run'[t].todo = {}
  BY <1>4, SealerGoes
<1>6. /\ effects'[t][run[t].epoch] = x /\ GitHead(t)' = GitHead(t)
      /\ \A e : CommitsOf(t, e)' = CommitsOf(t, e)
  BY <1>3, EffectNow
<1>7. CommitsOf(t, run[t].epoch) = {}
  <2>1. GitHead(t) \in Nat /\ Effect(t).expected \in Nat
    BY <1>1, CommitTyped DEF Intents
  <2> QED
    BY <1>1, <1>2, <2>1 DEF Underway, Unmoved, Moved, Effect
<1>8. Told(t, run[t].epoch)'
  BY <1>3, <1>5, <1>6, <1>7 DEF Told
<1>9. Underway(t)'
  BY <1>3, <1>5, <1>6 DEF Underway, Dispatched, Inspecting
<1> QED
  BY <1>2, <1>3, <1>5, <1>8, <1>9, LedgerStep

(* The files are those that were authorized, or the effect is called off.  *)
LEMMA CompareKeeps ==
  ASSUME CInv, NEW t \in Tasks, Compare(t)
  PROVE  Establishes
<1>1. run[t].pc \notin Verifying \cup Idling /\ run[t].pc \in Dispatched
  BY DEF Compare, At, Verifying, Idling, Dispatched
<1>2. UNCHANGED <<storeVars, headRow, evidence, commits>> /\ OutsideTypes' /\ Stored(t)
  BY OutsideKept, Unstored DEF Compare, NoStore, ledgerVars, gitVars
<1>3. CASE Go(t, "add") /\ NoStore
  <2>1. "add" \in Dispatched \cup Inspecting /\ "add" \in Steps
        /\ {run[t].pc, "add"} \cap Verifying = {}
    BY <1>1 DEF Dispatched, Steps, Verifying
  <2>2. LedgerKept
    BY <1>2, <1>3 DEF NoStore, ledgerVars, LedgerKept
  <2> QED
    BY <1>1, <1>2, <1>3, <2>1, <2>2, Going
<1>4. CASE Observe(t, "NOT_APPLIED") /\ Fail(t)
  <2>1. GitHead(t) = Effect(t).expected
    BY <1>1, SealerAt DEF Underway, Unmoved, Effect
  <2> QED
    BY <1>1, <1>2, <1>4, <2>1, NotApplied
<1> QED
  BY <1>3, <1>4 DEF Compare

(* A commit found where the effect expects one has the authorized tree:    *)
(* the paths of the intent by comparison, the others because neither       *)
(* changes them.                                                           *)
LEMMA AppliedTree ==
  ASSUME CInv, NEW t \in Tasks, run[t].pc \notin Verifying \cup Idling,
         InspectSeal(t) = "applied"
  PROVE  /\ GitHead(t) = Effect(t).expected + 1
         /\ commits[t][GitHead(t)].tree = Effect(t).authorized
<1> DEFINE n == GitHead(t)
           found == TreeAt(t, n)
           base  == TreeAt(t, Effect(t).expected)
           asked == Effect(t).authorized
<1>1. /\ n = Effect(t).expected + 1 /\ Diff(found, base) = Diff(asked, base)
      /\ \A p \in Diff(asked, base) : tree[t][p] = asked[p] /\ tree[t][p] = found[p]
  BY DEF InspectSeal, StateMatches, IntentPaths
<1>2. Effect(t).expected \in Nat /\ asked \in Trees /\ n \in Nat
  BY SealerAt, CommitTyped DEF Intents
<1>3. n \in 1..n /\ n # 0
  BY <1>1, <1>2
<1>4. found = commits[t][n].tree /\ commits[t][n] \in Snapshots
  BY <1>3, CommitTyped DEF TreeAt
<1>5. found \in Trees
  BY <1>4 DEF Snapshots
<1> HIDE DEF found, base, asked
<1>6. \A p \in Paths : found[p] = asked[p]
  BY <1>1 DEF Diff
<1>7. found = asked
  BY <1>2, <1>5, <1>6 DEF Trees
<1> QED
  BY <1>1, <1>4, <1>7 DEF asked

(* An observation, whatever led to it.                                     *)
LEMMA ReconcileKeeps ==
  ASSUME CInv, NEW t \in Tasks, ReconcileSeal(t)
  PROVE  Establishes
<1>1. run[t].pc \notin Verifying \cup Idling /\ run[t].pc \in Inspecting
  BY DEF ReconcileSeal, Reconciling, Verifying, Idling, Inspecting
<1>2. /\ Effect(t) \in Intents /\ Told(t, run[t].epoch) /\ Underway(t)
      /\ run[t].pc # "none" /\ run[t].epoch \in Epochs
  BY <1>1, SealerAt
<1>3. UNCHANGED <<storeVars, headRow, evidence, commits>> /\ OutsideTypes' /\ Stored(t)
  BY OutsideKept, Unstored DEF ReconcileSeal, gitVars
<1>4. GitHead(t) \in Nat /\ Effect(t).expected \in Nat
  BY <1>2, CommitTyped DEF Intents
<1>5. CASE UNCHANGED effects /\ Fail(t)
  BY <1>1, <1>3, <1>5, Failing DEF LedgerKept
<1>6. CASE InspectSeal(t) = "notApplied" /\ Observe(t, "NOT_APPLIED") /\ Fail(t)
  <2>1. GitHead(t) = Effect(t).expected
    BY <1>6 DEF InspectSeal
  <2> QED
    BY <1>1, <1>3, <1>6, <2>1, NotApplied
<1>7. ASSUME InspectSeal(t) = "applied", Go(t, "record"),
             Observe(t, "APPLIED") \/ (Effect(t).state = "APPLIED" /\ UNCHANGED effects)
      PROVE  Establishes
  <2> DEFINE x == [Effect(t) EXCEPT !.state = "APPLIED"]
  <2>1. /\ x \in Intents /\ x.state = "APPLIED" /\ x.expected = Effect(t).expected
        /\ x.authorized = Effect(t).authorized
        /\ effects' = [effects EXCEPT ![t][run[t].epoch] = x]
        /\ Effect(t).state = "APPLIED" => x = Effect(t)
    <3>1. CASE Observe(t, "APPLIED")
      <4>1. Effect(t).state = "DISPATCHED" /\ SetEffect(t, "APPLIED") /\ "APPLIED" \in EffectStates
        BY <3>1 DEF Observe, EffectStates
      <4> QED
        BY <1>1, <4>1, EffectSet
    <3>2. CASE Effect(t).state = "APPLIED" /\ UNCHANGED effects
      <4>1. x = Effect(t)
        BY <1>2, <3>2 DEF Intents
      <4>2. effects' = [effects EXCEPT ![t][run[t].epoch] = Effect(t)]
        BY <1>2, <3>2 DEF Effect, CInv, CandidateTypes
      <4> QED
        BY <1>2, <3>2, <4>1, <4>2
    <3> QED
      BY <1>7, <3>1, <3>2
  <2>2. "record" \in Steps \ (Verifying \cup Idling)
    BY DEF Steps, Verifying, Idling
  <2>3. /\ Alone(t) /\ run'[t].pc = "record" /\ run'[t].epoch = run[t].epoch
        /\ run'[t].pc \notin Verifying \cup Idling
        /\ run'[t].ok /\ run'[t].passed = {} /\ run'[t].todo = {}
    BY <1>1, <1>7, <2>2, SealerGoes
  <2>4. /\ effects'[t][run[t].epoch] = x /\ GitHead(t)' = GitHead(t)
        /\ \A e : CommitsOf(t, e)' = CommitsOf(t, e)
    BY <1>1, <1>3, <2>1, EffectNow
  <2>5. /\ GitHead(t) = Effect(t).expected + 1
        /\ commits[t][GitHead(t)].tree = Effect(t).authorized
    BY <1>1, <1>7, AppliedTree
  <2>6. CommitsOf(t, run[t].epoch) = {Effect(t).expected + 1}
    <3>1. Effect(t).state \in {"DISPATCHED", "APPLIED"} /\ GitHead(t) # Effect(t).expected
      BY <1>1, <1>2, <1>4, <2>5 DEF Underway, Effect
    <3>2. Moved(t, run[t].epoch)
      BY <1>2, <3>1 DEF Underway, Unmoved, Effect
    <3> QED
      BY <3>2 DEF Moved, Effect
  <2>7. Told(t, run[t].epoch)'
    <3>1. CommitsOf(t, run[t].epoch)' = {x.expected + 1}
      BY <2>1, <2>3, <2>4, <2>6
    <3>2. commits'[t][x.expected + 1].tree = x.authorized
      BY <1>3, <2>1, <2>5
    <3> HIDE DEF x
    <3> QED
      BY <2>1, <2>3, <2>4, <3>1, <3>2 DEF Told
  <2>8. Underway(t)'
    <3>1. CommitsOf(t, run[t].epoch)' = {x.expected + 1} /\ GitHead(t)' = x.expected + 1
      BY <2>1, <2>3, <2>4, <2>5, <2>6
    <3> HIDE DEF x
    <3> QED
      BY <2>1, <2>3, <2>4, <3>1 DEF Underway, Moved, Dispatched, Inspecting
  <2> QED
    BY <1>1, <1>3, <2>1, <2>3, <2>7, <2>8, LedgerStep
<1> QED
  BY <1>5, <1>6, <1>7 DEF ReconcileSeal

(* One more commit of the operation under way.                             *)
LEMMA CommitKeeps ==
  ASSUME CInv, NEW t \in Tasks, GitCommit(t)
  PROVE  Establishes
<1> DEFINE n == GitHead(t)
           e == run[t].epoch
           commit == [tree |-> index[t], epoch |-> e]
<1>1. run[t].pc \notin Verifying \cup Idling /\ run[t].pc = "commit" /\ run[t].pc \in Dispatched
  BY DEF GitCommit, At, Verifying, Idling, Dispatched
<1>2. /\ UNCHANGED <<storeVars, headRow, effects, evidence>> /\ OutsideTypes' /\ Stored(t)
  <2>1. /\ UNCHANGED <<storeVars, headRow, effects, evidence, index, tree, written, toolchain>>
        /\ faults' = faults \/ faults' = faults + 1
    BY DEF GitCommit, NoStore, ledgerVars, Fault
  <2> QED
    BY <2>1, RunnersTyped, Unstored DEF OutsideTypes
<1>3. PICK pc \in {"inspect:applied", "inspect:error"} : Go(t, pc)
  BY DEF GitCommit
<1>4. pc \in Inspecting /\ pc \in Steps \ (Verifying \cup Idling) /\ pc \notin {"none", "work"}
  BY DEF Inspecting, Steps, Verifying, Idling
<1>5. CASE commits' = commits
  <2>1. LedgerKept /\ {run[t].pc, pc} \cap Verifying = {}
    BY <1>1, <1>2, <1>4, <1>5 DEF LedgerKept
  <2> QED
    BY <1>1, <1>2, <1>3, <1>4, <2>1, Going
<1>6. CASE commits' = [commits EXCEPT ![t] = Append(@, commit)]
  <2>1. /\ e \in Epochs /\ e = epoch[t] /\ index[t] \in Trees /\ Effect(t) \in Intents
        /\ Underway(t) /\ run[t].pc # "none"
    BY <1>1, SealerAt
  <2>2. Effect(t).state = "DISPATCHED" /\ n = Effect(t).expected /\ CommitsOf(t, e) = {}
    BY <1>1, <2>1 DEF Underway, Unmoved, Effect
  <2>3. commit \in Snapshots /\ commit.epoch = e /\ n \in Nat
    BY <2>1, CommitTyped, EpochAssumption DEF Epochs, Snapshots
  <2> HIDE DEF commit
  <2>4. /\ commits' \in [Tasks -> Seq(Snapshots)]
        /\ \A u \in Tasks \ {t} : commits'[u] = commits[u]
        /\ GitHead(t)' = n + 1 /\ DOMAIN commits'[t] = 1..(n + 1)
        /\ \A k \in 1..n : commits'[t][k] = commits[t][k]
        /\ commits'[t][n + 1] = commit
        /\ \A d : d # commit.epoch => CommitsOf(t, d)' = CommitsOf(t, d)
    BY <1>6, <2>3, Appended
  <2>5. commits'[t][n + 1].epoch = e /\ DOMAIN commits[t] = 1..n
    BY <2>3, <2>4, CommitTyped
  <2>6. /\ Alone(t) /\ run'[t].pc = pc /\ run'[t].epoch = e
        /\ run'[t].ok /\ run'[t].passed = {} /\ run'[t].todo = {}
    BY <1>1, <1>3, <1>4, SealerGoes
  <2>7. CandidateTypes'
    BY <1>2, <2>4, <2>6, RunnersTyped DEF CandidateTypes, OutsideTypes, Alone
  <2>8. \A u \in Tasks \cup {Earlier} : Complete(u)'
    BY <1>2 DEF CInv, Complete
  <2>9. ASSUME NEW u \in Tasks \ {t} PROVE Good(u)'
    <3>1. Apart(u)
      BY <1>2, <2>4, <2>6 DEF Apart, Still, Alone, storeVars
    <3> QED
      BY <3>1, ApartKept DEF CInv
  <2>10. Good(t)
    BY DEF CInv
  <2>11. state' = state /\ epoch' = epoch
    BY <1>2 DEF storeVars
  <2>12. epoch[t] \in Nat /\ headRow[t] \in Nat /\ headRow[t] <= n
         /\ \A k \in 1..n : commits[t][k].epoch <= epoch[t]
    BY <2>5, <2>10, CommitTyped, EpochAssumption DEF Good, History, CInv, HInv, IInv, TypeOK
  <2>13. History(t)'
    <3>1. \A k \in DOMAIN commits'[t] : commits'[t][k].epoch <= epoch'[t]
      <4>1. ASSUME NEW k \in 1..(n + 1) PROVE commits'[t][k].epoch <= epoch[t]
        <5>1. k \in 1..n \/ k = n + 1
          BY <2>3
        <5> QED
          BY <2>1, <2>4, <2>5, <2>12, <5>1
      <4> QED
        BY <2>4, <2>11, <4>1
    <3>2. headRow'[t] <= GitHead(t)'
      BY <1>2, <2>3, <2>4, <2>12
    <3> QED
      BY <1>2, <2>1, <2>6, <2>10, <2>11, <3>1, <3>2 DEF Good, History
  <2>15. CommitsOf(t, e)' = {n + 1}
    <3>1. ASSUME NEW k PROVE k \in CommitsOf(t, e)' <=> k = n + 1
      <4>1. k \in 1..(n + 1) <=> k \in 1..n \/ k = n + 1
        BY <2>3
      <4> QED
        BY <2>2, <2>4, <2>5, <2>6, <4>1 DEF CommitsOf
    <3> QED
      BY <3>1 DEF CommitsOf
  <2>16. ASSUME NEW d \in Epochs PROVE Told(t, d)'
    <3>1. CASE d = e
      BY <1>2, <2>2, <3>1 DEF Told, Effect
    <3>2. CASE d # e
      <4>1. Told(t, d) /\ CommitsOf(t, d)' = CommitsOf(t, d)
        BY <2>3, <2>4, <2>10, <3>2 DEF Good
      <4>2. CommitsOf(t, d) \subseteq 1..n
        BY <2>5 DEF CommitsOf
      <4> QED
        BY <1>2, <2>4, <4>1, <4>2 DEF Told
    <3> QED
      BY <3>1, <3>2
  <2>17. Underway(t)'
    <3>1. /\ effects'[t][run'[t].epoch].state = "DISPATCHED" /\ Moved(t, run[t].epoch)'
      BY <1>2, <2>2, <2>4, <2>6, <2>15 DEF Moved, Effect
    <3> QED
      BY <1>4, <2>6, <3>1 DEF Underway, Dispatched, Inspecting
  <2>18. Sealed(t)'
    <3>1. state[t] \notin {"VERIFIED", "READY_TO_INTEGRATE"}
      BY <1>1, <2>10 DEF Good, Sealed
    <3>2. \A k \in 1..headRow[t] : k \in 1..n
      BY <2>3, <2>12
    <3> QED
      BY <1>2, <2>4, <2>10, <2>11, <3>1, <3>2 DEF Good, Sealed, Accounted
  <2>19. Gated(t)' /\ Progress(t)'
    BY <1>1, <1>4, <2>6, <2>10, <2>11 DEF Good, Sealed, Gated, Progress
  <2> QED
    BY <2>7, <2>8, <2>9, <2>13, <2>16, <2>17, <2>18, <2>19 DEF Establishes, Good
<1> QED
  BY <1>5, <1>6 DEF GitCommit

(* The durable head follows an effect that was observed as applied.        *)
LEMMA RecordKeeps ==
  ASSUME CInv, NEW t \in Tasks, RecordWorkspaceHead(t)
  PROVE  Establishes
<1> DEFINE n == GitHead(t)
           e == run[t].epoch
           paths == IntentPaths(Effect(t), t)
<1>1. run[t].pc \notin Verifying \cup Idling /\ run[t].pc = "record"
  BY DEF RecordWorkspaceHead, At, Verifying, Idling
<1>2. /\ UNCHANGED <<storeVars, effects, evidence, commits>> /\ OutsideTypes' /\ Stored(t)
  BY OutsideKept, Unstored DEF RecordWorkspaceHead, gitVars
<1>3. CASE UNCHANGED headRow /\ Fail(t)
  BY <1>1, <1>2, <1>3, Failing DEF LedgerKept
<1>4. ASSUME headRow[t] \in {Effect(t).expected, n}, headRow' = [headRow EXCEPT ![t] = n],
             run' = [run EXCEPT ![t].pc = "admit", ![t].revision = GitHead(t),
                                ![t].paths = paths]
      PROVE  Establishes
  <2>1. /\ e \in Epochs /\ Effect(t) \in Intents /\ Underway(t) /\ run[t].pc # "none"
        /\ run[t].ok /\ run[t].passed = {} /\ run[t].todo = {}
    BY <1>1, SealerAt
  <2>2. /\ Effect(t).state = "APPLIED" /\ n = Effect(t).expected + 1
        /\ CommitsOf(t, e) = {n}
    BY <1>1, <2>1 DEF Underway, Moved, Effect
  <2>3. n \in Nat /\ Effect(t).expected \in Nat /\ headRow \in [Tasks -> Nat]
    BY <2>1, CommitTyped DEF Intents, CInv, CandidateTypes
  <2>4. paths \in SUBSET Paths
    BY PathsTyped DEF IntentPaths
  <2> HIDE DEF paths
  <2>5. /\ Alone(t) /\ run'[t].pc = "admit" /\ run'[t].epoch = e
        /\ run'[t].todo = {} /\ run'[t].passed = {} /\ run'[t].ok
    BY <1>4, <2>1, <2>4, SealedTurns, RunnersTyped
  <2>6. /\ headRow'[t] = n /\ headRow' \in [Tasks -> Nat]
        /\ \A u \in Tasks \ {t} : headRow'[u] = headRow[u]
    BY <1>4, <2>3
  <2>7. CandidateTypes'
    BY <1>2, <2>5, <2>6, RunnersTyped DEF CandidateTypes, OutsideTypes, Alone
  <2>8. \A u \in Tasks \cup {Earlier} : Complete(u)'
    BY <1>2 DEF CInv, Complete
  <2>9. ASSUME NEW u \in Tasks \ {t} PROVE Good(u)'
    <3>1. Apart(u)
      BY <1>2, <2>5, <2>6 DEF Apart, Still, Alone, storeVars
    <3> QED
      BY <3>1, ApartKept DEF CInv
  <2>10. Good(t) /\ state' = state /\ epoch' = epoch /\ GitHead(t)' = n
         /\ \A d : CommitsOf(t, d)' = CommitsOf(t, d)
    BY <1>2 DEF CInv, storeVars, GitHead, CommitsOf
  <2>11. History(t)'
    BY <1>1, <1>2, <2>3, <2>5, <2>6, <2>10 DEF Good, History, Idling
  <2>12. \A d \in Epochs : Told(t, d)'
    BY <1>2, <2>10 DEF Good, Told
  <2>13. Underway(t)'
    <3>1. effects'[t][run'[t].epoch] = Effect(t) /\ Moved(t, run[t].epoch)'
      BY <1>2, <2>2, <2>5, <2>10 DEF Moved, Effect
    <3> QED
      BY <2>2, <2>5, <3>1 DEF Underway, Dispatched, Inspecting
  <2>14. Sealed(t)'
    <3>1. ASSUME NEW k \in 1..n, commits[t][k].epoch # 0
          PROVE  effects[t][commits[t][k].epoch].state = "APPLIED"
      <4>1. CASE k = n
        BY <2>2, <4>1 DEF CommitsOf, Effect
      <4>2. CASE k # n
        <5>1. k \in 1..headRow[t]
          BY <1>4, <2>2, <2>3, <4>2
        <5> QED
          BY <2>10, <3>1, <5>1 DEF Good, Sealed, Accounted
      <4> QED
        BY <4>1, <4>2
    <3>2. state[t] \notin {"VERIFIED", "READY_TO_INTEGRATE"}
      BY <1>1, <2>10 DEF Good, Sealed
    <3> QED
      BY <1>2, <2>6, <2>10, <3>1, <3>2 DEF Sealed, Accounted
  <2>15. Gated(t)' /\ Progress(t)'
    BY <1>1, <2>5, <2>10 DEF Good, Sealed, Gated, Progress, Verifying
  <2> QED
    BY <2>7, <2>8, <2>9, <2>11, <2>12, <2>13, <2>14, <2>15 DEF Establishes, Good
<1> QED
  BY <1>3, <1>4 DEF RecordWorkspaceHead

--------------------------------------------------------------------------------
(* No runner is at work where the workspace is not READY: its attempt      *)
(* would be open.                                                          *)
LEMMA AtRest ==
  ASSUME CInv, NEW t \in Tasks, workspace[t] # "READY"
  PROVE  run[t].pc = "none"
BY DEF CInv, HInv, Hosted, Quiescent, Live

(* What git and the store hold of a compacted task.                        *)
LEMMA HeadTyped ==
  ASSUME CInv, NEW t \in Tasks
  PROVE  TreeAt(t, GitHead(t)) \in Trees /\ tree[t] \in Trees /\ index[t] \in Trees
<1>1. GitHead(t) # 0 => commits[t][GitHead(t)] \in Snapshots
  <2>1. GitHead(t) \in Nat
    BY CommitTyped
  <2>2. GitHead(t) # 0 => GitHead(t) \in 1..GitHead(t)
    BY <2>1
  <2> QED
    BY <2>2, CommitTyped
<1> QED
  BY <1>1 DEF TreeAt, BaseTree, Trees, Snapshots, CInv, CandidateTypes

(* A snapshot is committed above what every attempt has committed, and     *)
(* moves neither the durable head nor any effect.                          *)
LEMMA CompactKeeps ==
  ASSUME CInv, NEW t \in Tasks, Compact(t)
  PROVE  Establishes
<1> DEFINE n == GitHead(t)
           commit == [tree |-> tree[t], epoch |-> 0]
<1>1. /\ UNCHANGED <<headRow, effects, evidence, run>> /\ OutsideTypes' /\ Stored(t)
      /\ workspace[t] = "CHECKPOINTING" /\ state' = state /\ epoch' = epoch
  BY StoreLeaves, OutsideKept DEF Compact, FinishWorkspaceCheckpoint, EndWorkspaceCheckpoint,
     ledgerVars
<1>2. CASE commits' = commits
  BY <1>1, <1>2, Steady DEF LedgerKept
<1>3. CASE commits' = [commits EXCEPT ![t] = Append(@, commit)]
  <2>1. commit \in Snapshots /\ commit.epoch = 0 /\ n \in Nat /\ DOMAIN commits[t] = 1..n
    BY HeadTyped, CommitTyped, EpochAssumption DEF Snapshots
  <2> HIDE DEF commit
  <2>2. /\ commits' \in [Tasks -> Seq(Snapshots)]
        /\ \A u \in Tasks \ {t} : commits'[u] = commits[u]
        /\ GitHead(t)' = n + 1 /\ DOMAIN commits'[t] = 1..(n + 1)
        /\ \A k \in 1..n : commits'[t][k] = commits[t][k]
        /\ commits'[t][n + 1] = commit
        /\ \A d : d # commit.epoch => CommitsOf(t, d)' = CommitsOf(t, d)
    BY <1>3, <2>1, Appended
  <2>3. CandidateTypes'
    BY <1>1, <2>2, RunnersTyped DEF CandidateTypes, OutsideTypes
  <2>4. \A u \in Tasks \cup {Earlier} : Complete(u)'
    BY <1>1 DEF CInv, Complete
  <2>5. ASSUME NEW u \in Tasks \ {t} PROVE Good(u)'
    <3>1. Apart(u)
      BY <1>1, <2>2 DEF Apart, Still
    <3> QED
      BY <3>1, ApartKept DEF CInv
  <2>6. /\ Good(t) /\ run[t].pc = "none" /\ state[t] # "READY_TO_INTEGRATE"
        /\ epoch[t] \in 0..MaxEpoch /\ headRow[t] \in Nat /\ headRow[t] <= n
    BY <1>1, AtRest, CommitTyped DEF CInv, HInv, IInv, TypeOK, Safe, Good, History
  <2>7. History(t)'
    <3>1. ASSUME NEW k \in 1..(n + 1) PROVE commits'[t][k].epoch <= epoch[t]
      <4>1. CASE k \in 1..n
        BY <2>1, <2>2, <2>6, <4>1 DEF Good, History
      <4>2. CASE k = n + 1
        BY <2>1, <2>2, <2>6, <4>2, EpochAssumption
      <4> QED
        BY <2>1, <4>1, <4>2
    <3> QED
      BY <1>1, <2>1, <2>2, <2>6, <3>1 DEF Good, History
  <2>8. ASSUME NEW d \in Epochs PROVE Told(t, d)'
    <3>1. Told(t, d) /\ CommitsOf(t, d)' = CommitsOf(t, d) /\ CommitsOf(t, d) \subseteq 1..n
      BY <2>1, <2>2, <2>6 DEF Good, Epochs, CommitsOf
    <3> QED
      BY <1>1, <2>2, <3>1 DEF Told
  <2>9. Underway(t)' /\ Progress(t)'
    BY <1>1, <2>6 DEF Underway, Good, Progress, Commands
  <2>10. Sealed(t)'
    <3>1. \A k \in 1..headRow[t] : k \in 1..n
      BY <2>1, <2>6
    <3> QED
      BY <1>1, <2>2, <2>6, <3>1 DEF Good, Sealed, Accounted
  <2>11. Gated(t)'
    BY <1>1, <2>6 DEF Gated
  <2> QED
    BY <2>3, <2>4, <2>5, <2>7, <2>8, <2>9, <2>10, <2>11 DEF Establishes, Good
<1> QED
  BY <1>2, <1>3 DEF Compact

(* The head of a compacted worktree is all accounted for.                  *)
LEMMA RehydrationKeeps ==
  ASSUME CInv, NEW t \in Tasks, BeginRehydration(t)
  PROVE  Establishes
<1>1. /\ UNCHANGED <<effects, evidence, commits, run>> /\ OutsideTypes'
      /\ workspace[t] = "CHECKPOINTED" /\ state' = state /\ epoch' = epoch
      /\ state[t] = "WAITING_RESOURCE" /\ headRow' = [headRow EXCEPT ![t] = GitHead(t)]
  BY OutsideKept DEF BeginRehydration, BeginWorkspaceRehydrate, gitVars
<1>2. GitHead(t) \in Nat /\ headRow \in [Tasks -> Nat] /\ GitHead(t)' = GitHead(t)
  BY <1>1, CommitTyped DEF CInv, CandidateTypes, GitHead
<1>3. headRow' \in [Tasks -> Nat] /\ headRow'[t] = GitHead(t)
      /\ \A u \in Tasks \ {t} : headRow'[u] = headRow[u]
  BY <1>1, <1>2
<1>4. CandidateTypes'
  BY <1>1, <1>3, RunnersTyped DEF CandidateTypes, OutsideTypes
<1>5. \A u \in Tasks \cup {Earlier} : Complete(u)'
  BY <1>1 DEF CInv, Complete
<1>6. ASSUME NEW u \in Tasks \ {t} PROVE Good(u)'
  <2>1. Apart(u)
    BY <1>1, <1>3 DEF Apart, Still
  <2> QED
    BY <2>1, ApartKept DEF CInv
<1>7. Good(t)'
  <2>1. Good(t) /\ run[t].pc = "none" /\ Accounted(t, GitHead(t))
    BY <1>1, AtRest DEF CInv, Parked
  <2>2. History(t)'
    BY <1>1, <1>2, <1>3, <2>1 DEF Good, History
  <2>3. \A d \in Epochs : Told(t, d)'
    BY <1>1, <2>1 DEF Good, Told, CommitsOf
  <2>4. Underway(t)' /\ Progress(t)' /\ Gated(t)'
    BY <1>1, <2>1 DEF Underway, Good, Progress, Gated, Commands
  <2>5. Sealed(t)'
    BY <1>1, <1>3, <2>1 DEF Sealed, Accounted
  <2> QED
    BY <2>2, <2>3, <2>4, <2>5 DEF Good
<1> QED
  BY <1>4, <1>5, <1>6, <1>7 DEF Establishes

(* What else there is to compacting and rebuilding moves the row only, and *)
(* the files.                                                              *)
LEMMA CompactionKeeps ==
  ASSUME CInv, NEW t \in Tasks, CompactionNext(t)
  PROVE  Establishes
<1>1. CASE BeginCompaction(t) \/ AbandonCompaction(t)
  <2>1. Stored(t)
    BY <1>1, StoreLeaves DEF BeginCompaction, AbandonCompaction, AbortWorkspaceCheckpoint
  <2>2. LedgerKept /\ OutsideTypes' /\ UNCHANGED run
    BY <1>1, OutsideKept DEF BeginCompaction, AbandonCompaction, ledgerVars, gitVars, LedgerKept
  <2> QED
    BY <2>1, <2>2, Steady
<1>2. CASE Rehydrate(t)
  <2>1. Stored(t)
    BY <1>2, StoreLeaves DEF Rehydrate
  <2>2. LedgerKept /\ UNCHANGED <<run, written, toolchain, faults>>
    BY <1>2 DEF Rehydrate, ledgerVars, LedgerKept
  <2>3. tree' \in [Tasks -> Trees] /\ index' \in [Tasks -> Trees]
    BY <1>2, HeadTyped, RunnersTyped DEF Rehydrate, OutsideTypes
  <2>4. OutsideTypes'
    BY <2>2, <2>3, RunnersTyped DEF OutsideTypes
  <2> QED
    BY <2>1, <2>2, <2>4, Steady
<1> QED
  BY <1>1, <1>2, CompactKeeps, RehydrationKeeps DEF CompactionNext

--------------------------------------------------------------------------------
(* Only the runner of the task moves.                                      *)
RunOnly(t) == \A u \in Tasks \ {t} : run'[u] = run[u]

LEMMA RunnerElsewhere ==
  ASSUME CInv, NEW t \in Tasks,
         WorkerNext(t) \/ SealerNext(t) \/ VerifierNext(t) \/ RunnerNext(t)
           \/ CompactionNext(t) \/ OutsideNext(t)
  PROVE  RunOnly(t)
<1>1. run \in [Tasks -> Runs]
  BY RunnersTyped
<1>2. CASE WorkerNext(t)
  BY <1>1, <1>2 DEF WorkerNext, Begin, CompleteCandidate, GiveUp, Work, ForeignWrite, Go, RunOnly
<1>3. CASE SealerNext(t)
  BY <1>1, <1>3 DEF SealerNext, SealUnchanged, SealChanged, SealAgain, SealRefused, Dispatch,
     Compare, GitAdd, GitCommit, ReconcileSeal, RecordWorkspaceHead, Reseal, Go, Fail, RunOnly
<1>4. CASE VerifierNext(t)
  BY <1>1, <1>4 DEF VerifierNext, Admit, Identify, RunCommand, CommandsRun, LosesAuthority, Settle,
     Persist, Go, Fail, RunOnly
<1>5. CASE RunnerNext(t) \/ OutsideNext(t)
  BY <1>1, <1>5 DEF RunnerNext, BlockFailed, Confirm, Integrate, OutsideNext, OwnerCancels,
     OwnerChooses, RecoverAttempt, CancelSettled, Retry, Store, Go, End, RunOnly
<1>6. CASE CompactionNext(t)
  BY <1>6 DEF CompactionNext, BeginCompaction, Compact, AbandonCompaction, BeginRehydration,
     Rehydrate, RunOnly
<1> QED
  BY <1>2, <1>3, <1>4, <1>5, <1>6

(* A runner starts with its attempt only.                                  *)
LEMMA RunnerStarts ==
  ASSUME CInv, NEW t \in Tasks,
         WorkerNext(t) \/ SealerNext(t) \/ VerifierNext(t) \/ RunnerNext(t)
           \/ CompactionNext(t) \/ OutsideNext(t),
         ~Begin(t)
  PROVE  run[t].pc = "none" => run' = run
<1>1. CASE WorkerNext(t)
  BY <1>1 DEF WorkerNext, CompleteCandidate, GiveUp, Work, ForeignWrite, At
<1>2. CASE SealerNext(t)
  BY <1>2 DEF SealerNext, SealUnchanged, SealChanged, SealAgain, SealRefused, Dispatch, Compare,
     GitAdd, GitCommit, ReconcileSeal, Reconciling, RecordWorkspaceHead, Reseal, At
<1>3. CASE VerifierNext(t)
  BY <1>3 DEF VerifierNext, Admit, Identify, RunCommand, CommandsRun, LosesAuthority, Settle,
     Persist, At
<1>4. CASE RunnerNext(t) \/ OutsideNext(t)
  BY <1>4 DEF RunnerNext, BlockFailed, Confirm, Integrate, At, OutsideNext, OwnerCancels,
     OwnerChooses, RecoverAttempt, CancelSettled, Retry, Store
<1>5. CASE CompactionNext(t)
  BY <1>5 DEF CompactionNext, BeginCompaction, Compact, AbandonCompaction, BeginRehydration,
     Rehydrate
<1> QED
  BY <1>1, <1>2, <1>3, <1>4, <1>5

(* What a step does to the attempts of the tasks: only a new attempt opens *)
(* one, and only the end of a runner, or its absence, closes one.          *)
LEMMA AttemptsKept ==
  ASSUME CInv, NEW t \in Tasks,
         WorkerNext(t) \/ SealerNext(t) \/ VerifierNext(t) \/ RunnerNext(t)
           \/ CompactionNext(t) \/ OutsideNext(t)
  PROVE  \/ Keeps \/ Begin(t)
         \/ run'[t].pc = "none" /\ \A u \in Tasks \ {t} : OpenEpochs(u)' = OpenEpochs(u)
<1>0. IInv /\ TypeOK
  BY DEF CInv, HInv, IInv
<1>a. ASSUME UNCHANGED storeVars PROVE Keeps
  BY <1>a, KeepsUnchanged DEF storeVars
<1>b. ASSUME NEW e, ConfirmAttemptTerminated(t, e)
      PROVE  \A u \in Tasks \ {t} : OpenEpochs(u)' = OpenEpochs(u)
  BY <1>b, <1>0 DEF ConfirmAttemptTerminated, SetAuthority, OpenEpochs, TypeOK
<1>1. CASE WorkerNext(t)
  BY <1>1, <1>a, KeepsTransition DEF WorkerNext, CompleteCandidate, GiveUp, Work, ForeignWrite,
     Reads, NoStore
<1>2. CASE SealerNext(t)
  BY <1>2, <1>a DEF SealerNext, SealUnchanged, SealChanged, SealAgain, SealRefused, Dispatch,
     Compare, GitAdd, GitCommit, ReconcileSeal, RecordWorkspaceHead, Reseal, Reads, NoStore
<1>3. CASE VerifierNext(t)
  <2>1. CASE Admit(t)
    BY <2>1, <1>a, KeepsTransition DEF Admit
  <2>2. CASE Persist(t)
    BY <2>2, <1>a, KeepsOutcome DEF Persist, NoStore
  <2>3. CASE ~Admit(t) /\ ~Persist(t)
    BY <1>3, <1>a, <2>3 DEF VerifierNext, Identify, RunCommand, CommandsRun, LosesAuthority,
       Settle, Reads, NoStore
  <2> QED
    BY <2>1, <2>2, <2>3
<1>4. CASE RunnerNext(t)
  <2>1. CASE BlockFailed(t)
    BY <2>1, <1>a, KeepsTransition DEF BlockFailed
  <2>2. CASE Confirm(t)
    BY <2>2, <1>b, EndTurns, RunnersTyped DEF Confirm, NoRun
  <2>3. CASE Integrate(t)
    BY <2>3, KeepsUnchanged DEF Integrate, PrepareIntegrationAttempt, Prepare
  <2> QED
    BY <1>4, <2>1, <2>2, <2>3 DEF RunnerNext
<1>5. CASE CompactionNext(t)
  BY <1>5, KeepsWorkspace DEF CompactionNext, BeginCompaction, Compact, AbandonCompaction,
     BeginRehydration, Rehydrate, WorkspaceNext
<1>6. CASE OutsideNext(t)
  <2>1. CASE OwnerCancels(t) \/ OwnerChooses(t) \/ CancelSettled(t)
    BY <1>0, <2>1, KeepsCancellation, KeepsUnchanged DEF OwnerCancels, OwnerChooses, CancelSettled,
       Store, Steer, FinalizeTaskCancellation
  <2>2. CASE RecoverAttempt(t)
    BY <1>0, <1>b, <2>2, KeepsRecovery DEF RecoverAttempt, Store, At
  <2>3. CASE Retry(t)
    BY <2>3, KeepsUnchanged DEF Retry, Store, RecoverTaskToWorkspaceReady, RecoverBlockedChoice,
       RecoverNoWorkspaceToPreflight, RecoverBlockedCheckpointToWaitingResource, SetTaskBlocker
  <2> QED
    BY <1>6, <2>1, <2>2, <2>3 DEF OutsideNext
<1> QED
  BY <1>1, <1>2, <1>3, <1>4, <1>5, <1>6

(* The attempt of a runner stays open.                                     *)
LEMMA LiveKept ==
  ASSUME CInv, Establishes, [CandidateNext]_candidateVars, NEW u \in Tasks
  PROVE  Live(u)'
<1>0. /\ Live(u) /\ History(u) /\ History(u)' /\ Good(u)'
      /\ authority \in [Tasks -> [Epochs -> AuthorityStates \cup {"NONE"}]]
  BY DEF CInv, HInv, IInv, TypeOK, Establishes, Good
<1>1. ASSUME Keeps, run'[u].pc = "none" \/ run[u].pc # "none" PROVE Live(u)'
  BY <1>0, <1>1 DEF Keeps, Live, History
<1>2. CASE UNCHANGED candidateVars \/ Crash \/ ToolchainChanges
  <2>1. UNCHANGED storeVars /\ (run' = run \/ run' = [t \in Tasks |-> NoRun])
    BY <1>2 DEF candidateVars, Crash, ToolchainChanges, NoStore
  <2> QED
    BY <1>1, <2>1, KeepsUnchanged DEF storeVars, NoRun
<1>3. ASSUME NEW t \in Tasks,
             WorkerNext(t) \/ SealerNext(t) \/ VerifierNext(t) \/ RunnerNext(t)
               \/ CompactionNext(t) \/ OutsideNext(t)
      PROVE  Live(u)'
  <2>1. CASE Begin(t)
    <3>1. /\ epoch[t] + 1 \in Epochs /\ run'[t].epoch = epoch[t] + 1
          /\ authority' = [authority EXCEPT ![t][epoch[t] + 1] = "ACTIVE"]
      BY <2>1, BeginTurns DEF Fresh, Begin, BeginAttempt, SetAuthority
    <3>2. CASE u = t
      BY <1>0, <3>1, <3>2 DEF Live, OpenEpochs
    <3>3. CASE u # t
      BY <1>0, <1>3, <3>1, <3>3, RunnerElsewhere DEF RunOnly, Live, OpenEpochs
    <3> QED
      BY <3>2, <3>3
  <2>2. CASE ~Begin(t)
    <3>1. CASE u = t
      BY <1>1, <1>3, <2>2, <3>1, AttemptsKept, RunnerStarts DEF Live
    <3>2. CASE u # t
      <4>1. run'[u] = run[u] /\ OpenEpochs(u)' = OpenEpochs(u)
        BY <1>3, <2>2, <3>2, AttemptsKept, RunnerElsewhere DEF RunOnly, Keeps
      <4> QED
        BY <1>0, <4>1 DEF Live
    <3> QED
      BY <3>1, <3>2
  <2> QED
    BY <2>1, <2>2
<1> QED
  BY <1>2, <1>3 DEF CandidateNext

(* Compacting and rebuilding aside, nothing moves a workspace.             *)
LEMMA WorkspaceLeft ==
  ASSUME NEW t \in Tasks,
         WorkerNext(t) \/ VerifierNext(t) \/ RunnerNext(t) \/ OutsideNext(t)
  PROVE  workspace' = workspace
<1>a. ASSUME \/ BeginAttempt(t) \/ PrepareIntegrationAttempt(t)
             \/ \E e, to : TransitionForAttempt(t, e, to)
             \/ \E e : \/ PersistVerificationOutcome(t, e) \/ ConfirmAttemptTerminated(t, e)
                       \/ RequirePhysicalRecovery(t, e)
             \/ RequestTaskCancellation(t) \/ FinalizeTaskCancellation(t) \/ Steer(t, TRUE)
             \/ RecoverTaskToWorkspaceReady(t, "RETRY_WAIT") \/ RecoverBlockedChoice(t)
             \/ UNCHANGED storeVars
      PROVE  workspace' = workspace
  BY <1>a DEF BeginAttempt, PrepareIntegrationAttempt, Prepare, TransitionForAttempt,
     PersistVerificationOutcome, ConfirmAttemptTerminated, RequirePhysicalRecovery,
     RequestTaskCancellation, FinalizeTaskCancellation, Steer, RecoverTaskToWorkspaceReady,
     RecoverBlockedChoice, RecoverNoWorkspaceToPreflight,
     RecoverBlockedCheckpointToWaitingResource, SetTaskBlocker, storeVars
<1>1. CASE WorkerNext(t)
  BY <1>1, <1>a DEF WorkerNext, Begin, CompleteCandidate, GiveUp, Work, ForeignWrite, Reads, NoStore
<1>2. CASE VerifierNext(t)
  <2>1. CASE Admit(t)
    BY <2>1, <1>a DEF Admit
  <2>2. CASE Persist(t)
    BY <2>2, <1>a DEF Persist, NoStore
  <2>3. CASE ~Admit(t) /\ ~Persist(t)
    BY <1>2, <1>a, <2>3 DEF VerifierNext, Identify, RunCommand, CommandsRun, LosesAuthority, Settle,
       Reads, NoStore
  <2> QED
    BY <2>1, <2>2, <2>3
<1>3. CASE RunnerNext(t)
  BY <1>3, <1>a DEF RunnerNext, BlockFailed, Confirm, Integrate
<1>4. CASE OutsideNext(t)
  BY <1>4, <1>a DEF OutsideNext, OwnerCancels, OwnerChooses, RecoverAttempt, CancelSettled, Retry,
     Store
<1> QED
  BY <1>1, <1>2, <1>3, <1>4

(* Only a compaction parks a workspace, and nothing commits to one.        *)
LEMMA ParkedKept ==
  ASSUME CInv, Establishes, [CandidateNext]_candidateVars, NEW u \in Tasks
  PROVE  Parked(u)'
<1> SUFFICES ASSUME workspace'[u] = "CHECKPOINTED" PROVE Accounted(u, GitHead(u))'
  BY DEF Parked
<1>0. /\ effects \in [Tasks -> [Epochs -> Intents]] /\ commits \in [Tasks -> Seq(Snapshots)]
      /\ workspace \in [Tasks -> WorkspaceStates \cup {"NONE"}] /\ Parked(u)
  BY DEF CInv, HInv, IInv, TypeOK, CandidateTypes
<1>1. ASSUME workspace[u] = "CHECKPOINTED", commits'[u] = commits[u], effects'[u] = effects[u]
      PROVE  Accounted(u, GitHead(u))'
  BY <1>0, <1>1 DEF Parked, Accounted, GitHead
<1>2. CASE UNCHANGED candidateVars \/ Crash \/ ToolchainChanges
  BY <1>1, <1>2 DEF candidateVars, storeVars, ledgerVars, gitVars, Crash, ToolchainChanges, NoStore
<1>3. ASSUME NEW t \in Tasks,
             WorkerNext(t) \/ SealerNext(t) \/ VerifierNext(t) \/ RunnerNext(t)
               \/ CompactionNext(t) \/ OutsideNext(t)
      PROVE  Accounted(u, GitHead(u))'
  <2>1. CASE SealerNext(t)
    <3>1. workspace' = workspace /\ run[t].pc # "none"
      BY <2>1 DEF SealerNext, SealUnchanged, SealChanged, SealAgain, SealRefused, Dispatch,
         Compare, GitAdd, GitCommit, ReconcileSeal, Reconciling, RecordWorkspaceHead, Reseal,
         Reads, NoStore, storeVars, At
    <3>2. u # t
      BY <3>1, AtRest
    <3>3. \/ effects' = effects
          \/ \E x : effects' = [effects EXCEPT ![t][run[t].epoch] = x]
          \/ \E s : SetEffect(t, s)
      BY <2>1 DEF SealerNext, SealUnchanged, SealChanged, SealAgain, SealRefused, Dispatch,
         Compare, GitAdd, GitCommit, ReconcileSeal, RecordWorkspaceHead, Reseal, Reads, NoStore,
         ledgerVars, PrepareEffect, AuthorizeDispatch, Observe
    <3>4. effects'[u] = effects[u]
      BY <1>0, <3>2, <3>3 DEF SetEffect
    <3>5. commits' = commits \/ \E c : commits' = [commits EXCEPT ![t] = Append(@, c)]
      BY <2>1 DEF SealerNext, SealUnchanged, SealChanged, SealAgain, SealRefused, Dispatch,
         Compare, GitAdd, GitCommit, ReconcileSeal, RecordWorkspaceHead, Reseal, Reads, gitVars
    <3> QED
      BY <1>0, <1>1, <3>1, <3>2, <3>4, <3>5
  <2>2. CASE Compact(t) /\ u = t
    <3> DEFINE commit == [tree |-> tree[u], epoch |-> 0]
    <3>1. /\ effects' = effects
          /\ commits' = commits \/ commits' = [commits EXCEPT ![u] = Append(@, commit)]
      BY <2>2 DEF Compact, ledgerVars
    <3>2. Accounted(u, GitHead(u)) /\ GitHead(u) \in Nat
      BY <2>2, CommitTyped DEF Compact, CInv, Good, Sealed
    <3>3. CASE commits' = commits
      BY <3>1, <3>2, <3>3 DEF Accounted, GitHead
    <3>4. CASE commits' = [commits EXCEPT ![u] = Append(@, commit)]
      <4>1. commit \in Snapshots /\ commit.epoch = 0
        BY HeadTyped, EpochAssumption DEF Snapshots
      <4> HIDE DEF commit
      <4>2. /\ GitHead(u)' = GitHead(u) + 1 /\ commits'[u][GitHead(u) + 1] = commit
            /\ \A k \in 1..GitHead(u) : commits'[u][k] = commits[u][k]
        BY <3>4, <4>1, Appended
      <4>3. ASSUME NEW k \in 1..(GitHead(u) + 1), commits'[u][k].epoch # 0
            PROVE  effects'[u][commits'[u][k].epoch].state = "APPLIED"
        <5>1. k \in 1..GitHead(u) \/ k = GitHead(u) + 1
          BY <3>2
        <5> QED
          BY <3>1, <3>2, <4>1, <4>2, <4>3, <5>1 DEF Accounted
      <4> QED
        BY <4>2, <4>3 DEF Accounted
    <3> QED
      BY <3>1, <3>3, <3>4
  <2>3. CASE CompactionNext(t) /\ ~(Compact(t) /\ u = t)
    <3>1. effects' = effects /\ commits'[u] = commits[u]
      BY <1>0, <2>3 DEF CompactionNext, BeginCompaction, Compact, AbandonCompaction,
         BeginRehydration, Rehydrate, ledgerVars, gitVars
    <3>2. workspace[u] = "CHECKPOINTED"
      BY <1>0, <2>3 DEF CompactionNext, BeginCompaction, Compact, AbandonCompaction,
         BeginRehydration, Rehydrate, BeginWorkspaceCheckpoint, FinishWorkspaceCheckpoint,
         AbortWorkspaceCheckpoint, EndWorkspaceCheckpoint, BeginWorkspaceRehydrate,
         MarkWorkspaceReady, MarkWorkspace
    <3> QED
      BY <1>1, <3>1, <3>2
  <2>4. CASE WorkerNext(t) \/ VerifierNext(t) \/ RunnerNext(t) \/ OutsideNext(t)
    <3>1. effects' = effects /\ commits' = commits
      BY <2>4 DEF WorkerNext, Begin, CompleteCandidate, GiveUp, Work, ForeignWrite, VerifierNext,
         Admit, Identify, RunCommand, CommandsRun, LosesAuthority, Settle, Persist, RunnerNext,
         BlockFailed, Confirm, Integrate, OutsideNext, OwnerCancels, OwnerChooses, RecoverAttempt,
         CancelSettled, Retry, Store, Reads, NoStore, ledgerVars, gitVars
    <3>2. workspace' = workspace
      BY <2>4, WorkspaceLeft
    <3> QED
      BY <1>1, <3>1, <3>2
  <2> QED
    BY <1>3, <2>1, <2>2, <2>3, <2>4
<1> QED
  BY <1>2, <1>3 DEF CandidateNext

--------------------------------------------------------------------------------
(* The invariant is inductive.                                             *)
LEMMA CandidateKeeps ==
  ASSUME CInv, [CandidateNext]_candidateVars
  PROVE  CInv'
<1>1. HInv'
  BY CandidateKeepsStore
<1>2. Establishes
  <2>1. CASE UNCHANGED candidateVars
    <3>1. LedgerKept /\ UNCHANGED storeVars /\ UNCHANGED run /\ OutsideTypes'
      BY <2>1, RunnersTyped DEF candidateVars, ledgerVars, gitVars, outsideVars, LedgerKept,
         OutsideTypes
    <3>2. CASE Tasks = {}
      BY <3>1, <3>2, RunnersTyped DEF Establishes, CandidateTypes, OutsideTypes, LedgerKept, CInv,
         Complete
    <3>3. CASE \E t \in Tasks : TRUE
      BY <3>1, <3>3, Unstored, Steady
    <3> QED
      BY <3>2, <3>3
  <2>2. CASE Crash \/ ToolchainChanges
    BY <2>2, HostKeeps
  <2>3. ASSUME NEW t \in Tasks,
               WorkerNext(t) \/ SealerNext(t) \/ VerifierNext(t) \/ RunnerNext(t)
                 \/ CompactionNext(t) \/ OutsideNext(t)
        PROVE  Establishes
    <3>1. CASE WorkerNext(t)
      BY <3>1, WorkerKeeps, BeginKeeps DEF WorkerNext
    <3>2. CASE SealerNext(t)
      BY <3>2, SealerLooks, SealChangedKeeps, SealAgainKeeps, DispatchKeeps, CompareKeeps,
         CommitKeeps, ReconcileKeeps, RecordKeeps DEF SealerNext
    <3>3. CASE VerifierNext(t)
      BY <3>3, VerifierKeeps, PersistKeeps DEF VerifierNext
    <3>4. CASE RunnerNext(t) \/ OutsideNext(t)
      BY <3>4, AroundKeeps, IntegrateKeeps DEF RunnerNext
    <3> QED
      BY <2>3, <3>1, <3>2, <3>3, <3>4, CompactionKeeps
  <2> QED
    BY <2>1, <2>2, <2>3 DEF CandidateNext
<1>3. \A u \in Tasks : Live(u)' /\ Parked(u)'
  BY <1>2, LiveKept, ParkedKept
<1> QED
  BY <1>1, <1>2, <1>3 DEF CInv, Establishes

(* The rows, the ledger, the evidence and git agree in every reachable     *)
(* state: the inductive invariant.                                         *)
THEOREM CandidateInvariant == CandidateSpec => []CInv
BY CandidateInitially, CandidateKeeps, PTL DEF CandidateSpec

(* Every step is a transaction of the store or leaves the rows alone: what *)
(* is proved of the store for any caller holds here.                       *)
THEOREM CandidateUsesStore == CandidateSpec => [][Next]_storeVars
<1>1. CInv /\ [CandidateNext]_candidateVars => [Next]_storeVars
  BY CandidateStoreStep, CallsAreTransactions DEF CandidateNext, Crash, ToolchainChanges, NoStore,
     candidateVars
<1> QED
  BY <1>1, CandidateInvariant, PTL DEF CandidateSpec

(* What the ledger says of a seal is what git has: one commit, of the      *)
(* authorized tree on the expected head, or none.                          *)
THEOREM LedgerIsTrue == CandidateSpec => []LedgerTruth
<1>1. CInv => LedgerTruth
  BY DEF CInv, Good, Told, LedgerTruth
<1> QED
  BY <1>1, CandidateInvariant, PTL

(* Below the durable head every commit is a compaction's snapshot or was   *)
(* sealed and observed, and a verified task stands for that head.          *)
THEOREM HeadStaysAccounted == CandidateSpec => []HeadAccounted
<1>1. CInv => HeadAccounted
  BY DEF CInv, Good, Sealed, Accounted, HeadAccounted
<1> QED
  BY <1>1, CandidateInvariant, PTL

(* Every test path that differs from the base has had its command pass     *)
(* when the gate lets a candidate through.                                 *)
THEOREM GateLetsWholeThrough == CandidateSpec => []GateSound
<1>1. CInv => GateSound
  <2>1. ASSUME CInv, NEW t \in Tasks, state[t] = "READY_TO_INTEGRATE", NEW p \in TestPaths,
               TreeAt(t, evidence[t].revision)[p] # 0
        PROVE  p \in evidence[t].passed
    <3>1. evidence[t].passed = Whole(t)
      BY <2>1 DEF CInv, Good, Gated, Complete
    <3>2. p \in Paths /\ BaseTree[p] = 0
      BY CandidateAssumption DEF BaseTree
    <3>3. p \in Diff(TreeAt(t, evidence[t].revision), BaseTree)
      BY <2>1, <3>2 DEF Diff
    <3> QED
      BY <3>1, <3>3 DEF Whole, Commands
  <2> QED
    BY <2>1 DEF GateSound
<1> QED
  BY <1>1, CandidateInvariant, PTL
--------------------------------------------------------------------------------
(* What PASS evidence is worth.  Commands run on files that anyone may     *)
(* write to, and the verifier looks at them twice only: before the first   *)
(* command and after the last.  That is enough because what a foreign      *)
(* writer leaves is new: a file that once differed from the candidate      *)
(* while commands ran still differs at the second look, and one that an    *)
(* oracle read differently still differs at the gate.                      *)

(* Nothing holds a content that was not written yet.                       *)
Bounded(t, files) == \A p \in Paths : files[p] <= written[t]
Contents(t) == /\ Bounded(t, tree[t]) /\ Bounded(t, index[t])
               /\ \A k \in 1..GitHead(t) : Bounded(t, commits[t][k].tree)

(* The candidate of the runner, and that of the evidence.                  *)
Sought(t)  == TreeAt(t, run[t].revision)
Proved(t)  == TreeAt(t, evidence[t].revision)
Alike(t, looks) == \A x \in looks : x = <<Sought(t), run[t].env>>

(* What the commands found is the candidate under the toolchain captured,  *)
(* or what they should have found is gone for good.                        *)
Looked(t) ==
  LET r == run[t] IN
    /\ r.pc \notin Verifying \cup Idling => r.saw = {}
    /\ r.pc \in {"admit", "identify"} \cup Verifying => r.revision <= GitHead(t)
    /\ r.pc \in Verifying =>
         /\ r.env <= toolchain
         /\ Alike(t, r.saw) \/ tree[t] # Sought(t) \/ r.env < toolchain
         /\ r.passed # {} => r.saw # {}
         /\ r.pc = "persist" /\ r.stable => Alike(t, r.saw)

Attested(t) ==
  evidence[t] # NoEvidence =>
    /\ evidence[t].revision \in 0..GitHead(t)
    /\ evidence[t].saw = {<<Proved(t), evidence[t].env>>}

(* The oracles read the candidate, or files that the gate will refuse.     *)
Examined(t) ==
  /\ state[t] = "VERIFIED" => evidence[t].oracle = Proved(t) \/ tree[t] # Proved(t)
  /\ state[t] = "READY_TO_INTEGRATE" => evidence[t].oracle = Proved(t)

Honest(t) == Contents(t) /\ Looked(t) /\ Attested(t) /\ Examined(t)
EInv == /\ CInv /\ evidence[Earlier] \in {NoEvidence, UnchangedEvidence}
        /\ \A t \in Tasks : Honest(t)

(* The first attempt finds the base everywhere.                            *)
LEMMA EvidenceInitially == CandidateInit => EInv
<1> SUFFICES ASSUME CandidateInit PROVE EInv
  OBVIOUS
<1>1. CInv /\ evidence[Earlier] \in {NoEvidence, UnchangedEvidence}
  BY CandidateInitially DEF CandidateInit
<1>2. ASSUME NEW t \in Tasks PROVE Honest(t)
  <2>1. /\ commits[t] = <<>> /\ run[t] = NoRun /\ evidence[t] = NoEvidence /\ written[t] = 0
        /\ tree[t] = BaseTree /\ index[t] = BaseTree /\ state[t] = "WORKSPACE_READY"
        /\ GitHead(t) = 0 /\ NoRun.pc = "none"
    BY CandidateAssumption DEF CandidateInit, GitHead, NoRun
  <2>2. Contents(t)
    BY <2>1 DEF Contents, Bounded, BaseTree
  <2>3. Looked(t) /\ Attested(t) /\ Examined(t)
    BY <2>1 DEF Looked, Attested, Examined, Verifying, Idling
  <2> QED
    BY <2>2, <2>3 DEF Honest
<1> QED
  BY <1>1, <1>2 DEF EInv

--------------------------------------------------------------------------------
(* What a step leaves of a task, and what it leaves of all others.         *)
Files(t) == /\ tree'[t] = tree[t] /\ written'[t] = written[t] /\ index'[t] = index[t]
            /\ commits'[t] = commits[t]
Calm(t) == /\ Files(t) /\ toolchain' = toolchain /\ evidence'[t] = evidence[t]
           /\ state'[t] \in {"VERIFIED", "READY_TO_INTEGRATE"} => state'[t] = state[t]
Elsewhere(t) ==
  /\ evidence'[Earlier] = evidence[Earlier]
  /\ \A u \in Tasks \ {t} : Calm(u) /\ run'[u] = run[u]

LEMMA TreesKept ==
  ASSUME NEW t, commits'[t] = commits[t]
  PROVE  /\ GitHead(t)' = GitHead(t)
         /\ \A k : TreeAt(t, k)' = TreeAt(t, k)
BY DEF GitHead, TreeAt, BaseTree

LEMMA ContentsKept ==
  ASSUME NEW t, Files(t), Contents(t)
  PROVE  Contents(t)'
BY TreesKept DEF Files, Contents, Bounded

LEMMA EvidenceKept ==
  ASSUME NEW t \in Tasks, Calm(t), Attested(t), Examined(t)
  PROVE  Attested(t)' /\ Examined(t)'
<1>1. Proved(t)' = Proved(t) /\ GitHead(t)' = GitHead(t) /\ NoEvidence' = NoEvidence
  BY TreesKept DEF Calm, Files, Proved, NoEvidence, BaseTree
<1> QED
  BY <1>1 DEF Calm, Files, Attested, Examined

LEMMA LookedKept ==
  ASSUME NEW t, Files(t), toolchain' = toolchain, run'[t] = run[t], Looked(t)
  PROVE  Looked(t)'
<1>1. Sought(t)' = Sought(t) /\ GitHead(t)' = GitHead(t)
  BY TreesKept DEF Files, Sought
<1> QED
  BY <1>1 DEF Files, Looked, Alike

LEMMA HonestKept ==
  ASSUME NEW t \in Tasks, Honest(t), Calm(t), Looked(t)'
  PROVE  Honest(t)'
BY ContentsKept, EvidenceKept DEF Calm, Honest

(* Where a step ends that is none of the verifier's.                       *)
LEMMA Quiet ==
  ASSUME NEW t,
         \/ run'[t].pc \in Idling
         \/ /\ run'[t].pc \notin Verifying /\ run'[t].saw = {}
            /\ run'[t].pc \in {"admit", "identify"} => run'[t].revision <= GitHead(t)'
  PROVE  Looked(t)'
BY DEF Looked, Idling, Verifying

LEMMA QuietGo ==
  ASSUME EInv, NEW t \in Tasks, NEW pc \in Steps \ {"admit"}, Go(t, pc),
         \/ pc \in Idling
         \/ {run[t].pc, pc} \cap (Verifying \cup Idling) = {},
         pc = "identify" => run[t].pc = "admit" /\ commits' = commits
  PROVE  Looked(t)'
<1>1. Turned(t, pc) /\ Looked(t)
  BY GoTurns DEF EInv, CInv, Honest
<1>2. CASE pc \in Idling
  BY <1>1, <1>2, Quiet DEF Turned
<1>3. CASE pc \notin Idling
  <2>1. run'[t].pc = pc /\ pc \notin Verifying /\ run'[t].saw = {}
    BY <1>1, <1>3 DEF Turned, Looked
  <2>2. pc = "identify" => run'[t].revision <= GitHead(t)'
    BY <1>1, TreesKept DEF Turned, Looked
  <2> QED
    BY <2>1, <2>2, Quiet
<1> QED
  BY <1>2, <1>3

LEMMA QuietEnd ==
  ASSUME EInv, NEW t \in Tasks, Fail(t) \/ End(t)
  PROVE  Looked(t)'
<1>1. CASE Fail(t)
  BY <1>1, FailTurns, Quiet DEF EInv, CInv, Fresh, Verifying
<1>2. CASE End(t)
  BY <1>2, EndTurns, Quiet DEF EInv, CInv, NoRun, Idling
<1> QED
  BY <1>1, <1>2

(* A step of one task leaves the others as they are.                       *)
LEMMA StoreElsewhere ==
  ASSUME CInv, NEW t \in Tasks, NEW u \in Tasks \ {t},
         \/ BeginAttempt(t) \/ \E e : PersistVerificationOutcome(t, e)
         \/ PrepareIntegrationAttempt(t) \/ Stored(t)
  PROVE  state'[u] = state[u]
<1>1. state \in [Tasks -> TaskStates \cup {"ABSENT"}]
  BY DEF CInv, HInv, IInv, TypeOK
<1> QED
  BY <1>1 DEF BeginAttempt, PersistVerificationOutcome, PrepareIntegrationAttempt, Prepare, Move,
     Stored

LEMMA StateElsewhere ==
  ASSUME CInv, NEW t \in Tasks, NEW u \in Tasks \ {t},
         WorkerNext(t) \/ SealerNext(t) \/ VerifierNext(t) \/ RunnerNext(t)
           \/ CompactionNext(t) \/ OutsideNext(t)
  PROVE  state'[u] = state[u]
<1>1. CASE WorkerNext(t)
  BY <1>1, StoreElsewhere, StoreLeaves DEF WorkerNext, Begin, CompleteCandidate, GiveUp, Work,
     ForeignWrite, Reads, NoStore
<1>2. CASE SealerNext(t)
  BY <1>2 DEF SealerNext, SealUnchanged, SealChanged, SealAgain, SealRefused, Dispatch,
     Compare, GitAdd, GitCommit, ReconcileSeal, RecordWorkspaceHead, Reseal, Reads, NoStore,
     storeVars
<1>3. CASE VerifierNext(t)
  <2>1. CASE Admit(t)
    BY <2>1, StoreElsewhere, StoreLeaves DEF Admit
  <2>2. CASE Persist(t)
    BY <2>2, StoreElsewhere, Unstored DEF Persist, NoStore
  <2>3. CASE ~Admit(t) /\ ~Persist(t)
    BY <1>3, <2>3 DEF VerifierNext, Identify, RunCommand, CommandsRun, LosesAuthority, Settle,
       Reads, NoStore, storeVars
  <2> QED
    BY <2>1, <2>2, <2>3
<1>4. CASE RunnerNext(t)
  BY <1>4, StoreElsewhere, StoreLeaves DEF RunnerNext, BlockFailed, Confirm, Integrate
<1>5. CASE CompactionNext(t)
  BY <1>5, StoreElsewhere, StoreLeaves DEF CompactionNext, BeginCompaction, Compact,
     AbandonCompaction, BeginRehydration, Rehydrate, FinishWorkspaceCheckpoint,
     AbortWorkspaceCheckpoint
<1>6. CASE OutsideNext(t)
  BY <1>6, StoreElsewhere, StoreLeaves DEF OutsideNext, OwnerCancels, OwnerChooses,
     RecoverAttempt, CancelSettled, Retry, Store
<1> QED
  BY <1>1, <1>2, <1>3, <1>4, <1>5, <1>6

LEMMA WorktreeElsewhere ==
  ASSUME CInv, NEW t \in Tasks, NEW u \in (Tasks \cup {Earlier}) \ {t},
         WorkerNext(t) \/ SealerNext(t) \/ VerifierNext(t) \/ RunnerNext(t)
           \/ CompactionNext(t) \/ OutsideNext(t)
  PROVE  /\ evidence'[u] = evidence[u] /\ toolchain' = toolchain
         /\ u \in Tasks => Files(u)
<1>1. /\ evidence \in [Tasks \cup {Earlier} -> Evidences]
      /\ commits \in [Tasks -> Seq(Snapshots)] /\ index \in [Tasks -> Trees]
      /\ tree \in [Tasks -> Trees] /\ written \in [Tasks -> Nat]
  BY DEF CInv, CandidateTypes
<1>2. CASE WorkerNext(t)
  BY <1>1, <1>2 DEF WorkerNext, Begin, CompleteCandidate, GiveUp, Work, ForeignWrite, Reads,
     NoStore, ledgerVars, gitVars, Outside, outsideVars, Files
<1>3. CASE SealerNext(t)
  <2>1. /\ UNCHANGED <<evidence, tree, written, toolchain>>
        /\ \/ index' = index
           \/ index' = [index EXCEPT ![t] = Only(tree[t], @, IntentPaths(Effect(t), t))]
        /\ \/ commits' = commits
           \/ commits' = [commits EXCEPT
                             ![t] = Append(@, [tree |-> index[t], epoch |-> run[t].epoch])]
    BY <1>3 DEF SealerNext, SealUnchanged, SealChanged, SealAgain, SealRefused, Dispatch,
       Compare, GitAdd, GitCommit, ReconcileSeal, RecordWorkspaceHead, Reseal, Reads, NoStore,
       ledgerVars, gitVars, Outside, outsideVars
  <2> QED
    BY <1>1, <2>1 DEF Files
<1>4. CASE VerifierNext(t)
  BY <1>1, <1>4 DEF VerifierNext, Admit, Identify, RunCommand, CommandsRun, LosesAuthority, Settle,
     Persist, Reads, NoStore, ledgerVars, gitVars, Outside, outsideVars, Files
<1>5. CASE RunnerNext(t) \/ OutsideNext(t)
  BY <1>1, <1>5 DEF RunnerNext, BlockFailed, Confirm, Integrate, OutsideNext, OwnerCancels,
     OwnerChooses, RecoverAttempt, CancelSettled, Retry, Store, ledgerVars, gitVars, Outside,
     outsideVars, Files
<1>6. CASE CompactionNext(t)
  BY <1>1, <1>6 DEF CompactionNext, BeginCompaction, Compact, AbandonCompaction, BeginRehydration,
     Rehydrate, ledgerVars, gitVars, Outside, outsideVars, Files
<1> QED
  BY <1>2, <1>3, <1>4, <1>5, <1>6

LEMMA OneTask ==
  ASSUME CInv, NEW t \in Tasks,
         WorkerNext(t) \/ SealerNext(t) \/ VerifierNext(t) \/ RunnerNext(t)
           \/ CompactionNext(t) \/ OutsideNext(t)
  PROVE  Elsewhere(t)
<1>1. evidence'[Earlier] = evidence[Earlier]
  BY WorktreeElsewhere, CandidateAssumption
<1>2. ASSUME NEW u \in Tasks \ {t} PROVE Calm(u) /\ run'[u] = run[u]
  <2>1. state'[u] = state[u]
    BY StateElsewhere
  <2>2. evidence'[u] = evidence[u] /\ toolchain' = toolchain /\ Files(u)
    BY WorktreeElsewhere
  <2> QED
    BY <2>1, <2>2, RunnerElsewhere DEF Calm, RunOnly
<1> QED
  BY <1>1, <1>2 DEF Elsewhere

--------------------------------------------------------------------------------
(* A step of one task keeps what is known of all if it keeps it of that    *)
(* task.                                                                   *)
LEMMA OthersHonest ==
  ASSUME EInv, NEW t \in Tasks,
         WorkerNext(t) \/ SealerNext(t) \/ VerifierNext(t) \/ RunnerNext(t)
           \/ CompactionNext(t) \/ OutsideNext(t),
         Honest(t)'
  PROVE  /\ evidence'[Earlier] \in {NoEvidence, UnchangedEvidence}
         /\ \A u \in Tasks : Honest(u)'
<1>1. Elsewhere(t)
  BY OneTask DEF EInv
<1>2. ASSUME NEW u \in Tasks \ {t} PROVE Honest(u)'
  <2>1. Honest(u) /\ Calm(u) /\ run'[u] = run[u]
    BY <1>1 DEF Elsewhere, EInv
  <2>2. Looked(u)'
    BY <2>1, LookedKept DEF Calm, Honest
  <2> QED
    BY <2>1, <2>2, HonestKept
<1> QED
  BY <1>1, <1>2 DEF Elsewhere, EInv

(* The worktree of a task is left alone, and nothing of it is verified.    *)
Untouched == UNCHANGED <<evidence, commits, index, tree, written, toolchain>>

LEMMA UntouchedCalm ==
  ASSUME CInv, NEW t \in Tasks, Untouched, Stored(t) \/ BeginAttempt(t)
  PROVE  Calm(t)
<1>1. state \in [Tasks -> TaskStates \cup {"ABSENT"}]
  BY DEF CInv, HInv, IInv, TypeOK
<1> QED
  BY <1>1 DEF Untouched, Calm, Files, Stored, BeginAttempt, Move

(* Steps that leave the files alone and end outside the verifier.          *)
LEMMA HonestRunner ==
  ASSUME EInv, NEW t \in Tasks,
         \/ Begin(t) \/ CompleteCandidate(t) \/ GiveUp(t)
         \/ BlockFailed(t) \/ Confirm(t) \/ OutsideNext(t)
  PROVE  Honest(t)'
<1>0. CInv /\ Honest(t)
  BY DEF EInv
<1>1. Untouched
  BY DEF Begin, CompleteCandidate, GiveUp, BlockFailed, Confirm, OutsideNext, OwnerCancels,
     OwnerChooses, RecoverAttempt, CancelSettled, Retry, Store, Reads, NoStore, ledgerVars,
     gitVars, Outside, outsideVars, Untouched
<1>2. Stored(t) \/ BeginAttempt(t)
  BY StoreLeaves, Unstored DEF Begin, CompleteCandidate, GiveUp, BlockFailed, Confirm,
     OutsideNext, OwnerCancels, OwnerChooses, RecoverAttempt, CancelSettled, Retry, Store,
     Reads, NoStore
<1>3. Calm(t)
  BY <1>0, <1>1, <1>2, UntouchedCalm
<1>4. Looked(t)'
  <2>1. CASE Begin(t)
    BY <1>0, <2>1, BeginTurns, Quiet DEF Fresh, Verifying
  <2>2. CASE CompleteCandidate(t)
    <3>1. Go(t, "seal") /\ run[t].pc = "work"
      BY <2>2 DEF CompleteCandidate, At
    <3>2. "seal" \in Steps \ {"admit"} /\ {run[t].pc, "seal"} \cap (Verifying \cup Idling) = {}
      BY <3>1 DEF Steps, Verifying, Idling
    <3> QED
      BY <3>1, <3>2, QuietGo
  <2>3. CASE GiveUp(t) \/ BlockFailed(t)
    <3>1. Go(t, "confirm")
      BY <2>3 DEF GiveUp, BlockFailed
    <3>2. "confirm" \in Steps \ {"admit"} /\ "confirm" \in Idling
      BY DEF Steps, Idling
    <3> QED
      BY <3>1, <3>2, QuietGo
  <2>4. CASE Confirm(t)
    BY <2>4, QuietEnd DEF Confirm
  <2>5. CASE OutsideNext(t)
    <3>1. run' = run
      BY <2>5 DEF OutsideNext, OwnerCancels, OwnerChooses, RecoverAttempt, CancelSettled, Retry,
         Store
    <3> QED
      BY <1>0, <1>3, <3>1, LookedKept DEF Calm, Honest
  <2> QED
    BY <2>1, <2>2, <2>3, <2>4, <2>5
<1> QED
  BY <1>0, <1>3, <1>4, HonestKept

(* A new content is not that of any commit; a worker that writes has no    *)
(* candidate yet.                                                          *)
LEMMA HonestWrite ==
  ASSUME EInv, NEW t \in Tasks, NEW p \in Paths, Work(t, p) \/ ForeignWrite(t, p)
  PROVE  Honest(t)'
<1>1. /\ Honest(t) /\ Good(t) /\ CInv /\ tree[t] \in Trees /\ index[t] \in Trees
      /\ written \in [Tasks -> Nat] /\ tree \in [Tasks -> Trees] /\ run[t] \in Runs
  BY DEF EInv, CInv, CandidateTypes
<1>2. UNCHANGED <<state, evidence, commits, index, toolchain, run>>
  BY DEF Work, ForeignWrite, NoStore, storeVars, ledgerVars, gitVars
<1>3. \/ /\ written'[t] = written[t] + 1 /\ tree'[t] = [tree[t] EXCEPT ![p] = written[t] + 1]
      \/ /\ written'[t] = written[t] /\ tree'[t] = [tree[t] EXCEPT ![p] = 0]
         /\ run[t].pc = "work"
  BY <1>1 DEF Work, ForeignWrite, At
<1>4. /\ GitHead(t)' = GitHead(t) /\ GitHead(t) \in Nat /\ written[t] \in Nat
      /\ \A k : TreeAt(t, k)' = TreeAt(t, k)
      /\ \A k \in 1..GitHead(t) : commits[t][k].tree \in Trees
  BY <1>1, <1>2, TreesKept, CommitTyped DEF Snapshots
<1>5. Contents(t)'
  <2>1. Bounded(t, tree[t])'
    <3>1. ASSUME NEW q \in Paths PROVE tree'[t][q] <= written'[t]
      <4>1. tree[t][q] \in Nat /\ tree[t][q] <= written[t]
        BY <1>1 DEF Honest, Contents, Bounded, Trees
      <4>2. \/ tree'[t][q] \in {tree[t][q], written[t] + 1} /\ written'[t] = written[t] + 1
            \/ tree'[t][q] \in {tree[t][q], 0} /\ written'[t] = written[t]
        BY <1>1, <1>3 DEF Trees
      <4> QED
        BY <1>4, <4>1, <4>2
    <3> QED
      BY <3>1 DEF Bounded
  <2>2. Bounded(t, index[t])'
    BY <1>1, <1>2, <1>3, <1>4 DEF Honest, Contents, Bounded, Trees
  <2>3. \A k \in 1..GitHead(t) : Bounded(t, commits[t][k].tree)'
    BY <1>1, <1>2, <1>3, <1>4 DEF Honest, Contents, Bounded, Trees
  <2> QED
    BY <1>2, <1>4, <2>1, <2>2, <2>3 DEF Contents, Bounded
<1>6. ASSUME NEW k \in 0..GitHead(t), tree[t] # TreeAt(t, k), run[t].pc # "work"
      PROVE  tree'[t] # TreeAt(t, k)
  <2>1. written'[t] = written[t] + 1 /\ tree'[t] = [tree[t] EXCEPT ![p] = written[t] + 1]
    BY <1>3, <1>6
  <2>2. TreeAt(t, k)[p] <= written[t] /\ TreeAt(t, k) \in Trees
    BY <1>1, <1>4 DEF Honest, Contents, Bounded, TreeAt, BaseTree, Trees
  <2>3. tree'[t][p] = written[t] + 1
    BY <1>1, <2>1 DEF Trees
  <2> QED
    BY <1>4, <2>2, <2>3 DEF Trees
<1>7. Looked(t)'
  <2>1. Sought(t)' = Sought(t)
    BY <1>2, <1>4 DEF Sought
  <2>2. run[t].pc \in Verifying /\ tree[t] # Sought(t) => tree'[t] # Sought(t)
    <3>1. run[t].pc \in Verifying => run[t].revision \in 0..GitHead(t) /\ run[t].pc # "work"
      BY <1>1, <1>4 DEF Honest, Looked, Runs, Verifying
    <3> QED
      BY <1>6, <3>1 DEF Sought
  <2> QED
    BY <1>1, <1>2, <1>4, <2>1, <2>2 DEF Honest, Looked, Alike
<1>8. Attested(t)' /\ Proved(t)' = Proved(t)
  <2>1. Proved(t)' = Proved(t) /\ NoEvidence' = NoEvidence
    BY <1>2, <1>4 DEF Proved, NoEvidence, BaseTree
  <2> QED
    BY <1>1, <1>2, <1>4, <2>1 DEF Honest, Attested
<1>9. Examined(t)'
  <2>1. state[t] = "VERIFIED" /\ tree[t] # Proved(t) => tree'[t] # Proved(t)
    <3>1. state[t] = "VERIFIED" => evidence[t].revision \in 0..GitHead(t) /\ run[t].pc # "work"
      BY <1>1, <1>4, CommitTyped DEF Good, Sealed, Idling, History
    <3> QED
      BY <1>6, <3>1 DEF Proved
  <2> QED
    BY <1>1, <1>2, <1>8, <2>1 DEF Honest, Examined
<1> QED
  BY <1>5, <1>7, <1>8, <1>9 DEF Honest

(* Where the sealer goes.                                                  *)
LEMMA QuietSealer ==
  ASSUME EInv, NEW t \in Tasks, SealerNext(t)
  PROVE  Looked(t)'
<1>0. CInv /\ Looked(t) /\ run[t].pc \notin Verifying \cup Idling
  BY DEF EInv, Honest, SealerNext, SealUnchanged, SealChanged, SealAgain, SealRefused, Dispatch,
     Compare, GitAdd, GitCommit, ReconcileSeal, Reconciling, RecordWorkspaceHead, Reseal, At,
     Verifying, Idling
<1>1. CASE Fail(t)
  BY <1>1, QuietEnd
<1>2. CASE \E pc : Go(t, pc) /\ pc \in {"seal", "dispatch", "compare", "add", "commit", "record",
                               "inspect:applied", "inspect:uncertain", "inspect:error"}
  <2>1. PICK pc \in {"seal", "dispatch", "compare", "add", "commit", "record",
                     "inspect:applied", "inspect:uncertain", "inspect:error"} : Go(t, pc)
    BY <1>2
  <2>2. pc \in Steps \ {"admit"} /\ pc \notin Verifying \cup Idling /\ pc # "identify"
    BY DEF Steps, Verifying, Idling, Dispatched, Inspecting
  <2>3. {run[t].pc, pc} \cap (Verifying \cup Idling) = {}
    BY <1>0, <2>2
  <2> QED
    BY <2>1, <2>2, <2>3, QuietGo
<1>3. ASSUME NEW paths \in SUBSET Paths, commits' = commits,
             run' = [run EXCEPT ![t].pc = "admit", ![t].revision = GitHead(t), ![t].paths = paths]
      PROVE  Looked(t)'
  <2>1. run'[t].pc = "admit" /\ run'[t].saw = run[t].saw /\ run'[t].revision = GitHead(t)
    BY <1>0, <1>3, SealedTurns DEF CInv
  <2>2. run'[t].saw = {} /\ run'[t].revision <= GitHead(t)'
    BY <1>0, <1>3, <2>1, TreesKept, CommitTyped DEF Looked
  <2> QED
    BY <2>1, <2>2, Quiet DEF Verifying
<1>4. CASE SealUnchanged(t)
  BY <1>3, <1>4 DEF SealUnchanged, Reads, gitVars
<1>5. CASE RecordWorkspaceHead(t)
  <2>1. IntentPaths(Effect(t), t) \in SUBSET Paths /\ commits' = commits
    BY <1>5, PathsTyped DEF IntentPaths, RecordWorkspaceHead, gitVars
  <2> QED
    BY <1>1, <1>3, <1>5, <2>1 DEF RecordWorkspaceHead
<1>6. CASE SealChanged(t) \/ SealAgain(t)
  BY <1>2, <1>6 DEF SealChanged, SealAgain
<1>7. CASE SealRefused(t) \/ Dispatch(t) \/ Compare(t) \/ Reseal(t)
  BY <1>1, <1>2, <1>7 DEF SealRefused, Dispatch, Compare, Reseal
<1>8. CASE GitAdd(t) \/ GitCommit(t)
  BY <1>2, <1>8 DEF GitAdd, GitCommit
<1>9. CASE ReconcileSeal(t)
  BY <1>1, <1>2, <1>9 DEF ReconcileSeal
<1> QED
  BY <1>4, <1>5, <1>6, <1>7, <1>8, <1>9 DEF SealerNext

(* Git takes over what files hold, and what a revision was it remains.     *)
LEMMA HonestSealer ==
  ASSUME EInv, NEW t \in Tasks, SealerNext(t)
  PROVE  Honest(t)'
<1>0. /\ CInv /\ Honest(t) /\ Good(t) /\ run[t].pc \notin Idling
      /\ index \in [Tasks -> Trees] /\ commits \in [Tasks -> Seq(Snapshots)] /\ tree[t] \in Trees
  BY DEF EInv, CInv, CandidateTypes, SealerNext, SealUnchanged, SealChanged, SealAgain,
     SealRefused, Dispatch, Compare, GitAdd, GitCommit, ReconcileSeal, Reconciling,
     RecordWorkspaceHead, Reseal, At, Idling
<1>1. Looked(t)'
  BY QuietSealer
<1>2. UNCHANGED storeVars /\ UNCHANGED <<evidence, tree, written, toolchain>>
  BY DEF SealerNext, SealUnchanged, SealChanged, SealAgain, SealRefused, Dispatch,
     Compare, GitAdd, GitCommit, ReconcileSeal, RecordWorkspaceHead, Reseal, Reads, NoStore,
     ledgerVars, Outside, outsideVars
<1>3. CASE UNCHANGED <<commits, index>>
  <2>1. Calm(t)
    BY <1>0, <1>2, <1>3, UntouchedCalm, Unstored DEF Untouched
  <2> QED
    BY <1>0, <1>1, <2>1, HonestKept
<1>4. state'[t] = state[t] /\ state[t] \notin {"VERIFIED", "READY_TO_INTEGRATE"}
  BY <1>0, <1>2 DEF Good, Sealed, storeVars
<1>5. Examined(t)'
  BY <1>4 DEF Examined
<1>6. CASE GitAdd(t)
  <2>1. /\ commits' = commits
        /\ index'[t] \in {index[t], Only(tree[t], index[t], IntentPaths(Effect(t), t))}
    BY <1>0, <1>6 DEF GitAdd
  <2>2. Bounded(t, index'[t])
    BY <1>0, <2>1 DEF Only, Honest, Contents, Bounded
  <2>3. GitHead(t)' = GitHead(t) /\ Proved(t)' = Proved(t) /\ NoEvidence' = NoEvidence
    BY <1>2, <2>1, TreesKept DEF Proved, NoEvidence, BaseTree
  <2>4. Contents(t)'
    BY <1>0, <1>2, <2>1, <2>2, <2>3 DEF Honest, Contents, Bounded
  <2>5. Attested(t)'
    BY <1>0, <1>2, <2>3 DEF Honest, Attested
  <2> QED
    BY <1>1, <1>5, <2>4, <2>5 DEF Honest
<1>7. CASE GitCommit(t) /\ commits' # commits
  <2> DEFINE n == GitHead(t)
             commit == [tree |-> index[t], epoch |-> run[t].epoch]
  <2>1. index' = index /\ commits'[t] = Append(commits[t], commit)
    BY <1>0, <1>7 DEF GitCommit
  <2>2. /\ n \in Nat /\ GitHead(t)' = n + 1
        /\ \A k \in 1..n : commits'[t][k] = commits[t][k]
        /\ commits'[t][n + 1].tree = index[t]
    <3>1. commits[t] \in Seq(Snapshots) /\ n = Len(commits[t])
      BY <1>0 DEF GitHead
    <3> HIDE DEF commit
    <3>2. /\ n \in Nat /\ GitHead(t)' = n + 1
          /\ \A k \in 1..n : commits'[t][k] = commits[t][k]
          /\ commits'[t][n + 1] = commit
      BY <2>1, <3>1 DEF GitHead
    <3> QED
      BY <3>2 DEF commit
  <2>3. Contents(t)'
    <3>1. ASSUME NEW k \in 1..(n + 1) PROVE Bounded(t, commits'[t][k].tree)
      <4>1. k \in 1..n \/ k = n + 1
        BY <2>2
      <4> QED
        BY <1>0, <2>2, <4>1 DEF Honest, Contents
    <3> QED
      BY <1>0, <1>2, <2>1, <2>2, <3>1 DEF Honest, Contents, Bounded
  <2>4. \A k \in 0..n : TreeAt(t, k)' = TreeAt(t, k)
    BY <2>2 DEF TreeAt, BaseTree
  <2>5. Attested(t)'
    <3>1. evidence[t] # NoEvidence => Proved(t)' = Proved(t) /\ evidence[t].revision \in 0..(n + 1)
      BY <1>0, <1>2, <2>2, <2>4 DEF Honest, Attested, Proved
    <3>2. NoEvidence' = NoEvidence
      BY DEF NoEvidence, BaseTree
    <3> QED
      BY <1>0, <1>2, <2>2, <3>1, <3>2 DEF Honest, Attested
  <2> QED
    BY <1>1, <1>5, <2>3, <2>5 DEF Honest
<1>8. UNCHANGED <<commits, index>> \/ GitAdd(t) \/ (GitCommit(t) /\ commits' # commits)
  BY DEF SealerNext, SealUnchanged, SealChanged, SealAgain, SealRefused, Dispatch,
     Compare, GitCommit, ReconcileSeal, RecordWorkspaceHead, Reseal, Reads, gitVars
<1> QED
  BY <1>3, <1>6, <1>7, <1>8

(* A snapshot holds what the files hold, and the files are rebuilt from a  *)
(* commit; nothing is verified meanwhile.                                  *)
LEMMA HonestCompaction ==
  ASSUME EInv, NEW t \in Tasks, CompactionNext(t)
  PROVE  Honest(t)'
<1>0. /\ CInv /\ Honest(t) /\ Good(t) /\ run' = run
      /\ UNCHANGED <<evidence, written, toolchain>>
      /\ index \in [Tasks -> Trees] /\ tree \in [Tasks -> Trees]
      /\ commits \in [Tasks -> Seq(Snapshots)]
  BY DEF EInv, CInv, CandidateTypes, CompactionNext, BeginCompaction, Compact, AbandonCompaction,
     BeginRehydration, Rehydrate, ledgerVars, Outside, outsideVars
<1>1. Stored(t)
  BY StoreLeaves DEF CompactionNext, BeginCompaction, Compact, AbandonCompaction,
     BeginRehydration, Rehydrate, FinishWorkspaceCheckpoint, AbortWorkspaceCheckpoint
<1>2. CASE UNCHANGED <<commits, index, tree>>
  <2>1. Calm(t)
    BY <1>0, <1>1, <1>2, UntouchedCalm DEF Untouched
  <2> QED
    BY <1>0, <2>1, LookedKept, HonestKept DEF Calm, Honest
<1>3. CASE Rehydrate(t)
  <2>1. /\ run[t].pc = "none" /\ commits' = commits /\ state'[t] = "WORKSPACE_READY"
    BY <1>0, <1>3, AtRest DEF Rehydrate, MarkWorkspaceReady, MarkWorkspace, Move, CInv, HInv, IInv,
       TypeOK
  <2>2. tree'[t] = TreeAt(t, GitHead(t)) /\ index'[t] = TreeAt(t, GitHead(t))
    BY <1>0, <1>3 DEF Rehydrate
  <2>3. Bounded(t, TreeAt(t, GitHead(t)))
    <3>1. GitHead(t) \in Nat /\ written[t] \in Nat
      BY <1>0, CommitTyped DEF CInv, CandidateTypes
    <3> QED
      BY <1>0, <3>1 DEF Honest, Contents, Bounded, TreeAt, BaseTree
  <2>4. /\ GitHead(t)' = GitHead(t) /\ Proved(t)' = Proved(t) /\ NoEvidence' = NoEvidence
    BY <1>0, <2>1, TreesKept DEF Proved, NoEvidence, BaseTree
  <2>5. Contents(t)'
    BY <1>0, <2>1, <2>2, <2>3, <2>4 DEF Honest, Contents, Bounded
  <2>6. Attested(t)' /\ Examined(t)'
    BY <1>0, <2>1, <2>4 DEF Honest, Attested, Examined
  <2>7. Looked(t)'
    BY <1>0, <2>1, Quiet DEF Idling
  <2> QED
    BY <2>5, <2>6, <2>7 DEF Honest
<1>4. CASE Compact(t) /\ commits' # commits
  <2> DEFINE n == GitHead(t)
             commit == [tree |-> tree[t], epoch |-> 0]
  <2>1. /\ commits' = [commits EXCEPT ![t] = Append(@, commit)] /\ run[t].pc = "none"
        /\ state' = state /\ UNCHANGED <<index, tree>>
    BY <1>0, <1>4, AtRest DEF Compact, FinishWorkspaceCheckpoint, EndWorkspaceCheckpoint, Outside,
       outsideVars
  <2>2. commit \in Snapshots /\ commit.tree = tree[t] /\ n \in Nat
    BY <1>0, HeadTyped, CommitTyped, EpochAssumption DEF Snapshots
  <2> HIDE DEF commit
  <2>3. /\ GitHead(t)' = n + 1 /\ \A k \in 1..n : commits'[t][k] = commits[t][k]
        /\ commits'[t][n + 1] = commit
    BY <1>0, <2>1, <2>2, Appended
  <2>4. Contents(t)'
    <3>1. ASSUME NEW k \in 1..(n + 1) PROVE Bounded(t, commits'[t][k].tree)
      <4>1. k \in 1..n \/ k = n + 1
        BY <2>2
      <4> QED
        BY <1>0, <2>2, <2>3, <4>1 DEF Honest, Contents
    <3> QED
      BY <1>0, <2>1, <2>3, <3>1 DEF Honest, Contents, Bounded
  <2>5. \A k \in 0..n : TreeAt(t, k)' = TreeAt(t, k)
    BY <2>3 DEF TreeAt, BaseTree
  <2>6. evidence[t] # NoEvidence => Proved(t)' = Proved(t) /\ evidence[t].revision \in 0..(n + 1)
    BY <1>0, <2>2, <2>5 DEF Honest, Attested, Proved
  <2>7. Attested(t)'
    <3>1. NoEvidence' = NoEvidence
      BY DEF NoEvidence, BaseTree
    <3> QED
      BY <1>0, <2>3, <2>6, <3>1 DEF Honest, Attested
  <2>8. Examined(t)'
    <3>1. state[t] \in {"VERIFIED", "READY_TO_INTEGRATE"} => evidence[t] # NoEvidence
      BY <1>0, CommitTyped DEF Good, Sealed, NoEvidence
    <3> QED
      BY <1>0, <2>1, <2>6, <3>1 DEF Honest, Examined
  <2>9. Looked(t)'
    BY <1>0, <2>1, Quiet DEF Idling
  <2> QED
    BY <2>4, <2>7, <2>8, <2>9 DEF Honest
<1>5. UNCHANGED <<commits, index, tree>> \/ Rehydrate(t) \/ (Compact(t) /\ commits' # commits)
  BY DEF CompactionNext, BeginCompaction, Compact, AbandonCompaction, BeginRehydration, gitVars,
     Outside, outsideVars
<1> QED
  BY <1>2, <1>3, <1>4, <1>5

(* Two looks at the files are enough.                                      *)
LEMMA CleanIsCandidate ==
  ASSUME CInv, NEW t \in Tasks, NEW revision \in Nat, CleanAt(t, revision)
  PROVE  tree[t] = TreeAt(t, revision)
<1>1. revision = GitHead(t) /\ Diff(tree[t], TreeAt(t, revision)) = {}
  BY DEF CleanAt, ChangedPaths
<1>2. tree[t] \in Trees /\ TreeAt(t, revision) \in Trees
  <2>1. revision # 0 => revision \in 1..GitHead(t)
    BY <1>1, CommitTyped
  <2>2. revision # 0 => commits[t][revision] \in Snapshots
    BY <2>1, CommitTyped
  <2> QED
    BY <2>2 DEF TreeAt, BaseTree, Trees, Snapshots, CInv, CandidateTypes
<1>3. \A p \in Paths : tree[t][p] = TreeAt(t, revision)[p]
  BY <1>1 DEF Diff
<1> QED
  BY <1>2, <1>3 DEF Trees

(* What the commands of a reused evidence found is the base.               *)
LEMMA ReusedIsBase ==
  ASSUME EInv, NEW t \in Tasks, NEW u \in Tasks \cup {Earlier}, Reusable(t, u)
  PROVE  evidence[u].saw = {<<BaseTree, toolchain>>} /\ run[t].revision = 0
<1>1. evidence[u].revision = 0 /\ evidence[u].env = toolchain /\ run[t].revision = 0
  BY DEF Reusable
<1>2. evidence[u] # NoEvidence
  BY <1>1 DEF NoEvidence
<1>3. CASE u = Earlier
  BY <1>1, <1>2, <1>3 DEF EInv, UnchangedEvidence
<1>4. CASE u \in Tasks
  BY <1>1, <1>2, <1>4 DEF EInv, Honest, Attested, Proved, TreeAt
<1> QED
  BY <1>1, <1>3, <1>4

LEMMA HonestVerifier ==
  ASSUME EInv, NEW t \in Tasks,
         \/ Admit(t) \/ Identify(t) \/ CommandsRun(t) \/ LosesAuthority(t) \/ Settle(t)
         \/ \E c \in Commands(Paths) : RunCommand(t, c)
  PROVE  Honest(t)'
<1>0. /\ CInv /\ Honest(t) /\ Good(t) /\ CandidateTypes /\ Looked(t)
      /\ run[t] \in Runs /\ toolchain \in Nat
  BY DEF EInv, CInv, CandidateTypes, Honest
<1>1. Untouched
  BY DEF Admit, Identify, CommandsRun, LosesAuthority, Settle, RunCommand, Reads, NoStore,
     ledgerVars, gitVars, Outside, outsideVars, Untouched
<1>2. Stored(t)
  BY StoreLeaves, Unstored DEF Admit, Identify, CommandsRun, LosesAuthority, Settle, RunCommand,
     Reads, NoStore
<1>3. Calm(t) /\ Files(t)
  BY <1>0, <1>1, <1>2, UntouchedCalm DEF Calm
<1>4. /\ GitHead(t)' = GitHead(t) /\ tree' = tree /\ toolchain' = toolchain
      /\ \A k : TreeAt(t, k)' = TreeAt(t, k)
  BY <1>1, TreesKept DEF Untouched
<1>5. CASE Admit(t) \/ LosesAuthority(t)
  <2>1. CASE Fail(t)
    BY <1>0, <1>3, <2>1, QuietEnd, HonestKept
  <2>2. CASE Admit(t) /\ Go(t, "identify")
    <3>1. /\ "identify" \in Steps \ {"admit"} /\ commits' = commits /\ run[t].pc = "admit"
          /\ {run[t].pc, "identify"} \cap (Verifying \cup Idling) = {}
      BY <1>1, <2>2 DEF Admit, At, Steps, Verifying, Idling, Untouched
    <3>2. Looked(t)'
      BY <2>2, <3>1, QuietGo
    <3> QED
      BY <1>0, <1>3, <3>2, HonestKept
  <2> QED
    BY <1>5, <2>1, <2>2 DEF Admit, LosesAuthority
<1>6. CASE Identify(t)
  <2>1. Identified(t) /\ run[t].pc = "identify"
    BY <1>0, <1>6, IdentifyTurns DEF Identify, At
  <2>2. /\ run[t].saw = {} /\ run[t].passed = {} /\ run[t].revision <= GitHead(t)
    BY <1>0, <2>1 DEF Looked, Good, Progress, Verifying, Idling
  <2>3. Sought(t)' = Sought(t)
    BY <1>4, <2>1 DEF Sought, Identified
  <2>4. /\ Alike(t, run[t].saw)' /\ (run'[t].passed # {} => run'[t].saw # {})
    <3>1. CASE run'[t].saw = run[t].saw /\ run'[t].passed = run[t].passed
      BY <2>2, <3>1 DEF Alike
    <3>2. CASE \E u \in Tasks \cup {Earlier} : Reusable(t, u) /\ run'[t].saw = evidence[u].saw
      <4>1. run'[t].saw = {<<BaseTree, toolchain>>} /\ run[t].revision = 0
        BY <3>2, ReusedIsBase
      <4>2. Sought(t)' = BaseTree /\ run'[t].env = toolchain
        BY <2>1, <2>3, <4>1 DEF Sought, TreeAt, Identified
      <4> QED
        BY <4>1, <4>2 DEF Alike
    <3> QED
      BY <2>1, <3>1, <3>2 DEF Identified
  <2>5. Looked(t)'
    BY <1>0, <1>4, <2>1, <2>2, <2>4 DEF Looked, Identified, Verifying, Idling
  <2> QED
    BY <1>0, <1>3, <2>5, HonestKept
<1>7. CASE \E c \in Commands(Paths) : RunCommand(t, c)
  <2>1. PICK c \in Commands(Paths) : RunCommand(t, c)
    BY <1>7
  <2>2. /\ run[t].pc = "commands" /\ run'[t].pc = "commands"
        /\ run'[t].saw = run[t].saw \cup {<<tree[t], toolchain>>}
        /\ run'[t].env = run[t].env /\ run'[t].revision = run[t].revision
    BY <1>0, <2>1, CommandTurns DEF RunCommand, At
  <2>3. /\ run[t].env <= toolchain /\ run[t].env \in Nat /\ run[t].revision <= GitHead(t)
        /\ Alike(t, run[t].saw) \/ tree[t] # Sought(t) \/ run[t].env < toolchain
    BY <1>0, <2>2 DEF Looked, Verifying, Runs
  <2>4. Sought(t)' = Sought(t)
    BY <1>4, <2>2 DEF Sought
  <2>5. Alike(t, run[t].saw)' \/ tree[t] # Sought(t) \/ run[t].env < toolchain
    <3>1. CASE Alike(t, run[t].saw) /\ tree[t] = Sought(t) /\ run[t].env = toolchain
      BY <2>2, <2>4, <3>1 DEF Alike
    <3> QED
      BY <1>0, <2>3, <3>1
  <2>6. Looked(t)'
    BY <1>4, <2>2, <2>3, <2>4, <2>5 DEF Looked, Verifying, Idling
  <2> QED
    BY <1>0, <1>3, <2>6, HonestKept
<1>8. CASE CommandsRun(t) \/ Settle(t)
  <2>1. /\ \/ run'[t].pc = "settle"
           \/ run'[t].pc = "persist" /\ run'[t].stable = Settled(t)
        /\ run[t].pc \in Verifying
        /\ run'[t].saw = run[t].saw /\ run'[t].env = run[t].env /\ run'[t].passed = run[t].passed
        /\ run'[t].revision = run[t].revision
    <3>1. CASE CommandsRun(t)
      BY <1>0, <3>1, GoTurns DEF CommandsRun, At, Turned, Steps, Verifying
    <3>2. CASE Settle(t)
      BY <1>0, <3>2, SettleTurns DEF Settle, At, Turned, Verifying
    <3> QED
      BY <1>8, <3>1, <3>2
  <2>2. /\ run[t].env <= toolchain /\ run[t].env \in Nat /\ run[t].revision <= GitHead(t)
        /\ Alike(t, run[t].saw) \/ tree[t] # Sought(t) \/ run[t].env < toolchain
        /\ run[t].passed # {} => run[t].saw # {}
    BY <1>0, <2>1 DEF Looked, Runs
  <2>3. Sought(t)' = Sought(t) /\ (Alike(t, run[t].saw)' <=> Alike(t, run[t].saw))
    BY <1>4, <2>1 DEF Sought, Alike
  <2>4. Settled(t) => Alike(t, run[t].saw)
    <3>1. Settled(t) => toolchain = run[t].env /\ tree[t] = Sought(t)
      BY <1>0, CleanIsCandidate DEF Settled, Sought, Runs
    <3> QED
      BY <2>2, <3>1
  <2>5. Looked(t)'
    BY <1>4, <2>1, <2>2, <2>3, <2>4 DEF Looked, Verifying, Idling
  <2> QED
    BY <1>0, <1>3, <2>5, HonestKept
<1> QED
  BY <1>5, <1>6, <1>7, <1>8

(* A PASS attests what the commands found to be the candidate.             *)
LEMMA HonestPersist ==
  ASSUME EInv, NEW t \in Tasks, Persist(t)
  PROVE  Honest(t)'
<1>0. /\ CInv /\ Honest(t) /\ Good(t) /\ CandidateTypes /\ run[t] \in Runs
      /\ run[t].pc = "persist" /\ Looked(t)
  BY DEF EInv, CInv, CandidateTypes, Honest, Persist, At
<1>1. UNCHANGED <<commits, index, tree, written, toolchain>>
  BY DEF Persist, gitVars, Outside, outsideVars
<1>2. Files(t) /\ Contents(t)'
  BY <1>0, <1>1, ContentsKept DEF Files, Honest
<1>3. CASE Fail(t) /\ NoStore
  <2>1. Calm(t)
    BY <1>0, <1>1, <1>3, UntouchedCalm, Unstored DEF Untouched, NoStore, ledgerVars
  <2> QED
    BY <1>0, <1>3, <2>1, QuietEnd, HonestKept
<1>4. CASE ~(Fail(t) /\ NoStore)
  <2>1. Go(t, "confirm")
    BY <1>4 DEF Persist
  <2>2. PICK oracle \in OracleOutcomes :
          LET verdict == Verdict(run[t], oracle) IN
          /\ state'[t] = Target(run[t], verdict)
          /\ evidence' = [evidence EXCEPT ![t] = IF verdict # "PASS" THEN NoEvidence ELSE
               [revision |-> run[t].revision, planned |-> Commands(run[t].paths),
                passed |-> run[t].passed, env |-> run[t].env, saw |-> run[t].saw,
                oracle |-> tree[t]]]
    BY <1>4 DEF Persist
  <2> DEFINE passes == Verdict(run[t], oracle) = "PASS"
             found  == [revision |-> run[t].revision, planned |-> Commands(run[t].paths),
                        passed |-> run[t].passed, env |-> run[t].env, saw |-> run[t].saw,
                        oracle |-> tree[t]]
  <2>3. evidence'[t] = IF passes THEN found ELSE NoEvidence
    BY <1>0, <2>2 DEF CandidateTypes
  <2>4. state'[t] # "READY_TO_INTEGRATE" /\ (state'[t] = "VERIFIED" => passes)
    BY <2>2 DEF Target
  <2>5. passes => run[t].ok /\ run[t].stable
    BY DEF Verdict
  <2> HIDE DEF passes
  <2>6. Looked(t)'
    <3>1. "confirm" \in Steps \ {"admit"} /\ "confirm" \in Idling
      BY DEF Steps, Idling
    <3> QED
      BY <2>1, <3>1, QuietGo
  <2>7. /\ GitHead(t)' = GitHead(t) /\ GitHead(t) \in Nat
        /\ \A k : TreeAt(t, k)' = TreeAt(t, k)
    BY <1>0, <1>1, TreesKept, CommitTyped
  <2>8. CASE passes
    <3>1. /\ evidence'[t].revision = run[t].revision /\ evidence'[t].env = run[t].env
          /\ evidence'[t].saw = run[t].saw /\ evidence'[t].oracle = tree[t]
      BY <2>3, <2>8
    <3>2. Proved(t)' = Sought(t)
      BY <2>7, <3>1 DEF Proved, Sought
    <3>3. run[t].revision \in 0..GitHead(t)
      BY <1>0, <2>7 DEF Looked, Verifying, Runs
    <3>4. "static" \in run[t].passed
      BY <1>0, <2>5, <2>8 DEF Good, Progress, Verifying, Commands
    <3>5. run[t].saw # {} /\ Alike(t, run[t].saw)
      BY <1>0, <2>5, <2>8, <3>4 DEF Looked, Verifying
    <3>6. run[t].saw = {<<Sought(t), run[t].env>>}
      BY <3>5 DEF Alike
    <3>7. Attested(t)'
      BY <2>7, <3>1, <3>2, <3>3, <3>6 DEF Attested
    <3>8. Examined(t)'
      BY <1>1, <2>4, <3>1 DEF Examined
    <3> QED
      BY <1>2, <2>6, <3>7, <3>8 DEF Honest
  <2>9. CASE ~passes
    <3>1. Attested(t)'
      BY <2>3, <2>9 DEF Attested, NoEvidence, BaseTree
    <3>2. Examined(t)'
      BY <2>4, <2>9 DEF Examined
    <3> QED
      BY <1>2, <2>6, <3>1, <3>2 DEF Honest
  <2> QED
    BY <2>8, <2>9
<1> QED
  BY <1>3, <1>4

(* The gate looks once more.                                               *)
LEMMA HonestIntegrate ==
  ASSUME EInv, NEW t \in Tasks, Integrate(t)
  PROVE  Honest(t)'
<1>1. /\ CInv /\ Honest(t) /\ Good(t) /\ UNCHANGED <<evidence, commits, index, tree, written>>
      /\ toolchain' = toolchain /\ run' = run /\ EvidenceFresh(t) /\ state[t] = "VERIFIED"
  BY DEF EInv, CInv, Integrate, PrepareIntegrationAttempt, Prepare, ledgerVars, gitVars, Outside,
     outsideVars
<1>2. Files(t) /\ Contents(t)' /\ Looked(t)'
  BY <1>1, ContentsKept, LookedKept DEF Files, Honest
<1>3. Proved(t)' = Proved(t) /\ GitHead(t)' = GitHead(t) /\ NoEvidence' = NoEvidence
  BY <1>1, TreesKept DEF Proved, NoEvidence, BaseTree
<1>4. Attested(t)'
  BY <1>1, <1>3 DEF Honest, Attested
<1>5. tree[t] = Proved(t)
  <2>1. CleanAt(t, evidence[t].revision) /\ evidence[t].revision \in Nat
    BY <1>1, CommitTyped DEF EvidenceFresh, Honest, Attested
  <2> QED
    BY <1>1, <2>1, CleanIsCandidate DEF Proved
<1>6. Examined(t)'
  BY <1>1, <1>3, <1>5 DEF Honest, Examined
<1> QED
  BY <1>2, <1>4, <1>6 DEF Honest

(* A crash takes the runner; another toolchain is never the captured one   *)
(* again.                                                                  *)
LEMMA HonestHost ==
  ASSUME EInv, Crash \/ ToolchainChanges
  PROVE  /\ evidence'[Earlier] \in {NoEvidence, UnchangedEvidence}
         /\ \A t \in Tasks : Honest(t)'
<1>1. /\ UNCHANGED <<state, evidence, commits, index, tree, written>>
      /\ \/ toolchain' = toolchain /\ run' = [t \in Tasks |-> NoRun]
         \/ toolchain' = toolchain + 1 /\ run' = run
      /\ toolchain \in Nat
  BY DEF Crash, ToolchainChanges, NoStore, storeVars, ledgerVars, gitVars, EInv, CInv,
     CandidateTypes
<1>2. ASSUME NEW t \in Tasks PROVE Honest(t)'
  <2>1. Honest(t) /\ Files(t) /\ Looked(t) /\ run[t] \in Runs
    BY <1>1 DEF EInv, Files, Honest, CInv, CandidateTypes
  <2>2. /\ Proved(t)' = Proved(t) /\ GitHead(t)' = GitHead(t) /\ NoEvidence' = NoEvidence
        /\ \A k : TreeAt(t, k)' = TreeAt(t, k)
    BY <1>1, TreesKept DEF Proved, NoEvidence, BaseTree
  <2>3. Contents(t)' /\ Attested(t)' /\ Examined(t)'
    BY <1>1, <2>1, <2>2, ContentsKept DEF Honest, Attested, Examined
  <2>4. CASE run'[t] = NoRun
    BY <2>3, <2>4, Quiet DEF Honest, NoRun, Idling
  <2>5. CASE run' = run /\ toolchain' = toolchain + 1
    <3>1. Sought(t)' = Sought(t) /\ (Alike(t, run[t].saw)' <=> Alike(t, run[t].saw))
      BY <2>2, <2>5 DEF Sought, Alike
    <3>2. run[t].env \in Nat
      BY <2>1 DEF Runs
    <3>3. Looked(t)'
      BY <1>1, <2>1, <2>2, <2>5, <3>1, <3>2 DEF Looked
    <3> QED
      BY <2>3, <3>3 DEF Honest
  <2> QED
    BY <1>1, <2>4, <2>5
<1> QED
  BY <1>1, <1>2 DEF EInv

--------------------------------------------------------------------------------
(* The invariant is inductive.                                             *)
LEMMA EvidenceKeeps ==
  ASSUME EInv, [CandidateNext]_candidateVars
  PROVE  EInv'
<1>1. CInv'
  BY CandidateKeeps DEF EInv
<1>2. /\ evidence'[Earlier] \in {NoEvidence, UnchangedEvidence}
      /\ \A t \in Tasks : Honest(t)'
  <2>1. CASE UNCHANGED candidateVars
    <3>1. /\ UNCHANGED <<evidence, commits, index, tree, written, toolchain, run>>
          /\ state' = state
      BY <2>1 DEF candidateVars, storeVars, ledgerVars, gitVars, outsideVars
    <3>2. ASSUME NEW t \in Tasks PROVE Honest(t)'
      <4>1. Honest(t) /\ Calm(t) /\ Files(t)
        BY <3>1 DEF EInv, Calm, Files
      <4> QED
        BY <3>1, <4>1, LookedKept, HonestKept DEF Honest
    <3> QED
      BY <3>1, <3>2 DEF EInv
  <2>2. CASE Crash \/ ToolchainChanges
    BY <2>2, HonestHost
  <2>3. ASSUME NEW t \in Tasks,
               WorkerNext(t) \/ SealerNext(t) \/ VerifierNext(t) \/ RunnerNext(t)
                 \/ CompactionNext(t) \/ OutsideNext(t)
        PROVE  Honest(t)'
    <3>1. CASE WorkerNext(t)
      BY <3>1, HonestRunner, HonestWrite DEF WorkerNext
    <3>2. CASE SealerNext(t)
      BY <3>2, HonestSealer
    <3>3. CASE VerifierNext(t)
      BY <3>3, HonestVerifier, HonestPersist DEF VerifierNext
    <3>4. CASE RunnerNext(t) \/ OutsideNext(t)
      BY <3>4, HonestRunner, HonestIntegrate DEF RunnerNext
    <3> QED
      BY <2>3, <3>1, <3>2, <3>3, <3>4, HonestCompaction
  <2> QED
    BY <2>1, <2>2, <2>3, OthersHonest DEF CandidateNext
<1> QED
  BY <1>1, <1>2 DEF EInv

(* Files, evidence and what commands found agree in every reachable state. *)
THEOREM EvidenceInvariant == CandidateSpec => []EInv
BY EvidenceInitially, EvidenceKeeps, PTL DEF CandidateSpec

(* A PASS is about the candidate: every planned command passed on its tree *)
(* under the recorded toolchain and on nothing else, and what the file     *)
(* oracles read is the candidate once the gate has let it through.         *)
THEOREM EvidenceIsTrue == CandidateSpec => []EvidenceTrue
<1>1. EInv => EvidenceTrue
  <2>1. ASSUME EInv, NEW t \in Tasks, evidence[t] # NoEvidence
        PROVE  /\ evidence[t].passed = evidence[t].planned
               /\ evidence[t].saw = CommandsSaw(t)
               /\ state[t] = "READY_TO_INTEGRATE" =>
                    evidence[t].oracle = TreeAt(t, evidence[t].revision)
    <3>1. Honest(t) /\ Complete(t)
      BY <2>1 DEF EInv, CInv
    <3> QED
      BY <2>1, <3>1 DEF Honest, Attested, Examined, Complete, Proved, CommandsSaw
  <2> QED
    BY <2>1 DEF EvidenceTrue
<1> QED
  BY <1>1, EvidenceInvariant, PTL
=============================================================================
