# MAR: a verification development

MAR runs coding tasks for an owner. A task is submitted with a goal contract, a
worker process edits an isolated git worktree under an *execution attempt*, the
result is verified, and a verified candidate is integrated into the owner's
branch. All truth is in one SQLite database; one daemon and its goroutines act on
it, an MCP edge and an owner UI write to it concurrently, and any of them can die
at any point. This directory holds TLA+ modules of that program, the TLC
configurations that check them, and proofs.

## Inventory

| Component (source) | State it keeps | Operations | What makes it correct |
|---|---|---|---|
| Task lifecycle store (`internal/store`: `sqlite.go`, `control.go`, `recovery.go`, `verification.go`, `task_blocker.go`) | `tasks.state`, `run_epoch`, `execution_attempts.authority_state`, controls, results | submit, orchestrator and attempt transitions, begin / fence / confirm attempt, cancel, steer, input, persist outcome | one open attempt per task, fencing irreversible, nothing settles over a live attempt |
| Workspace rows (`store/workspace*.go`) | `workspaces.state`, head, checkpoint rows | begin, ready, failed, checkpoint, rehydrate, remove | no compaction, rebuild or removal under a writer |
| Integration store (`store/integration.go`) | integration attempts | prepare, dispatch, finalize, block, retry | COMPLETE only over a finalized attempt; cancellation or dispatch wins, never both |
| `service.TaskService` | none of its own | transition tables, owner choices, controls | only admissible transitions are asked for |
| `orchestrator.TaskRunner` | one goroutine per launched task | begin attempt, run worker, verify, integrate, finalize | ends whatever fails; confirms only what was proven |
| `orchestrator.Daemon` | active and parked executions | recovery, reconciliation, retries, choices, launch, park and resume, shutdown | orphans are settled; capacity bounds hold |
| `worker`, `processctl` | process trees in named job objects, recovery markers | start, frames, terminate and confirm, recover | a termination proof exists only over an empty job |
| `processctl` sandbox | AppContainer profiles, access lists, locks | run a command, grant, revoke, kill, confirm | a command has its grants while it runs, none and no process after it |
| `verification`, `effects` | evidence, sealed candidates, effect ledger | seal, reconcile a seal, run commands, evaluate, reuse evidence, gate | the ledger agrees with git; evidence belongs to the candidate and environment it names |
| `integration.Manager` | git refs and the owner's checkout | prepare, anchor, compare-and-swap, synchronise, recover | the branch moves at most once per attempt and never loses owner work |
| `workspace.Manager` | worktrees, checkpoint refs | ensure, checkpoint, reconcile, rehydrate, remove | a compacted workspace can be rebuilt as it was |
| Agent loop, web turns, convergence budget (`agent`, `worker`, `store`, `service`) | a session in a worker, turns, counters from durable rows | check authority, consume controls, ask, wait, act, checkpoint, finish | an answer serves only who asked; budgets hold over all attempts |
| `scheduler`, `resourcegov` | project turns, claims and leases | select, prepare workspace, reclaim; acquire, pressure, idle exclusion | no starvation; reservations within limits |
| ACI, context engine, project fast path, model gateway, MCP edge, retention, tunnel, owner UI | memory of one process, files | tools, rendering, decoding, cleaning | mostly data handling; see *Not modelled* |

Interactions: the daemon and the owner's processes share the database; every
cross-component guarantee is a predicate in a SQL statement. The daemon starts a
`TaskRunner` per task, which starts a worker process and talks to it by frames; a
cancellation is a control row that a monitor goroutine polls. The hard behaviours
are interleavings of owner, daemon loop and runners between transactions, loss of
the daemon at any step, process trees that cannot be confirmed dead, git commands
that fail after they did their work, and leases and heartbeats. `PROJECT.json` lists
them as hazards with the line where they bite and the properties that watch them.

## Modules

`TaskStore` is the base: the modules below it in this list reuse its transactions as
conjuncts of their own actions, so that none of them can do what the store would refuse.

* **TaskStore** - the rows of a task and every transaction that moves them, one
  atomic action each (SQLite serialises writers). `Next` lets *any* caller run
  *any* transaction at any time, with stale epochs too, so what is shown here does
  not depend on the good behaviour of daemon, runner or owner. Revisions, hashes,
  timestamps, leases and identifiers are abstracted; `updated_at` survives only as
  `choice`, whether the latest control is a `blocked_choice` newer than it, because
  the daemon's choice loop compares the two.
* **TaskRuntime** - who runs the transactions: daemon phases (`recover`, `reconcile`,
  `up`), the runner of each task as a program counter with the epoch, proof and outcome
  it holds in local variables, the worker and verification process trees, the recovery
  markers, owner actions and faults. Each action is at most one transaction, so all
  interleavings at transaction boundaries are explored.
* **ExclusiveWriter** - the abstract promise: a workspace is granted to one holder at
  a time, only the holder's processes write, it is released and the task closed only
  over dead processes. `TaskRuntime` implements it, with the open attempt as the holder
  and `run_epoch` as the last grant.
* **Integration** - `integration.Manager`: every git command and every store call of
  `Integrate`, `RetryBlockedVerifiedIntegration`, `RecoverPending` and `driveAttempt` is
  an action of its own, against the branches, the private refs and the checkout of one
  repository. The owner edits, commits, resets and switches branch between any two of
  them, because the project lock (`driver`) excludes only MAR.
* **WorkspaceManager** - `workspace.Manager` under the daemon's loop: worktrees, private
  checkpoint refs, checkpoint rows and the head column, while workers write and seal,
  owners steer, and crashes or failed git commands come in between.
* **WorkerSession** - one attempt seen from inside: the agent loop, its requests to the
  parent, web turns and their answers, the log of controls with its versions, and the
  convergence budget over all attempts of a task. An attempt may also run an external
  harness in place of the loop.
* **Candidate** - from a worker's claim to be done to the integration gate: effect ledger,
  sealer, verifier, evidence and its reuse, with index, files and toolchain that may change
  under them, and the compaction and rebuilding of the worktree between two attempts, which move
  the head without a seal.
* **Capacity** - who may use the machine: the daemon's table of active executions, the
  governor's claims and admission gate, and the goroutines that move a claim: the daemon
  loop (the claims of `Scheduler.Step`, then `launchReady`), one per execution
  (`waitForWebTurn`, `parkExecutionCapacity`, `removeActive`) and one per resumption
  (`resumeExecutionCapacity`), which may outlive the call that started it. An action is one
  critical section of `d.mu` or `g.mu`, or what lies between two.
* **Scheduler** - whose turn it is and whether there is room: `selectTask` with aging and
  fairness between projects, the recording of turns, and `evaluateLocked` in machine words.
* **Sandbox** - `RunSandboxedCommand` and `RunContainedCommand`: locks, access lists,
  profiles and process trees of commands from several tasks and several processes of MAR.
* **TaskStoreProofs**, **TaskRuntimeProofs**, **IntegrationProofs**, **WorkspaceManagerProofs**,
  **WorkerSessionProofs**, **CandidateProofs**, **SandboxProofs** - TLAPS proofs about the modules
  they are named after; **SchedulingProofs** - those about `Capacity` and `Scheduler`, whose names
  are kept apart for this (`SchedulerSpec`, `schedulerVars`).

The last three components and the store do not share variables: `Capacity`, `Scheduler` and
`Sandbox` stand on their own, and each of the modules over `TaskStore` has the part of the
daemon it needs. Actions carry the names of the Go functions.

### State and code

*Store and runtime.* `state`, `epoch`, `authority`, `workspace`, `integration` are
columns of the same names; `result` folds verdict and `integration_status` of the
latest `task_results` row; `runner[t].pc` names the next call in
`task_runner_windows.go` (`begin`..`finish`, `verify`..`publish`); `worker` and
`sandbox` are sets of epochs whose job object still has processes; `armed` the epochs
with an ASSIGNED marker file. `WorkerStopped` is the monitor that terminates a worker whose
attempt lost its authority. Two calls of the service read the workspace row and then run a
transaction that does not compare it: `RecoverBlockedChoice` and `ReconcileWorkspaceReady`. `Next`,
where anybody calls, has the bare transactions in any order, the edge of
`allowedPreExecutionTransition` that reaches WORKSPACE_READY without a workspace row included; the
calls as one step are for the modules of the daemon's loop, which is the one goroutine that writes
workspace rows, so that what it read still holds. Left out of `TaskStore` because no caller reaches them: the
authority state `TERMINATING` and the transition targets FAILED, CANCELLED, REVIEWING,
VERIFIED and READY_TO_INTEGRATE of `allowedAttemptTransition`, which nothing in `src/`
asks for.

*Integration.* A revision is the set of the commits it has over the tasks' common
base, so a fast-forward is set inclusion; a candidate is its task's commit, or the base
itself for the tasks in `NoopTasks`. `refs` are the branches, `checkout` what
`symbolic-ref`, `diff` and `status` of the registered root report, `anchors` the refs under
`refs/mar/integrations`, `ref` and `tries` the expected ref and the number of a task's
attempts, and `driver` the local variables of the one call that holds the project lock
(`retry`, `anchorEnsured`, `advancedRef`). `published` and `driver.blind` are history: they
are written and never read by an action. An owner's commit is taken to hold on top of the
branch, and the task as the runner leaves it is the initial state. The branch of
`Integrate` for an attempt that already exists is left out, since a runner calls it once.

*Workspaces.* A commit is named by the content of its tree, a number that grows with what
workers write; 0 is the base. `worktrees` says what is at the managed path (nothing, a
directory git does not know, a registered worktree with head, files and ignored material
that cannot be rebuilt), `rows` are the `workspace_checkpoints` of a task by version, `refs`
the versions whose ref `refs/mar/checkpoints/*` exists, `headRow` the head column, `driver`
the daemon's loop: the phase of `step` it is in, the tasks still listed, and the next call of
the operation it is in. `made` is history. Comparing head, status and ignored files and
committing the tree through a temporary index are one step: there is no writer then.

*Sessions.* `log` is `task_controls` by version, with the one thing a control says about the
past, the attempt it follows; `turns` is `web_turns`; `progress` the digest of the latest
semantic checkpoint of an attempt; `sess` the local variables of loop and runner (`seen` and
`latest` are control versions, `got` the turn asked, `todo` the tool calls left). An answer is
what the loop tells apart: tools, one of the three reserved calls, or what blocks. A brain may
answer any turn it was ever shown. Tokens and active time, counted like decisions and calls,
are left out, as is everything said in a prompt. All semantic checkpoints have one digest, so progress
is whether a checkpoint was published. An answer found by the poll is taken at once, or, if the
worker gave its slot up, after `resume`, the wait for slot and admission; when they come is
`Capacity`'s and here the environment's. `executed` is history.

*Candidates.* The content of a path is a number and a revision of a task the number of its
commits. `effects` is the ledger, one seal by task and epoch, with the head it expects and the
tree whose hash it binds; `commits`, `index` and `tree` are those of the worktree; `evidence`
what the latest PASS of a task says; `toolchain` the identity of the environment, a counter;
`run` the local variables of runner, sealer and verifier. A command passes or fails by choice,
and `saw` records what it really found. `Earlier` is a task that verified the unchanged base
before, whose evidence may be reused. What writes to a worktree from outside never restores a
content it found: a file that is changed and changed back between two looks is not seen by the
code either. `Paths` are given one profile that has both a change scope and a changed-test rule,
so that one run exercises both. A commit of epoch 0 is the snapshot of a compacted worktree.
Compaction and rehydration are each a first transaction and the rest, for what they do to HEAD and
its row; refs, checkpoint rows, the git calls and the rehydrations that fail are in
`WorkspaceManager`.

*Capacity.* An execution is a pair of a task and a number, so that a resumption that
outlived its execution is not taken for one of the next (the code compares the pointers of
the records). `lease` and `resuming` are the fields of `activeExecution`, `yielded` is
`capacityReleased`, `claims` the ids in `Governor.active`, `loop` and `pc` the steps of the
goroutines. CPU, memory, disk and the limits per project are one nondeterministic denial,
so whatever they decide is covered. The next task is any task that is not active: which one
is preferred is `Scheduler`'s. Left out: a resumption that is cancelled after it checked
its context and is then held back, before it takes the lock, for as long as it takes the next
execution of the task to start and park; it would take the slot back for that one.

*Scheduler.* `contract` and `updated` are project, priority and `updated_at` of a waiting task,
`last` the row of a project's last turn, `outstanding` and `sensed` the reservations and the sensor
snapshot of the governor, `step` the local variables of `Scheduler.Step`. The clock does not go
back, and preparing a workspace takes longer than one tick of it. Memory is admitted like
disk; it and load deny any claim at any time. Preflight is what `Enqueue` lets in. `passed` and
`unpaid` are history.

*Sandbox.* A call is a record with the next step, the phase its lock is for, the paths it
granted or has yet to grant, the snapshot of the access list it read, and its process tree.
`local` are the entries of the keyed lock registry of a process, `mutex` the named mutexes of the
machine, which a crash abandons. Setting an access list happens whole or not at all;
access rights, inheritance to nested paths and pipes are left out. The waits for locks do not
look at the context, as in the code. A caller is reused only after its process tree is gone.

## Runs

| Run | Configuration | Distinct states | Shows |
|---|---|---|---|
| task_store | 1 task, 3 epochs | 3,670 | three safety invariants and two action properties of the store, whoever calls |
| task_runtime | 1 task, 3 epochs, 2 automatic attempts, 3 faults, fairness | 79,557 | no second writer, no compaction or rebuild under an attempt, an accepted cancellation wins, `ExclusiveWriter` is implemented; runs end, orphans are settled, a cancellation during a run is honoured |
| integration | 2 tasks (one no-op), 2 branches, 1 epoch, 2 tries, 1 fault | 1.57 million | candidates stay reachable, branches lose no commit, the owner loses no edit, COMPLETE and BLOCKED say what happened to the branch |
| capacity | 3 tasks, 1 slot, 1 heavy claim, 1 execution each, fairness | 571,000 | slots stay bounded, no claim leaks or is released twice, work is claimed, maintenance is alone, a stop ends |
| workspace_manager | 1 task, 2 epochs, 2 contents, 2 checkpoints, 2 faults, fairness | 120,890 | what a worker left is never lost, checkpoint rows and git agree, interrupted compactions end, refs are released |
| worker_session | 1 task, 3 epochs, 3 decisions, 3 calls, pages of 2, 2 controls, 1 fault, fairness | 800,476 | an answer serves only who asked, budgets hold over all attempts, no old input ends a new wait, sessions end |
| candidate | 1 task and an earlier one, 2 epochs, 2 paths, 2 writes, 2 faults | 761,054 | the ledger agrees with git, the head with the ledger and the snapshots of compactions, evidence with what commands saw, and the gate lets nothing else through |
| sandbox | 2 callers, 2 tasks, 2 processes, 2 paths, 2 runs, 1 fault, fairness | 361,460 | a running command has its grants, a clean return leaves neither grants nor processes nor locks, every call returns |
| scheduler | 3 tasks, 2 projects, 2 ranks, words of 3 bits, 1 fault | 2.85 million | no aged task is overtaken twice by a project, what is admitted fits |
| startup_brick | 1 task, 1 fault, fairness | - | a violation: see below |
| stuck_checkpoint | 1 content, 2 checkpoints, 1 fault, fairness | - | a violation |
| scope_after_retry | 2 paths, no fault | - | a violation |

The liveness properties are `RunnerEnds`, `OrphanSettled`, `CancelDuringRunHonoured`,
`Drains`, `CheckpointSettles`, `RefsReleased`, `SessionEnds` and `CallsReturn`.

### Bounds

`MaxEpoch` caps `run_epoch`; three epochs show an attempt, its replacement and
a replacement of that one, the least for a stale epoch to be mistaken for a current
one twice over. One task is enough wherever no transaction reads the rows of another task and
no guard compares tasks: in `task_store` and `task_runtime`, where the proofs cover any set of
tasks, and in `worker_session`. `workspace_manager` has one too, since paths, refs and rows
are a task's own and the loop serves one task after the other. `MaxFaults` caps crashes, lost
proofs and failed calls together; three in `task_runtime` allow a lost proof, a crash during its
reconciliation and one more while the replacement runs.

`integration` needs two tasks, since one may move the branch another's
candidate is based on; a second branch for the owner to switch to; a second attempt, since
a retry gets a new private ref; and one crash, failed command or stale evidence, which
already hits every step. Its proofs lift all four bounds.

`capacity` needs three tasks: one that works, one that is parked and one that is launched or
takes a slot back between the two. It has as many slots as heavy claims, as the program does
(`main.go` sets both from the number of workers). One execution per task keeps the run short; a
second one, and with it a resumption of the first that is still under way, is covered by the
proofs, which hold for any number.

`workspace_manager` needs two checkpoints, since recovery reads the latest row, which may be that
of the checkpoint before; two contents tell a snapshot from the head it was made on; two faults
are a crash and a failure or crash while it is recovered from. `worker_session` has smaller
budgets than the program so that each of them (turns of an episode, decisions, calls, attempts,
lack of progress) is exhausted in some execution, one automatic attempt so that the next needs the
owner, and pages of two controls because two suffice for an input that lies before a wait and
one after it. `candidate` needs two epochs, for a seal that one attempt left to the next, two
paths, for one that is sealed and one that changes meanwhile, and two faults, a crash or failed
command and a foreign write or new toolchain. `sandbox` has two callers, who may belong to one
task or two, and to one process or two, which are the four ways in which its two levels of
locks are shared, and one path of the task and one that tasks share; its one fault is lifted by the
proofs, which is how the need for the exception of `CleanReturn` was found (two faults, a crash and a
failure of the call after it). `scheduler` has a task that
ages and two that may overtake it, from its own project or the other; a rank and one interval of
aging are enough for priorities to meet; words of three bits let sums come to the limit and, as
a machine adds them, beyond it.

`CHECK_DEADLOCK FALSE` in every configuration, because a task may rest: a bounded model ends when
its tasks are terminal or blocked and its faults used.

`RunnerRecovers` says whether the installed runner offers physical recovery, which the
daemon tests by a type assertion. `task_runtime` sets it to TRUE, to check the
recovery protocol itself; in the program `TaskRunner` does not offer it, so it is
FALSE there. The run at TRUE has strictly more behaviours than at FALSE; the two are told apart by
`OrphanSettled`, which therefore also accepts an orphan that is fenced and whose task is BLOCKED.
`Reseals` is TRUE in `candidate`, since the contract of the sealer covers a caller that asks again
for a seal that failed; the runner does not ask, and `scope_after_retry` has it FALSE.

### Fairness

All weak. `FairRuntimeSpec`: a goroutine takes its next step, except that a worker at work is not
assumed to end (asking for a web turn is no progress either): after an answer it waits for a slot and
for the governor in `resumeExecutionCapacity`, which has no timeout. What is assumed is that a run
whose task was cancelled or whose attempt lost its authority is stopped, by `monitorCancellation` or
by the next heartbeat, which `resumeWebTurnCapacity` keeps up as well. `RunnerEnds` accordingly says
that a run ends or its worker stays at work for ever on a task that wants it. Further, the ticker keeps
calling `step`, which reconciles; the kernel completes KILL_ON_JOB_CLOSE; a daemon that ended is
started again by its service manager. Nothing is assumed of the owner, of the admission of runs or of faults. `OrphanSettled` is conditional on `[]<>(daemon = "up")`, since a daemon that
cannot start recovers nothing.

`Capacity`'s `FairSpec` assumes that the daemon's goroutine is scheduled,
and that once its context is cancelled some execution goes on: every context derives from that
one, waits select on it, and the worker process is terminated on it. Nothing is assumed of
resumptions, whose callers do not wait for them then.

`FairManagerSpec` assumes only that the one goroutine of the daemon's loop goes on.
`FairSessionSpec` assumes it of the loop, the runner and their two timers, per task: the web turn
timeout and the active execution clock are what ends a session that nobody answers. Of one that has
its answer and waits for its slot it assumes only that a fenced one is refused its heartbeat: the
timer of the turn no longer runs then. `SessionEnds` therefore excepts a session that keeps its
authority and waits for its slot for ever (`Starved`). Nothing is assumed of a brain, an owner, the
retries of the daemon, or of daemon and governor granting a slot. `Sandbox`'s `FairSpec` assumes that
calls go on (each context has a deadline) and that a terminated job ends, not that
processes end by themselves. `Scheduler` states none: what a waiting task is promised is a bound
on turns, checked as an invariant.

## What the violations show

`PROJECT.json` quotes the statement of the repository each of them contradicts.

1. **startup_brick** - a task cancelled at READY_TO_INTEGRATE leaves a PREPARED attempt.
   Startup drives it, can neither dispatch nor block it, and `Daemon.Run` returns the
   error; the same happens at every later start.
2. **stuck_checkpoint** - a crash in the second checkpoint of a workspace, before its snapshot is
   recorded. The reconciler tells this case by there being no checkpoint row; the row of the first
   checkpoint is there, in state REHYDRATED, and it gives up, now and at every later start. The
   task can neither resume nor be compacted, and an owner's choice is consumed without effect.
3. **scope_after_retry** - what the change scope of a profile is held against are the paths of this
   attempt's own commit, and a replacement that changes nothing has none. So a change outside the
   scope that is already below the head when the replacement starts is VERIFIED. It gets there in two
   ways: a candidate is rejected only after it has been sealed; or an attempt blocks before it
   seals, its worktree is compacted and rebuilt from the snapshot. The trace is the second, which is
   shorter. Either way the owner lets the task go on. No fault is needed.

## Observations

Behaviour met while modelling that no property of a run states, either because the model has
it as a reachable state that no document speaks against plainly, or because it lies just outside
the model. They are why some properties say less than one might expect.

*Runner, daemon and store.*
- The runner reads the cancel control once after the worker ends (`task_runner_windows.go:231`). A
  cancellation accepted later fences the attempt; the next transition is refused and nobody
  finalizes: the task does not become CANCELLED, although `02_PRODUCT_SPEC_V1.md:306` suggests it.
  `CancelDuringRunHonoured` therefore speaks of cancellations before that read.
- `TaskRunner` lacks the method of `physicalRecoveryRunner` that the daemon looks for
  (`daemon_windows.go:563`): in production a marked orphan is fenced and parked, and not recovered.
- An unconfirmed verification tree is recorded as a failed command (`verifier_windows.go:165`); the
  attempt is then confirmed terminated with the worker's proof. No property sees this: `CleanReturn` of
  `Sandbox` is about the command, which does report it.
- An execution that is taking its slot back does not count as parked (`daemon_windows.go:633`). If
  another parks meanwhile and the governor then denies the claim, one more than the cohort is
  parked. The bound on all resident workers holds, as a launch checks it; that bound is proved.

*Integration.*
- The manager reads once which branch is checked out (`manager.go:463`). If the owner switches
  before `read-tree`, to a branch that is still at the base, the candidate is staged on a branch
  that does not have it. Nothing is lost: the call reports that synchronisation is required.
- `CompleteInSync` excepts a failing `symbolic-ref` after publication, which the code takes for a
  detached head, completing the task with a stale checkout. A fault between
  `BlockIntegrationAttempt` and the deletion of the private ref (`manager.go:519`) leaves that ref for
  ever. `PublishedNotBlocked` speaks of a branch that still is at the candidate, since a task whose
  publication the owner has already committed on top of is reported BLOCKED, as the architecture
  document says it is.

*Workspaces.*
- A workspace that stays PREPARING after a transient git error while its task is BLOCKED has no
  way back; one of a cancelled task that is PREPARING, CHECKPOINTED or CHECKPOINTING is never
  removed. `WorkKept` therefore speaks of tasks that are not terminal.
- Rows stuck in CHECKPOINTING fill the page of 8 the reconciler reads. A rehydration that ended
  FAILED keeps its ref.

*Candidates.*
- A seal whose outcome is inconclusive is refused whenever it is asked for again
  (`sealer_windows.go:95`), and the operation is named by attempt and epoch: a crash after the
  commit leaves a head that the next attempt, with an operation of its own, refuses for ever.
- Evidence of an attempt that planned fewer tests than the whole candidate needs is never fresh:
  such a task is VERIFIED and never integrates. `GateSound` is the other direction, that nothing
  is let through untested.

*Sessions.*
- An input published while a web turn is pending (`control.go:61`) makes the task RUNNING and the
  answer refusable; the worker then waits for the timeout of 24 hours.
- `InputNotReplayed` is stated for tasks whose controls fit one page of 32: an earlier input on
  a later page ends a wait. The projection shows the latest control of each kind, and so drops
  earlier ones; a control that is published between its two reads
  (`decision_projection_service.go:67` and `:78`) blocks the task. Monitoring budgets do not bind
  attempts of a harness.

*Sandbox, scheduler and governor.*
- The five seconds in which a sandboxed tree must be confirmed dead run from the end of the root,
  contrary to the comment at `sandbox_windows.go:474`: after a long settling a kill is reported as
  unconfirmed although it worked. The report errs on the safe side.
- A crash leaves the entries of a command on its paths. The next command of the task takes them over
  as it opens the paths; if it fails before it has opened one, it reports that failure, but not that
  an entry stays on that path. `CleanReturn` therefore speaks of the paths a call has opened.
- If the clock is set back, a turn recorded before lies in the future, and its project loses
  every tie until then. A workspace preparation that failed is no turn. The pressure loop counts
  a reservation and what was written under it twice, and the sensor is read before the lock.

## Proofs

The only assumptions are those named in the modules on their constants.

`TaskStoreProofs`, for every set of tasks and every `MaxEpoch` in Nat (`EpochAssumption`),
proves of `Spec`: `TypeOK`, `SettledQuiescent`, `OnlyCurrentAttemptOpen`, `IntegrationBacked`, and the action properties `FencingIrreversible` and
`FencedAttemptCannotAdvance`. The inductive invariant `IInv` is `TypeOK` and, per task, the
conjunction of the safety invariants with one addition: no attempt row exists beyond
`run_epoch`. None is inductive alone. Admission preserves `OnlyCurrentAttemptOpen` because a
WORKSPACE_READY task is quiescent; `FencingIrreversible` at an admission needs the new epoch to
be unused. The proofs take the five groups of `Next` in turn, one step per transaction.

That the workspace of an open attempt is READY is no theorem of the store: neither the admission nor
the replacement of an attempt compares the workspace row, and with the bare edge to WORKSPACE_READY
any caller can open an attempt without one. It holds of callers that look first and are the only
writers of workspace rows. `Calls` are the transactions as such callers make them, each a step of
`Next`, and `HInv` adds to `IInv` that a task which has an open attempt, or waits for one in WORKSPACE_READY
or RETRY_WAIT, has its workspace READY; `CallsKeep` is that `Calls` keep it.

`TaskRuntimeProofs` proves of `RuntimeSpec`, for every set of tasks, any number of epochs, faults
and automatic attempts and for either value of `RunnerRecovers` (`FaultAssumption`): that it
implements `Spec` of the store (`RuntimeUsesStore`), so that everything proved of the store for any
caller holds of the running system; `WorkspaceHeld`, since its steps are `Calls`; `NoSecondWriter`;
`AcceptedCancelWins`; and that it implements
`ExclusiveWriter`. The invariant `RInv` adds to the store's the types of runners, process trees and
markers and, per task, two parts. `Custody` ties processes to rows: a worker tree only lives
under the open attempt, a runner that has an attempt has the task's epoch, and at the steps at
which it confirms, its worker is dead. `Decided` ties decisions to rows: a runner that concludes has
no open attempt, and a task whose cancellation was accepted is in no state from which anything is
dispatched. Both speak of the store only through which attempts are open, so one lemma (`Keeps`)
says which transactions leave those alone and one frame lemma per part reuses it; every other step
of runner, daemon, owner and fault is one case. The refinement has one lemma per abstract action
(grant, write, stop, release, close) and one for those that are none.

`IntegrationProofs` proves of `ManagerSpec`, for every set of tasks and branches, any number
of attempts and faults (`IntegrationAssumption`, `EpochAssumption`): `CompletePublished`,
`AnchoredUntilPublished`, `PublishKeepsCommits`, `PublishOnlyIntegrating`,
`PublishedNotBlocked`, `OwnerWorkKept` and `CompleteInSync`. None is inductive without knowing what the
driver remembers, so its `IInv` has four parts: `Shape`, the types; `Rows`, what the database
promises (DISPATCHED is INTEGRATING and anchored, COMPLETE is published); `OnBranch`, a
task's commit is on a branch only if MAR published it; and `Local`, what holds at each
step of the driver: before the dispatch the row is not DISPATCHED, at `cas` the task is
INTEGRATING, and at `block` a dispatched candidate is not what the branch holds. The
owner's steps keep `Local` because they never add a task's commit to a branch. One lemma
per step, then `Effects`, which says which steps move refs or checkout at all, from which
the action properties follow. `CompleteInSync` needs one fact more, `InSync`: from the release of the
private ref on, the checkout of the published branch is not left at the base. The owner's steps keep
it because each leaves the index at the branch it is on, or adds to it.

`SchedulingProofs` proves of `Capacity`, for any finite set of tasks and any limits
(`CapacityAssumption`): `TypeOK`, `SlotsBounded`, `ResidentBounded`, `ClaimsAccounted`,
`WorkClaimed` and `MaintenanceAlone`. The inductive invariant adds to the types where each
goroutine may be in relation to its record (`RunsConsistent`: a resumption is under way only
for an execution that yielded, and a registered one reserves a slot exactly while one is), who holds
a claim, stated pairwise (`ClaimInv`: every holder has its claim, no two holders share one,
a claim has a holder), the two counts (`CountInv`), and the gate (`GateHeld`: nobody takes a
snapshot while maintenance runs). One lemma each says how a step of an execution, of a
resumption and of the loop moves a claim (it takes, releases, hands over or leaves it), so that
`ClaimInv` is proved once per kind of move and not once per action; the counts use the
library's facts on cardinality.

It proves of `Scheduler`, for any word, sensor, limits and sizes of claims
(`SchedulerAssumption`): `AdmissionSound`, and the invariant it rests on, `FitsWord`: the reserve
and all promises together fit a word. That is why the sum of reservations in `evaluateLocked`,
which is added up without saturation, does not wrap. It needs that no sensor reports, and no
budget is, the largest word itself: there a saturated sum is no longer told from a true one.

It also proves `FairTurns`, for any finite set of tasks, any projects and priorities and any interval
of aging. The count of what overtook a task is bounded because a project that has overtaken it has
its recorded turn after the last one of the task's own project, and so comes second when both have
an aged task. `TurnsTold` is that relation between counts and rows of turns; `OvertakesOnce` says
it of the turn under way, chosen but not yet recorded; `ClockAhead` that a turn gets a time later
than all that are recorded, without which the rows would not order the turns. That the head of a
queue precedes every other waiting task of its project, however many there are, is a lemma on
strict orders of a finite set (`FirstExists`), with the library's well-founded induction on the
proper subsets of one.

`CandidateProofs` proves of `CandidateSpec`, for every set of tasks, any paths and profile and any
number of attempts, writes and faults (`CandidateAssumption`, `EpochAssumption`), that rows change
only by transactions of the store, and `LedgerTruth`, `HeadAccounted` and `GateSound`. The invariant
`CInv` adds to the store's the types and, per task, what holds between two steps of the sealer.
`Underway` is the heart of it: while the effect of an attempt is open, HEAD is where the effect
expects it and there is no commit of the attempt (`Unmoved`), or HEAD is one commit of this very
attempt further (`Moved`); so a HEAD found in place proves that nothing was applied, and a rearmed
effect cannot commit twice. `History` says that no commit and no effect is of an attempt to come,
`Told` what the ledger says of each attempt, `Sealed` that the commits below the head row are
accounted for and that only a runner that is done leaves a verified task, and `Progress` that passed and remaining commands are together those of the profile
until one fails. That an observed commit has the authorized tree on all paths and not only on those
that `inspect` compares is `AppliedTree`: outside the intent neither side differs from the expected
head. Compaction commits without a seal: `Live`, that a runner has an open attempt, and `HInv`, that
the workspace of one is READY, keep it away from a seal under way; its demand that HEAD is the
durable head keeps an unsettled commit out of the snapshot's history, and `Parked` carries that to
the rehydration which makes the snapshot the head. One frame lemma (`Frame`, `PlainStep`) covers the steps that leave ledger and commits alone,
one (`LedgerStep`) those that move the effect.

Its second part proves `EvidenceTrue` under the same assumptions, from `EInv`. The verifier looks at the files
before the first command and after the last, and anyone may write in between; `Looked` says why two
looks are enough: what the commands found is the candidate, or the files differ from it now and will
at the second look, since a foreign write leaves a content that no commit has (`Contents` bounds all
contents by those written so far) and a toolchain that changed is not the captured one again. The
same argument carries what an oracle read from the verdict to the gate (`Examined`). It rests on the
assumption named at `ForeignWrite`, that nobody puts back what was there.

`WorkspaceManagerProofs` proves of `ManagerSpec`, for any set of tasks, contents, checkpoints and
faults (`WorkspaceAssumption`, `EpochAssumption`): that the loop uses the rows of tasks only by
transactions of the store, `WorkKept` and `CheckpointTruth`. `MInv` says, by the state of the
workspace row, where the last content is (`RowTruth`): in the worktree of a READY one, in the latest
snapshot of a COMPACTED or REHYDRATING one, and in a CHECKPOINTING one wherever the latest
checkpoint row tells. That the row can tell rests on a READY workspace never having a latest row
that a compaction left unfinished, which is what the reconciler relies on after a crash. The other
half is what the loop knows between two git commands (`EnsureTruth` and its like for checkpoints):
a worktree is removed only under a CAPTURED row whose snapshot was compared with it while no worker
could write. What is not in `MInv` is the reconciler's way out of each case: that is
`CheckpointRecovered`, and it does not hold.

`WorkerSessionProofs` proves of `SessionSpec`, for any set of tasks, number of attempts
and faults and any positive budgets and page size (`SessionAssumption`, `EpochAssumption`): that sessions use the rows of tasks only by transactions of the store,
`AnswerForAsker`, `WithinTaskBudget` and the action property `InputNotReplayed`. `SessionInv` adds
to the store's invariant, per task, five parts. `OfLatest`: a session serves the latest attempt.
`Questions`: each turn of an attempt has one question at most, and the latest is the one the worker
waits for or acts on; an answer to it cannot be an old one. `DecisionsFit`: the questions answered,
those that may still be, and those a session may still ask are together within the budget. The
middle term is what makes it inductive: a question of a crashed attempt is still open until the
attempt is fenced, and a replacement gets its budget from the answers alone, which is right only
because by then nothing of the predecessor can be answered (`Quiescent` at `begin`). `CallsFit` is
the same for tool calls, and that none is carried out before the answer that asks for it counts.
`InputsRead`: as long as the log fits a page, a worker asks only when it has read every input, and
an input published meanwhile ends the very wait it was published in.

`SandboxProofs` proves of `Spec`, for any finite sets of callers and paths, any tasks and
processes and any number of commands and faults (`SandboxAssumption`): `GrantsHeld` and `CleanReturn`. Everything rests on who
holds which mutex (`LocksHeld`): that of a task's profile is held from before the first grant until
after the last is taken back, so that no other command of the task edits its entries, and that of a
path from the read of its access list to the write, so that `Access`, what the call read is what is
there, is kept by the edits of all others. A crash abandons the mutexes of one process and ends its
calls together, which keeps both. Paths are taken in ascending order; that a nonempty set of them has
a least and a greatest is a lemma (`MinMax`).

`TypeOK`, `ResidentBounded`, `PublishOnlyIntegrating`, `FitsWord` and the `UsesStore` theorems state
what no run checks as a property of its own.

Every safety property of the passing runs is thereby proved. Only model-checked are the eight liveness
properties listed under *Runs*, since the prover does not handle fairness or ENABLED, and what the
runs that find a violation show, which is not a theorem.

## Plan

Done: the modules above, in the order store, runtime, integration, capacity, workspaces, sessions,
candidates, sandbox, scheduler, with proofs of every safety property of theirs. What is left, in order
of worth:

1. Composition: the daemon's loop of `WorkspaceManager` with `Capacity`'s claims, and `Sandbox` under
   the verifier of `Candidate`.
2. The read-only snapshots that tasks share (`workspace.Manager.EnsureReadOnly`) and retention.

## Not modelled

Text and file tools, the context engine, rendering, MCP decoding, the HTTP traffic of a model
provider, the tunnel, the command line and database migrations beyond the tables they create: no
control state that actors share, or calls whose effect is outside the repository. The fast path for
direct actions on a project compares one file's hash before each write, without a lock and
without state of its own. Read-only snapshots (`workspace/manager.go:172-227`) are left out of
`WorkspaceManager`; a half-made one stays registered and fails later tasks, as nothing removes it.
Retention deletes files and old rows inside the idle exclusion that `Capacity` shows to be
exclusive. The components table of `PROJECT.json` gives the reason for each.
