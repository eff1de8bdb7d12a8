------------------------------- MODULE Scheduler -------------------------------
(***************************************************************************)
(* Whose turn it is, and whether there is room: Scheduler.Step selects a   *)
(* waiting task, claims room for its workspace, prepares it and records    *)
(* the turn of its project, while launches and resumptions (Capacity)      *)
(* claim room for executions of the same governor.  The queue and the      *)
(* turns are durable; the claims die with the daemon.                      *)
(***************************************************************************)
EXTENDS Naturals, FiniteSets

CONSTANTS TaskRows, Projects,     \* numbers: the order of rowids and of project ids
          Ranks,                  \* priorityRank: 0 is the most urgent
          AgingInterval,
          MaxWord,                \* the largest uint64
          Free, Used,             \* what the disk sensor may report
          MinFree, MaxMARDisk,    \* the governor's limits; no budget when 0
          WorkspaceBytes, ExecutionBytes,
          MaxTime, MaxFaults,     \* bounds
          none

ASSUME SchedulerAssumption ==
  /\ TaskRows \subseteq Nat /\ IsFiniteSet(TaskRows) /\ Projects \subseteq Nat /\ none \notin TaskRows
  /\ Ranks \subseteq Nat /\ AgingInterval \in Nat \ {0}
  /\ MaxWord \in Nat /\ {MinFree, WorkspaceBytes, ExecutionBytes} \subseteq 0..MaxWord
  /\ Used \subseteq 0..MaxWord
  /\ Free \subseteq 0..(MaxWord - 1)     \* no disk has 2^64 - 1 free bytes
  /\ MaxMARDisk \in 0..(MaxWord - 1)     \* nor has a budget that many
  /\ MaxTime \in Nat /\ MaxFaults \in Nat

VARIABLES
  contract,    \* task -> its project and the rank of its priority, while it waits
  updated,     \* task -> updated_at, while it waits
  last,        \* project -> last_dispatched_at, 0 before there is one
  now,         \* the clock
  outstanding, \* Governor.active: how many claims of each kind
  sensed,      \* the sensor snapshot a claim was just granted on, or none
  step,        \* where the loop is: the task it selected, when, and what it passed over
  faults,
  passed,      \* history: task, project -> turns that overtook the aged task
  unpaid       \* history: project -> turns that were not recorded

queue         == <<contract, updated>>
history       == <<passed, unpaid>>
schedulerVars == <<queue, last, now, outstanding, sensed, step, faults, history>>

KeepClaims == UNCHANGED outstanding /\ sensed' = none

ProjectOf(t) == contract[t].project
Waiting      == {t \in TaskRows : contract[t] # none}
StepAt(pc)   == step.pc = pc
Fault        == faults < MaxFaults /\ faults' = faults + 1
NoTurns      == [p \in Projects |-> 0]
Place(t, c, time) ==
  /\ contract' = [contract EXCEPT ![t] = c] /\ updated' = [updated EXCEPT ![t] = time]
  /\ passed' = [passed EXCEPT ![t] = NoTurns]
Leave(t)     == Place(t, none, 0)
Loop(pc)     == [pc |-> pc, task |-> none, project |-> 0, at |-> 0, over |-> {}]

--------------------------------------------------------------------------------
(* selectTask.                                                             *)

Precedes(x, y) ==
  \E i \in DOMAIN x : x[i] < y[i] /\ \A j \in 1..(i - 1) : x[j] = y[j]

First(S, key(_)) == CHOOSE t \in S : \A u \in S \ {t} : Precedes(key(t), key(u))

(* A task gains one rank for each interval it has been waiting.            *)
EffectivePriority(t) ==
  LET base  == contract[t].rank
      steps == (now - updated[t]) \div AgingInterval
  IN IF now < updated[t] THEN base ELSE IF steps >= base THEN 0 ELSE base - steps

(* The rows come by updated_at, created_at and rowid.                      *)
InProject(t) == <<EffectivePriority(t), updated[t], t>>

(* Mutant: priority and age alone.                                         *)
AcrossProjectsByAge(t) == <<EffectivePriority(t), updated[t], ProjectOf(t)>>
(* A project that never had a turn goes before the others.                 *)
AcrossProjects(t) == <<EffectivePriority(t), last[ProjectOf(t)], updated[t], ProjectOf(t)>>

SelectTask ==
  LET OfProject(p) == {t \in Waiting : ProjectOf(t) = p}
      Candidates   == {First(OfProject(ProjectOf(t)), InProject) : t \in Waiting}
  IN First(Candidates, AcrossProjects)

--------------------------------------------------------------------------------
(* Governor.TryAcquire, for disk.  Memory is admitted alike; it and the    *)
(* load of the machine may deny any claim at any time.                     *)

Kinds       == {"workspace", "execution"}
Bytes(kind) == IF kind = "workspace" THEN WorkspaceBytes ELSE ExecutionBytes
Total(held) == held["workspace"] * WorkspaceBytes + held["execution"] * ExecutionBytes

(* Mutant: the sum as the machine adds it.                                 *)
WrappingAdd(a, b)   == (a + b) % (MaxWord + 1)
SaturatingAdd(a, b) == IF MaxWord - a < b THEN MaxWord ELSE a + b

(* evaluateLocked: the reservations are added up without saturation.       *)
Room(snapshot, kind) ==
  LET reserved == Total(outstanding) % (MaxWord + 1)
      needed   == SaturatingAdd(reserved, Bytes(kind))
  IN /\ snapshot.free >= SaturatingAdd(MinFree, needed)
     /\ MaxMARDisk = 0 \/ SaturatingAdd(snapshot.used, needed) <= MaxMARDisk

Snapshots == [free : Free, used : Used]

Granted(kind) ==
  /\ \E s \in Snapshots : Room(s, kind) /\ sensed' = s
  /\ outstanding' = [outstanding EXCEPT ![kind] = @ + 1]

Release(kind) ==
  /\ outstanding[kind] > 0 /\ outstanding' = [outstanding EXCEPT ![kind] = @ - 1] /\ sensed' = none

--------------------------------------------------------------------------------
(* The decision of the scheduler.                                          *)

(* The aged tasks this turn overtakes: those of other projects, and the    *)
(* older ones of the same.                                                 *)
Aged == {t \in Waiting : EffectivePriority(t) = 0}
Overtaken(chosen) ==
  {t \in Aged \ {chosen} : ProjectOf(t) = ProjectOf(chosen) => updated[t] < updated[chosen]}

Select ==
  /\ StepAt("step") /\ Waiting # {}
  /\ step' = [Loop("claim") EXCEPT !.task = SelectTask, !.project = ProjectOf(SelectTask),
                                   !.at = now, !.over = Overtaken(SelectTask)]
  /\ KeepClaims /\ UNCHANGED <<queue, last, now, faults, history>>

ClaimWorkspace ==
  /\ StepAt("claim") /\ Granted("workspace")
  /\ step' = [step EXCEPT !.pc = "prepare"]
  /\ UNCHANGED <<queue, last, now, faults, history>>

(* On disk pressure terminal workspaces, caches and blocked workspaces are *)
(* reclaimed, and the claim is tried again after each: the same claim of   *)
(* the same task, so that it is here that of a later attempt.              *)
WorkspaceDenied ==
  /\ StepAt("claim") /\ KeepClaims /\ step' = Loop("step")
  /\ UNCHANGED <<queue, last, now, faults, history>>

(* EnsureMutable or EnsureReadOnly; it takes longer than a clock tick.     *)
PrepareWorkspace ==
  LET t == step.task IN
    /\ StepAt("prepare") /\ t \in Waiting /\ now > step.at
    /\ Leave(t) /\ step' = [step EXCEPT !.pc = "record"]
    /\ KeepClaims /\ UNCHANGED <<last, now, faults, unpaid>>

(* It fails, or finds the task cancelled: a waiting one is blocked.        *)
PrepareFails ==
  LET t == step.task IN
    /\ StepAt("prepare") /\ Release("workspace") /\ step' = Loop("step")
    /\ \/ t \in Waiting /\ Fault /\ Leave(t)
       \/ t \notin Waiting /\ UNCHANGED <<queue, passed, faults>>
    /\ UNCHANGED <<last, now, unpaid>>

(* A turn of the project of step.task overtook the tasks of step.over; it  *)
(* is over for the tasks of the project itself.                            *)
CountTurn(paid) ==
  LET p == step.project IN
    /\ passed' = [t \in TaskRows |-> [q \in Projects |->
         IF q = p /\ t \in step.over \cap Waiting THEN passed[t][q] + 1
         ELSE IF paid /\ q # p /\ t \in Waiting /\ ProjectOf(t) = p THEN 0 ELSE passed[t][q]]]
    /\ unpaid' = [unpaid EXCEPT ![p] = IF paid THEN @ ELSE @ + 1]

(* The turn counts from the time the task was selected.                    *)
RecordProjectDispatch ==
  LET p == step.project IN
    /\ StepAt("record") /\ Release("workspace") /\ step' = Loop("step")
    /\ \/ /\ last' = [last EXCEPT ![p] = step.at]
          /\ CountTurn(TRUE) /\ UNCHANGED faults
       \/ Fault /\ UNCHANGED last /\ CountTurn(FALSE)
    /\ UNCHANGED <<queue, now>>

--------------------------------------------------------------------------------
(* What goes on meanwhile.                                                 *)

AcquireExecutionClaim ==
  /\ Granted("execution") /\ UNCHANGED <<queue, last, now, step, faults, history>>

ReleaseExecutionClaim ==
  /\ Release("execution") /\ UNCHANGED <<queue, last, now, step, faults, history>>

(* What the loop does before it decides.  A task whose contract, project,  *)
(* policy, profile or base revision does not pass preflight is blocked and *)
(* stays out; one that passes, a blocked one too after the owner's choice, *)
(* waits from then on.                                                     *)
Enqueue(t) ==
  /\ StepAt("step") /\ t \notin Waiting
  /\ \E c \in [project : Projects, rank : Ranks] : Place(t, c, now)
  /\ KeepClaims /\ UNCHANGED <<last, now, step, faults, unpaid>>

Cancel(t) ==
  /\ t \in Waiting /\ Leave(t)
  /\ KeepClaims /\ UNCHANGED <<last, now, step, faults, unpaid>>

(* Only there is the clock looked at.                                      *)
Tick ==
  /\ StepAt("step") \/ StepAt("prepare")
  /\ now < MaxTime /\ now' = now + 1
  /\ KeepClaims /\ UNCHANGED <<queue, last, step, faults, history>>

(* The daemon starts again from the rows; a turn that was not recorded     *)
(* never is.                                                               *)
Crash ==
  /\ ~(StepAt("step") /\ outstanding = [k \in Kinds |-> 0]) /\ Fault
  /\ outstanding' = [k \in Kinds |-> 0] /\ sensed' = none /\ step' = Loop("step")
  /\ IF StepAt("record") THEN CountTurn(FALSE) ELSE UNCHANGED history
  /\ UNCHANGED <<queue, last, now>>

--------------------------------------------------------------------------------
SchedulerInit ==
  /\ contract = [t \in TaskRows |-> none]
  /\ updated = [t \in TaskRows |-> 0]
  /\ last = [p \in Projects |-> 0] /\ now = 1
  /\ outstanding = [k \in Kinds |-> 0] /\ sensed = none /\ step = Loop("step") /\ faults = 0
  /\ passed = [t \in TaskRows |-> NoTurns] /\ unpaid = [p \in Projects |-> 0]

SchedulerNext ==
  \/ Select \/ ClaimWorkspace \/ WorkspaceDenied
  \/ PrepareWorkspace \/ PrepareFails \/ RecordProjectDispatch
  \/ AcquireExecutionClaim \/ ReleaseExecutionClaim \/ Tick \/ Crash
  \/ \E t \in TaskRows : Enqueue(t) \/ Cancel(t)

SchedulerSpec == SchedulerInit /\ [][SchedulerNext]_schedulerVars

--------------------------------------------------------------------------------
(* A task that waited long enough for the highest priority is overtaken at *)
(* most once by each other project until its own has a turn, and never by  *)
(* a younger task of its own; each turn that a crash or a failed write     *)
(* left unrecorded may be had once more.                                   *)
FairTurns ==
  \A t \in Waiting : \A p \in Projects :
    passed[t][p] <= IF p = ProjectOf(t) THEN 0 ELSE 1 + unpaid[p]

(* What is admitted fits: the reserve and all that is promised, added up   *)
(* as numbers and not as words, are within what the sensor reports and     *)
(* within the budget.                                                      *)
AdmissionSound ==
  [][sensed' # none =>
       /\ MinFree + Total(outstanding') <= sensed'.free
       /\ MaxMARDisk = 0 \/ sensed'.used + Total(outstanding') <= MaxMARDisk]_schedulerVars
================================================================================
