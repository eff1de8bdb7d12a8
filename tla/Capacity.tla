-------------------------------- MODULE Capacity --------------------------------
(***************************************************************************)
(* Who may use the machine: the daemon's table of active executions, the   *)
(* claims of the resource governor, and the goroutines that take, park,    *)
(* take back and give up a claim: one daemon loop (scheduler step, then    *)
(* launches), one goroutine per execution, and one more per resumption.    *)
(* Every action is one critical section of d.mu or g.mu, or what lies      *)
(* between two of them.  A context may be cancelled at any time (owner,    *)
(* disk pressure, lost lease), so every check of one may fail.             *)
(***************************************************************************)
EXTENDS Naturals, FiniteSets

CONSTANTS Tasks,
          MaxConcurrentWorkers,
          MaxHeavyJobs,
          MaxRuns               \* bound on the executions of one task

ASSUME CapacityAssumption ==
  /\ IsFiniteSet(Tasks) /\ "workspace" \notin Tasks
  /\ MaxConcurrentWorkers \in Nat \ {0} /\ MaxHeavyJobs \in Nat \ {0} /\ MaxRuns \in Nat \ {0}

(* The n-th execution of task t; d.active can only hold the latest.        *)
Runs == Tasks \X (1..MaxRuns)

VARIABLES
  gen,        \* executions of each task so far
  active,     \* d.active: the executions that are registered
  pc,         \* the goroutine of an execution
  lease,      \* activeExecution.lease # nil
  resuming,   \* activeExecution.resuming
  yielded,    \* waitForWebTurn's capacityReleased
  resumer,    \* the goroutine that runs resumeExecutionCapacity
  claims,     \* Governor.active, "execution:t" as t
  loop        \* the goroutine of Daemon.Run: its step, and the task it launches

runVars == <<gen, active, pc, lease, resuming, yielded, resumer>>
vars    == <<runVars, claims, loop>>

Occupying == {r \in active : lease[r] \/ resuming[r]}      \* capacityCount
Parked    == active \ Occupying                            \* parkedCount
HasSlot   == Cardinality(Occupying) < MaxConcurrentWorkers

--------------------------------------------------------------------------------
(* Governor.                                                               *)

(* evaluateLocked grants only an unclaimed id and within MaxHeavyJobs; CPU,*)
(* memory, disk and the caps per project may deny anything at any time.    *)
GrantHeavy(t) ==
  /\ t \notin claims /\ Cardinality(claims \cap Tasks) < MaxHeavyJobs
  /\ claims' = claims \cup {t}
ReleaseClaim(id) == claims' = claims \ {id}

(* TryAcquire holds admissionGate for reading while it takes the snapshot; *)
(* a writer that waits keeps new readers out.                              *)
Readers  == {r \in Runs : resumer[r] = "snapshot"}
GateOpen == loop.pc \notin {"gate", "maintain"}

--------------------------------------------------------------------------------
(* The daemon loop: Scheduler.Step ...                                     *)

LoopAt(step) == loop.pc = step
LoopTo(step) == loop' = [loop EXCEPT !.pc = step]

ScheduleStep ==
  /\ LoopAt("step")
  /\ \E next \in {"acquire workspace", "gate", "launch"} : LoopTo(next)
  /\ UNCHANGED <<runVars, claims>>

AcquireWorkspaceClaim ==
  /\ LoopAt("acquire workspace")
  /\ \/ claims' = claims \cup {"workspace"} /\ LoopTo("prepare")
     \/ UNCHANGED claims /\ \E next \in {"gate", "launch"} : LoopTo(next)
  /\ UNCHANGED runVars

WorkspacePrepared ==
  /\ LoopAt("prepare") /\ ReleaseClaim("workspace") /\ LoopTo("launch")
  /\ UNCHANGED runVars

(* When MAR is not idle, blocked workspaces may be checkpointed under      *)
(* claims, and the workspace claim tried again.                            *)
IfIdle ==
  \/ claims = {} /\ LoopTo("maintain")
  \/ claims # {} /\ \E next \in {"acquire workspace", "launch"} : LoopTo(next)

(* Mutant: looks for claims without the gate.                              *)
RunIfIdleOptimistic == LoopAt("gate") /\ IfIdle /\ UNCHANGED <<runVars, claims>>
(* RunIfIdleExclusive: waits for the readers, then looks for claims.       *)
RunIfIdleExclusive ==
  /\ LoopAt("gate") /\ Readers = {}
  /\ IfIdle /\ UNCHANGED <<runVars, claims>>

MaintenanceDone ==
  /\ LoopAt("maintain")
  /\ \E next \in {"acquire workspace", "launch"} : LoopTo(next)
  /\ UNCHANGED <<runVars, claims>>

(* ... then launchReady: any task that is not active may be ready.         *)
Pending(t) == gen[t] < MaxRuns /\ \A r \in active : r[1] # t

LaunchReady(t) ==
  /\ LoopAt("launch") /\ Pending(t) /\ HasSlot
  /\ loop' = [pc |-> "acquire", task |-> t]
  /\ UNCHANGED <<runVars, claims>>

LaunchDone == LoopAt("launch") /\ LoopTo("step") /\ UNCHANGED <<runVars, claims>>

(* When the claim is denied the next task is tried, the slots not counted  *)
(* again.                                                                  *)
LaunchAcquire(t) ==
  /\ LoopAt("acquire") /\ loop.task = t
  /\ \/ GrantHeavy(t) /\ LoopTo("register")
     \/ /\ UNCHANGED claims
        /\ \/ LoopTo("launch")
           \/ \E u \in Tasks \ {t} : Pending(u) /\ loop' = [loop EXCEPT !.task = u]
  /\ UNCHANGED runVars

Register(t) ==
  LET r == <<t, gen[t] + 1>> IN
    /\ gen' = [gen EXCEPT ![t] = @ + 1]
    /\ active' = active \cup {r}
    /\ pc' = [pc EXCEPT ![r] = "work"]
    /\ lease' = [lease EXCEPT ![r] = TRUE]
    /\ LoopTo("launch")
    /\ UNCHANGED <<resuming, yielded, resumer, claims>>

(* Mutant: relies on the check launchReady made before TryAcquire.         *)
LaunchUnchecked(t) == LoopAt("register") /\ loop.task = t /\ Register(t)
Launch(t) ==
  /\ LoopAt("register") /\ loop.task = t
  /\ IF (\A a \in active : a[1] # t) /\ HasSlot /\ Cardinality(active) < 2 * MaxConcurrentWorkers
       THEN Register(t)
       ELSE LoopTo("decline") /\ UNCHANGED <<runVars, claims>>

LaunchDeclined(t) ==
  /\ LoopAt("decline") /\ loop.task = t
  /\ ReleaseClaim(t) /\ LoopTo("launch") /\ UNCHANGED runVars

--------------------------------------------------------------------------------
(* The goroutine of an execution.                                          *)

At(r, step) == pc[r] = step
Go(r, step) == pc' = [pc EXCEPT ![r] = step]
KeepLoop    == UNCHANGED <<gen, loop>>

(* Until the daemon's own context is cancelled the store can be asked.     *)
ContextLive == ~LoopAt("drain")

(* A web turn is published and not answered yet.                           *)
AskWebTurn(r) ==
  /\ At(r, "work") /\ ContextLive /\ Go(r, "park") /\ KeepLoop
  /\ UNCHANGED <<active, lease, resuming, yielded, resumer, claims>>

(* Mutant: the lease stays recorded, and counted, though its claim goes.   *)
ParkKeepingLease(r) ==
  /\ At(r, "park")
  /\ \/ Go(r, "fail")
     \/ Go(r, IF lease[r] /\ Cardinality(Parked) < MaxConcurrentWorkers THEN "release" ELSE "wait")
  /\ KeepLoop /\ UNCHANGED <<active, lease, resuming, yielded, resumer, claims>>
Park(r) ==
  /\ At(r, "park")
  /\ \/ Go(r, "fail") /\ UNCHANGED lease          \* the context is cancelled
     \/ IF lease[r] /\ ~resuming[r] /\ Cardinality(Parked) < MaxConcurrentWorkers
          THEN Go(r, "release") /\ lease' = [lease EXCEPT ![r] = FALSE]
          ELSE Go(r, "wait") /\ UNCHANGED lease
  /\ KeepLoop /\ UNCHANGED <<active, resuming, yielded, resumer, claims>>

ReleaseParked(r) ==
  /\ At(r, "release") /\ ReleaseClaim(r[1]) /\ Go(r, "wait")
  /\ yielded' = [yielded EXCEPT ![r] = TRUE]
  /\ KeepLoop /\ UNCHANGED <<active, lease, resuming, resumer>>

(* The answer is there: a parked execution must get its claim back first.  *)
Answered(r) ==
  /\ At(r, "wait") /\ ContextLive
  /\ IF yielded[r] THEN Go(r, "resume") /\ resumer' = [resumer EXCEPT ![r] = "poll"]
                   ELSE Go(r, "work") /\ UNCHANGED resumer
  /\ KeepLoop /\ UNCHANGED <<active, lease, resuming, yielded, claims>>

(* Time is up, a heartbeat is refused, or the context is cancelled: the    *)
(* worker is told of an error, or terminated, and does nothing more.       *)
WaitFails(r) ==
  /\ At(r, "wait") \/ At(r, "resume")
  /\ Go(r, "fail") /\ yielded' = [yielded EXCEPT ![r] = FALSE]
  /\ KeepLoop /\ UNCHANGED <<active, lease, resuming, resumer, claims>>

ResumeReturns(r) ==
  /\ At(r, "resume") /\ resumer[r] \in {"ok", "error"}
  /\ Go(r, IF resumer[r] = "ok" THEN "work" ELSE "fail")
  /\ yielded' = [yielded EXCEPT ![r] = FALSE] /\ resumer' = [resumer EXCEPT ![r] = "none"]
  /\ KeepLoop /\ UNCHANGED <<active, lease, resuming, claims>>

(* The runner returns: verified and integrated, failed or cancelled.       *)
Finish(r) ==
  /\ At(r, "work") \/ At(r, "fail")
  /\ Go(r, "remove") /\ KeepLoop
  /\ UNCHANGED <<active, lease, resuming, yielded, resumer, claims>>

RemoveActive(r) ==
  /\ At(r, "remove") /\ Go(r, "drop")
  /\ active' = active \ {r}
  /\ KeepLoop /\ UNCHANGED <<lease, resuming, yielded, resumer, claims>>

(* Mutant: the goroutine ends only if there is a lease to release.         *)
DropLeaseHeld(r) ==
  /\ At(r, "drop") /\ lease[r] /\ Go(r, "done")
  /\ ReleaseClaim(r[1]) /\ lease' = [lease EXCEPT ![r] = FALSE]
  /\ KeepLoop /\ UNCHANGED <<active, resuming, yielded, resumer>>
DropLease(r) ==
  /\ At(r, "drop") /\ Go(r, "done")
  /\ IF lease[r] THEN ReleaseClaim(r[1]) /\ lease' = [lease EXCEPT ![r] = FALSE]
                 ELSE UNCHANGED <<claims, lease>>
  /\ KeepLoop /\ UNCHANGED <<active, resuming, yielded, resumer>>

--------------------------------------------------------------------------------
(* resumeExecutionCapacity, which its caller may have stopped waiting for. *)
(* It looks its execution up by task; left out is that, cancelled between  *)
(* its check of the context and the lookup, it finds a later execution.    *)

ResumeAt(r, step) == resumer[r] = step
ResumeTo(r, step) == resumer' = [resumer EXCEPT ![r] = step]
KeepRun           == UNCHANGED <<gen, active, pc, yielded, loop>>

ResumePoll(r) ==
  /\ ResumeAt(r, "poll") /\ UNCHANGED <<lease, claims>> /\ KeepRun
  /\ \/ ResumeTo(r, "error") /\ UNCHANGED resuming     \* cancelled, or removed
     \/ /\ r \in active
        /\ IF lease[r] THEN ResumeTo(r, "ok") /\ UNCHANGED resuming
           ELSE ~resuming[r] /\ HasSlot /\ ResumeTo(r, "acquire")
                /\ resuming' = [resuming EXCEPT ![r] = TRUE]

ResumeSnapshot(r) ==
  /\ ResumeAt(r, "acquire") /\ GateOpen /\ ResumeTo(r, "snapshot")
  /\ UNCHANGED <<lease, resuming, claims>> /\ KeepRun

(* The governor grants, denies, or its sensor fails.                       *)
ResumeAcquire(r) ==
  /\ ResumeAt(r, "snapshot") /\ UNCHANGED <<lease, resuming>> /\ KeepRun
  /\ \/ GrantHeavy(r[1]) /\ ResumeTo(r, "granted")
     \/ UNCHANGED claims /\ \E answer \in {"denied", "failed"} : ResumeTo(r, answer)

AfterAcquire(answer) ==
  IF answer = "granted" THEN "ok" ELSE IF answer = "denied" THEN "poll" ELSE "error"

(* Mutant: does not look whether the execution is still there.             *)
ResumeRecordBlindly(r) ==
  /\ resumer[r] \in {"granted", "denied", "failed"}
  /\ UNCHANGED claims /\ KeepRun
  /\ resuming' = [resuming EXCEPT ![r] = FALSE]
  /\ lease' = [lease EXCEPT ![r] = @ \/ ResumeAt(r, "granted")]
  /\ ResumeTo(r, AfterAcquire(resumer[r]))
ResumeRecord(r) ==
  /\ resumer[r] \in {"granted", "denied", "failed"}
  /\ UNCHANGED claims /\ KeepRun
  /\ IF r \in active
       THEN /\ resuming' = [resuming EXCEPT ![r] = FALSE]
            /\ lease' = [lease EXCEPT ![r] = @ \/ ResumeAt(r, "granted")]
            /\ ResumeTo(r, AfterAcquire(resumer[r]))
       ELSE /\ UNCHANGED <<resuming, lease>>
            /\ ResumeTo(r, IF ResumeAt(r, "granted") THEN "give back" ELSE "error")

ResumeGiveBack(r) ==
  /\ ResumeAt(r, "give back") /\ ReleaseClaim(r[1]) /\ ResumeTo(r, "error")
  /\ UNCHANGED <<lease, resuming>> /\ KeepRun

--------------------------------------------------------------------------------
(* The end of the daemon: its context is cancelled, and with it all others.*)

Shutdown == LoopAt("step") /\ LoopTo("drain") /\ UNCHANGED <<runVars, claims>>

Drained ==
  /\ LoopAt("drain") /\ \A r \in Runs : pc[r] \in {"none", "done"}
  /\ LoopTo("stopped") /\ UNCHANGED <<runVars, claims>>

--------------------------------------------------------------------------------
Init ==
  /\ gen = [t \in Tasks |-> 0] /\ active = {} /\ claims = {}
  /\ pc = [r \in Runs |-> "none"] /\ resumer = [r \in Runs |-> "none"]
  /\ lease     = [r \in Runs |-> FALSE] /\ resuming  = [r \in Runs |-> FALSE]
  /\ yielded   = [r \in Runs |-> FALSE]
  /\ loop = [pc |-> "step", task |-> "none"]

LoopStep ==
  \/ ScheduleStep \/ AcquireWorkspaceClaim \/ WorkspacePrepared
  \/ RunIfIdleExclusive \/ MaintenanceDone \/ LaunchDone \/ Drained
  \/ \E t \in Tasks : LaunchReady(t) \/ LaunchAcquire(t) \/ Launch(t) \/ LaunchDeclined(t)

RunStep(r) ==
  \/ AskWebTurn(r) \/ Park(r) \/ ReleaseParked(r) \/ Answered(r) \/ WaitFails(r)
  \/ ResumeReturns(r) \/ Finish(r) \/ RemoveActive(r) \/ DropLease(r)

ResumeStep(r) ==
  \/ ResumePoll(r) \/ ResumeSnapshot(r) \/ ResumeAcquire(r) \/ ResumeRecord(r)
  \/ ResumeGiveBack(r)

Next ==
  \/ LoopStep \/ Shutdown
  \/ \E r \in Runs : RunStep(r) \/ ResumeStep(r)

Spec == Init /\ [][Next]_vars

(* The daemon's goroutine is scheduled; once its context is cancelled a    *)
(* wait notices and a worker run ends: that some execution goes on is      *)
(* enough.                                                                 *)
Winds(r) ==
  \/ Park(r) \/ ReleaseParked(r) \/ WaitFails(r) \/ ResumeReturns(r)
  \/ Finish(r) \/ RemoveActive(r) \/ DropLease(r)

FairSpec ==
  /\ Spec /\ WF_vars(LoopStep)
  /\ WF_vars(LoopAt("drain") /\ \E r \in Runs : Winds(r))

--------------------------------------------------------------------------------
TypeOK ==
  /\ gen \in [Tasks -> 0..MaxRuns] /\ active \subseteq Runs
  /\ pc \in [Runs -> {"none", "work", "park", "release", "wait", "resume", "fail", "remove",
                      "drop", "done"}]
  /\ lease \in [Runs -> BOOLEAN] /\ resuming \in [Runs -> BOOLEAN]
  /\ yielded \in [Runs -> BOOLEAN]
  /\ resumer \in [Runs -> {"none", "poll", "acquire", "snapshot", "granted", "denied", "failed",
                           "give back", "ok", "error"}]
  /\ claims \subseteq Tasks \cup {"workspace"}
  /\ loop \in [pc : {"step", "acquire workspace", "prepare", "gate", "maintain", "launch",
                     "acquire", "register", "decline", "drain", "stopped"},
               task : Tasks \cup {"none"}]

(* Executions that hold a slot never exceed MaxConcurrentWorkers, whether  *)
(* slots are taken by a launch or taken back by a resumption.              *)
SlotsBounded == Cardinality(Occupying) <= MaxConcurrentWorkers

(* No more than two cohorts of workers are resident.                       *)
ResidentBounded == Cardinality(active) <= 2 * MaxConcurrentWorkers

(* Every execution claim of the governor has exactly one holder, and every *)
(* holder its claim: none leaks, none is released twice or by another.     *)
LoopHolds(t) == loop.pc \in {"register", "decline"} /\ loop.task = t
Holds(r, by) ==
  \/ by = "lease"   /\ lease[r] /\ pc[r] # "done"
  \/ by = "release" /\ pc[r] = "release"
  \/ by = "resumer" /\ resumer[r] \in {"granted", "give back"}
HoldWays == {"lease", "release", "resumer"}
ClaimsAccounted ==
  \A t \in Tasks :
    LET holders == {h \in {r \in Runs : r[1] = t} \X HoldWays : Holds(h[1], h[2])} IN
      /\ t \in claims <=> LoopHolds(t) \/ holders # {}
      /\ LoopHolds(t) => holders = {}
      /\ \A h, k \in holders : h = k

(* An execution works only under its claim: a parked one goes on only      *)
(* after its heavy claim is reacquired.                                    *)
Works(r) == pc[r] \in {"work", "park"} \/ (pc[r] = "wait" /\ ~yielded[r])
WorkClaimed == \A r \in Runs : Works(r) => r[1] \in claims /\ r \in active

(* Maintenance that needs an idle machine never overlaps with work.        *)
MaintenanceAlone == loop.pc = "maintain" => claims = {} /\ \A r \in Runs : ~Works(r)

(* Once told to stop the daemon cancels all executions, parked and         *)
(* resuming ones too, waits for them and ends.                             *)
Drains == loop.pc = "drain" ~> loop.pc = "stopped"
================================================================================
