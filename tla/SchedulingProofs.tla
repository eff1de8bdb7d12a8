---------------------------- MODULE SchedulingProofs ----------------------------
(***************************************************************************)
(* Who may use the machine and whose turn it is: proofs about Capacity,    *)
(* for any number of tasks, executions, slots and heavy jobs, and then     *)
(* about Scheduler, for any tasks, projects, priorities, sizes of claims,  *)
(* of the disk and of a word.                                              *)
(*                                                                         *)
(* The governor never promises more room than there is.  What makes it so  *)
(* is that the reserve and all reservations together always fit a word:    *)
(* that is why the sum in evaluateLocked never wraps, although nothing in  *)
(* it looks for that.                                                      *)
(*                                                                         *)
(* Turns are fair.  A project that has overtaken an aged task by a         *)
(* recorded turn had its last turn after the project of the task: a turn   *)
(* counts from its selection, which is later than every earlier one, so    *)
(* that selectTask finds the other project behind the task's own from then *)
(* on.                                                                     *)
(***************************************************************************)
EXTENDS Capacity, Scheduler, FiniteSetTheorems, WellFoundedInduction, TLAPS

--------------------------------------------------------------------------------
(* The inductive invariant.                                                *)

Reacquiring == {"acquire", "snapshot", "granted", "denied", "failed"}

(* What the goroutine of one execution, its record in d.active and the     *)
(* goroutine of its resumption know of each other.                         *)
RunConsistent(r) ==
  /\ pc[r] = "none" <=> r[2] > gen[r[1]]
  /\ r \in active <=> pc[r] \notin {"none", "drop", "done"}
  /\ pc[r] = "none" => ~lease[r] /\ ~resuming[r] /\ ~yielded[r]
  /\ lease[r] => pc[r] \notin {"release", "done"} /\ resumer[r] \in {"none", "ok", "error"}
  /\ pc[r] \in {"work", "park"} => lease[r] /\ ~yielded[r]
  /\ pc[r] = "release" => ~yielded[r]
  /\ pc[r] = "wait" => (lease[r] <=> ~yielded[r])
  /\ pc[r] = "resume" /\ resumer[r] = "ok" => lease[r]
  /\ pc[r] \in {"none", "work", "park", "release", "wait"} => resumer[r] = "none"
  /\ r \in active => (resuming[r] <=> resumer[r] \in Reacquiring)

Hold(r) == lease[r] \/ pc[r] = "release" \/ resumer[r] \in {"granted", "give back"}

RunsConsistent == \A r \in Runs : RunConsistent(r)
HoldersUnique  == \A r, s \in Runs : r[1] = s[1] /\ Hold(r) /\ Hold(s) => r = s
HoldersClaim   == \A r \in Runs : Hold(r) => r[1] \in claims /\ ~LoopHolds(r[1])
LoopClaims     == \A t \in Tasks : LoopHolds(t) => t \in claims
ClaimsHeld     ==
  \A t \in Tasks : t \in claims => LoopHolds(t) \/ \E r \in Runs : r[1] = t /\ Hold(r)
LoopInBounds   ==
  loop.pc \in {"acquire", "register"} => loop.task \in Tasks /\ gen[loop.task] < MaxRuns
GateHeld       == loop.pc = "maintain" => claims = {} /\ Readers = {}

ControlInv == TypeOK /\ LoopInBounds /\ RunsConsistent
ClaimInv   == HoldersUnique /\ HoldersClaim /\ LoopClaims /\ ClaimsHeld
CountInv   == SlotsBounded /\ ResidentBounded
IInv       == ControlInv /\ ClaimInv /\ CountInv /\ GateHeld

--------------------------------------------------------------------------------
(* The initial state is of the right types.                                *)
LEMMA TypeInit == Init => TypeOK /\ LoopInBounds
BY CapacityAssumption DEF CapacityAssumption, Init, TypeOK, LoopInBounds, Runs

(* The execution that launch registers next is one of Runs.                *)
LEMMA NextRun ==
  ASSUME NEW t \in Tasks, TypeOK, gen[t] < MaxRuns
  PROVE  gen[t] \in Nat /\ gen[t] + 1 \in 0..MaxRuns /\ <<t, gen[t] + 1>> \in Runs
<1>1. gen[t] \in 0..MaxRuns /\ MaxRuns \in Nat
  BY CapacityAssumption DEF CapacityAssumption, TypeOK
<1>2. gen[t] + 1 \in 1..MaxRuns
  BY <1>1
<1> QED
  BY <1>1, <1>2 DEF Runs

(* Every step keeps the types, and the loop within the bound on            *)
(* executions.                                                             *)
LEMMA TypeStep == TypeOK /\ LoopInBounds /\ [Next]_vars => TypeOK' /\ LoopInBounds'
<1> SUFFICES ASSUME TypeOK, LoopInBounds, [Next]_vars
             PROVE  TypeOK' /\ LoopInBounds'
  OBVIOUS
<1> USE CapacityAssumption DEF CapacityAssumption, TypeOK, LoopInBounds, Runs
<1>1. CASE UNCHANGED vars
  BY <1>1 DEF vars, runVars
<1>2. CASE ScheduleStep
  BY <1>2 DEF ScheduleStep, runVars, LoopAt, LoopTo
<1>3. CASE AcquireWorkspaceClaim
  BY <1>3 DEF AcquireWorkspaceClaim, runVars, LoopAt, LoopTo
<1>4. CASE WorkspacePrepared
  BY <1>4 DEF WorkspacePrepared, runVars, LoopAt, LoopTo, ReleaseClaim
<1>5. CASE RunIfIdleExclusive
  BY <1>5 DEF RunIfIdleExclusive, IfIdle, runVars, LoopAt, LoopTo, Readers
<1>6. CASE MaintenanceDone
  BY <1>6 DEF MaintenanceDone, runVars, LoopAt, LoopTo
<1>7. CASE LaunchDone
  BY <1>7 DEF LaunchDone, runVars, LoopAt, LoopTo
<1>8. CASE Drained
  BY <1>8 DEF Drained, runVars, LoopAt, LoopTo
<1>9. CASE Shutdown
  BY <1>9 DEF Shutdown, runVars, LoopAt, LoopTo
<1>10. ASSUME NEW t \in Tasks, LaunchReady(t)
      PROVE  TypeOK' /\ LoopInBounds'
  BY <1>10 DEF LaunchReady, runVars, LoopAt, Pending
<1>11. ASSUME NEW t \in Tasks, LaunchAcquire(t)
      PROVE  TypeOK' /\ LoopInBounds'
  BY <1>11 DEF LaunchAcquire, runVars, LoopAt, LoopTo, GrantHeavy, Pending
<1>12. ASSUME NEW t \in Tasks, Launch(t)
      PROVE  TypeOK' /\ LoopInBounds'
  <2>1. CASE Register(t)
    <3>0. loop.pc = "register" /\ loop.task = t
      BY <1>12 DEF Launch, LoopAt
    <3>1. gen[t] + 1 \in 0..MaxRuns /\ <<t, gen[t] + 1>> \in Runs
      BY <3>0, NextRun
    <3>2. gen' \in [Tasks -> 0..MaxRuns]
      BY <2>1, <3>1 DEF Register
    <3>3. active' \subseteq Runs
      BY <2>1, <3>1 DEF Register
    <3>4. UNCHANGED <<resuming, yielded, resumer, claims>> /\ loop' = [loop EXCEPT !.pc = "launch"]
      BY <2>1 DEF Register, LoopTo
    <3>5. /\ lease' = [lease EXCEPT ![<<t, gen[t] + 1>>] = TRUE]
          /\ pc' = [pc EXCEPT ![<<t, gen[t] + 1>>] = "work"]
      BY <2>1 DEF Register
    <3> QED
      BY <3>1, <3>2, <3>3, <3>4, <3>5
  <2>2. CASE LoopTo("decline") /\ UNCHANGED <<runVars, claims>>
    BY <2>2 DEF runVars, LoopTo
  <2> QED
    BY <1>12, <2>1, <2>2 DEF Launch
<1>13. ASSUME NEW t \in Tasks, LaunchDeclined(t)
      PROVE  TypeOK' /\ LoopInBounds'
  BY <1>13 DEF LaunchDeclined, runVars, LoopAt, LoopTo, ReleaseClaim
<1>14. ASSUME NEW r \in Runs, AskWebTurn(r)
      PROVE  TypeOK' /\ LoopInBounds'
  BY <1>14 DEF AskWebTurn, At, Go, KeepLoop
<1>15. ASSUME NEW r \in Runs, Park(r)
      PROVE  TypeOK' /\ LoopInBounds'
  <2>1. UNCHANGED <<gen, loop, active, resuming, yielded, resumer, claims>>
    BY <1>15 DEF Park, KeepLoop
  <2>2. pc' \in [Runs -> {"none", "work", "park", "release", "wait", "resume", "fail", "remove",
                      "drop", "done"}]
    BY <1>15 DEF Park, Go
  <2>3. lease' \in [Runs -> BOOLEAN]
    BY <1>15 DEF Park
  <2> QED
    BY <2>1, <2>2, <2>3
<1>16. ASSUME NEW r \in Runs, ReleaseParked(r)
      PROVE  TypeOK' /\ LoopInBounds'
  BY <1>16 DEF ReleaseParked, At, Go, KeepLoop, ReleaseClaim
<1>17. ASSUME NEW r \in Runs, Answered(r)
      PROVE  TypeOK' /\ LoopInBounds'
  BY <1>17 DEF Answered, At, Go, KeepLoop
<1>18. ASSUME NEW r \in Runs, WaitFails(r)
      PROVE  TypeOK' /\ LoopInBounds'
  BY <1>18 DEF WaitFails, At, Go, KeepLoop
<1>19. ASSUME NEW r \in Runs, ResumeReturns(r)
      PROVE  TypeOK' /\ LoopInBounds'
  BY <1>19 DEF ResumeReturns, At, Go, KeepLoop
<1>20. ASSUME NEW r \in Runs, Finish(r)
      PROVE  TypeOK' /\ LoopInBounds'
  BY <1>20 DEF Finish, At, Go, KeepLoop
<1>21. ASSUME NEW r \in Runs, RemoveActive(r)
      PROVE  TypeOK' /\ LoopInBounds'
  BY <1>21 DEF RemoveActive, At, Go, KeepLoop
<1>22. ASSUME NEW r \in Runs, DropLease(r)
      PROVE  TypeOK' /\ LoopInBounds'
  BY <1>22 DEF DropLease, At, Go, KeepLoop, ReleaseClaim
<1>23. ASSUME NEW r \in Runs, ResumePoll(r)
      PROVE  TypeOK' /\ LoopInBounds'
  <2>1. UNCHANGED <<gen, active, pc, yielded, loop, lease, claims>>
    BY <1>23 DEF ResumePoll, KeepRun
  <2>2. resuming' \in [Runs -> BOOLEAN]
    BY <1>23 DEF ResumePoll
  <2>3. resumer' \in [Runs -> {"none", "poll", "acquire", "snapshot", "granted", "denied", "failed",
                          "give back", "ok", "error"}]
    BY <1>23 DEF ResumePoll, ResumeTo
  <2> QED
    BY <2>1, <2>2, <2>3
<1>24. ASSUME NEW r \in Runs, ResumeSnapshot(r)
      PROVE  TypeOK' /\ LoopInBounds'
  BY <1>24 DEF ResumeSnapshot, ResumeAt, ResumeTo, KeepRun, GateOpen
<1>25. ASSUME NEW r \in Runs, ResumeAcquire(r)
      PROVE  TypeOK' /\ LoopInBounds'
  <2>1. UNCHANGED <<gen, active, pc, yielded, loop, lease, resuming>>
    BY <1>25 DEF ResumeAcquire, KeepRun
  <2>4. r[1] \in Tasks
    OBVIOUS
  <2>5. claims' = claims \/ claims' = claims \cup {r[1]}
    BY <1>25 DEF ResumeAcquire, GrantHeavy
  <2>2. claims' \subseteq Tasks \cup {"workspace"}
    BY <2>4, <2>5
  <2>3. resumer' \in [Runs -> {"none", "poll", "acquire", "snapshot", "granted", "denied", "failed",
                          "give back", "ok", "error"}]
    BY <1>25 DEF ResumeAcquire, ResumeTo
  <2> QED
    BY <2>1, <2>2, <2>3
<1>26. ASSUME NEW r \in Runs, ResumeRecord(r)
      PROVE  TypeOK' /\ LoopInBounds'
  <2>1. UNCHANGED <<gen, active, pc, yielded, loop, claims>>
    BY <1>26 DEF ResumeRecord, KeepRun
  <2>2. resuming' \in [Runs -> BOOLEAN] /\ lease' \in [Runs -> BOOLEAN]
    BY <1>26 DEF ResumeRecord, ResumeAt
  <2>3. resumer' \in [Runs -> {"none", "poll", "acquire", "snapshot", "granted", "denied", "failed",
                          "give back", "ok", "error"}]
    BY <1>26 DEF ResumeRecord, ResumeTo, AfterAcquire
  <2> QED
    BY <2>1, <2>2, <2>3
<1>27. ASSUME NEW r \in Runs, ResumeGiveBack(r)
      PROVE  TypeOK' /\ LoopInBounds'
  BY <1>27 DEF ResumeGiveBack, ResumeAt, ResumeTo, KeepRun, ReleaseClaim
<1> QED
  BY <1>1, <1>2, <1>3, <1>4, <1>5, <1>6, <1>7, <1>8, <1>9, <1>10, <1>11, <1>12, <1>13, <1>14,
    <1>15, <1>16, <1>17, <1>18, <1>19, <1>20, <1>21, <1>22, <1>23, <1>24, <1>25, <1>26, <1>27
  DEF Next, LoopStep, RunStep, ResumeStep

--------------------------------------------------------------------------------
(* Registering execution g + 1 changes for it alone whether it lies ahead. *)
LEMMA Later ==
  ASSUME NEW g \in Nat, NEW n \in Nat
  PROVE  /\ n # g + 1 => (n > g <=> n > g + 1)
         /\ n = g + 1 => n > g /\ ~(n > g + 1)
OBVIOUS

(* An execution is a task and a number.                                    *)
LEMMA RunParts ==
  ASSUME NEW r \in Runs
  PROVE  r[1] \in Tasks /\ r[2] \in Nat /\ r = <<r[1], r[2]>>
<1>1. r \in Tasks \X (1..MaxRuns) /\ MaxRuns \in Nat
  BY CapacityAssumption DEF CapacityAssumption, Runs
<1>2. r[1] \in Tasks /\ r[2] \in 1..MaxRuns /\ r = <<r[1], r[2]>>
  BY <1>1
<1>3. r[2] \in Nat
  BY <1>1, <1>2
<1> QED
  BY <1>2, <1>3

(* Every step keeps what an execution, its record in d.active and its      *)
(* resumption know of each other.                                          *)
LEMMA RunsStep ==
  TypeOK /\ LoopInBounds /\ RunsConsistent /\ [Next]_vars => RunsConsistent'
<1> SUFFICES ASSUME TypeOK, LoopInBounds, RunsConsistent, [Next]_vars, NEW s \in Runs
             PROVE  RunConsistent(s)'
  BY DEF RunsConsistent
<1>1. RunConsistent(s)
  BY DEF RunsConsistent
<1> USE <1>1 DEF TypeOK, RunConsistent
<1>2. CASE UNCHANGED runVars
  BY <1>2 DEF runVars
<1>3. ASSUME NEW t \in Tasks, Launch(t), Register(t)
      PROVE  RunConsistent(s)'
  <2>1. loop.pc = "register" /\ loop.task = t /\ gen[t] < MaxRuns
    BY <1>3 DEF Launch, LoopAt, LoopInBounds
  <2>2. <<t, gen[t] + 1>> \in Runs /\ gen[t] \in Nat
    BY <2>1, NextRun
  <2>3. CASE s = <<t, gen[t] + 1>>
    <3>1. s[1] = t /\ s[2] = gen[t] + 1
      BY <2>3
    <3>2. s[2] \in Nat /\ s[2] > gen[t] /\ ~(s[2] > gen[t] + 1)
      <4>1. s[2] \in Nat
        BY RunParts
      <4> QED
        BY <2>2, <3>1, <4>1, Later
    <3>3. gen'[t] = gen[t] + 1
      BY <1>3 DEF Register
    <3>4. /\ pc'[s] = "work" /\ lease'[s] /\ s \in active'
          /\ UNCHANGED <<yielded, resuming, resumer>>
      BY <1>3, <2>2, <2>3 DEF Register
    <3> QED
      <4>1. pc[s] = "none" /\ ~(s[2] > gen'[s[1]])
        BY <3>1, <3>2, <3>3
      <4> QED
        BY <3>4, <4>1 DEF Reacquiring
  <2>4. CASE s # <<t, gen[t] + 1>>
    <3>1. s[2] > gen[s[1]] <=> s[2] > gen'[s[1]]
      <4>1. s[1] \in Tasks /\ s[2] \in Nat /\ s = <<s[1], s[2]>>
        BY RunParts
      <4>2. CASE s[1] = t
        <5>1. gen'[t] = gen[t] + 1 /\ s[2] # gen[t] + 1
          BY <1>3, <2>4, <4>1, <4>2 DEF Register
        <5>2. s[2] > gen[t] <=> s[2] > gen[t] + 1
          BY <2>2, <4>1, <5>1, Later
        <5> QED
          BY <4>2, <5>1, <5>2
      <4>3. CASE s[1] # t
        BY <1>3, <4>1, <4>3 DEF Register
      <4> QED
        BY <4>2, <4>3
    <3>2. /\ pc'[s] = pc[s] /\ lease'[s] = lease[s] /\ (s \in active' <=> s \in active)
          /\ UNCHANGED <<yielded, resuming, resumer>>
      BY <1>3, <2>2, <2>4 DEF Register
    <3> QED
      BY <3>1, <3>2 DEF Reacquiring
  <2> QED
    BY <2>3, <2>4
<1>4. ASSUME NEW r \in Runs, AskWebTurn(r)
      PROVE  RunConsistent(s)'
  BY <1>4 DEF AskWebTurn, At, Go, KeepLoop
<1>5. ASSUME NEW r \in Runs, Park(r)
      PROVE  RunConsistent(s)'
  BY <1>5 DEF Park, At, Go, KeepLoop
<1>6. ASSUME NEW r \in Runs, ReleaseParked(r)
      PROVE  RunConsistent(s)'
  BY <1>6 DEF ReleaseParked, At, Go, KeepLoop
<1>7. ASSUME NEW r \in Runs, Answered(r)
      PROVE  RunConsistent(s)'
  <2>1. CASE s = r
    <3>1. pc[s] = "wait" /\ UNCHANGED <<gen, active, lease, resuming, yielded>>
      BY <1>7, <2>1 DEF Answered, At, KeepLoop
    <3>2. \/ yielded[s] /\ pc'[s] = "resume" /\ resumer'[s] = "poll"
          \/ ~yielded[s] /\ pc'[s] = "work" /\ resumer'[s] = resumer[s]
      BY <1>7, <2>1 DEF Answered, Go
    <3> QED
      BY <3>1, <3>2 DEF Reacquiring
  <2>2. CASE s # r
    BY <1>7, <2>2 DEF Answered, At, Go, KeepLoop
  <2> QED
    BY <2>1, <2>2
<1>8. ASSUME NEW r \in Runs, WaitFails(r)
      PROVE  RunConsistent(s)'
  BY <1>8 DEF WaitFails, At, Go, KeepLoop
<1>9. ASSUME NEW r \in Runs, ResumeReturns(r)
      PROVE  RunConsistent(s)'
  <2>1. CASE s = r
    <3>1. pc[s] = "resume" /\ UNCHANGED <<gen, active, lease, resuming>>
      BY <1>9, <2>1 DEF ResumeReturns, At, KeepLoop
    <3>2. /\ resumer'[s] = "none" /\ ~yielded'[s]
          /\ \/ resumer[s] = "ok" /\ pc'[s] = "work"
             \/ resumer[s] = "error" /\ pc'[s] = "fail"
      BY <1>9, <2>1 DEF ResumeReturns, Go
    <3> QED
      BY <3>1, <3>2 DEF Reacquiring
  <2>2. CASE s # r
    BY <1>9, <2>2 DEF ResumeReturns, At, Go, KeepLoop
  <2> QED
    BY <2>1, <2>2
<1>10. ASSUME NEW r \in Runs, Finish(r)
      PROVE  RunConsistent(s)'
  BY <1>10 DEF Finish, At, Go, KeepLoop
<1>11. ASSUME NEW r \in Runs, RemoveActive(r)
      PROVE  RunConsistent(s)'
  BY <1>11 DEF RemoveActive, At, Go, KeepLoop
<1>12. ASSUME NEW r \in Runs, DropLease(r)
      PROVE  RunConsistent(s)'
  BY <1>12 DEF DropLease, At, Go, KeepLoop
<1>13. ASSUME NEW r \in Runs, ResumePoll(r)
      PROVE  RunConsistent(s)'
  BY <1>13 DEF ResumePoll, ResumeAt, ResumeTo, KeepRun, Reacquiring
<1>14. ASSUME NEW r \in Runs, ResumeSnapshot(r)
      PROVE  RunConsistent(s)'
  BY <1>14 DEF ResumeSnapshot, ResumeAt, ResumeTo, KeepRun, Reacquiring
<1>15. ASSUME NEW r \in Runs, ResumeAcquire(r)
      PROVE  RunConsistent(s)'
  BY <1>15 DEF ResumeAcquire, ResumeAt, ResumeTo, KeepRun, Reacquiring
<1>16. ASSUME NEW r \in Runs, ResumeRecord(r)
      PROVE  RunConsistent(s)'
  <2>1. CASE s = r
    <3>1. UNCHANGED <<gen, active, pc, yielded>> /\ resumer[s] \in {"granted", "denied", "failed"}
      BY <1>16, <2>1 DEF ResumeRecord, KeepRun
    <3>2. CASE s \in active
      <4>1. ~resuming'[s] /\ (lease'[s] <=> lease[s] \/ resumer[s] = "granted")
        BY <1>16, <2>1, <3>2 DEF ResumeRecord, ResumeAt
      <4>2. resumer'[s] = AfterAcquire(resumer[s])
        BY <1>16, <2>1, <3>2 DEF ResumeRecord, ResumeTo
      <4> QED
        BY <3>1, <3>2, <4>1, <4>2 DEF AfterAcquire, Reacquiring
    <3>3. CASE s \notin active
      <4>1. UNCHANGED <<resuming, lease>> /\ resumer'[s] \in {"give back", "error"}
        BY <1>16, <2>1, <3>3 DEF ResumeRecord, ResumeTo
      <4> QED
        BY <3>1, <3>3, <4>1 DEF Reacquiring
    <3> QED
      BY <3>2, <3>3
  <2>2. CASE s # r
    BY <1>16, <2>2 DEF ResumeRecord, ResumeAt, ResumeTo, KeepRun, AfterAcquire, Reacquiring
  <2> QED
    BY <2>1, <2>2
<1>17. ASSUME NEW r \in Runs, ResumeGiveBack(r)
      PROVE  RunConsistent(s)'
  BY <1>17 DEF ResumeGiveBack, ResumeAt, ResumeTo, KeepRun, Reacquiring
<1>18. CASE LoopStep
  BY <1>2, <1>3, <1>18 DEF LoopStep, ScheduleStep, AcquireWorkspaceClaim, WorkspacePrepared,
    RunIfIdleExclusive, MaintenanceDone, LaunchDone, Drained, LaunchReady, LaunchAcquire, Launch,
    LaunchDeclined, runVars
<1> QED
  BY <1>2, <1>3, <1>4, <1>5, <1>6, <1>7, <1>8, <1>9, <1>10, <1>11, <1>12, <1>13, <1>14, <1>15,
    <1>16, <1>17, <1>18
  DEF Next, RunStep, ResumeStep, Shutdown, vars, runVars

--------------------------------------------------------------------------------
(* How the holders of claims may change.                                   *)

HoldersSame == \A r \in Runs : Hold(r)' <=> Hold(r)
LoopSame    == \A t \in Tasks : LoopHolds(t)' <=> LoopHolds(t)
OthersSame(r) == \A s \in Runs \ {r} : Hold(s)' <=> Hold(s)

(* Claims and holders that stay keep the invariant.                        *)
LEMMA HoldersKept ==
  ASSUME ClaimInv, HoldersSame, LoopSame, \A t \in Tasks : t \in claims' <=> t \in claims
  PROVE  ClaimInv'
<1> USE RunParts DEF ClaimInv, HoldersSame, LoopSame
<1>1. HoldersUnique'
  BY DEF HoldersUnique
<1>2. HoldersClaim'
  BY DEF HoldersClaim
<1>3. LoopClaims'
  BY DEF LoopClaims
<1>4. ClaimsHeld'
  BY DEF ClaimsHeld
<1> QED
  BY <1>1, <1>2, <1>3, <1>4

(* The holder of a claim releases it: park, removeActive, or a late grant  *)
(* given back.                                                             *)
LEMMA RunReleases ==
  ASSUME ClaimInv, NEW r \in Runs, Hold(r), ~Hold(r)', OthersSame(r), LoopSame,
         claims' = claims \ {r[1]}
  PROVE  ClaimInv'
<1> USE RunParts DEF ClaimInv, OthersSame, LoopSame
<1>1. HoldersUnique'
  BY DEF HoldersUnique
<1>2. HoldersClaim'
  BY DEF HoldersClaim, HoldersUnique
<1>3. LoopClaims'
  BY DEF LoopClaims, HoldersClaim
<1>4. ClaimsHeld'
  BY DEF ClaimsHeld
<1> QED
  BY <1>1, <1>2, <1>3, <1>4

(* A resumption acquires a claim nobody has.                               *)
LEMMA RunAcquires ==
  ASSUME ClaimInv, NEW r \in Runs, r[1] \notin claims, Hold(r)', OthersSame(r), LoopSame,
         claims' = claims \cup {r[1]}
  PROVE  ClaimInv'
<1> USE RunParts DEF ClaimInv, OthersSame, LoopSame
<1>1. HoldersUnique'
  BY DEF HoldersUnique, HoldersClaim
<1>2. HoldersClaim'
  BY DEF HoldersClaim, LoopClaims
<1>3. LoopClaims'
  BY DEF LoopClaims
<1>4. ClaimsHeld'
  BY DEF ClaimsHeld
<1> QED
  BY <1>1, <1>2, <1>3, <1>4

(* launchReady acquires a claim nobody has.                                *)
LEMMA LoopAcquires ==
  ASSUME ClaimInv, NEW t \in Tasks, t \notin claims, LoopHolds(t)', HoldersSame,
         \A u \in Tasks \ {t} : ~LoopHolds(u) /\ ~LoopHolds(u)', claims' = claims \cup {t}
  PROVE  ClaimInv'
<1> USE RunParts DEF ClaimInv, HoldersSame
<1>1. HoldersUnique'
  BY DEF HoldersUnique
<1>2. HoldersClaim'
  BY DEF HoldersClaim
<1>3. LoopClaims'
  BY DEF LoopClaims
<1>4. ClaimsHeld'
  BY DEF ClaimsHeld
<1> QED
  BY <1>1, <1>2, <1>3, <1>4

(* launch declines and releases the claim.                                 *)
LEMMA LoopReleases ==
  ASSUME ClaimInv, NEW t \in Tasks, LoopHolds(t), \A u \in Tasks : ~LoopHolds(u)', HoldersSame,
         claims' = claims \ {t}
  PROVE  ClaimInv'
<1> USE RunParts DEF ClaimInv, HoldersSame
<1>0. \A u \in Tasks \ {t} : ~LoopHolds(u)
  BY DEF LoopHolds
<1>1. HoldersUnique'
  BY DEF HoldersUnique
<1>2. HoldersClaim'
  BY DEF HoldersClaim
<1>3. LoopClaims'
  BY DEF LoopClaims
<1>4. ClaimsHeld'
  BY <1>0 DEF ClaimsHeld
<1> QED
  BY <1>1, <1>2, <1>3, <1>4

(* launch hands the claim over to the execution it registers.              *)
LEMMA LoopHandsOver ==
  ASSUME ClaimInv, NEW r \in Runs, LoopHolds(r[1]), \A u \in Tasks : ~LoopHolds(u)',
         Hold(r)', OthersSame(r), claims' = claims
  PROVE  ClaimInv'
<1> USE RunParts DEF ClaimInv, OthersSame
<1>0. \A u \in Tasks \ {r[1]} : ~LoopHolds(u)
  BY DEF LoopHolds
<1>1. HoldersUnique'
  BY DEF HoldersUnique, HoldersClaim
<1>2. HoldersClaim'
  BY DEF HoldersClaim, LoopClaims
<1>3. LoopClaims'
  BY DEF LoopClaims
<1>4. ClaimsHeld'
  BY <1>0 DEF ClaimsHeld
<1> QED
  BY <1>1, <1>2, <1>3, <1>4

(* Every step keeps claims and holders in one-to-one correspondence.       *)
LEMMA ClaimStep == ControlInv /\ ClaimInv /\ [Next]_vars => ClaimInv'
<1> SUFFICES ASSUME ControlInv, ClaimInv, [Next]_vars
             PROVE  ClaimInv'
  OBVIOUS
<1> USE DEF ControlInv, TypeOK
<1>1. CASE UNCHANGED vars
  BY <1>1, HoldersKept DEF vars, runVars, HoldersSame, LoopSame, Hold, LoopHolds
<1>2. CASE ScheduleStep
  <2>1. HoldersSame /\ \A t \in Tasks : ~LoopHolds(t) /\ ~LoopHolds(t)'
    BY <1>2 DEF ScheduleStep, LoopAt, LoopTo, runVars, HoldersSame, Hold, LoopHolds
  <2>2. \A t \in Tasks : t \in claims' <=> t \in claims
    BY <1>2, CapacityAssumption DEF CapacityAssumption, ScheduleStep
  <2> QED
    BY <2>1, <2>2, HoldersKept DEF LoopSame
<1>3. CASE AcquireWorkspaceClaim
  <2>1. HoldersSame /\ \A t \in Tasks : ~LoopHolds(t) /\ ~LoopHolds(t)'
    BY <1>3 DEF AcquireWorkspaceClaim, LoopAt, LoopTo, runVars, HoldersSame, Hold, LoopHolds
  <2>2. \A t \in Tasks : t \in claims' <=> t \in claims
    BY <1>3, CapacityAssumption DEF CapacityAssumption, AcquireWorkspaceClaim
  <2> QED
    BY <2>1, <2>2, HoldersKept DEF LoopSame
<1>4. CASE WorkspacePrepared
  <2>1. HoldersSame /\ \A t \in Tasks : ~LoopHolds(t) /\ ~LoopHolds(t)'
    BY <1>4 DEF WorkspacePrepared, LoopAt, LoopTo, runVars, HoldersSame, Hold, LoopHolds
  <2>2. \A t \in Tasks : t \in claims' <=> t \in claims
    BY <1>4, CapacityAssumption DEF CapacityAssumption, WorkspacePrepared, ReleaseClaim
  <2> QED
    BY <2>1, <2>2, HoldersKept DEF LoopSame
<1>5. CASE RunIfIdleExclusive
  <2>1. HoldersSame /\ \A t \in Tasks : ~LoopHolds(t) /\ ~LoopHolds(t)'
    BY <1>5 DEF RunIfIdleExclusive, IfIdle, LoopAt, LoopTo, runVars, HoldersSame, Hold, LoopHolds
  <2>2. \A t \in Tasks : t \in claims' <=> t \in claims
    BY <1>5, CapacityAssumption DEF CapacityAssumption, RunIfIdleExclusive
  <2> QED
    BY <2>1, <2>2, HoldersKept DEF LoopSame
<1>6. CASE MaintenanceDone
  <2>1. HoldersSame /\ \A t \in Tasks : ~LoopHolds(t) /\ ~LoopHolds(t)'
    BY <1>6 DEF MaintenanceDone, LoopAt, LoopTo, runVars, HoldersSame, Hold, LoopHolds
  <2>2. \A t \in Tasks : t \in claims' <=> t \in claims
    BY <1>6, CapacityAssumption DEF CapacityAssumption, MaintenanceDone
  <2> QED
    BY <2>1, <2>2, HoldersKept DEF LoopSame
<1>7. CASE LaunchDone
  <2>1. HoldersSame /\ \A t \in Tasks : ~LoopHolds(t) /\ ~LoopHolds(t)'
    BY <1>7 DEF LaunchDone, LoopAt, LoopTo, runVars, HoldersSame, Hold, LoopHolds
  <2>2. \A t \in Tasks : t \in claims' <=> t \in claims
    BY <1>7, CapacityAssumption DEF CapacityAssumption, LaunchDone
  <2> QED
    BY <2>1, <2>2, HoldersKept DEF LoopSame
<1>8. CASE Drained
  <2>1. HoldersSame /\ \A t \in Tasks : ~LoopHolds(t) /\ ~LoopHolds(t)'
    BY <1>8 DEF Drained, LoopAt, LoopTo, runVars, HoldersSame, Hold, LoopHolds
  <2>2. \A t \in Tasks : t \in claims' <=> t \in claims
    BY <1>8, CapacityAssumption DEF CapacityAssumption, Drained
  <2> QED
    BY <2>1, <2>2, HoldersKept DEF LoopSame
<1>9. CASE Shutdown
  <2>1. HoldersSame /\ \A t \in Tasks : ~LoopHolds(t) /\ ~LoopHolds(t)'
    BY <1>9 DEF Shutdown, LoopAt, LoopTo, runVars, HoldersSame, Hold, LoopHolds
  <2>2. \A t \in Tasks : t \in claims' <=> t \in claims
    BY <1>9, CapacityAssumption DEF CapacityAssumption, Shutdown
  <2> QED
    BY <2>1, <2>2, HoldersKept DEF LoopSame
<1>10. ASSUME NEW t \in Tasks, LaunchReady(t)
      PROVE  ClaimInv'
  <2>1. HoldersSame /\ LoopSame
    BY <1>10 DEF LaunchReady, LoopAt, runVars, HoldersSame, Hold, LoopSame, LoopHolds
  <2> QED
    BY <1>10, <2>1, HoldersKept DEF LaunchReady
<1>11. ASSUME NEW t \in Tasks, LaunchAcquire(t)
      PROVE  ClaimInv'
  <2>1. HoldersSame /\ \A u \in Tasks : ~LoopHolds(u)
    BY <1>11 DEF LaunchAcquire, LoopAt, runVars, HoldersSame, Hold, LoopHolds
  <2>2. CASE GrantHeavy(t) /\ LoopTo("register")
    <3>1. LoopHolds(t)' /\ \A u \in Tasks \ {t} : ~LoopHolds(u)'
      BY <1>11, <2>2 DEF LaunchAcquire, LoopTo, LoopHolds
    <3> QED
      BY <2>1, <2>2, <3>1, LoopAcquires DEF GrantHeavy
  <2>3. CASE UNCHANGED claims /\ ~(GrantHeavy(t) /\ LoopTo("register"))
    <3>1. LoopSame
      BY <1>11, <2>1, <2>3 DEF LaunchAcquire, LoopAt, LoopTo, LoopSame, LoopHolds
    <3> QED
      BY <2>1, <2>3, <3>1, HoldersKept
  <2> QED
    BY <1>11, <2>2, <2>3 DEF LaunchAcquire
<1>12. ASSUME NEW t \in Tasks, Launch(t)
      PROVE  ClaimInv'
  <2>1. loop.pc = "register" /\ loop.task = t /\ LoopHolds(t)
    BY <1>12 DEF Launch, LoopAt, LoopHolds
  <2>2. CASE Register(t)
    <3>1. <<t, gen[t] + 1>> \in Runs
      BY <2>1, NextRun DEF LoopInBounds
    <3>2. PICK r \in Runs : r = <<t, gen[t] + 1>>
      BY <3>1
    <3>3. lease' = [lease EXCEPT ![r] = TRUE] /\ pc' = [pc EXCEPT ![r] = "work"]
      BY <2>2, <3>2 DEF Register
    <3>4. Hold(r)'
      BY <3>3 DEF Hold
    <3>5. OthersSame(r)
      BY <2>2, <3>3 DEF Register, Hold, OthersSame
    <3>6. claims' = claims /\ \A u \in Tasks : ~LoopHolds(u)'
      BY <2>2 DEF Register, LoopTo, LoopHolds
    <3>7. LoopHolds(r[1])
      BY <2>1, <3>2
    <3> QED
      BY <3>4, <3>5, <3>6, <3>7, LoopHandsOver
  <2>3. CASE LoopTo("decline") /\ UNCHANGED <<runVars, claims>>
    <3>1. HoldersSame /\ LoopSame
      BY <2>1, <2>3 DEF LoopTo, runVars, HoldersSame, Hold, LoopSame, LoopHolds
    <3> QED
      BY <2>3, <3>1, HoldersKept
  <2> QED
    BY <1>12, <2>2, <2>3 DEF Launch
<1>13. ASSUME NEW t \in Tasks, LaunchDeclined(t)
      PROVE  ClaimInv'
  <2>1. LoopHolds(t) /\ HoldersSame /\ claims' = claims \ {t}
    BY <1>13 DEF LaunchDeclined, LoopAt, runVars, HoldersSame, Hold, LoopHolds, ReleaseClaim
  <2>2. \A u \in Tasks : ~LoopHolds(u)'
    BY <1>13 DEF LaunchDeclined, LoopTo, LoopHolds
  <2> QED
    BY <2>1, <2>2, LoopReleases
<1>14. ASSUME NEW r \in Runs, AskWebTurn(r)
      PROVE  ClaimInv'
  <2>1. OthersSame(r) /\ LoopSame
    BY <1>14 DEF AskWebTurn, At, Go, KeepLoop, OthersSame, LoopSame, Hold, LoopHolds
  <2>2. Hold(r)' <=> Hold(r)
    BY <1>14 DEF AskWebTurn, At, Go, KeepLoop, Hold, RunsConsistent, RunConsistent
  <2>3. HoldersSame /\ claims' = claims
    BY <1>14, <2>1, <2>2 DEF AskWebTurn, HoldersSame, OthersSame
  <2> QED
    BY <2>1, <2>3, HoldersKept
<1>15. ASSUME NEW r \in Runs, Park(r)
      PROVE  ClaimInv'
  <2>1. OthersSame(r) /\ LoopSame
    BY <1>15 DEF Park, At, Go, KeepLoop, OthersSame, LoopSame, Hold, LoopHolds
  <2>2. Hold(r)' <=> Hold(r)
    BY <1>15 DEF Park, At, Go, KeepLoop, Hold, RunsConsistent, RunConsistent
  <2>3. HoldersSame /\ claims' = claims
    BY <1>15, <2>1, <2>2 DEF Park, HoldersSame, OthersSame
  <2> QED
    BY <2>1, <2>3, HoldersKept
<1>16. ASSUME NEW r \in Runs, ReleaseParked(r)
      PROVE  ClaimInv'
  <2>1. Hold(r) /\ ~Hold(r)'
    BY <1>16 DEF ReleaseParked, At, Go, KeepLoop, Hold, RunsConsistent, RunConsistent
  <2>2. OthersSame(r) /\ LoopSame
    BY <1>16 DEF ReleaseParked, At, Go, KeepLoop, OthersSame, LoopSame, Hold, LoopHolds
  <2> QED
    BY <1>16, <2>1, <2>2, RunReleases DEF ReleaseParked, ReleaseClaim
<1>17. ASSUME NEW r \in Runs, Answered(r)
      PROVE  ClaimInv'
  <2>1. OthersSame(r) /\ LoopSame
    BY <1>17 DEF Answered, At, Go, KeepLoop, OthersSame, LoopSame, Hold, LoopHolds
  <2>2. Hold(r)' <=> Hold(r)
    BY <1>17 DEF Answered, At, Go, KeepLoop, Hold, RunsConsistent, RunConsistent
  <2>3. HoldersSame /\ claims' = claims
    BY <1>17, <2>1, <2>2 DEF Answered, HoldersSame, OthersSame
  <2> QED
    BY <2>1, <2>3, HoldersKept
<1>18. ASSUME NEW r \in Runs, WaitFails(r)
      PROVE  ClaimInv'
  <2>1. OthersSame(r) /\ LoopSame
    BY <1>18 DEF WaitFails, At, Go, KeepLoop, OthersSame, LoopSame, Hold, LoopHolds
  <2>2. Hold(r)' <=> Hold(r)
    BY <1>18 DEF WaitFails, At, Go, KeepLoop, Hold, RunsConsistent, RunConsistent
  <2>3. HoldersSame /\ claims' = claims
    BY <1>18, <2>1, <2>2 DEF WaitFails, HoldersSame, OthersSame
  <2> QED
    BY <2>1, <2>3, HoldersKept
<1>19. ASSUME NEW r \in Runs, ResumeReturns(r)
      PROVE  ClaimInv'
  <2>1. OthersSame(r) /\ LoopSame
    BY <1>19 DEF ResumeReturns, At, Go, KeepLoop, OthersSame, LoopSame, Hold, LoopHolds
  <2>2. Hold(r)' <=> Hold(r)
    BY <1>19 DEF ResumeReturns, At, Go, KeepLoop, Hold, RunsConsistent, RunConsistent
  <2>3. HoldersSame /\ claims' = claims
    BY <1>19, <2>1, <2>2 DEF ResumeReturns, HoldersSame, OthersSame
  <2> QED
    BY <2>1, <2>3, HoldersKept
<1>20. ASSUME NEW r \in Runs, Finish(r)
      PROVE  ClaimInv'
  <2>1. OthersSame(r) /\ LoopSame
    BY <1>20 DEF Finish, At, Go, KeepLoop, OthersSame, LoopSame, Hold, LoopHolds
  <2>2. Hold(r)' <=> Hold(r)
    BY <1>20 DEF Finish, At, Go, KeepLoop, Hold, RunsConsistent, RunConsistent
  <2>3. HoldersSame /\ claims' = claims
    BY <1>20, <2>1, <2>2 DEF Finish, HoldersSame, OthersSame
  <2> QED
    BY <2>1, <2>3, HoldersKept
<1>21. ASSUME NEW r \in Runs, RemoveActive(r)
      PROVE  ClaimInv'
  <2>1. OthersSame(r) /\ LoopSame
    BY <1>21 DEF RemoveActive, At, Go, KeepLoop, OthersSame, LoopSame, Hold, LoopHolds
  <2>2. Hold(r)' <=> Hold(r)
    BY <1>21 DEF RemoveActive, At, Go, KeepLoop, Hold, RunsConsistent, RunConsistent
  <2>3. HoldersSame /\ claims' = claims
    BY <1>21, <2>1, <2>2 DEF RemoveActive, HoldersSame, OthersSame
  <2> QED
    BY <2>1, <2>3, HoldersKept
<1>22. ASSUME NEW r \in Runs, DropLease(r)
      PROVE  ClaimInv'
  <2>1. OthersSame(r) /\ LoopSame
    BY <1>22 DEF DropLease, At, Go, KeepLoop, OthersSame, LoopSame, Hold, LoopHolds
  <2>2. CASE lease[r]
    <3>1. Hold(r) /\ ~Hold(r)'
      BY <1>22, <2>2 DEF DropLease, At, Go, KeepLoop, Hold, RunsConsistent, RunConsistent
    <3> QED
      BY <1>22, <2>1, <2>2, <3>1, RunReleases DEF DropLease, ReleaseClaim
  <2>3. CASE ~lease[r]
    <3>1. HoldersSame /\ claims' = claims
      BY <1>22, <2>3 DEF DropLease, At, Go, KeepLoop, HoldersSame, Hold
    <3> QED
      BY <2>1, <3>1, HoldersKept
  <2> QED
    BY <2>2, <2>3
<1>23. ASSUME NEW r \in Runs, ResumePoll(r)
      PROVE  ClaimInv'
  <2>1. OthersSame(r) /\ LoopSame
    BY <1>23 DEF ResumePoll, ResumeAt, ResumeTo, KeepRun, OthersSame, LoopSame, Hold, LoopHolds
  <2>2. Hold(r)' <=> Hold(r)
    BY <1>23 DEF ResumePoll, ResumeAt, ResumeTo, KeepRun, Hold, RunsConsistent, RunConsistent
  <2>3. HoldersSame /\ claims' = claims
    BY <1>23, <2>1, <2>2 DEF ResumePoll, HoldersSame, OthersSame
  <2> QED
    BY <2>1, <2>3, HoldersKept
<1>24. ASSUME NEW r \in Runs, ResumeSnapshot(r)
      PROVE  ClaimInv'
  <2>1. OthersSame(r) /\ LoopSame
    BY <1>24 DEF ResumeSnapshot, ResumeAt, ResumeTo, KeepRun, OthersSame, LoopSame, Hold, LoopHolds
  <2>2. Hold(r)' <=> Hold(r)
    BY <1>24 DEF ResumeSnapshot, ResumeAt, ResumeTo, KeepRun, Hold, RunsConsistent, RunConsistent
  <2>3. HoldersSame /\ claims' = claims
    BY <1>24, <2>1, <2>2 DEF ResumeSnapshot, HoldersSame, OthersSame
  <2> QED
    BY <2>1, <2>3, HoldersKept
<1>25. ASSUME NEW r \in Runs, ResumeAcquire(r)
      PROVE  ClaimInv'
  <2>1. OthersSame(r) /\ LoopSame
    BY <1>25 DEF ResumeAcquire, ResumeAt, ResumeTo, KeepRun, OthersSame, LoopSame, Hold, LoopHolds
  <2>2. CASE GrantHeavy(r[1]) /\ ResumeTo(r, "granted")
    <3>1. Hold(r)'
      BY <2>2 DEF ResumeTo, Hold
    <3> QED
      BY <2>1, <2>2, <3>1, RunAcquires DEF GrantHeavy
  <2>3. CASE UNCHANGED claims /\ \E answer \in {"denied", "failed"} : ResumeTo(r, answer)
    <3>1. HoldersSame
      BY <1>25, <2>3 DEF ResumeAcquire, ResumeAt, ResumeTo, KeepRun, OthersSame, LoopSame,
        Hold, LoopHolds, HoldersSame
    <3> QED
      BY <2>1, <2>3, <3>1, HoldersKept
  <2> QED
    BY <1>25, <2>2, <2>3 DEF ResumeAcquire
<1>26. ASSUME NEW r \in Runs, ResumeRecord(r)
      PROVE  ClaimInv'
  <2>1. OthersSame(r) /\ LoopSame
    BY <1>26 DEF ResumeRecord, ResumeAt, ResumeTo, KeepRun, AfterAcquire, OthersSame,
      LoopSame, Hold, LoopHolds
  <2>2. Hold(r)' <=> Hold(r)
    <3>1. RunConsistent(r) /\ pc' = pc
      BY <1>26 DEF RunsConsistent, ResumeRecord, KeepRun
    <3>2. CASE r \in active
      BY <1>26, <3>1, <3>2 DEF ResumeRecord, ResumeAt, ResumeTo, AfterAcquire, Hold, RunConsistent
    <3>3. CASE r \notin active
      BY <1>26, <3>1, <3>3 DEF ResumeRecord, ResumeAt, ResumeTo, Hold, RunConsistent
    <3> QED
      BY <3>2, <3>3
  <2>3. HoldersSame /\ claims' = claims
    BY <1>26, <2>1, <2>2 DEF ResumeRecord, HoldersSame, OthersSame
  <2> QED
    BY <2>1, <2>3, HoldersKept
<1>27. ASSUME NEW r \in Runs, ResumeGiveBack(r)
      PROVE  ClaimInv'
  <2>1. Hold(r) /\ ~Hold(r)'
    BY <1>27 DEF ResumeGiveBack, ResumeAt, ResumeTo, KeepRun, Hold, RunsConsistent, RunConsistent
  <2>2. OthersSame(r) /\ LoopSame
    BY <1>27 DEF ResumeGiveBack, ResumeAt, ResumeTo, KeepRun, OthersSame, LoopSame, Hold, LoopHolds
  <2> QED
    BY <1>27, <2>1, <2>2, RunReleases DEF ResumeGiveBack, ReleaseClaim
<1> QED
  BY <1>1, <1>2, <1>3, <1>4, <1>5, <1>6, <1>7, <1>8, <1>9, <1>10, <1>11, <1>12, <1>13, <1>14,
    <1>15, <1>16, <1>17, <1>18, <1>19, <1>20, <1>21, <1>22, <1>23, <1>24, <1>25, <1>26, <1>27
  DEF Next, LoopStep, RunStep, ResumeStep

--------------------------------------------------------------------------------
(* Nothing is claimed, or about to be, while maintenance runs.             *)
LEMMA GateStep == ControlInv /\ GateHeld /\ [Next]_vars => GateHeld'
<1> SUFFICES ASSUME ControlInv, GateHeld, [Next]_vars, loop'.pc = "maintain"
             PROVE  claims' = {} /\ Readers' = {}
  BY DEF GateHeld
<1> USE DEF ControlInv, TypeOK, GateHeld, Readers
<1>1. CASE UNCHANGED vars
  BY <1>1 DEF vars, runVars
<1>2. CASE LoopStep \/ Shutdown
  <2>1. CASE RunIfIdleExclusive
    BY <2>1 DEF RunIfIdleExclusive, IfIdle, LoopTo, runVars
  <2>2. CASE ScheduleStep \/ AcquireWorkspaceClaim \/ WorkspacePrepared \/ MaintenanceDone
    BY <2>2 DEF ScheduleStep, AcquireWorkspaceClaim, WorkspacePrepared, MaintenanceDone, LoopTo
  <2>3. CASE LaunchDone \/ Drained \/ Shutdown
    BY <2>3 DEF LaunchDone, Drained, Shutdown, LoopTo
  <2>4. ASSUME NEW t \in Tasks, LaunchReady(t) \/ LaunchAcquire(t) \/ Launch(t) \/ LaunchDeclined(t)
        PROVE  FALSE
    <3>1. ASSUME LaunchReady(t)
          PROVE  FALSE
      <4>1. loop' = [pc |-> "acquire", task |-> t]
        BY <3>1 DEF LaunchReady
      <4>2. loop'.pc = "acquire"
        BY <4>1
      <4> QED
        BY <4>2
    <3>2. ~LaunchAcquire(t)
      BY DEF LaunchAcquire, LoopAt, LoopTo
    <3>3. ~Launch(t)
      BY DEF Launch, Register, LoopTo
    <3>4. ~LaunchDeclined(t)
      BY DEF LaunchDeclined, LoopTo
    <3> QED
      BY <2>4, <3>1, <3>2, <3>3, <3>4
  <2> QED
    BY <1>2, <2>1, <2>2, <2>3, <2>4 DEF LoopStep
<1>3. ASSUME NEW r \in Runs, AskWebTurn(r)
      PROVE  claims' = {} /\ Readers' = {}
  BY <1>3 DEF AskWebTurn, At, Go, KeepLoop
<1>4. ASSUME NEW r \in Runs, Park(r)
      PROVE  claims' = {} /\ Readers' = {}
  BY <1>4 DEF Park, At, Go, KeepLoop
<1>5. ASSUME NEW r \in Runs, ReleaseParked(r)
      PROVE  claims' = {} /\ Readers' = {}
  BY <1>5 DEF ReleaseParked, At, Go, KeepLoop, ReleaseClaim
<1>6. ASSUME NEW r \in Runs, Answered(r)
      PROVE  claims' = {} /\ Readers' = {}
  <2>1. claims' = claims /\ loop' = loop
    BY <1>6 DEF Answered, KeepLoop
  <2>2. \A s \in Runs : resumer'[s] \in {resumer[s], "poll"}
    BY <1>6 DEF Answered
  <2>3. Readers' \subseteq Readers
    BY <2>2
  <2> QED
    BY <2>1, <2>3
<1>7. ASSUME NEW r \in Runs, WaitFails(r)
      PROVE  claims' = {} /\ Readers' = {}
  BY <1>7 DEF WaitFails, At, Go, KeepLoop
<1>8. ASSUME NEW r \in Runs, ResumeReturns(r)
      PROVE  claims' = {} /\ Readers' = {}
  BY <1>8 DEF ResumeReturns, At, Go, KeepLoop
<1>9. ASSUME NEW r \in Runs, Finish(r)
      PROVE  claims' = {} /\ Readers' = {}
  BY <1>9 DEF Finish, At, Go, KeepLoop
<1>10. ASSUME NEW r \in Runs, RemoveActive(r)
      PROVE  claims' = {} /\ Readers' = {}
  BY <1>10 DEF RemoveActive, At, Go, KeepLoop
<1>11. ASSUME NEW r \in Runs, DropLease(r)
      PROVE  claims' = {} /\ Readers' = {}
  BY <1>11 DEF DropLease, At, Go, KeepLoop, ReleaseClaim
<1>12. ASSUME NEW r \in Runs, ResumePoll(r)
      PROVE  claims' = {} /\ Readers' = {}
  BY <1>12 DEF ResumePoll, ResumeAt, ResumeTo, KeepRun
<1>13. ASSUME NEW r \in Runs, ResumeSnapshot(r)
      PROVE  claims' = {} /\ Readers' = {}
  BY <1>13 DEF ResumeSnapshot, ResumeAt, ResumeTo, KeepRun, GateOpen
<1>14. ASSUME NEW r \in Runs, ResumeAcquire(r)
      PROVE  claims' = {} /\ Readers' = {}
  BY <1>14 DEF ResumeAcquire, ResumeAt, ResumeTo, KeepRun, GrantHeavy
<1>15. ASSUME NEW r \in Runs, ResumeRecord(r)
      PROVE  claims' = {} /\ Readers' = {}
  BY <1>15 DEF ResumeRecord, ResumeAt, ResumeTo, KeepRun, AfterAcquire
<1>16. ASSUME NEW r \in Runs, ResumeGiveBack(r)
      PROVE  claims' = {} /\ Readers' = {}
  BY <1>16 DEF ResumeGiveBack, ResumeAt, ResumeTo, KeepRun, ReleaseClaim
<1> QED
  BY <1>1, <1>2, <1>3, <1>4, <1>5, <1>6, <1>7, <1>8, <1>9, <1>10, <1>11, <1>12, <1>13, <1>14,
    <1>15, <1>16
  DEF Next, RunStep, ResumeStep

--------------------------------------------------------------------------------
(* Counting.                                                               *)

(* The sets that are counted are finite.                                   *)
LEMMA FiniteRuns == TypeOK => IsFiniteSet(active) /\ IsFiniteSet(Occupying)
<1>1. IsFiniteSet(Tasks) /\ IsFiniteSet(1..MaxRuns)
  BY CapacityAssumption, FS_Interval DEF CapacityAssumption
<1>2. IsFiniteSet(Runs)
  BY <1>1, FS_Product DEF Runs
<1> QED
  BY <1>2, FS_Subset DEF TypeOK, Occupying

(* Giving slots back keeps the bound.                                      *)
LEMMA SlotsKept ==
  ASSUME TypeOK, SlotsBounded, Occupying' \subseteq Occupying
  PROVE  SlotsBounded'
<1>1. IsFiniteSet(Occupying) /\ IsFiniteSet(Occupying')
  BY FiniteRuns, FS_Subset
<1>2. Cardinality(Occupying') <= Cardinality(Occupying)
  BY <1>1, FS_Subset
<1>3. /\ Cardinality(Occupying) \in Nat /\ Cardinality(Occupying') \in Nat
      /\ MaxConcurrentWorkers \in Nat
  BY <1>1, FS_CardinalityType, CapacityAssumption DEF CapacityAssumption
<1> QED
  BY <1>2, <1>3 DEF SlotsBounded

(* Taking a slot after looking for one keeps the bound.                    *)
LEMMA SlotTaken ==
  ASSUME TypeOK, HasSlot, NEW r, Occupying' \subseteq Occupying \cup {r}
  PROVE  SlotsBounded'
<1>1. IsFiniteSet(Occupying) /\ IsFiniteSet(Occupying \cup {r})
  BY FiniteRuns, FS_AddElement
<1>2. Cardinality(Occupying \cup {r}) <= Cardinality(Occupying) + 1
  <2>1. Cardinality(Occupying \cup {r})
          = IF r \in Occupying THEN Cardinality(Occupying) ELSE Cardinality(Occupying) + 1
    BY <1>1, FS_AddElement
  <2> QED
    BY <1>1, <2>1, FS_CardinalityType
<1>3. IsFiniteSet(Occupying') /\ Cardinality(Occupying') <= Cardinality(Occupying \cup {r})
  BY <1>1, FS_Subset
<1>4. /\ Cardinality(Occupying) \in Nat /\ Cardinality(Occupying') \in Nat
      /\ Cardinality(Occupying \cup {r}) \in Nat /\ MaxConcurrentWorkers \in Nat
  BY <1>1, <1>3, FS_CardinalityType, CapacityAssumption DEF CapacityAssumption
<1> QED
  BY <1>2, <1>3, <1>4 DEF SlotsBounded, HasSlot

(* Executions that leave keep the bound.                                   *)
LEMMA ResidentKept ==
  ASSUME TypeOK, ResidentBounded, active' \subseteq active
  PROVE  ResidentBounded'
<1>1. IsFiniteSet(active) /\ IsFiniteSet(active')
  BY FiniteRuns, FS_Subset
<1>2. Cardinality(active') <= Cardinality(active)
  BY <1>1, FS_Subset
<1>3. /\ Cardinality(active) \in Nat /\ Cardinality(active') \in Nat
      /\ 2 * MaxConcurrentWorkers \in Nat
  BY <1>1, FS_CardinalityType, CapacityAssumption DEF CapacityAssumption
<1> QED
  BY <1>2, <1>3 DEF ResidentBounded

(* Registering an execution below the bound keeps it.                      *)
LEMMA ResidentTaken ==
  ASSUME TypeOK, Cardinality(active) < 2 * MaxConcurrentWorkers, NEW r, active' = active \cup {r}
  PROVE  ResidentBounded'
<1>1. IsFiniteSet(active)
  BY FiniteRuns
<1>2. Cardinality(active') = IF r \in active THEN Cardinality(active) ELSE Cardinality(active) + 1
  BY <1>1, FS_AddElement
<1>3. Cardinality(active) \in Nat /\ 2 * MaxConcurrentWorkers \in Nat
  BY <1>1, FS_CardinalityType, CapacityAssumption DEF CapacityAssumption
<1> QED
  BY <1>2, <1>3 DEF ResidentBounded

(* Every step keeps both bounds.                                           *)
LEMMA CountStep == ControlInv /\ CountInv /\ [Next]_vars => CountInv'
<1> SUFFICES ASSUME ControlInv, CountInv, [Next]_vars
             PROVE  CountInv'
  OBVIOUS
<1> USE DEF ControlInv, CountInv
<1>1. CASE UNCHANGED runVars
  <2>1. Occupying' \subseteq Occupying /\ active' \subseteq active
    BY <1>1 DEF runVars, Occupying
  <2> QED
    BY <2>1, SlotsKept, ResidentKept
<1>2. ASSUME NEW t \in Tasks, Launch(t), ~UNCHANGED runVars
      PROVE  CountInv'
  <2>1. HasSlot /\ Cardinality(active) < 2 * MaxConcurrentWorkers /\ Register(t)
    BY <1>2 DEF Launch
  <2>2. loop.pc = "register" /\ loop.task = t
    BY <1>2 DEF Launch, LoopAt
  <2>3. PICK r \in Runs : r = <<t, gen[t] + 1>>
    BY <2>2, NextRun DEF LoopInBounds
  <2>4. active' = active \cup {r} /\ lease' = [lease EXCEPT ![r] = TRUE] /\ resuming' = resuming
    BY <2>1, <2>3 DEF Register
  <2>5. Occupying' \subseteq Occupying \cup {r}
    BY <2>4 DEF Occupying, TypeOK
  <2> QED
    BY <2>1, <2>4, <2>5, SlotTaken, ResidentTaken
<1>3. ASSUME NEW r \in Runs, AskWebTurn(r)
      PROVE  CountInv'
  <2>1. Occupying' \subseteq Occupying /\ active' \subseteq active
    BY <1>3 DEF AskWebTurn, At, Go, KeepLoop, Occupying, TypeOK
  <2> QED
    BY <2>1, SlotsKept, ResidentKept
<1>4. ASSUME NEW r \in Runs, Park(r)
      PROVE  CountInv'
  <2>1. Occupying' \subseteq Occupying /\ active' \subseteq active
    BY <1>4 DEF Park, At, Go, KeepLoop, Occupying, TypeOK
  <2> QED
    BY <2>1, SlotsKept, ResidentKept
<1>5. ASSUME NEW r \in Runs, ReleaseParked(r)
      PROVE  CountInv'
  <2>1. Occupying' \subseteq Occupying /\ active' \subseteq active
    BY <1>5 DEF ReleaseParked, At, Go, KeepLoop, Occupying, TypeOK
  <2> QED
    BY <2>1, SlotsKept, ResidentKept
<1>6. ASSUME NEW r \in Runs, Answered(r)
      PROVE  CountInv'
  <2>1. Occupying' \subseteq Occupying /\ active' \subseteq active
    BY <1>6 DEF Answered, At, Go, KeepLoop, Occupying, TypeOK
  <2> QED
    BY <2>1, SlotsKept, ResidentKept
<1>7. ASSUME NEW r \in Runs, WaitFails(r)
      PROVE  CountInv'
  <2>1. Occupying' \subseteq Occupying /\ active' \subseteq active
    BY <1>7 DEF WaitFails, At, Go, KeepLoop, Occupying, TypeOK
  <2> QED
    BY <2>1, SlotsKept, ResidentKept
<1>8. ASSUME NEW r \in Runs, ResumeReturns(r)
      PROVE  CountInv'
  <2>1. Occupying' \subseteq Occupying /\ active' \subseteq active
    BY <1>8 DEF ResumeReturns, At, Go, KeepLoop, Occupying, TypeOK
  <2> QED
    BY <2>1, SlotsKept, ResidentKept
<1>9. ASSUME NEW r \in Runs, Finish(r)
      PROVE  CountInv'
  <2>1. Occupying' \subseteq Occupying /\ active' \subseteq active
    BY <1>9 DEF Finish, At, Go, KeepLoop, Occupying, TypeOK
  <2> QED
    BY <2>1, SlotsKept, ResidentKept
<1>10. ASSUME NEW r \in Runs, RemoveActive(r)
      PROVE  CountInv'
  <2>1. Occupying' \subseteq Occupying /\ active' \subseteq active
    BY <1>10 DEF RemoveActive, At, Go, KeepLoop, Occupying, TypeOK
  <2> QED
    BY <2>1, SlotsKept, ResidentKept
<1>11. ASSUME NEW r \in Runs, DropLease(r)
      PROVE  CountInv'
  <2>1. Occupying' \subseteq Occupying /\ active' \subseteq active
    BY <1>11 DEF DropLease, At, Go, KeepLoop, Occupying, TypeOK
  <2> QED
    BY <2>1, SlotsKept, ResidentKept
<1>12. ASSUME NEW r \in Runs, ResumePoll(r)
      PROVE  CountInv'
  <2>1. active' = active /\ lease' = lease
    BY <1>12 DEF ResumePoll, KeepRun
  <2>2. CASE resuming' = resuming
    <3>1. Occupying' \subseteq Occupying
      BY <2>1, <2>2 DEF Occupying
    <3> QED
      BY <2>1, <3>1, SlotsKept, ResidentKept
  <2>3. CASE HasSlot /\ resuming' = [resuming EXCEPT ![r] = TRUE]
    <3>1. Occupying' \subseteq Occupying \cup {r}
      BY <2>1, <2>3 DEF Occupying, TypeOK
    <3> QED
      BY <2>1, <2>3, <3>1, SlotTaken, ResidentKept
  <2> QED
    BY <1>12, <2>2, <2>3 DEF ResumePoll
<1>13. ASSUME NEW r \in Runs, ResumeSnapshot(r)
      PROVE  CountInv'
  <2>1. Occupying' \subseteq Occupying /\ active' \subseteq active
    BY <1>13 DEF ResumeSnapshot, ResumeAt, ResumeTo, KeepRun, Occupying, TypeOK
  <2> QED
    BY <2>1, SlotsKept, ResidentKept
<1>14. ASSUME NEW r \in Runs, ResumeAcquire(r)
      PROVE  CountInv'
  <2>1. Occupying' \subseteq Occupying /\ active' \subseteq active
    BY <1>14 DEF ResumeAcquire, ResumeAt, ResumeTo, KeepRun, Occupying, TypeOK
  <2> QED
    BY <2>1, SlotsKept, ResidentKept
<1>15. ASSUME NEW r \in Runs, ResumeRecord(r)
      PROVE  CountInv'
  <2>1. active' = active /\ RunConsistent(r)
    BY <1>15 DEF ResumeRecord, KeepRun, RunsConsistent
  <2>2. CASE r \in active
    <3>1. resuming[r]
      BY <1>15, <2>1, <2>2 DEF ResumeRecord, RunConsistent, Reacquiring
    <3>2. Occupying' \subseteq Occupying
      BY <1>15, <2>1, <2>2, <3>1 DEF ResumeRecord, Occupying, TypeOK
    <3> QED
      BY <2>1, <3>2, SlotsKept, ResidentKept
  <2>3. CASE r \notin active
    <3>1. Occupying' \subseteq Occupying
      BY <1>15, <2>1, <2>3 DEF ResumeRecord, Occupying
    <3> QED
      BY <2>1, <3>1, SlotsKept, ResidentKept
  <2> QED
    BY <2>2, <2>3
<1>16. ASSUME NEW r \in Runs, ResumeGiveBack(r)
      PROVE  CountInv'
  <2>1. Occupying' \subseteq Occupying /\ active' \subseteq active
    BY <1>16 DEF ResumeGiveBack, ResumeAt, ResumeTo, KeepRun, Occupying, TypeOK
  <2> QED
    BY <2>1, SlotsKept, ResidentKept
<1>17. CASE LoopStep
  BY <1>1, <1>2, <1>17 DEF LoopStep, ScheduleStep, AcquireWorkspaceClaim, WorkspacePrepared,
    RunIfIdleExclusive, MaintenanceDone, LaunchDone, Drained, LaunchReady, LaunchAcquire,
    LaunchDeclined
<1> QED
  BY <1>1, <1>2, <1>3, <1>4, <1>5, <1>6, <1>7, <1>8, <1>9, <1>10, <1>11, <1>12, <1>13, <1>14,
    <1>15, <1>16, <1>17
  DEF Next, RunStep, ResumeStep, Shutdown, vars

--------------------------------------------------------------------------------
(* The initial state satisfies the inductive invariant.                    *)
LEMMA IInvInit == Init => IInv
<1> SUFFICES ASSUME Init
             PROVE  IInv
  OBVIOUS
<1>1. TypeOK /\ LoopInBounds
  BY TypeInit
<1>2. RunsConsistent
  <2> SUFFICES ASSUME NEW r \in Runs
               PROVE  RunConsistent(r)
    BY DEF RunsConsistent
  <2>1. r[1] \in Tasks /\ r[2] \in 1..MaxRuns /\ gen[r[1]] = 0
    BY CapacityAssumption DEF CapacityAssumption, Runs, Init
  <2>2. r[2] > gen[r[1]]
    BY <2>1, CapacityAssumption DEF CapacityAssumption
  <2> QED
    BY <2>2 DEF Init, RunConsistent, Reacquiring
<1>3. ClaimInv
  BY DEF Init, ClaimInv, HoldersUnique, HoldersClaim, LoopClaims, ClaimsHeld, Hold, LoopHolds
<1>4. CountInv
  <2>1. active = {} /\ Occupying = {}
    BY DEF Init, Occupying
  <2> QED
    BY <2>1, FS_EmptySet, CapacityAssumption DEF CountInv, SlotsBounded, ResidentBounded,
      CapacityAssumption
<1>5. GateHeld
  BY DEF Init, GateHeld
<1> QED
  BY <1>1, <1>2, <1>3, <1>4, <1>5 DEF IInv, ControlInv

(* Every reachable state satisfies the inductive invariant.                *)
THEOREM CapacityInvariant == Spec => []IInv
<1>1. IInv /\ [Next]_vars => IInv'
  BY TypeStep, RunsStep, ClaimStep, CountStep, GateStep DEF IInv, ControlInv
<1> QED
  BY IInvInit, <1>1, PTL DEF Spec

(* The table of executions, their goroutines and the claims stay of their  *)
(* types.                                                                  *)
THEOREM CapacityTypeOK == Spec => []TypeOK
BY CapacityInvariant, PTL DEF IInv, ControlInv

(* launch and resume never give out more slots than MaxConcurrentWorkers.  *)
THEOREM CapacitySlotsBounded == Spec => []SlotsBounded
BY CapacityInvariant, PTL DEF IInv, CountInv

(* launch keeps the resident executions, parked ones included, within two  *)
(* cohorts.                                                                *)
THEOREM CapacityResidentBounded == Spec => []ResidentBounded
BY CapacityInvariant, PTL DEF IInv, CountInv

(* Every execution claim of the governor has one holder, every holder its  *)
(* claim, whatever launch, park, resume and removeActive interleave.       *)
THEOREM CapacityClaimsAccounted == Spec => []ClaimsAccounted
<1>1. IInv => ClaimsAccounted
  <2> SUFFICES ASSUME IInv, NEW t \in Tasks
               PROVE  LET holders == {h \in {r \in Runs : r[1] = t} \X HoldWays : Holds(h[1], h[2])} IN
                        /\ t \in claims <=> LoopHolds(t) \/ holders # {}
                        /\ LoopHolds(t) => holders = {}
                        /\ \A h, k \in holders : h = k
    BY DEF ClaimsAccounted
  <2> DEFINE holders == {h \in {r \in Runs : r[1] = t} \X HoldWays : Holds(h[1], h[2])}
  <2> USE DEF IInv, ControlInv, ClaimInv
  <2>1. ASSUME NEW r \in Runs
        PROVE  Hold(r) <=> \E by \in HoldWays : Holds(r, by)
    BY DEF RunsConsistent, RunConsistent, Hold, Holds, HoldWays
  <2>2. ASSUME NEW r \in Runs, NEW by \in HoldWays, NEW with \in HoldWays,
               Holds(r, by), Holds(r, with)
        PROVE  by = with
    BY <2>2 DEF RunsConsistent, RunConsistent, Holds, HoldWays
  <2>3. ASSUME NEW h \in holders
        PROVE  /\ h[1] \in Runs /\ h[1][1] = t /\ h[2] \in HoldWays
               /\ Holds(h[1], h[2]) /\ h = <<h[1], h[2]>>
    BY <2>3
  <2>4. holders # {} <=> \E r \in Runs : r[1] = t /\ Hold(r)
    <3>1. ASSUME NEW r \in Runs, r[1] = t, Hold(r)
          PROVE  holders # {}
      <4>1. PICK by \in HoldWays : Holds(r, by)
        BY <2>1, <3>1
      <4>2. <<r, by>> \in holders
        BY <3>1, <4>1
      <4> QED
        BY <4>2
    <3>2. ASSUME holders # {}
          PROVE  \E r \in Runs : r[1] = t /\ Hold(r)
      <4>1. PICK h \in holders : TRUE
        BY <3>2
      <4> QED
        BY <2>1, <2>3, <4>1
    <3> QED
      BY <3>1, <3>2
  <2>5. t \in claims <=> LoopHolds(t) \/ holders # {}
    BY <2>4 DEF LoopClaims, ClaimsHeld, HoldersClaim
  <2>6. LoopHolds(t) => holders = {}
    BY <2>4 DEF HoldersClaim
  <2>7. ASSUME NEW h \in holders, NEW k \in holders
        PROVE  h = k
    <3>1. Hold(h[1]) /\ Hold(k[1])
      BY <2>1, <2>3
    <3>2. h[1] = k[1]
      BY <2>3, <3>1 DEF HoldersUnique
    <3> QED
      BY <2>2, <2>3, <3>2
  <2> QED
    BY <2>5, <2>6, <2>7
<1> QED
  BY <1>1, CapacityInvariant, PTL

(* An execution that works has a lease, and a lease its claim.             *)
LEMMA WorkNeedsClaim == IInv => WorkClaimed
<1> SUFFICES ASSUME IInv, NEW r \in Runs, Works(r)
             PROVE  r[1] \in claims /\ r \in active
  BY DEF WorkClaimed
<1>1. lease[r] /\ r \in active
  BY DEF Works, IInv, ControlInv, RunsConsistent, RunConsistent
<1> QED
  BY <1>1 DEF IInv, ClaimInv, HoldersClaim, Hold

(* No execution works without its claim: a parked one goes on only after   *)
(* resumeExecutionCapacity got the claim back.                             *)
THEOREM CapacityWorkClaimed == Spec => []WorkClaimed
BY WorkNeedsClaim, CapacityInvariant, PTL

(* What RunIfIdleExclusive runs never overlaps with a claim or with work.  *)
THEOREM CapacityMaintenanceAlone == Spec => []MaintenanceAlone
<1>1. IInv => MaintenanceAlone
  BY WorkNeedsClaim DEF IInv, GateHeld, MaintenanceAlone, WorkClaimed
<1> QED
  BY <1>1, CapacityInvariant, PTL

--------------------------------------------------------------------------------
(* Scheduler: room.                                                        *)
ClaimsCounted == outstanding \in [Kinds -> Nat]
FitsWord      == MinFree + Total(outstanding) <= MaxWord
RoomInv          == ClaimsCounted /\ FitsWord

(* All that a step may do to the claims.                                   *)
Releases == \E k \in Kinds : Release(k)
Grants   == \E k \in Kinds : Granted(k)
Ends     == outstanding' = [k \in Kinds |-> 0] /\ sensed' = none

Fits(snapshot, held) ==
  /\ MinFree + Total(held) <= snapshot.free
  /\ MaxMARDisk = 0 \/ snapshot.used + Total(held) <= MaxMARDisk

--------------------------------------------------------------------------------
(* Sizes are numbers that fit a word.                                      *)
LEMMA Sizes ==
  /\ MaxWord \in Nat /\ MinFree \in 0..MaxWord /\ MaxMARDisk \in 0..(MaxWord - 1)
  /\ \A k \in Kinds : Bytes(k) \in 0..MaxWord
BY SchedulerAssumption DEF SchedulerAssumption, Bytes

(* What is counted and promised is a number.                               *)
LEMMA TotalIsNat == ASSUME NEW held \in [Kinds -> Nat] PROVE Total(held) \in Nat
<1>1. held["workspace"] \in Nat /\ held["execution"] \in Nat
  BY DEF Kinds
<1>2. WorkspaceBytes \in Nat /\ ExecutionBytes \in Nat
  BY SchedulerAssumption DEF SchedulerAssumption
<1> QED
  BY <1>1, <1>2 DEF Total

(* One more claim adds its bytes.                                          *)
LEMMA TotalGrows ==
  ASSUME NEW held \in [Kinds -> Nat], NEW kind \in Kinds
  PROVE  Total([held EXCEPT ![kind] = @ + 1]) = Total(held) + Bytes(kind)
<1>1. held["workspace"] \in Nat /\ held["execution"] \in Nat
  BY DEF Kinds
<1>2. WorkspaceBytes \in Nat /\ ExecutionBytes \in Nat
  BY SchedulerAssumption DEF SchedulerAssumption
<1>3. \A n, b \in Nat : (n + 1) * b = n * b + b
  OBVIOUS
<1>4. CASE kind = "workspace"
  <2>1. Total([held EXCEPT ![kind] = @ + 1])
          = (held["workspace"] + 1) * WorkspaceBytes + held["execution"] * ExecutionBytes
    BY <1>4 DEF Total, Kinds
  <2> QED
    BY <2>1, <1>1, <1>2, <1>3, <1>4 DEF Total, Bytes
<1>5. CASE kind = "execution"
  <2>1. Total([held EXCEPT ![kind] = @ + 1])
          = held["workspace"] * WorkspaceBytes + (held["execution"] + 1) * ExecutionBytes
    BY <1>5 DEF Total, Kinds
  <2> QED
    BY <2>1, <1>1, <1>2, <1>3, <1>5 DEF Total, Bytes
<1> QED
  BY <1>4, <1>5 DEF Kinds

(* A saturated sum below the largest word is the sum.                      *)
LEMMA Saturation ==
  ASSUME NEW a \in 0..MaxWord, NEW b \in 0..MaxWord
  PROVE  /\ SaturatingAdd(a, b) \in 0..MaxWord
         /\ SaturatingAdd(a, b) < MaxWord => SaturatingAdd(a, b) = a + b
BY Sizes DEF SaturatingAdd

(* A word that nothing overflowed is what was added up.                    *)
LEMMA NoWrap == ASSUME NEW n \in 0..MaxWord PROVE n % (MaxWord + 1) = n
BY Sizes

(* What evaluateLocked admits fits the snapshot, and so a word.            *)
LEMMA GrantFits ==
  ASSUME RoomInv, NEW kind \in Kinds, Granted(kind)
  PROVE  RoomInv' /\ Fits(sensed', outstanding')
<1> DEFINE reserved == Total(outstanding) % (MaxWord + 1)
           needed   == SaturatingAdd(reserved, Bytes(kind))
<1>1. PICK s \in Snapshots : Room(s, kind) /\ sensed' = s
  BY DEF Granted
<1>2. s.free \in 0..(MaxWord - 1) /\ s.used \in 0..MaxWord
  BY SchedulerAssumption DEF SchedulerAssumption, Snapshots
<1>3. outstanding' = [outstanding EXCEPT ![kind] = @ + 1] /\ outstanding' \in [Kinds -> Nat]
  BY DEF Granted, RoomInv, ClaimsCounted
<1>4. Total(outstanding') = Total(outstanding) + Bytes(kind)
  BY <1>3, TotalGrows DEF RoomInv, ClaimsCounted
<1>5. Total(outstanding) \in 0..MaxWord
  BY TotalIsNat, Sizes DEF RoomInv, ClaimsCounted, FitsWord
<1>6. reserved = Total(outstanding)
  BY <1>5, NoWrap
<1>7. needed \in 0..MaxWord /\ (needed < MaxWord => needed = Total(outstanding'))
  <2>1. Bytes(kind) \in 0..MaxWord
    BY Sizes
  <2> HIDE DEF reserved
  <2> QED
    BY <1>4, <1>5, <1>6, <2>1, Saturation, Sizes
<1> HIDE DEF needed
<1>8. SaturatingAdd(MinFree, needed) <= s.free
  BY <1>1, <1>2, <1>7, Saturation, Sizes DEF Room, needed
<1>9. needed < MaxWord /\ MinFree + needed <= s.free
  <2>1. SaturatingAdd(MinFree, needed) \in 0..MaxWord
    BY <1>7, Saturation, Sizes
  <2>2. SaturatingAdd(MinFree, needed) < MaxWord
    BY <1>2, <1>8, <2>1, Sizes
  <2>3. SaturatingAdd(MinFree, needed) = MinFree + needed
    BY <1>7, <2>2, Saturation, Sizes
  <2> QED
    BY <1>2, <1>7, <1>8, <2>3, Sizes
<1>10. MinFree + Total(outstanding') <= s.free
  BY <1>7, <1>9
<1>11. MaxMARDisk = 0 \/ s.used + Total(outstanding') <= MaxMARDisk
  <2>1. MaxMARDisk = 0 \/ SaturatingAdd(s.used, needed) <= MaxMARDisk
    BY <1>1 DEF Room, needed
  <2>2. SaturatingAdd(s.used, needed) \in 0..MaxWord
    BY <1>2, <1>7, Saturation, Sizes
  <2>3. SaturatingAdd(s.used, needed) < MaxWord => SaturatingAdd(s.used, needed) = s.used + needed
    BY <1>2, <1>7, Saturation, Sizes
  <2>4. MaxMARDisk = 0 \/ SaturatingAdd(s.used, needed) < MaxWord
    BY <2>1, <2>2, Sizes
  <2>5. needed = Total(outstanding')
    BY <1>7, <1>9
  <2> QED
    BY <2>1, <2>3, <2>4, <2>5
<1>12. RoomInv'
  <2>1. Total(outstanding') \in Nat
    BY <1>3, TotalIsNat
  <2> QED
    BY <1>2, <1>3, <1>10, <2>1, Sizes DEF RoomInv, ClaimsCounted, FitsWord, Total
<1> QED
  BY <1>1, <1>10, <1>11, <1>12 DEF Fits

(* Giving a claim back gives its bytes back.                               *)
LEMMA ReleaseFits ==
  ASSUME RoomInv, NEW kind \in Kinds, Release(kind)
  PROVE  RoomInv'
<1> DEFINE left == [outstanding EXCEPT ![kind] = @ - 1]
<1>1. outstanding' = left /\ left \in [Kinds -> Nat] /\ outstanding = [left EXCEPT ![kind] = @ + 1]
  <2>1. outstanding \in [Kinds -> Nat] /\ outstanding[kind] \in Nat /\ outstanding[kind] > 0 /\ outstanding' = left
    BY DEF Release, RoomInv, ClaimsCounted
  <2>2. outstanding[kind] - 1 \in Nat /\ (outstanding[kind] - 1) + 1 = outstanding[kind]
    BY <2>1
  <2>3. left \in [Kinds -> Nat] /\ left[kind] = outstanding[kind] - 1
    BY <2>1, <2>2
  <2>4. \A k \in Kinds : outstanding[k] = [left EXCEPT ![kind] = @ + 1][k]
    BY <2>1, <2>2, <2>3
  <2> QED
    BY <2>1, <2>3, <2>4
<1> HIDE DEF left
<1>2. Total(outstanding) = Total(left) + Bytes(kind)
  BY <1>1, TotalGrows
<1>3. Total(left) \in Nat
  BY <1>1, TotalIsNat
<1>4. MinFree + Total(left) <= MaxWord
  BY <1>2, <1>3, Sizes DEF RoomInv, FitsWord
<1>5. Total(outstanding') = Total(left)
  BY <1>1
<1>6. ClaimsCounted'
  BY <1>1 DEF ClaimsCounted
<1>7. FitsWord'
  BY <1>4, <1>5 DEF FitsWord, Total
<1> QED
  BY <1>6, <1>7 DEF RoomInv

(* No claim, no reservation.                                               *)
LEMMA NoneFit == MinFree + Total([k \in Kinds |-> 0]) <= MaxWord
<1>1. \A n \in Nat : 0 * n = 0
  OBVIOUS
<1>2. WorkspaceBytes \in Nat /\ ExecutionBytes \in Nat
  BY SchedulerAssumption DEF SchedulerAssumption
<1>3. Total([k \in Kinds |-> 0]) = 0
  BY <1>1, <1>2 DEF Total, Kinds
<1> QED
  BY <1>3, Sizes

(* No step does anything else to the claims.                               *)
LEMMA ClaimSteps == SchedulerNext => KeepClaims \/ Releases \/ Grants \/ Ends
<1> SUFFICES ASSUME SchedulerNext PROVE KeepClaims \/ Releases \/ Grants \/ Ends
  OBVIOUS
<1>1. CASE Select \/ WorkspaceDenied \/ PrepareWorkspace \/ Tick
  BY <1>1 DEF Select, WorkspaceDenied, PrepareWorkspace, Tick
<1>2. CASE \E t \in TaskRows : Enqueue(t) \/ Cancel(t)
  BY <1>2 DEF Enqueue, Cancel
<1>3. CASE ClaimWorkspace \/ AcquireExecutionClaim
  BY <1>3 DEF ClaimWorkspace, AcquireExecutionClaim, Grants, Kinds
<1>4. CASE PrepareFails \/ RecordProjectDispatch \/ ReleaseExecutionClaim
  BY <1>4 DEF PrepareFails, RecordProjectDispatch, ReleaseExecutionClaim, Releases, Kinds
<1>5. CASE Crash
  BY <1>5 DEF Crash, Ends
<1> QED
  BY <1>1, <1>2, <1>3, <1>4, <1>5 DEF SchedulerNext

(* The invariant holds at first, and every step keeps it.                  *)
LEMMA InitIInv == SchedulerInit => RoomInv
BY NoneFit DEF SchedulerInit, RoomInv, ClaimsCounted, FitsWord

LEMMA NextIInv == RoomInv /\ [SchedulerNext]_schedulerVars => RoomInv'
<1> SUFFICES ASSUME RoomInv, [SchedulerNext]_schedulerVars PROVE RoomInv'
  OBVIOUS
<1>1. CASE UNCHANGED outstanding
  BY <1>1 DEF RoomInv, ClaimsCounted, FitsWord, Total
<1>2. CASE Ends
  BY <1>2, NoneFit DEF Ends, RoomInv, ClaimsCounted, FitsWord, Total
<1>3. CASE Releases
  BY <1>3, ReleaseFits DEF Releases
<1>4. CASE Grants
  BY <1>4, GrantFits DEF Grants
<1> QED
  BY <1>1, <1>2, <1>3, <1>4, ClaimSteps DEF schedulerVars, KeepClaims

(* What is reserved, with the reserve, always fits a word.                 *)
THEOREM ReservationsFitWord == SchedulerSpec => []FitsWord
<1>1. RoomInv => FitsWord
  BY DEF RoomInv
<1> QED
  BY <1>1, InitIInv, NextIInv, PTL DEF SchedulerSpec

(* AdmissionSound: what is admitted fits the reserve, what the sensor      *)
(* reports and the budget, added up as numbers.                            *)
THEOREM AdmissionFits == SchedulerSpec => AdmissionSound
<1> DEFINE Admits == sensed' # none => Fits(sensed', outstanding')
<1>1. RoomInv /\ [SchedulerNext]_schedulerVars => [Admits]_schedulerVars
  <2> SUFFICES ASSUME RoomInv, SchedulerNext PROVE Admits
    OBVIOUS
  <2>1. CASE KeepClaims \/ Releases \/ Ends
    BY <2>1 DEF KeepClaims, Releases, Release, Ends
  <2>2. CASE Grants
    BY <2>2, GrantFits DEF Grants
  <2> QED
    BY <2>1, <2>2, ClaimSteps
<1>2. [][Admits]_schedulerVars => AdmissionSound
  BY PTL DEF Fits, AdmissionSound
<1> QED
  BY <1>1, <1>2, InitIInv, NextIInv, PTL DEF SchedulerSpec

--------------------------------------------------------------------------------
(* Scheduler: turns.                                                       *)
Contracts == [project : Projects, rank : Ranks]
Steps     == {"step", "claim", "prepare", "record"}

TurnTypes ==
  /\ contract \in [TaskRows -> Contracts \cup {none}]
  /\ updated \in [TaskRows -> Nat] /\ last \in [Projects -> Nat] /\ now \in Nat
  /\ passed \in [TaskRows -> [Projects -> Nat]] /\ unpaid \in [Projects -> Nat]
  /\ step \in [pc : Steps, task : TaskRows \cup {none}, project : Projects \cup {0},
               at : Nat, over : SUBSET TaskRows]
  /\ ~StepAt("step") => step.project \in Projects

(* The turn that goes on is later than all that are recorded, and over     *)
(* before the clock shows the time of another.                             *)
ClockAhead ==
  /\ \A p \in Projects : last[p] < now
  /\ ~StepAt("step") => step.at <= now /\ \A p \in Projects : last[p] < step.at
  /\ StepAt("record") => step.at < now

(* The turn that goes on overtakes tasks of other projects only, and none  *)
(* that has been overtaken by the same project since the last turn of its  *)
(* own.                                                                    *)
OvertakesOnce ==
  ~StepAt("step") =>
    \A t \in step.over \cap Waiting :
      ProjectOf(t) # step.project /\ passed[t][step.project] <= unpaid[step.project]

(* A project that has overtaken a task by a recorded turn had its last one *)
(* after the project of the task.                                          *)
TurnsTold ==
  \A t \in Waiting, p \in Projects :
    IF p = ProjectOf(t) THEN passed[t][p] = 0
    ELSE /\ passed[t][p] <= 1 + unpaid[p]
         /\ passed[t][p] > unpaid[p] => last[ProjectOf(t)] < last[p]

TInv == TurnTypes /\ ClockAhead /\ OvertakesOnce /\ TurnsTold

--------------------------------------------------------------------------------
(* Y is a proper part of X.                                                *)
Smaller(Y, X) == Y \subseteq X /\ Y # X

(* A family of subsets of a finite set has one with no smaller.            *)
LEMMA SmallestOf ==
  ASSUME NEW S, IsFiniteSet(S), NEW F \in SUBSET (SUBSET S), F # {}
  PROVE  \E X \in F : \A Y \in F : ~Smaller(Y, X)
<1>1. IsWellFoundedOn(StrictSubsetOrdering(S), SUBSET S)
  BY FS_StrictSubsetOrderingWellFounded, FS_FiniteSubsetsOfFinite
<1>2. PICK X \in F : \A Y \in F : ~(<<Y, X>> \in StrictSubsetOrdering(S))
  BY <1>1, WFMin
<1>3. ASSUME NEW Y \in F, Smaller(Y, X) PROVE FALSE
  <2>1. <<Y, X>> \in StrictSubsetOrdering(S)
    BY <1>3 DEF StrictSubsetOrdering, Smaller
  <2> QED
    BY <1>2, <2>1
<1> QED
  BY <1>3

(* A strict total order has a first element in every finite set.           *)
LEMMA FirstExists ==
  ASSUME NEW S, IsFiniteSet(S), S # {}, NEW R,
         \A x \in S : <<x, x>> \notin R,
         \A x, y, z \in S : <<x, y>> \in R /\ <<y, z>> \in R => <<x, z>> \in R,
         \A x, y \in S : x = y \/ <<x, y>> \in R \/ <<y, x>> \in R
  PROVE  \E x \in S : \A y \in S \ {x} : <<x, y>> \in R
<1> DEFINE Before(y) == {x \in S : <<x, y>> \in R}
<1>1. PICK y \in S : \A z \in S : ~Smaller(Before(z), Before(y))
  <2> DEFINE F == {Before(y) : y \in S}
  <2>1. \A y \in S : Before(y) \in SUBSET S
    OBVIOUS
  <2> HIDE DEF Before
  <2>2. F \in SUBSET (SUBSET S) /\ F # {}
    BY <2>1
  <2>3. \A y \in S : Before(y) \in F
    OBVIOUS
  <2>4. \A X \in F : \E y \in S : X = Before(y)
    OBVIOUS
  <2> HIDE DEF F
  <2>5. PICK X \in F : \A Y \in F : ~Smaller(Y, X)
    BY <2>2, SmallestOf
  <2> QED
    BY <2>3, <2>4, <2>5
<1>2. ASSUME NEW z \in S, <<z, y>> \in R PROVE FALSE
  <2>1. \A x \in Before(z) : x \in Before(y)
    BY <1>2
  <2>2. z \in Before(y) /\ z \notin Before(z)
    BY <1>2
  <2> HIDE DEF Before
  <2> QED
    BY <1>1, <2>1, <2>2 DEF Smaller
<1> QED
  BY <1>2

--------------------------------------------------------------------------------
(* What the keys compare, component by component.                          *)
LEMMA PrecedesByThree ==
  ASSUME NEW a, NEW b, NEW c, NEW d, NEW e, NEW f
  PROVE  Precedes(<<a, b, c>>, <<d, e, f>>)
           <=> a < d \/ (a = d /\ (b < e \/ (b = e /\ c < f)))
<1>1. DOMAIN <<a, b, c>> = {1, 2, 3}
  OBVIOUS
<1>2. 1..(1 - 1) = {} /\ 1..(2 - 1) = {1} /\ 1..(3 - 1) = {1, 2}
  OBVIOUS
<1> QED
  BY <1>1, <1>2 DEF Precedes

LEMMA PrecedesByFour ==
  ASSUME NEW a, NEW b, NEW c, NEW d, NEW e, NEW f, NEW g, NEW h
  PROVE  Precedes(<<a, b, c, d>>, <<e, f, g, h>>)
           <=> a < e \/ (a = e /\ (b < f \/ (b = f /\ (c < g \/ (c = g /\ d < h)))))
<1>1. DOMAIN <<a, b, c, d>> = {1, 2, 3, 4}
  OBVIOUS
<1>2. 1..(1 - 1) = {} /\ 1..(2 - 1) = {1} /\ 1..(3 - 1) = {1, 2} /\ 1..(4 - 1) = {1, 2, 3}
  OBVIOUS
<1> QED
  BY <1>1, <1>2 DEF Precedes

(* A task that waits has a rank, and no rank is below the aged.            *)
LEMMA PriorityIsNat ==
  ASSUME TurnTypes, NEW t \in Waiting PROVE EffectivePriority(t) \in Nat
<1>1. contract[t] \in Contracts /\ updated[t] \in Nat /\ now \in Nat
  BY DEF TurnTypes, Waiting
<1>2. contract[t].rank \in Nat /\ AgingInterval \in Nat \ {0}
  BY <1>1, SchedulerAssumption DEF SchedulerAssumption, Contracts
<1>3. \A n \in Nat, k \in Nat \ {0} : n \div k \in Nat
  OBVIOUS
<1>4. CASE now < updated[t]
  BY <1>2, <1>4 DEF EffectivePriority
<1>5. CASE ~(now < updated[t])
  <2> DEFINE s == (now - updated[t]) \div AgingInterval
  <2>1. now - updated[t] \in Nat
    BY <1>1, <1>5
  <2>2. s \in Nat
    BY <1>2, <1>3, <2>1
  <2>3. EffectivePriority(t) = IF s >= contract[t].rank THEN 0 ELSE contract[t].rank - s
    BY <1>5 DEF EffectivePriority
  <2> HIDE DEF s
  <2> QED
    BY <1>2, <2>2, <2>3
<1> QED
  BY <1>4, <1>5

(* The tasks that wait.                                                    *)
LEMMA WaitingTyped ==
  ASSUME TurnTypes, NEW t \in Waiting
  PROVE  /\ t \in Nat /\ updated[t] \in Nat
         /\ ProjectOf(t) \in Projects /\ ProjectOf(t) \in Nat /\ last[ProjectOf(t)] \in Nat
BY SchedulerAssumption DEF SchedulerAssumption, TurnTypes, Waiting, ProjectOf, Contracts

LEMMA WaitingFinite == IsFiniteSet(Waiting)
BY SchedulerAssumption, FS_Subset DEF SchedulerAssumption, Waiting

(* In a project the first of its waiting tasks is one of them, and the     *)
(* others come after it.                                                   *)
LEMMA FirstInProject ==
  ASSUME TurnTypes, NEW S \in SUBSET Waiting, S # {}
  PROVE  /\ First(S, InProject) \in S
         /\ \A u \in S \ {First(S, InProject)} :
              Precedes(InProject(First(S, InProject)), InProject(u))
<1> DEFINE before(x, y) == Precedes(InProject(x), InProject(y))
           R == {q \in S \X S : before(q[1], q[2])}
<1>1. \A x, y \in S :
        before(x, y) <=> \/ EffectivePriority(x) < EffectivePriority(y)
                         \/ /\ EffectivePriority(x) = EffectivePriority(y)
                            /\ updated[x] < updated[y] \/ (updated[x] = updated[y] /\ x < y)
  BY PrecedesByThree DEF InProject
<1>2. \A x \in S : EffectivePriority(x) \in Nat /\ updated[x] \in Nat /\ x \in Nat
  BY PriorityIsNat, WaitingTyped
<1>3. IsFiniteSet(S)
  BY WaitingFinite, FS_Subset
<1> HIDE DEF before
<1>4. \A x, y \in S : <<x, y>> \in R <=> before(x, y)
  OBVIOUS
<1> HIDE DEF R
<1>5. \A x \in S : <<x, x>> \notin R
  BY <1>1, <1>2, <1>4
<1>6. \A x, y, z \in S : <<x, y>> \in R /\ <<y, z>> \in R => <<x, z>> \in R
  <2> SUFFICES ASSUME NEW x \in S, NEW y \in S, NEW z \in S, before(x, y), before(y, z)
               PROVE  before(x, z)
    BY <1>4
  <2> QED
    BY <1>1, <1>2
<1>7. \A x, y \in S : x = y \/ <<x, y>> \in R \/ <<y, x>> \in R
  <2> SUFFICES ASSUME NEW x \in S, NEW y \in S, ~before(x, y), ~before(y, x) PROVE x = y
    BY <1>4
  <2> QED
    BY <1>1, <1>2
<1>8. \E x \in S : \A y \in S \ {x} : <<x, y>> \in R
  BY <1>3, <1>5, <1>6, <1>7, FirstExists
<1>9. \E x \in S : \A y \in S \ {x} : before(x, y)
  BY <1>4, <1>8
<1> QED
  BY <1>9 DEF before, First

(* Across projects, with at most one task of each.                         *)
LEMMA FirstAcross ==
  ASSUME TurnTypes, NEW S \in SUBSET Waiting, S # {},
         \A x, y \in S : ProjectOf(x) = ProjectOf(y) => x = y
  PROVE  /\ First(S, AcrossProjects) \in S
         /\ \A u \in S \ {First(S, AcrossProjects)} :
              Precedes(AcrossProjects(First(S, AcrossProjects)), AcrossProjects(u))
<1> DEFINE before(x, y) == Precedes(AcrossProjects(x), AcrossProjects(y))
           R == {q \in S \X S : before(q[1], q[2])}
           L(x) == last[ProjectOf(x)]
<1>1. \A x, y \in S :
        before(x, y) <=> \/ EffectivePriority(x) < EffectivePriority(y)
                         \/ /\ EffectivePriority(x) = EffectivePriority(y)
                            /\ \/ L(x) < L(y)
                               \/ /\ L(x) = L(y)
                                  /\ \/ updated[x] < updated[y]
                                     \/ updated[x] = updated[y] /\ ProjectOf(x) < ProjectOf(y)
  BY PrecedesByFour DEF AcrossProjects
<1>2. \A x \in S : /\ EffectivePriority(x) \in Nat /\ L(x) \in Nat
                   /\ updated[x] \in Nat /\ ProjectOf(x) \in Nat
  BY PriorityIsNat, WaitingTyped
<1>3. IsFiniteSet(S)
  BY WaitingFinite, FS_Subset
<1> HIDE DEF before, L
<1>4. \A x, y \in S : <<x, y>> \in R <=> before(x, y)
  OBVIOUS
<1> HIDE DEF R
<1>5. \A x \in S : <<x, x>> \notin R
  BY <1>1, <1>2, <1>4
<1>6. \A x, y, z \in S : <<x, y>> \in R /\ <<y, z>> \in R => <<x, z>> \in R
  <2> SUFFICES ASSUME NEW x \in S, NEW y \in S, NEW z \in S, before(x, y), before(y, z)
               PROVE  before(x, z)
    BY <1>4
  <2> QED
    BY <1>1, <1>2
<1>7. \A x, y \in S : x = y \/ <<x, y>> \in R \/ <<y, x>> \in R
  <2> SUFFICES ASSUME NEW x \in S, NEW y \in S, ~before(x, y), ~before(y, x) PROVE x = y
    BY <1>4
  <2> QED
    BY <1>1, <1>2
<1>8. \E x \in S : \A y \in S \ {x} : <<x, y>> \in R
  BY <1>3, <1>5, <1>6, <1>7, FirstExists
<1>9. \E x \in S : \A y \in S \ {x} : before(x, y)
  BY <1>4, <1>8
<1> QED
  BY <1>9 DEF before, First

(* What selectTask returns waits.  No aged task of its project is older,   *)
(* and when a task of another project is aged, the project of that one had *)
(* a turn no earlier than the selected one.                                *)
LEMMA SelectTaskSound ==
  ASSUME TurnTypes, Waiting # {}
  PROVE  /\ SelectTask \in Waiting
         /\ \A t \in Aged \ {SelectTask} :
              IF ProjectOf(t) = ProjectOf(SelectTask)
              THEN updated[SelectTask] <= updated[t]
              ELSE last[ProjectOf(SelectTask)] <= last[ProjectOf(t)]
<1> DEFINE OfProject(p) == {t \in Waiting : ProjectOf(t) = p}
           Best(t)      == First(OfProject(ProjectOf(t)), InProject)
           Candidates   == {Best(t) : t \in Waiting}
           s            == First(Candidates, AcrossProjects)
<1>0. SelectTask = s
  BY DEF SelectTask
<1>1. \A t \in Waiting :
        /\ Best(t) \in Waiting /\ ProjectOf(Best(t)) = ProjectOf(t)
        /\ \A u \in Waiting \ {Best(t)} :
             ProjectOf(u) = ProjectOf(t) => Precedes(InProject(Best(t)), InProject(u))
  <2> TAKE t \in Waiting
  <2>1. OfProject(ProjectOf(t)) \in SUBSET Waiting /\ t \in OfProject(ProjectOf(t))
    OBVIOUS
  <2>2. /\ Best(t) \in OfProject(ProjectOf(t))
        /\ \A u \in OfProject(ProjectOf(t)) \ {Best(t)} :
             Precedes(InProject(Best(t)), InProject(u))
    BY <2>1, FirstInProject
  <2> QED
    BY <2>2
<1>2. \A x, y \in Waiting : ProjectOf(x) = ProjectOf(y) => Best(x) = Best(y)
  OBVIOUS
<1> HIDE DEF Best
<1>3. Candidates \in SUBSET Waiting /\ Candidates # {}
  BY <1>1
<1>4. \A x, y \in Candidates : ProjectOf(x) = ProjectOf(y) => x = y
  BY <1>1, <1>2
<1>5. \A t \in Waiting : Best(t) \in Candidates
  OBVIOUS
<1>6. \A x \in Candidates : Best(x) = x
  BY <1>1, <1>2
<1> HIDE DEF Candidates
<1>7. s \in Candidates /\ \A u \in Candidates \ {s} : Precedes(AcrossProjects(s), AcrossProjects(u))
  BY <1>3, <1>4, FirstAcross
<1> HIDE DEF s
<1>8. s \in Waiting
  BY <1>3, <1>7
<1>9. ASSUME NEW t \in Aged \ {s}
      PROVE  IF ProjectOf(t) = ProjectOf(s) THEN updated[s] <= updated[t]
             ELSE last[ProjectOf(s)] <= last[ProjectOf(t)]
  <2>1. t \in Waiting /\ EffectivePriority(t) = 0
    BY DEF Aged
  <2>2. \A x, y \in Waiting : Precedes(InProject(x), InProject(y)) /\ EffectivePriority(y) = 0
          => EffectivePriority(x) = 0 /\ updated[x] <= updated[y]
    BY PriorityIsNat, WaitingTyped, PrecedesByThree DEF InProject
  <2>3. \A x, y \in Waiting :
          Precedes(AcrossProjects(x), AcrossProjects(y)) /\ EffectivePriority(y) = 0
            => last[ProjectOf(x)] <= last[ProjectOf(y)]
    BY PriorityIsNat, WaitingTyped, PrecedesByFour DEF AcrossProjects
  <2>4. CASE ProjectOf(t) = ProjectOf(s)
    BY <1>1, <1>6, <1>7, <1>8, <2>1, <2>2, <2>4
  <2>5. CASE ProjectOf(t) # ProjectOf(s)
    <3>1. Best(t) \in Waiting /\ EffectivePriority(Best(t)) = 0
      BY <1>1, <2>1, <2>2
    <3>2. Best(t) \in Candidates /\ ProjectOf(Best(t)) = ProjectOf(t) /\ Best(t) # s
      BY <1>1, <1>5, <2>1, <2>5
    <3> QED
      BY <1>7, <1>8, <2>3, <2>5, <3>1, <3>2
  <2> QED
    BY <2>4, <2>5
<1> QED
  BY <1>0, <1>8, <1>9

--------------------------------------------------------------------------------
(* Each step keeps the invariant of turns.                                 *)
Turning == <<queue, last, now, step, history>>

LEMMA SameTurns == ASSUME TInv, UNCHANGED Turning PROVE TInv'
BY DEF TInv, TurnTypes, ClockAhead, OvertakesOnce, TurnsTold, Turning, queue, history,
       StepAt, Waiting, ProjectOf

(* Only the loop goes on, or gives up its turn.                            *)
LEMMA LoopMoves ==
  ASSUME TInv, UNCHANGED <<queue, last, now, history>>,
         \/ step' = Loop("step")
         \/ StepAt("claim") /\ step' = [step EXCEPT !.pc = "prepare"]
  PROVE  TInv'
BY DEF TInv, TurnTypes, ClockAhead, OvertakesOnce, TurnsTold, queue, history,
       StepAt, Waiting, ProjectOf, Loop, Steps

LEMMA SelectKeeps == ASSUME TInv, Select PROVE TInv'
<1> DEFINE s == SelectTask
<1>1. /\ s \in Waiting
      /\ \A t \in Aged \ {s} : IF ProjectOf(t) = ProjectOf(s) THEN updated[s] <= updated[t]
                               ELSE last[ProjectOf(s)] <= last[ProjectOf(t)]
  BY SelectTaskSound DEF TInv, Select
<1> HIDE DEF s
<1>2. step' = [pc |-> "claim", task |-> s, project |-> ProjectOf(s), at |-> now,
               over |-> Overtaken(s)]
  BY DEF Select, Loop, s
<1>3. UNCHANGED <<contract, updated, last, now, passed, unpaid>>
  BY DEF Select, queue, history
<1>4. s \in TaskRows /\ ProjectOf(s) \in Projects /\ Overtaken(s) \in SUBSET Waiting
  BY <1>1, WaitingTyped DEF TInv, Waiting, Overtaken, Aged
<1>5. TurnTypes'
  BY <1>2, <1>3, <1>4 DEF TInv, TurnTypes, StepAt, Steps, Waiting
<1>6. ClockAhead'
  BY <1>2, <1>3 DEF TInv, TurnTypes, ClockAhead, StepAt
<1>7. ASSUME NEW t \in Overtaken(s)
      PROVE  ProjectOf(t) # ProjectOf(s) /\ passed[t][ProjectOf(s)] <= unpaid[ProjectOf(s)]
  <2>1. t \in Aged \ {s} /\ t \in Waiting /\ (ProjectOf(t) = ProjectOf(s) => updated[t] < updated[s])
    BY DEF Overtaken, Aged
  <2>2. updated[t] \in Nat /\ updated[s] \in Nat
    BY <1>1, <2>1, WaitingTyped DEF TInv
  <2>3. ProjectOf(t) # ProjectOf(s)
    BY <1>1, <2>1, <2>2
  <2>4. ~(last[ProjectOf(t)] < last[ProjectOf(s)])
    BY <1>1, <2>1, <2>3, WaitingTyped DEF TInv
  <2>5. passed[t][ProjectOf(s)] \in Nat /\ unpaid[ProjectOf(s)] \in Nat
    BY <1>4, <2>1 DEF TInv, TurnTypes, Waiting
  <2>6. ~(passed[t][ProjectOf(s)] > unpaid[ProjectOf(s)])
    BY <1>4, <2>1, <2>3, <2>4 DEF TInv, TurnsTold
  <2> QED
    BY <2>3, <2>5, <2>6
<1>8. OvertakesOnce'
  BY <1>2, <1>3, <1>7 DEF OvertakesOnce, StepAt, Waiting, ProjectOf
<1>9. TurnsTold'
  BY <1>3 DEF TInv, TurnsTold, Waiting, ProjectOf
<1> QED
  BY <1>5, <1>6, <1>8, <1>9 DEF TInv

(* A task comes or goes: it starts without having been overtaken.          *)
LEMMA PlaceKeeps ==
  ASSUME TInv, NEW t \in TaskRows, NEW c \in Contracts \cup {none}, NEW time \in Nat,
         Place(t, c, time), UNCHANGED <<last, now, unpaid>>,
         c = none \/ StepAt("step"),
         \/ UNCHANGED step \/ step' = Loop("step")
         \/ StepAt("prepare") /\ now > step.at /\ step' = [step EXCEPT !.pc = "record"]
  PROVE  TInv'
<1>1. /\ contract' = [contract EXCEPT ![t] = c] /\ updated' = [updated EXCEPT ![t] = time]
      /\ passed' = [passed EXCEPT ![t] = NoTurns]
  BY DEF Place
<1>2. NoTurns \in [Projects -> Nat] /\ \A p \in Projects : NoTurns[p] = 0
  BY DEF NoTurns
<1>3. TurnTypes'
  <2>1. /\ contract' \in [TaskRows -> Contracts \cup {none}] /\ updated' \in [TaskRows -> Nat]
        /\ passed' \in [TaskRows -> [Projects -> Nat]]
    BY <1>1, <1>2 DEF TInv, TurnTypes
  <2>2. /\ step' \in [pc : Steps, task : TaskRows \cup {none}, project : Projects \cup {0},
                     at : Nat, over : SUBSET TaskRows]
        /\ step'.pc # "step" => step'.project \in Projects
    <3>1. CASE UNCHANGED step
      BY <3>1 DEF TInv, TurnTypes, StepAt
    <3>2. CASE step' = Loop("step")
      BY <3>2 DEF Loop, Steps
    <3>3. CASE StepAt("prepare") /\ step' = [step EXCEPT !.pc = "record"]
      BY <3>3 DEF TInv, TurnTypes, StepAt, Steps
    <3> QED
      BY <3>1, <3>2, <3>3
  <2> QED
    BY <2>1, <2>2 DEF TInv, TurnTypes, StepAt
<1>4. ClockAhead'
  BY DEF TInv, TurnTypes, ClockAhead, StepAt, Loop
<1>5. \A u \in Waiting' : u # t => u \in Waiting /\ ProjectOf(u)' = ProjectOf(u) /\ passed'[u] = passed[u]
  BY <1>1 DEF TInv, TurnTypes, Waiting, ProjectOf
<1>6. c = none => t \notin Waiting'
  BY <1>1 DEF TInv, TurnTypes, Waiting
<1>7. OvertakesOnce'
  <2>1. CASE StepAt("step")'
    BY <2>1 DEF OvertakesOnce
  <2>2. CASE ~StepAt("step")'
    <3>1. ~StepAt("step") /\ step'.over = step.over /\ step'.project = step.project
      BY <2>2 DEF TInv, TurnTypes, StepAt, Loop
    <3> QED
      BY <1>5, <1>6, <3>1 DEF TInv, OvertakesOnce
  <2> QED
    BY <2>1, <2>2
<1>8. TurnsTold'
  <2> SUFFICES ASSUME NEW u \in Waiting', NEW p \in Projects
               PROVE  IF p = ProjectOf(u)' THEN passed'[u][p] = 0
                      ELSE /\ passed'[u][p] <= 1 + unpaid'[p]
                           /\ passed'[u][p] > unpaid'[p] => last'[ProjectOf(u)'] < last'[p]
    BY DEF TurnsTold
  <2>1. CASE u # t
    <3>1. u \in Waiting /\ ProjectOf(u)' = ProjectOf(u) /\ passed'[u] = passed[u]
      BY <1>5, <2>1
    <3>2. IF p = ProjectOf(u) THEN passed[u][p] = 0
          ELSE /\ passed[u][p] <= 1 + unpaid[p]
               /\ passed[u][p] > unpaid[p] => last[ProjectOf(u)] < last[p]
      BY <3>1 DEF TInv, TurnsTold
    <3> HIDE DEF TInv
    <3> QED
      BY <3>1, <3>2
  <2>2. CASE u = t
    <3>1. passed'[u][p] = 0 /\ unpaid'[p] \in Nat
      BY <1>1, <1>2, <2>2 DEF TInv, TurnTypes
    <3> QED
      BY <3>1
  <2> QED
    BY <2>1, <2>2
<1> QED
  BY <1>3, <1>4, <1>7, <1>8 DEF TInv

LEMMA TickKeeps == ASSUME TInv, Tick PROVE TInv'
<1>1. UNCHANGED <<contract, updated, last, step, passed, unpaid>> /\ now' = now + 1
  BY DEF Tick, queue, history
<1>2. TurnTypes' /\ OvertakesOnce' /\ TurnsTold'
  BY <1>1 DEF TInv, TurnTypes, OvertakesOnce, TurnsTold, StepAt, Waiting, ProjectOf
<1>3. ClockAhead'
  BY <1>1 DEF TInv, TurnTypes, ClockAhead, StepAt
<1> QED
  BY <1>2, <1>3 DEF TInv

(* A turn is had, and recorded or not.                                     *)
LEMMA TurnKeeps ==
  ASSUME TInv, StepAt("record"), NEW paid \in BOOLEAN, CountTurn(paid),
         UNCHANGED <<queue, now>>, step' = Loop("step"),
         IF paid THEN last' = [last EXCEPT ![step.project] = step.at] ELSE UNCHANGED last
  PROVE  TInv'
<1> DEFINE p == step.project
<1>0. UNCHANGED <<contract, updated, now>>
  BY DEF queue
<1>1. p \in Projects /\ step.at \in Nat /\ step.at < now /\ \A q \in Projects : last[q] < step.at
  BY DEF TInv, TurnTypes, ClockAhead, StepAt
<1>2. /\ passed' = [t \in TaskRows |-> [q \in Projects |->
           IF q = p /\ t \in step.over \cap Waiting THEN passed[t][q] + 1
           ELSE IF paid /\ q # p /\ t \in Waiting /\ ProjectOf(t) = p THEN 0 ELSE passed[t][q]]]
      /\ unpaid' = [unpaid EXCEPT ![p] = IF paid THEN @ ELSE @ + 1]
  BY DEF CountTurn
<1>3. \A t \in step.over \cap Waiting : ProjectOf(t) # p /\ passed[t][p] <= unpaid[p]
  BY DEF TInv, OvertakesOnce, StepAt
<1> HIDE DEF p
<1>4. Waiting' = Waiting /\ \A t \in Waiting : ProjectOf(t)' = ProjectOf(t)
  BY <1>0 DEF Waiting, ProjectOf
<1>5. \A t \in TaskRows, q \in Projects : passed'[t][q] \in Nat
  BY <1>2 DEF TInv, TurnTypes
<1>6. passed' \in [TaskRows -> [Projects -> Nat]] /\ unpaid' \in [Projects -> Nat]
  <2>1. passed' \in [TaskRows -> [Projects -> Nat]]
    BY <1>2, <1>5
  <2>2. unpaid' \in [Projects -> Nat]
    BY <1>1, <1>2 DEF TInv, TurnTypes
  <2> QED
    BY <2>1, <2>2
<1>7. last' \in [Projects -> Nat] /\ \A q \in Projects : last'[q] < now
  BY <1>1 DEF TInv, TurnTypes, ClockAhead, p
<1>8. TurnTypes' /\ ClockAhead' /\ OvertakesOnce'
  BY <1>0, <1>6, <1>7 DEF TInv, TurnTypes, ClockAhead, OvertakesOnce, StepAt, Loop, Steps
<1>9. TurnsTold'
  <2> SUFFICES ASSUME NEW t \in Waiting, NEW q \in Projects
               PROVE  IF q = ProjectOf(t) THEN passed'[t][q] = 0
                      ELSE /\ passed'[t][q] <= 1 + unpaid'[q]
                           /\ passed'[t][q] > unpaid'[q] => last'[ProjectOf(t)] < last'[q]
    BY <1>4 DEF TurnsTold
  <2> DEFINE r == ProjectOf(t)
  <2>1. /\ t \in TaskRows /\ r \in Projects /\ passed[t][q] \in Nat /\ unpaid[q] \in Nat
        /\ last[r] \in Nat /\ last[q] \in Nat
    BY WaitingTyped DEF TInv, TurnTypes, Waiting
  <2>2. IF q = r THEN passed[t][q] = 0
        ELSE /\ passed[t][q] <= 1 + unpaid[q]
             /\ passed[t][q] > unpaid[q] => last[r] < last[q]
    BY DEF TInv, TurnsTold
  <2> HIDE DEF r
  <2>3. passed'[t][q] = IF q = p /\ t \in step.over THEN passed[t][q] + 1
                        ELSE IF paid /\ q # p /\ r = p THEN 0 ELSE passed[t][q]
    BY <1>2, <2>1 DEF r
  <2>4. unpaid'[q] = IF q = p /\ ~paid THEN unpaid[q] + 1 ELSE unpaid[q]
    BY <1>1, <1>2, <2>1 DEF TInv, TurnTypes
  <2>5. \A x \in Projects : last'[x] = IF paid /\ x = p THEN step.at ELSE last[x]
    BY <1>1 DEF TInv, TurnTypes, p
  <2>6. t \in step.over => r # p /\ passed[t][p] <= unpaid[p]
    BY <1>3 DEF r
  <2>7. IF q = r THEN passed'[t][q] = 0
        ELSE /\ passed'[t][q] <= 1 + unpaid'[q]
             /\ passed'[t][q] > unpaid'[q] => last'[r] < last'[q]
    BY <1>1, <2>1, <2>2, <2>3, <2>4, <2>5, <2>6
  <2> QED
    BY <2>7 DEF r
<1> QED
  BY <1>8, <1>9 DEF TInv

LEMMA InitTInv == SchedulerInit => TInv
BY DEF SchedulerInit, TInv, TurnTypes, ClockAhead, OvertakesOnce, TurnsTold, NoTurns, StepAt, Loop,
       Steps, Waiting

LEMMA NextTInv == TInv /\ [SchedulerNext]_schedulerVars => TInv'
<1> SUFFICES ASSUME TInv, [SchedulerNext]_schedulerVars PROVE TInv'
  OBVIOUS
<1>1. CASE UNCHANGED schedulerVars
  BY <1>1, SameTurns DEF schedulerVars, Turning
<1>2. CASE Select
  BY <1>2, SelectKeeps
<1>3. CASE ClaimWorkspace \/ WorkspaceDenied
  BY <1>3, LoopMoves DEF ClaimWorkspace, WorkspaceDenied
<1>4. CASE PrepareWorkspace
  <2>1. step.task \in TaskRows
    BY <1>4 DEF PrepareWorkspace, Waiting
  <2> QED
    BY <1>4, <2>1, PlaceKeeps DEF PrepareWorkspace, Leave
<1>5. CASE PrepareFails
  <2>1. CASE step.task \in Waiting
    BY <1>5, <2>1, PlaceKeeps DEF PrepareFails, Leave, Waiting
  <2>2. CASE step.task \notin Waiting
    <3>1. UNCHANGED <<queue, last, now, history>>
      BY <1>5, <2>2 DEF PrepareFails, history
    <3> QED
      BY <1>5, <3>1, LoopMoves DEF PrepareFails
  <2> QED
    BY <2>1, <2>2
<1>6. CASE RecordProjectDispatch
  BY <1>6, TurnKeeps DEF RecordProjectDispatch
<1>7. CASE AcquireExecutionClaim \/ ReleaseExecutionClaim
  BY <1>7, SameTurns DEF AcquireExecutionClaim, ReleaseExecutionClaim, Turning
<1>8. CASE Tick
  BY <1>8, TickKeeps
<1>9. CASE Crash
  <2>1. CASE StepAt("record")
    BY <1>9, <2>1, TurnKeeps DEF Crash
  <2>2. CASE ~StepAt("record")
    BY <1>9, <2>2, LoopMoves DEF Crash
  <2> QED
    BY <2>1, <2>2
<1>10. ASSUME NEW t \in TaskRows, Enqueue(t) PROVE TInv'
  <2>1. PICK c \in Contracts : Place(t, c, now)
    BY <1>10 DEF Enqueue, Contracts
  <2>2. now \in Nat
    BY DEF TInv, TurnTypes
  <2> QED
    BY <1>10, <2>1, <2>2, PlaceKeeps DEF Enqueue
<1>11. ASSUME NEW t \in TaskRows, Cancel(t) PROVE TInv'
  BY <1>11, PlaceKeeps DEF Cancel, Leave
<1> QED
  BY <1>1, <1>2, <1>3, <1>4, <1>5, <1>6, <1>7, <1>8, <1>9, <1>10, <1>11 DEF SchedulerNext

(* The invariant of turns holds throughout.                                *)
THEOREM TurnsInvariant == SchedulerSpec => []TInv
BY InitTInv, NextTInv, PTL DEF SchedulerSpec

(* FairTurns: no aged task is overtaken by a younger one of its project,   *)
(* nor twice by another project, before its own has a turn; each turn that *)
(* was not recorded may be had once more.                                  *)
THEOREM TurnsAreFair == SchedulerSpec => []FairTurns
<1>1. TInv => FairTurns
  <2> SUFFICES ASSUME TInv, NEW t \in Waiting, NEW p \in Projects
               PROVE  passed[t][p] <= IF p = ProjectOf(t) THEN 0 ELSE 1 + unpaid[p]
    BY DEF FairTurns
  <2>1. passed[t][p] \in Nat
    BY DEF TInv, TurnTypes, Waiting
  <2> QED
    BY <2>1 DEF TInv, TurnsTold
<1> QED
  BY <1>1, TurnsInvariant, PTL
================================================================================
