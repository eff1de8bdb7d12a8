-------------------------------- MODULE Sandbox --------------------------------
(***************************************************************************)
(* RunSandboxedCommand: commands of several tasks, from several processes  *)
(* of MAR, that run in AppContainers.  A command opens the files it needs  *)
(* to its task by an entry in the DACL of each path, shared ones included, *)
(* runs a process tree in a job, and takes the entries back.  The profile  *)
(* of the task is locked all the while, a path only while its DACL is read *)
(* and written; each lock is one of this process (an entry of a registry,  *)
(* kept as long as it is held or waited for) and then a named one of the   *)
(* machine.  Control-plane commands, git among them, run in a job only:    *)
(* RunContainedCommand.                                                    *)
(***************************************************************************)
EXTENDS Naturals, FiniteSets, FiniteSetsExt

CONSTANTS Commands,             \* callers of the two
          Tasks, Processes,
          Workspaces, Shared,   \* paths, as numbers: the order of sort.Strings
          MaxRuns, MaxFaults,   \* bounds on the commands run, and on what fails
          none

Paths == Workspaces \cup Shared
ASSUME SandboxAssumption ==
  /\ IsFiniteSet(Commands) /\ Paths \subseteq Nat /\ IsFiniteSet(Paths)
  /\ Tasks \cap Paths = {} /\ none \notin Commands \cup Tasks
  /\ MaxRuns \in Nat /\ MaxFaults \in Nat

VARIABLES
  run,        \* the call each caller is in
  local,      \* keyedMutexEntry.mu: <<key, who holds it in its process>>
  mutex,      \* named mutexes: key -> holder
  dacl,       \* path -> tasks whose capability has an entry
  profiles,   \* tasks whose AppContainer profile exists
  runs, faults

locks == <<local, mutex>>
vars  == <<run, locks, dacl, profiles, runs, faults>>

At(c, pc) == run[c].pc = pc
Fault     == faults < MaxFaults /\ faults' = faults + 1
NoFault   == UNCHANGED faults
Update(c, r) == run' = [run EXCEPT ![c] = r]
Go(c, pc)    == run' = [run EXCEPT ![c].pc = pc]

Idle == [pc |-> "idle", phase |-> "profile", task |-> none, process |-> none,
         grants |-> {}, path |-> 0, todo |-> {}, restores |-> {}, snapshot |-> {},
         tree |-> {}, killed |-> FALSE, late |-> FALSE, exit |-> "none",
         outcome |-> "none", unrestored |-> FALSE]

--------------------------------------------------------------------------------
(* Where a call goes next.                                                 *)

Lock(r, phase, path) == [r EXCEPT !.pc = "local", !.phase = phase, !.path = path]

NextGrant(r) ==
  IF r.todo = {} THEN [r EXCEPT !.pc = "launch"] ELSE Lock(r, "grant", Min(r.todo))

Contained(r) == r.task = none                  \* a control-plane command

(* The deferred calls run in the reverse order.                            *)
NextRevoke(r) ==
  IF r.restores # {} THEN Lock(r, "revoke", Max(r.restores))
  ELSE [r EXCEPT !.pc = IF Contained(r) THEN "return" ELSE "delete", !.phase = "profile"]

(* Closing the job also kills what is left in it.                          *)
Finish(r, outcome) ==
  NextRevoke([r EXCEPT !.outcome = outcome, !.killed = TRUE, !.late = FALSE, !.exit = "none"])

--------------------------------------------------------------------------------
(* The call, its profile, and the locks.                                   *)

(* The workspace is granted, and the shared paths: toolchain and caches.   *)
Start(c, t, p, w) ==
  /\ At(c, "idle") /\ run[c].tree = {} /\ runs < MaxRuns
  /\ runs' = runs + 1
  /\ Update(c, [Idle EXCEPT !.pc = "local", !.task = t, !.process = p,
                            !.grants = {w} \cup Shared, !.todo = {w} \cup Shared])
  /\ UNCHANGED <<locks, dacl, profiles, faults>>

(* Nothing is granted and nothing locked.                                  *)
StartContained(c, p) ==
  /\ At(c, "idle") /\ run[c].tree = {} /\ runs < MaxRuns
  /\ runs' = runs + 1
  /\ Update(c, [Idle EXCEPT !.pc = "launch", !.process = p])
  /\ UNCHANGED <<locks, dacl, profiles, faults>>

Key(c) == IF run[c].phase = "profile" THEN run[c].task ELSE run[c].path

LockLocal(c) ==
  /\ At(c, "local")
  /\ ~\E d \in Commands : <<Key(c), d>> \in local /\ run[d].process = run[c].process
  /\ local' = local \cup {<<Key(c), c>>} /\ Go(c, "named")
  /\ UNCHANGED <<mutex, dacl, profiles, runs, faults>>

(* An abandoned mutex is taken like a free one.                            *)
LockNamed(c) ==
  /\ At(c, "named") /\ mutex[Key(c)] = none
  /\ mutex' = [mutex EXCEPT ![Key(c)] = c]
  /\ Go(c, IF run[c].phase = "profile" THEN "ensure" ELSE "read")
  /\ UNCHANGED <<local, dacl, profiles, runs, faults>>

Drop(c) ==
  /\ local' = local \ {<<Key(c), c>>}
  /\ mutex' = [mutex EXCEPT ![Key(c)] = IF @ = c THEN none ELSE @]

(* What outlives the call.                                                 *)
Over(r) == [Idle EXCEPT !.tree = r.tree, !.killed = r.killed]

(* What follows when the lock is given up, or was not to be had.           *)
AfterLock(r) ==
  CASE r.phase = "profile" -> Over(r)
    [] r.phase = "grant"   -> IF r.outcome = "none" THEN NextGrant(r) ELSE NextRevoke(r)
    [] r.phase = "revoke"  -> NextRevoke([r EXCEPT !.restores = @ \ {r.path}])

Failed(r) ==
  LET done == [r EXCEPT !.snapshot = {}] IN
    IF r.phase = "revoke" THEN [done EXCEPT !.unrestored = TRUE]
                          ELSE [done EXCEPT !.outcome = "error"]

Unlock(c, r) == Drop(c) /\ Update(c, AfterLock(r))

LockFails(c) ==
  /\ At(c, "named") /\ Fault /\ Unlock(c, Failed(run[c]))
  /\ UNCHANGED <<dacl, profiles, runs>>

UnlockProfile(c) ==
  /\ At(c, "unlock") /\ Unlock(c, run[c]) /\ UNCHANGED <<dacl, profiles, runs, faults>>

EnsureProfile(c) ==
  /\ At(c, "ensure") /\ UNCHANGED <<locks, dacl, runs>>
  /\ \/ /\ NoFault /\ profiles' = profiles \cup {run[c].task} /\ Go(c, "derive")
     \/ /\ Fault /\ UNCHANGED profiles
        /\ Update(c, [Failed(run[c]) EXCEPT !.pc = "unlock"])

(* The capability of the task, and those of the Windows runtime.           *)
DeriveCapability(c) ==
  /\ At(c, "derive") /\ UNCHANGED <<locks, dacl, profiles, runs>>
  /\ \/ NoFault /\ Update(c, NextGrant(run[c]))
     \/ Fault /\ Update(c, [Failed(run[c]) EXCEPT !.pc = "delete"])

DeleteProfile(c) ==
  /\ At(c, "delete") /\ Go(c, "unlock")
  /\ \/ NoFault /\ profiles' = profiles \ {run[c].task}
     \/ Fault /\ UNCHANGED profiles                     \* not noticed
  /\ UNCHANGED <<locks, dacl, runs>>

--------------------------------------------------------------------------------
(* addSandboxAccess and revokeSandboxAccess.                               *)

ReadDacl(c) ==
  /\ At(c, "read") /\ UNCHANGED <<dacl, profiles, runs>>
  /\ \/ NoFault /\ UNCHANGED locks
        /\ Update(c, [run[c] EXCEPT !.pc = "write", !.snapshot = dacl[run[c].path]])
     \/ Fault /\ Unlock(c, Failed(run[c]))

(* Mutant: puts back a DACL as it was before there were grants.            *)
EditedBack(r) == IF r.phase = "grant" THEN r.snapshot \cup {r.task} ELSE {}
(* GRANT_ACCESS adds to the entry of the task, REVOKE_ACCESS removes it.   *)
Edited(r) == IF r.phase = "grant" THEN r.snapshot \cup {r.task} ELSE r.snapshot \ {r.task}

Written(r) ==
  [r EXCEPT !.snapshot = {}, !.todo = @ \ {r.path},
            !.restores = IF r.phase = "grant" THEN @ \cup {r.path} ELSE @]

(* Mutant: a refused grant leaves without unlocking.                       *)
WriteDaclOrLeave(c) ==
  LET r == run[c] IN
    /\ At(c, "write") /\ UNCHANGED <<profiles, runs>>
    /\ \/ NoFault /\ Unlock(c, Written(r))
          /\ dacl' = [dacl EXCEPT ![r.path] = Edited(r)]
       \/ Fault /\ UNCHANGED <<dacl, locks>> /\ Update(c, AfterLock(Failed(r)))
WriteDacl(c) ==
  LET r == run[c] IN
    /\ At(c, "write") /\ UNCHANGED <<profiles, runs>>
    /\ \/ NoFault /\ Unlock(c, Written(r))
          /\ dacl' = [dacl EXCEPT ![r.path] = Edited(r)]
       \/ Fault /\ UNCHANGED dacl /\ Unlock(c, Failed(r))

--------------------------------------------------------------------------------
(* launchAppContainerCommand, RunContainedCommandDetailed and the process  *)
(* tree in the job.                                                        *)

Shut == UNCHANGED <<locks, dacl, profiles, runs>>

(* The process is resumed only once it is known to be in the job; what was *)
(* created suspended and is not wanted is killed before it runs.           *)
Launch(c) ==
  /\ At(c, "launch") /\ Shut
  /\ \/ NoFault /\ Update(c, [run[c] EXCEPT !.pc = "wait", !.tree = {"root"}])
     \/ Fault /\ Update(c, Finish(run[c], "error"))

SpawnChild(c) ==
  /\ "root" \in run[c].tree /\ ~run[c].killed /\ "child" \notin run[c].tree
  /\ run' = [run EXCEPT ![c].tree = @ \cup {"child"}] /\ NoFault /\ Shut

ProcessExits(c, p) ==
  /\ p \in run[c].tree /\ NoFault /\ Shut
  /\ \E code \in {"zero", "nonzero"} :
       run' = [run EXCEPT ![c].tree = @ \ {p}, ![c].exit = IF p = "root" THEN code ELSE @]

KillTakesEffect(c) ==
  /\ run[c].killed /\ run[c].tree # {} /\ NoFault /\ Shut
  /\ run' = [run EXCEPT ![c].tree = {},
                        ![c].exit = IF "root" \in run[c].tree THEN "nonzero" ELSE @]

(* Only a sandboxed root that failed takes its descendants with it.        *)
WaitRoot(c) ==
  /\ At(c, "wait") /\ "root" \notin run[c].tree /\ NoFault /\ Shut
  /\ Go(c, IF run[c].exit = "nonzero" /\ ~Contained(run[c]) THEN "terminate" ELSE "settle")

(* The context of the call may end at any time: by its deadline or by the  *)
(* owner.  The locks do not look at it.                                    *)
WaitCancelled(c) ==
  /\ At(c, "wait") /\ ~Contained(run[c]) /\ Shut
  /\ \E done \in BOOLEAN :
       /\ IF done THEN NoFault ELSE Fault
       /\ Update(c, [run[c] EXCEPT !.pc = "confirm", !.outcome = "cancelled", !.killed = done])

(* Mutant: a failed root is reported, its descendants left alone.          *)
TerminateNone(c) ==
  /\ At(c, "terminate") /\ Shut /\ NoFault
  /\ Update(c, Finish(run[c], "exit"))
(* The root failed: its descendants may not go on.                         *)
Terminate(c) ==
  /\ At(c, "terminate") /\ Shut
  /\ \/ NoFault /\ Update(c, [run[c] EXCEPT !.pc = "confirm", !.outcome = "exit", !.killed = TRUE])
     \/ Fault /\ Update(c, Finish(run[c], "unconfirmed"))

(* Any other root: its descendants may take their time, while the context  *)
(* lasts.                                                                  *)
Settle(c) ==
  /\ At(c, "settle") /\ run[c].tree = {} /\ NoFault /\ Shut
  /\ Update(c, Finish(run[c], "ok"))

SettleCancelled(c) ==
  /\ At(c, "settle") /\ ~Contained(run[c]) /\ Shut
  /\ \/ NoFault /\ \E late \in BOOLEAN :
           Update(c, [run[c] EXCEPT !.pc = "confirm", !.outcome = "cancelled", !.killed = TRUE,
                                    !.late = late])
     \/ Fault /\ Update(c, Finish(run[c], "unconfirmed"))

(* terminateContainedAfterError: its five seconds begin here.              *)
TerminateContained(c) ==
  /\ At(c, "wait") \/ At(c, "settle")
  /\ Contained(run[c]) /\ Shut
  /\ \/ NoFault /\ Update(c, [run[c] EXCEPT !.pc = "confirm", !.outcome = "cancelled",
                                            !.killed = TRUE])
     \/ Fault /\ Update(c, Finish(run[c], "unconfirmed"))

(* Within five seconds of a context of its own, which in the sandbox runs  *)
(* from when the root ended: after a long settling there is no time left.  *)
Confirm(c) ==
  /\ At(c, "confirm") /\ run[c].tree = {} /\ NoFault /\ Shut
  /\ Update(c, Finish(run[c], run[c].outcome))

ConfirmTimesOut(c) ==
  /\ At(c, "confirm") /\ run[c].tree # {} /\ Shut
  /\ IF run[c].killed /\ ~run[c].late THEN Fault ELSE NoFault
  /\ Update(c, Finish(run[c], "unconfirmed"))

Return(c) ==
  /\ At(c, "return") /\ NoFault /\ Shut /\ Update(c, Over(run[c]))

(* A process of MAR ends: its mutexes are abandoned, its jobs close.       *)
Crash(p) ==
  LET dead == {c \in Commands : ~At(c, "idle") /\ run[c].process = p} IN
    /\ dead # {} /\ Fault
    /\ run' = [c \in Commands |-> IF c \in dead
                 THEN Idle ELSE run[c]]
    /\ local' = {e \in local : e[2] \notin dead}
    /\ mutex' = [k \in DOMAIN mutex |-> IF mutex[k] \in dead THEN none ELSE mutex[k]]
    /\ UNCHANGED <<dacl, profiles, runs>>

--------------------------------------------------------------------------------
Init ==
  /\ run = [c \in Commands |-> Idle]
  /\ local = {} /\ mutex = [k \in Tasks \cup Paths |-> none]
  /\ dacl = [p \in Paths |-> {}]
  /\ profiles = {} /\ runs = 0 /\ faults = 0

Call(c) ==
  \/ LockLocal(c) \/ LockNamed(c) \/ LockFails(c) \/ UnlockProfile(c)
  \/ EnsureProfile(c) \/ DeriveCapability(c) \/ DeleteProfile(c)
  \/ ReadDacl(c) \/ WriteDacl(c)
  \/ Launch(c) \/ WaitRoot(c) \/ WaitCancelled(c) \/ Terminate(c) \/ Settle(c)
  \/ SettleCancelled(c) \/ TerminateContained(c) \/ Confirm(c) \/ ConfirmTimesOut(c)
  \/ Return(c)

Next ==
  \/ \E c \in Commands :
       \/ \E t \in Tasks, p \in Processes, w \in Workspaces : Start(c, t, p, w)
       \/ \E p \in Processes : StartContained(c, p)
       \/ Call(c) \/ SpawnChild(c) \/ KillTakesEffect(c)
       \/ \E p \in {"root", "child"} : ProcessExits(c, p)
  \/ \E p \in Processes : Crash(p)

Spec == Init /\ [][Next]_vars

(* Goroutines are scheduled, every context has a deadline, and Windows     *)
(* ends a terminated job; processes need not end by themselves.            *)
FairSpec ==
  /\ Spec
  /\ \A c \in Commands : WF_vars(Call(c)) /\ WF_vars(KillTakesEffect(c))

--------------------------------------------------------------------------------
(* While the processes of a sandboxed command may run, its task has the    *)
(* profile and an entry on every path of the command: no other command, of *)
(* another task on a shared path or of the same task in another process,   *)
(* takes them away.                                                        *)
GrantsHeld ==
  \A c \in Commands : LET r == run[c] IN
    r.tree # {} /\ ~r.killed /\ ~Contained(r) =>
      /\ r.task \in profiles
      /\ \A p \in r.grants : r.task \in dacl[p]

(* A call that is over holds no lock and no entry of a registry.  When it  *)
(* leaves, its processes are gone, unless it says that their termination   *)
(* is unconfirmed, and so is its task's entry on every path it had opened, *)
(* unless it says that they were not restored: one that a crashed          *)
(* predecessor left there as well.  On a path it did not come to open, an  *)
(* entry of a predecessor stays.                                           *)
Leaving(c) == At(c, "unlock") \/ At(c, "return")
CleanReturn ==
  \A c \in Commands : LET r == run[c] IN
    /\ At(c, "idle") => /\ \A e \in local : e[2] # c
                       /\ \A k \in DOMAIN mutex : mutex[k] # c
    /\ Leaving(c) /\ r.outcome # "unconfirmed" => r.tree = {}
    /\ Leaving(c) /\ ~r.unrestored => \A p \in r.grants \ r.todo : r.task \notin dacl[p]

(* Every call returns: no order of profile, path, local and named locks    *)
(* makes calls wait for each other for ever, whatever fails.               *)
CallsReturn == \A c \in Commands : ~At(c, "idle") ~> At(c, "idle")
================================================================================
