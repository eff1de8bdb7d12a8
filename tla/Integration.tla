------------------------------ MODULE Integration ------------------------------
(***************************************************************************)
(* integration.Manager against one project repository: how a verified      *)
(* candidate is published on the branch the owner has checked out, while   *)
(* the owner keeps working in that checkout, git fails and the daemon      *)
(* crashes.  Every action is one git command or one store transaction; the *)
(* project lock makes `driver' one record, but holds nobody outside MAR.   *)
(***************************************************************************)
EXTENDS TaskStore

CONSTANTS Branches,     \* the owner's branches, all at the tasks' base at first
          NoopTasks,    \* tasks whose verified candidate is their base
          MaxTries,     \* bound on the integration attempts of a task
          MaxFaults     \* bound on crashes, failed git commands, stale evidence

ASSUME IntegrationAssumption ==
  NoopTasks \subseteq Tasks /\ "owner" \notin Tasks /\ "none" \notin Tasks
  /\ Branches # {} /\ MaxTries \in Nat \ {0} /\ MaxFaults \in Nat

VARIABLES
  refs,       \* the revision of each branch
  checkout,   \* the registered root: branch, the revision its index and files hold, edits
  anchors,    \* private refs refs/mar/integrations/*, by attempt
  ref,        \* ExpectedRef of the latest attempt of each task
  tries,      \* attempts of each task so far; <<t, tries[t]>> is the latest
  driver,     \* the goroutine that holds the project lock, see NoDriver
  daemon,     \* "down", "recover" (RecoverPending) or "up"
  pending,    \* RecoverPending's list
  runners,    \* tasks whose runner has yet to call Integrate
  published,  \* history: tasks whose candidate MAR has put on a branch
  faults

gitVars    == <<refs, checkout, anchors>>
daemonVars == <<daemon, pending, runners>>
rowVars    == <<ref, tries>>
intVars    == <<storeVars, gitVars, daemonVars, rowVars, driver, published, faults>>

(* A revision is the set of the commits it has over the base; what a task  *)
(* commits is one element, the owner's own commit is another.              *)
Base         == {}
Commits      == Tasks \cup {"owner"}
Candidate(t) == IF t \in NoopTasks THEN Base ELSE {t}
Noop(t)      == Candidate(t) = Base        \* CandidateRevision = ExpectedHead

(* pc: the next step; retry: RetryBlockedVerifiedIntegration called;       *)
(* anchored: anchorEnsured; advanced: advancedRef; blind: history, the     *)
(* checked-out branch could not be read after publication.                 *)
Steps == {"inspect", "prepare", "refuse", "ref", "head", "clean", "anchor", "dispatch",
          "observe", "restage", "cas", "reconcile", "sync", "match", "readtree", "confirm",
          "release", "finalize", "block", "discard", "unstage"}
NoDriver == [task |-> "none", pc |-> "none", retry |-> FALSE, anchored |-> FALSE,
             advanced |-> FALSE, blind |-> FALSE]
Drive(t, pc, retry) == driver' = [NoDriver EXCEPT !.task = t, !.pc = pc, !.retry = retry]

At(t, pc) == driver.task = t /\ driver.pc = pc
Go(pc)    == driver' = [driver EXCEPT !.pc = pc]
Anchor(t) == <<t, tries[t]>>
Head(t)   == refs[ref[t]]                  \* refHead(ExpectedRef)
Fault     == faults < MaxFaults /\ faults' = faults + 1

(* projectClean compares with HEAD, projectCheckoutMatchesExpectedBase     *)
(* with the base.                                                          *)
ProjectClean == checkout.index = refs[checkout.branch] /\ ~checkout.dirty
MatchesBase  == checkout.index = Base /\ ~checkout.dirty

(* The call returns and the lock is released.  RecoverPending goes on only *)
(* after success, ErrIntegrationBlocked or ErrWorktreeSyncRequired.        *)
Return(tolerated) ==
  /\ driver' = NoDriver
  /\ IF daemon = "recover" /\ ~tolerated
       THEN daemon' = "down" /\ pending' = {} /\ UNCHANGED runners
       ELSE UNCHANGED daemonVars

(* What most steps leave alone.                                            *)
Reads     == UNCHANGED <<storeVars, gitVars, rowVars, published>>
Continues == UNCHANGED <<daemonVars, faults>>

--------------------------------------------------------------------------------
(* Integrate and RetryBlockedVerifiedIntegration up to the prepared row.   *)

(* The branch that is checked out becomes the attempt's ExpectedRef.       *)
Begin(t, retry) ==
  /\ daemon = "up" /\ driver = NoDriver
  /\ tries[t] < MaxTries
  /\ Drive(t, "inspect", retry)
  /\ ref' = [ref EXCEPT ![t] = checkout.branch]
  /\ UNCHANGED <<storeVars, gitVars, tries, published, faults, daemon, pending>>

Integrate(t) == t \in runners /\ Begin(t, FALSE) /\ runners' = runners \ {t}

RetryBlockedVerifiedIntegration(t) ==
  /\ state[t] = "BLOCKED" /\ choice[t] /\ result[t] = "VERIFIED_BLOCKED"
  /\ Begin(t, TRUE) /\ UNCHANGED runners

Inspect(t) ==
  /\ At(t, "inspect")
  /\ Go(IF Head(t) = Base /\ (Noop(t) \/ ProjectClean) THEN "prepare" ELSE "refuse")
  /\ Reads /\ Continues

PrepareAttempt(t) ==
  /\ At(t, "prepare")
  /\ IF driver.retry THEN PrepareBlockedVerifiedIntegrationAttempt(t)
                     ELSE PrepareIntegrationAttempt(t)
  /\ tries' = [tries EXCEPT ![t] = @ + 1]
  /\ Go("ref") /\ UNCHANGED <<gitVars, ref, published>> /\ Continues

Refuse(t) ==
  /\ At(t, "refuse")
  /\ IF driver.retry THEN AcknowledgeBlockedVerifiedIntegrationRetry(t)
                     ELSE BlockVerifiedIntegration(t)
  /\ Return(TRUE) /\ UNCHANGED <<gitVars, rowVars, published, faults>>

(* A cancellation has taken the task away: the transaction conflicts.      *)
StoreConflict(t) ==
  /\ \/ driver.pc \in {"prepare", "refuse"} /\ driver.task = t
     \/ At(t, "block")
  /\ state[t] = "CANCELLED"
  /\ Return(FALSE) /\ UNCHANGED faults /\ Reads

--------------------------------------------------------------------------------
(* driveAttempt on a PREPARED attempt: recheck, stage, dispatch.           *)

Recheck(t, pc, holds, next) ==
  At(t, pc) /\ Go(IF holds THEN next ELSE "block") /\ Reads /\ Continues

CheckRef(t)   == Recheck(t, "ref", checkout.branch = ref[t], "head")
CheckHead(t)  == Recheck(t, "head", Head(t) = Base, IF Noop(t) THEN "dispatch" ELSE "clean")
(* Mutant: the candidate is not staged before the dispatch.                *)
CheckCleanOnly(t) == Recheck(t, "clean", ProjectClean, "dispatch")
CheckClean(t) == Recheck(t, "clean", ProjectClean, "anchor")

EnsureCandidateAnchor(t, pc, next) ==
  /\ At(t, pc)
  /\ anchors' = anchors \cup {Anchor(t)}
  /\ driver' = [driver EXCEPT !.pc = next, !.anchored = TRUE]
  /\ UNCHANGED <<storeVars, refs, checkout, rowVars, published>> /\ Continues

Stage(t)   == EnsureCandidateAnchor(t, "anchor", "dispatch")
Restage(t) == EnsureCandidateAnchor(t, "restage", "cas")

Dispatch(t) ==
  /\ At(t, "dispatch") /\ MarkIntegrationDispatched(t) /\ Go("observe")
  /\ UNCHANGED <<gitVars, rowVars, published>> /\ Continues

(* A cancellation wins before dispatch: what was staged is taken back.     *)
LoseDispatch == IF driver.anchored THEN Go("unstage") /\ UNCHANGED daemonVars ELSE Return(FALSE)
DispatchLost(t) ==
  At(t, "dispatch") /\ state[t] = "CANCELLED" /\ LoseDispatch /\ UNCHANGED faults /\ Reads

--------------------------------------------------------------------------------
(* driveAttempt on a DISPATCHED attempt: compare and swap the branch.      *)

Observe(t) ==
  /\ At(t, "observe")
  /\ \/ Noop(t) /\ Go(IF Head(t) = Base THEN "finalize" ELSE "block")
     \/ ~Noop(t) /\ Head(t) = Base /\ Go(IF driver.anchored THEN "cas" ELSE "restage")
     \/ ~Noop(t) /\ Head(t) # Base /\ Go(IF Head(t) = Candidate(t) THEN "sync" ELSE "block")
  /\ Reads /\ Continues

Advance(t) ==
  /\ refs' = [refs EXCEPT ![ref[t]] = Candidate(t)]
  /\ published' = published \cup {t}
  /\ UNCHANGED <<storeVars, checkout, anchors, rowVars>>
Advanced == driver' = [driver EXCEPT !.pc = "sync", !.advanced = TRUE]

(* Mutant: update-ref without the expected old value.                      *)
UpdateRefBlindly(t) == At(t, "cas") /\ Advance(t) /\ Advanced /\ Continues

UpdateRef(t) == At(t, "cas") /\ Head(t) = Base /\ Advance(t) /\ Advanced /\ Continues

(* The branch has moved, or git fails: before the update or after it.      *)
UpdateRefFails(t) ==
  /\ At(t, "cas") /\ Go("reconcile") /\ UNCHANGED daemonVars
  /\ \/ Head(t) # Base /\ Reads /\ UNCHANGED faults
     \/ Reads /\ Fault
     \/ Head(t) = Base /\ Advance(t) /\ Fault

(* Mutants: any moved branch is taken for the candidate; a failed command  *)
(* is taken for one that had no effect.                                    *)
ReconcileTrusting(t) ==
  /\ At(t, "reconcile")
  /\ IF Head(t) = Base THEN Return(FALSE) ELSE Advanced /\ UNCHANGED daemonVars
  /\ UNCHANGED faults /\ Reads
ReconcileBlocking(t) ==
  At(t, "reconcile") /\ Go("block") /\ Reads /\ Continues

Reconcile(t) ==
  /\ At(t, "reconcile")
  /\ \/ Head(t) = Candidate(t) /\ Advanced /\ UNCHANGED daemonVars
     \/ Head(t) = Base /\ Return(FALSE)
     \/ Head(t) \notin {Base, Candidate(t)} /\ Go("block") /\ UNCHANGED daemonVars
  /\ UNCHANGED faults /\ Reads

--------------------------------------------------------------------------------
(* driveAttempt after publication: synchronise the owner's checkout.       *)

(* Mutant: recovery takes the checkout for synchronised.                   *)
SyncAssumed(t) ==
  /\ At(t, "sync")
  /\ Go(IF checkout.branch # ref[t] \/ ~driver.advanced THEN "release" ELSE "match")
  /\ Reads /\ Continues

Sync(t) ==
  /\ At(t, "sync")
  /\ Go(IF checkout.branch # ref[t] \/ (~driver.advanced /\ ProjectClean)
          THEN "release" ELSE "match")
  /\ Reads /\ Continues

(* A branch that cannot be read is taken for another one; a status that    *)
(* cannot be read is an error.                                             *)
SyncFails(t) ==
  /\ At(t, "sync") /\ Fault /\ Reads
  /\ \/ driver' = [driver EXCEPT !.pc = "release", !.blind = TRUE] /\ UNCHANGED daemonVars
     \/ checkout.branch = ref[t] /\ ~driver.advanced /\ Return(FALSE)

(* ErrWorktreeSyncRequired leaves the attempt DISPATCHED.                  *)
Match(t) ==
  /\ At(t, "match")
  /\ IF MatchesBase THEN Go("readtree") /\ UNCHANGED daemonVars ELSE Return(TRUE)
  /\ UNCHANGED faults /\ Reads

(* Mutant: git reset --hard.                                               *)
ResetHard(t) ==
  /\ At(t, "readtree")
  /\ checkout' = [checkout EXCEPT !.index = Candidate(t), !.dirty = FALSE]
  /\ Go("confirm")
  /\ UNCHANGED <<storeVars, refs, anchors, rowVars, published>> /\ Continues

(* read-tree -m -u base candidate, on whatever is checked out by now: it   *)
(* adds the candidate's changes, or refuses where the owner has some.      *)
ReadTree(t) ==
  /\ At(t, "readtree")
  /\ \/ /\ checkout' = [checkout EXCEPT !.index = @ \cup Candidate(t)]
        /\ Go("confirm") /\ UNCHANGED daemonVars
     \/ ~MatchesBase /\ Return(TRUE) /\ UNCHANGED checkout
  /\ UNCHANGED <<storeVars, refs, anchors, rowVars, published, faults>>

Confirm(t) ==
  /\ At(t, "confirm")
  /\ IF ProjectClean THEN Go("release") /\ UNCHANGED daemonVars ELSE Return(TRUE)
  /\ UNCHANGED faults /\ Reads

DeleteCandidateAnchor(t) ==
  /\ anchors' = anchors \ {Anchor(t)}
  /\ UNCHANGED <<storeVars, refs, checkout, rowVars, published, faults>>

Release(t) == At(t, "release") /\ DeleteCandidateAnchor(t) /\ Go("finalize") /\ UNCHANGED daemonVars
Discard(t) == At(t, "discard") /\ DeleteCandidateAnchor(t) /\ Return(TRUE)
Unstage(t) == At(t, "unstage") /\ DeleteCandidateAnchor(t) /\ Return(FALSE)

Finalize(t) ==
  /\ At(t, "finalize") /\ FinalizeIntegrationApplied(t) /\ Return(TRUE)
  /\ UNCHANGED <<gitVars, rowVars, published, faults>>

(* blockAttempt: the private ref goes after the row, and not with it.      *)
Block(t) ==
  /\ At(t, "block") /\ BlockIntegrationAttempt(t)
  /\ IF Noop(t) THEN Return(TRUE) ELSE Go("discard") /\ UNCHANGED daemonVars
  /\ UNCHANGED <<gitVars, rowVars, published, faults>>

--------------------------------------------------------------------------------
(* Faults, and the daemon.                                                 *)

(* LatestFreshResult no longer answers with the attempt's result.          *)
EvidenceStale(t) ==
  /\ At(t, "ref") \/ At(t, "cas") \/ (At(t, "observe") /\ Noop(t))
  /\ Go("block") /\ Fault /\ Reads /\ UNCHANGED daemonVars

(* A git command or a store transaction returns an error.                  *)
CallFails(t) ==
  /\ driver.task = t /\ Fault /\ Reads
  /\ \/ driver.pc \in {"head", "clean", "anchor", "restage"} /\ Go("block") /\ UNCHANGED daemonVars
     \/ driver.pc \in {"prepare", "refuse", "observe", "reconcile", "match", "confirm",
                       "release", "finalize", "block", "unstage"}
        /\ Return(FALSE)
     \/ driver.pc = "dispatch" /\ LoseDispatch
     \/ driver.pc \in {"readtree", "discard"} /\ Return(TRUE)
     \/ At(t, "inspect") /\ driver.retry /\ Go("refuse") /\ UNCHANGED daemonVars
     \/ At(t, "inspect") /\ ~driver.retry /\ Return(FALSE)

Crash ==
  /\ daemon # "down" /\ Fault
  /\ daemon' = "down" /\ pending' = {} /\ runners' = {} /\ driver' = NoDriver
  /\ Reads

Open(t) == integration[t] \in {"PREPARED", "DISPATCHED"}

DaemonStart ==
  /\ daemon = "down"
  /\ daemon' = "recover"
  /\ pending' = {t \in Tasks : Open(t)}
  /\ UNCHANGED <<runners, driver, faults>> /\ Reads

(* The status is read again under the lock; a settled attempt is skipped.  *)
RecoverPending(t) ==
  /\ daemon = "recover" /\ driver = NoDriver /\ t \in pending /\ Open(t)
  /\ pending' = pending \ {t}
  /\ Drive(t, IF integration[t] = "PREPARED" THEN "ref" ELSE "observe", FALSE)
  /\ UNCHANGED <<daemon, runners, faults>> /\ Reads

RecoverPendingDone ==
  /\ daemon = "recover" /\ driver = NoDriver /\ ~ \E t \in pending : Open(t)
  /\ daemon' = "up" /\ pending' = {}
  /\ UNCHANGED <<runners, driver, faults>> /\ Reads

--------------------------------------------------------------------------------
(* The owner, at any time: edits, git in the registered root, and controls.*)

OwnerGit == UNCHANGED <<storeVars, anchors, rowVars, daemonVars, driver, published, faults>>

Edit   == ~checkout.dirty /\ checkout' = [checkout EXCEPT !.dirty = TRUE]
          /\ UNCHANGED refs /\ OwnerGit
(* What the owner commits is taken to hold on top of the branch.           *)
Commit ==
  LET head == refs[checkout.branch] \cup {"owner"} IN
    /\ checkout.dirty /\ "owner" \notin refs[checkout.branch]
    /\ refs' = [refs EXCEPT ![checkout.branch] = head]
    /\ checkout' = [checkout EXCEPT !.index = head, !.dirty = FALSE]
    /\ OwnerGit
(* git reset --hard, to the branch or back to the base.                    *)
Reset ==
  \E head \in {refs[checkout.branch], Base} :
    /\ refs' = [refs EXCEPT ![checkout.branch] = head]
    /\ checkout' = [checkout EXCEPT !.index = head, !.dirty = FALSE]
    /\ OwnerGit
(* git switch keeps edits and refuses to lose what is staged.              *)
Switch ==
  \E b \in Branches \ {checkout.branch} :
    /\ checkout.index \in {refs[checkout.branch], refs[b]}
    /\ checkout' = [checkout EXCEPT !.branch = b, !.index = refs[b]]
    /\ UNCHANGED refs /\ OwnerGit

OwnerControl(t) ==
  /\ RequestTaskCancellation(t) \/ (state[t] = "BLOCKED" /\ ~choice[t] /\ Steer(t, TRUE))
  /\ UNCHANGED <<gitVars, rowVars, daemonVars, driver, published, faults>>

--------------------------------------------------------------------------------
(* Every task has just been verified: its attempt is terminated and its    *)
(* workspace is READY at the candidate.                                    *)
ManagerInit ==
  /\ state         = [t \in Tasks |-> "VERIFIED"]
  /\ epoch         = [t \in Tasks |-> 1]
  /\ authority     = [t \in Tasks |-> [e \in Epochs |->
                        IF e = 1 THEN "PHYSICALLY_TERMINATED" ELSE "NONE"]]
  /\ cancelControl = [t \in Tasks |-> FALSE]
  /\ choice        = [t \in Tasks |-> FALSE]
  /\ workspace     = [t \in Tasks |-> "READY"]
  /\ result        = [t \in Tasks |-> "VERIFIED"]
  /\ integration   = [t \in Tasks |-> "NONE"]
  /\ refs          = [b \in Branches |-> Base]
  /\ checkout = [branch |-> CHOOSE b \in Branches : TRUE, index |-> Base, dirty |-> FALSE]
  /\ anchors = {} /\ ref \in [Tasks -> {checkout.branch}] /\ tries = [t \in Tasks |-> 0]
  /\ driver = NoDriver /\ daemon = "up" /\ pending = {} /\ runners = Tasks
  /\ published = {} /\ faults = 0

DriverStep(t) ==
  \/ Inspect(t) \/ PrepareAttempt(t) \/ Refuse(t) \/ StoreConflict(t)
  \/ CheckRef(t) \/ CheckHead(t) \/ CheckClean(t) \/ Stage(t) \/ Dispatch(t) \/ DispatchLost(t)
  \/ Observe(t) \/ Restage(t) \/ UpdateRef(t) \/ UpdateRefFails(t) \/ Reconcile(t)
  \/ Sync(t) \/ Match(t) \/ ReadTree(t) \/ Confirm(t) \/ Release(t) \/ Finalize(t)
  \/ Block(t) \/ Discard(t) \/ Unstage(t) \/ EvidenceStale(t) \/ CallFails(t) \/ SyncFails(t)

ManagerNext ==
  \/ \E t \in Tasks : \/ Integrate(t) \/ RetryBlockedVerifiedIntegration(t)
                      \/ RecoverPending(t) \/ DriverStep(t) \/ OwnerControl(t)
  \/ Crash \/ DaemonStart \/ RecoverPendingDone
  \/ Edit \/ Commit \/ Reset \/ Switch

ManagerSpec == ManagerInit /\ [][ManagerNext]_intVars

--------------------------------------------------------------------------------
(* From the dispatch until the branch holds it, the exact candidate commit *)
(* is anchored by the attempt's private ref, crashes included.             *)
AnchoredUntilPublished ==
  \A t \in Tasks :
    integration[t] = "DISPATCHED" /\ ~Noop(t) /\ t \notin published => Anchor(t) \in anchors

(* A task is reported COMPLETE only if MAR has put its candidate on the    *)
(* branch, whatever failed and whatever the owner did to the branch.       *)
CompletePublished ==
  \A t \in Tasks : state[t] = "COMPLETE" => Noop(t) \/ t \in published

(* Publication never drops a commit from a branch: one the owner, or       *)
(* another task, has added since the checks makes the update fail.         *)
PublishKeepsCommits ==
  [][driver' # driver => \A b \in Branches : refs[b] \subseteq refs'[b]]_intVars

(* A candidate reaches a branch only while its task is INTEGRATING: a      *)
(* cancellation the owner was granted before the dispatch is never         *)
(* followed by a publication.                                              *)
PublishOnlyIntegrating ==
  [][\A b \in Branches : refs'[b] # refs[b] /\ driver' # driver =>
       state[driver.task] = "INTEGRATING" /\ ~cancelControl[driver.task]]_intVars

(* An attempt whose candidate is what the branch holds is never reported   *)
(* BLOCKED, even if the command that put it there was reported to fail.    *)
PublishedNotBlocked ==
  [][\A t \in Tasks : integration[t] = "DISPATCHED" /\ integration'[t] = "BLOCKED" =>
       Noop(t) \/ Head(t) # Candidate(t)]_intVars

(* No step of MAR discards the owner's edits or takes anything out of the  *)
(* owner's index and files.                                                *)
OwnerWorkKept ==
  [][driver' # driver => /\ checkout.dirty => checkout'.dirty
                         /\ checkout.index \subseteq checkout'.index]_intVars

(* A task is not reported COMPLETE while the owner's checkout of the       *)
(* published branch still holds the base, where the next commit would undo *)
(* the candidate; unless the branch could not even be read.                *)
CompleteInSync ==
  [][\A t \in Tasks : integration[t] = "DISPATCHED" /\ integration'[t] = "COMPLETE" =>
       driver.blind \/ Noop(t) \/ checkout.branch # ref[t]
         \/ Head(t) # Candidate(t) \/ checkout.index # Base]_intVars
================================================================================
