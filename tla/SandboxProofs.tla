------------------------------ MODULE SandboxProofs ------------------------------
(***************************************************************************)
(* Proofs about Sandbox, for any callers, tasks, processes and paths, and  *)
(* any number of commands and faults.  All rests on who holds which mutex: *)
(* that of a task's profile is held from before its first grant until the  *)
(* last is taken back, so that nobody else edits the entries of this task, *)
(* and that of a path from the reading of its DACL until the writing, so   *)
(* that no entry of another task is lost in between.                       *)
(***************************************************************************)
EXTENDS Sandbox, FiniteSetTheorems, WellFoundedInduction, TLAPS

Keys     == Tasks \cup Paths
Pcs      == {"idle", "local", "named", "ensure", "derive", "read", "write", "launch", "wait",
             "confirm", "terminate", "settle", "delete", "unlock", "return"}
Outcomes == {"none", "error", "exit", "ok", "cancelled", "unconfirmed"}
Runs == [pc : Pcs, phase : {"profile", "grant", "revoke"}, task : Tasks \cup {none},
         process : Processes \cup {none}, grants : SUBSET Paths, path : Paths \cup {0},
         todo : SUBSET Paths, restores : SUBSET Paths, snapshot : SUBSET Tasks,
         tree : SUBSET {"root", "child"}, killed : BOOLEAN, late : BOOLEAN,
         exit : {"none", "zero", "nonzero"}, outcome : Outcomes, unrestored : BOOLEAN]

TypeOK ==
  /\ run \in [Commands -> Runs]
  /\ local \subseteq Keys \X Commands
  /\ mutex \in [Keys -> Commands \cup {none}]
  /\ dacl \in [Paths -> SUBSET Tasks]
  /\ profiles \subseteq Tasks
  /\ runs \in Nat /\ faults \in Nat

(* Where a call is.                                                        *)
Locking(r)  == r.pc \in {"local", "named"}
Editing(r)  == r.pc \in {"read", "write"}
Running(r)  == r.pc \in {"wait", "terminate", "settle", "confirm"}
Fresh(r)    == r.pc = "ensure" \/ (Locking(r) /\ r.phase = "profile")
Granting(r) == (Locking(r) \/ Editing(r)) /\ r.phase = "grant"
Revoking(r) == (Locking(r) \/ Editing(r)) /\ r.phase = "revoke"

(* From when it has its profile until its command is over.                 *)
Opening(r) == Granting(r) \/ Running(r) \/ r.pc \in {"derive", "launch"}
(* From when it has the mutex of its profile.                              *)
Holding(r) == r.pc # "idle" /\ ~(Locking(r) /\ r.phase = "profile") /\ ~Contained(r)

(* The record of a call is that of the place it is at.                     *)
Shaped(r) ==
  /\ r.todo \subseteq r.grants /\ r.restores \subseteq r.grants
  /\ Contained(r) => r.grants = {} /\ (Running(r) \/ r.pc \in {"idle", "launch", "return"})
  /\ r.pc \in {"ensure", "derive", "delete", "unlock", "return"} => r.phase = "profile"
  /\ r.pc \in {"idle", "return"} => Contained(r)
  /\ Editing(r) => r.phase # "profile"
  /\ Granting(r) => r.path \in r.todo
  /\ Revoking(r) => r.path \in r.restores
  /\ Fresh(r) \/ r.pc = "derive" => r.todo = r.grants /\ r.restores = {}
  /\ Fresh(r) \/ Granting(r) \/ r.pc = "derive" => r.outcome = "none"
  /\ r.pc = "launch" \/ Running(r) => r.todo = {}
  /\ Opening(r) => r.restores \cup r.todo = r.grants
  /\ r.pc \in {"delete", "unlock", "return"} => r.restores = {}
  /\ r.pc # "idle" /\ ~Running(r) => r.tree = {} \/ (r.killed /\ r.outcome = "unconfirmed")
  /\ Fresh(r) \/ Granting(r) \/ r.pc \in {"derive", "launch"} => r.tree = {}

(* What a call has of the locks, and what it must have.                    *)
MayHave(r, k) ==
  \/ /\ k = r.task /\ ~Contained(r) /\ r.pc # "idle"
     /\ r.phase = "profile" => r.pc # "local"
  \/ k = r.path /\ r.phase # "profile" /\ (r.pc = "named" \/ Editing(r))
LocksHeld(c) ==
  LET r == run[c] IN
    /\ \A k \in Keys : <<k, c>> \in local => MayHave(r, k)
    /\ \A k \in Keys : mutex[k] = c => MayHave(r, k)
    /\ Holding(r) => mutex[r.task] = c
    /\ Editing(r) => mutex[r.path] = c

(* What a call finds in profiles and access lists is what it left there.   *)
Access(c) ==
  LET r == run[c] IN
    /\ r.pc = "write" => r.snapshot = dacl[r.path]
    /\ ~Contained(r) /\ Opening(r) =>
         r.task \in profiles /\ \A p \in r.restores : r.task \in dacl[p]
    /\ Holding(r) /\ ~r.unrestored =>
         \A p \in r.grants \ (r.todo \cup r.restores) : r.task \notin dacl[p]

SInv == TypeOK /\ \A c \in Commands : Shaped(run[c]) /\ LocksHeld(c) /\ Access(c)

--------------------------------------------------------------------------------
(* A finite set of numbers has a least and a greatest element: of the sets *)
(* of what is below, or above, an element there is a smallest one.         *)
Smaller(Y, X) == Y \subseteq X /\ Y # X

LEMMA SmallestOf ==
  ASSUME NEW S, IsFiniteSet(S), NEW F \in SUBSET (SUBSET S), F # {}
  PROVE  \E X \in F : \A Y \in F : ~Smaller(Y, X)
<1>1. IsWellFoundedOn(StrictSubsetOrdering(S), SUBSET S)
  BY FS_StrictSubsetOrderingWellFounded, FS_FiniteSubsetsOfFinite
<1>2. PICK X \in F : \A Y \in F : ~(<<Y, X>> \in StrictSubsetOrdering(S))
  BY <1>1, WFMin
<1>3. ASSUME NEW Y \in F, Smaller(Y, X) PROVE FALSE
  <2>1. <<Y, X>> \in StrictSubsetOrdering(S)
    BY <1>3 DEF StrictSubsetOrdering, Smaller
  <2> QED
    BY <1>2, <2>1
<1> QED
  BY <1>3

LEMMA MinMax ==
  ASSUME NEW S \in SUBSET Paths, S # {}
  PROVE  Min(S) \in S /\ Max(S) \in S
<1>1. IsFiniteSet(S) /\ S \subseteq Nat
  BY SandboxAssumption, FS_Subset DEF SandboxAssumption
<1>2. \E x \in S : \A y \in S : x <= y
  <2> DEFINE Below(y) == {x \in S : x < y}
  <2>1. PICK y \in S : \A z \in S : ~Smaller(Below(z), Below(y))
    <3> DEFINE F == {Below(y) : y \in S}
    <3>0. \A y \in S : Below(y) \in SUBSET S
      OBVIOUS
    <3> HIDE DEF Below
    <3>1. F \in SUBSET (SUBSET S) /\ F # {}
      BY <3>0
    <3> HIDE DEF F
    <3>2. PICK X \in F : \A Y \in F : ~Smaller(Y, X)
      BY <1>1, <3>1, SmallestOf
    <3>3. PICK y \in S : X = Below(y)
      BY DEF F
    <3>4. \A z \in S : Below(z) \in F
      BY DEF F
    <3> QED
      BY <3>2, <3>3, <3>4
  <2>2. ASSUME NEW z \in S, z < y PROVE FALSE
    <3>1. \A x \in Below(z) : x \in Below(y)
      BY <1>1, <2>2
    <3>2. z \in Below(y) /\ z \notin Below(z)
      BY <1>1, <2>2
    <3> HIDE DEF Below
    <3> QED
      BY <2>1, <3>1, <3>2 DEF Smaller
  <2> QED
    BY <1>1, <2>2
<1>3. \E x \in S : \A y \in S : x >= y
  <2> DEFINE Above(y) == {x \in S : x > y}
  <2>1. PICK y \in S : \A z \in S : ~Smaller(Above(z), Above(y))
    <3> DEFINE F == {Above(y) : y \in S}
    <3>0. \A y \in S : Above(y) \in SUBSET S
      OBVIOUS
    <3> HIDE DEF Above
    <3>1. F \in SUBSET (SUBSET S) /\ F # {}
      BY <3>0
    <3> HIDE DEF F
    <3>2. PICK X \in F : \A Y \in F : ~Smaller(Y, X)
      BY <1>1, <3>1, SmallestOf
    <3>3. PICK y \in S : X = Above(y)
      BY DEF F
    <3>4. \A z \in S : Above(z) \in F
      BY DEF F
    <3> QED
      BY <3>2, <3>3, <3>4
  <2>2. ASSUME NEW z \in S, z > y PROVE FALSE
    <3>1. \A x \in Above(z) : x \in Above(y)
      BY <1>1, <2>2
    <3>2. z \in Above(y) /\ z \notin Above(z)
      BY <1>1, <2>2
    <3> HIDE DEF Above
    <3> QED
      BY <2>1, <3>1, <3>2 DEF Smaller
  <2> QED
    BY <1>1, <2>2
<1> QED
  BY <1>2, <1>3 DEF Min, Max

--------------------------------------------------------------------------------
(* The records a call goes through.                                        *)
Who(r, s)  == s.task = r.task /\ s.process = r.process /\ s.grants = r.grants
Plan(r, s) == s.todo = r.todo /\ s.restores = r.restores /\ s.unrestored = r.unrestored
Tree(r, s) == s.tree = r.tree /\ s.killed = r.killed /\ s.outcome = r.outcome

LEMMA NextGrantIs ==
  ASSUME NEW r \in Runs
  PROVE  LET s == NextGrant(r) IN
         /\ s \in Runs /\ Who(r, s) /\ Plan(r, s) /\ Tree(r, s)
         /\ \/ r.todo = {} /\ s.pc = "launch"
            \/ s.pc = "local" /\ s.phase = "grant" /\ s.path \in r.todo
<1>1. r.todo # {} => Min(r.todo) \in r.todo /\ Min(r.todo) \in Paths
  BY MinMax DEF Runs
<1> QED
  BY <1>1 DEF NextGrant, Lock, Runs, Who, Plan, Tree, Pcs

LEMMA NextRevokeIs ==
  ASSUME NEW r \in Runs
  PROVE  LET s == NextRevoke(r) IN
         /\ s \in Runs /\ Who(r, s) /\ Plan(r, s) /\ Tree(r, s)
         /\ \/ s.pc = "local" /\ s.phase = "revoke" /\ s.path \in r.restores
            \/ /\ r.restores = {} /\ s.phase = "profile"
               /\ s.pc = IF Contained(r) THEN "return" ELSE "delete"
<1>1. r.restores # {} => Max(r.restores) \in r.restores /\ Max(r.restores) \in Paths
  BY MinMax DEF Runs
<1>2. CASE r.restores # {}
  BY <1>1, <1>2 DEF NextRevoke, Lock, Runs, Who, Plan, Tree, Pcs
<1>3. CASE r.restores = {} /\ Contained(r)
  BY <1>3 DEF NextRevoke, Runs, Who, Plan, Tree, Pcs
<1>4. CASE r.restores = {} /\ ~Contained(r)
  BY <1>4 DEF NextRevoke, Runs, Who, Plan, Tree, Pcs
<1> QED
  BY <1>2, <1>3, <1>4

LEMMA FinishIs ==
  ASSUME NEW r \in Runs, NEW outcome \in Outcomes
  PROVE  LET s == Finish(r, outcome) IN
         /\ s \in Runs /\ Who(r, s) /\ Plan(r, s)
         /\ s.tree = r.tree /\ s.killed /\ s.outcome = outcome
         /\ \/ s.pc = "local" /\ s.phase = "revoke" /\ s.path \in r.restores
            \/ /\ r.restores = {} /\ s.phase = "profile"
               /\ s.pc = IF Contained(r) THEN "return" ELSE "delete"
<1> DEFINE q == [r EXCEPT !.outcome = outcome, !.killed = TRUE, !.late = FALSE, !.exit = "none"]
<1>1. /\ q \in Runs /\ Who(r, q) /\ Plan(r, q) /\ q.tree = r.tree /\ q.killed
      /\ q.outcome = outcome
  BY DEF Runs, Who, Plan
<1> HIDE DEF q
<1>2. Finish(r, outcome) = NextRevoke(q)
  BY DEF Finish, q
<1> QED
  BY <1>1, <1>2, NextRevokeIs DEF Who, Plan, Tree, Contained

--------------------------------------------------------------------------------
(* Where these records may lead to.                                        *)
Rooted(r) == /\ r.todo \subseteq r.grants /\ r.restores \subseteq r.grants
             /\ Contained(r) => r.grants = {}

LEMMA GrantShaped ==
  ASSUME NEW r \in Runs, Rooted(r), ~Contained(r), r.restores \cup r.todo = r.grants,
         r.outcome = "none", r.tree = {}
  PROVE  Shaped(NextGrant(r))
<1> DEFINE s == NextGrant(r)
<1>1. /\ Who(r, s) /\ Plan(r, s) /\ Tree(r, s)
      /\ \/ r.todo = {} /\ s.pc = "launch"
         \/ s.pc = "local" /\ s.phase = "grant" /\ s.path \in r.todo
  BY NextGrantIs
<1> HIDE DEF s
<1>2. Shaped(s)
  BY <1>1 DEF Rooted, Shaped, Who, Plan, Tree, Contained, Locking, Editing, Running, Fresh,
     Granting, Revoking, Opening
<1> QED
  BY <1>2 DEF s

LEMMA RevokeShaped ==
  ASSUME NEW r \in Runs, Rooted(r), NEW s, Who(r, s), s.restores = r.restores, s.todo = r.todo,
         s.tree = {} \/ (s.killed /\ s.outcome = "unconfirmed"),
         \/ s.pc = "local" /\ s.phase = "revoke" /\ s.path \in r.restores
         \/ /\ r.restores = {} /\ s.phase = "profile"
            /\ s.pc = IF Contained(r) THEN "return" ELSE "delete"
  PROVE  Shaped(s)
BY DEF Rooted, Shaped, Who, Contained, Locking, Editing, Running, Fresh, Granting, Revoking, Opening

--------------------------------------------------------------------------------
(* A step of one call: what it leaves of the others, and what it must      *)
(* establish of its own.                                                   *)
Alone(c) == run' \in [Commands -> Runs] /\ \A d \in Commands \ {c} : run'[d] = run[d]

LEMMA UpdateIs ==
  ASSUME TypeOK, NEW c \in Commands, NEW s \in Runs, Update(c, s)
  PROVE  Alone(c) /\ run'[c] = s
BY DEF TypeOK, Update, Alone

LEMMA GoIs ==
  ASSUME TypeOK, NEW c \in Commands, NEW pc \in Pcs, Go(c, pc)
  PROVE  Alone(c) /\ run'[c] = [run[c] EXCEPT !.pc = pc]
<1>1. run[c] \in Runs /\ [run[c] EXCEPT !.pc = pc] \in Runs
  BY DEF TypeOK, Runs
<1>2. run' = [run EXCEPT ![c] = [run[c] EXCEPT !.pc = pc]]
  BY <1>1 DEF Go, TypeOK
<1> QED
  BY <1>1, <1>2 DEF TypeOK, Alone

(* Locks move from nobody to the call and back; entries change only of its *)
(* task, and only where it has the mutexes.                                *)
Elsewhere(c) ==
  LET r == run[c] IN
    /\ \A d \in Commands \ {c}, k \in Keys :
         /\ <<k, d>> \in local' => <<k, d>> \in local
         /\ mutex'[k] = d <=> mutex[k] = d
    /\ \A p \in Paths : dacl'[p] = dacl[p] \/ (r.pc = "write" /\ p = r.path)
    /\ \A t \in Tasks :
         \/ t = r.task /\ Holding(r)
         \/ /\ \A p \in Paths : t \in dacl'[p] <=> t \in dacl[p]
            /\ t \in profiles => t \in profiles'

Own(c) == Shaped(run[c])' /\ LocksHeld(c)' /\ Access(c)'

(* Two calls past the mutex of their profiles are of different tasks.      *)
LEMMA DifferentTasks ==
  ASSUME SInv, NEW c \in Commands, NEW d \in Commands \ {c}, Holding(run[c]), Holding(run[d])
  PROVE  run[c].task # run[d].task
BY DEF SInv, LocksHeld

LEMMA OpeningHolds ==
  ASSUME NEW r \in Runs, Opening(r), ~Contained(r)
  PROVE  Holding(r) /\ r.task \in Tasks
BY DEF Runs, Opening, Holding, Contained, Locking, Editing, Granting, Running

LEMMA OthersKeep ==
  ASSUME SInv, NEW c \in Commands, Alone(c), Elsewhere(c), NEW d \in Commands \ {c}
  PROVE  Own(d)
<1> DEFINE r == run[d]
<1>1. run'[d] = r /\ r \in Runs /\ Shaped(r) /\ LocksHeld(d) /\ Access(d)
  BY DEF SInv, TypeOK, Alone
<1>2. Shaped(run[d])'
  BY <1>1 DEF Shaped, Contained, Locking, Editing, Running, Fresh, Granting, Revoking, Opening
<1>3. LocksHeld(d)'
  <2>1. /\ Holding(run'[d]) = Holding(r) /\ Editing(run'[d]) = Editing(r)
        /\ \A k : MayHave(run'[d], k) = MayHave(r, k)
    BY <1>1
  <2>2. Holding(r) => r.task \in Keys
    BY <1>1 DEF Holding, Contained, Runs, Keys
  <2>3. Editing(r) => r.path \in Keys
    BY <1>1 DEF Shaped, Granting, Revoking, Editing, Runs, Keys
  <2>4. \A k \in Keys : /\ <<k, d>> \in local' => <<k, d>> \in local
                        /\ mutex'[k] = d <=> mutex[k] = d
    BY DEF Elsewhere
  <2> QED
    BY <1>1, <2>1, <2>2, <2>3, <2>4 DEF LocksHeld
<1>4. Access(d)'
  <2>1. r.pc = "write" => r.snapshot = dacl'[r.path]
    <3>1. ASSUME r.pc = "write" PROVE mutex[r.path] = d /\ r.path \in Paths
      BY <1>1, <3>1 DEF LocksHeld, Editing, Shaped, Granting, Revoking, Runs
    <3>2. ASSUME run[c].pc = "write" PROVE mutex[run[c].path] = c
      BY <3>2 DEF SInv, LocksHeld, Editing
    <3> QED
      BY <1>1, <3>1, <3>2 DEF Elsewhere, Access
  <2>2. ASSUME Holding(r) PROVE r.task \in Tasks /\ ~(r.task = run[c].task /\ Holding(run[c]))
    BY <1>1, <2>2, DifferentTasks DEF Holding, Contained, Runs
  <2>3. ASSUME Opening(r), ~Contained(r)
        PROVE  r.task \in profiles' /\ \A p \in r.restores : r.task \in dacl'[p]
    <3>1. Holding(r) /\ r.restores \subseteq Paths
      BY <1>1, <2>3, OpeningHolds DEF Runs
    <3> QED
      BY <1>1, <2>2, <2>3, <3>1 DEF Elsewhere, Access
  <2>4. ASSUME Holding(r), ~r.unrestored, NEW p \in r.grants \ (r.todo \cup r.restores)
        PROVE  r.task \notin dacl'[p]
    <3>1. p \in Paths
      BY <1>1, <2>4 DEF Runs
    <3> QED
      BY <1>1, <2>2, <2>4, <3>1 DEF Elsewhere, Access
  <2> QED
    BY <1>1, <2>1, <2>3, <2>4 DEF Access, Contained, Opening, Granting, Running, Holding, Locking, Editing
<1> QED
  BY <1>2, <1>3, <1>4 DEF Own

LEMMA StepKeeps ==
  ASSUME SInv, NEW c \in Commands, Alone(c), Elsewhere(c), TypeOK', Own(c)
  PROVE  SInv'
<1>1. ASSUME NEW d \in Commands PROVE Own(d)
  BY OthersKeep
<1> QED
  BY <1>1 DEF SInv, Own

--------------------------------------------------------------------------------
(* Steps that touch no lock, no profile and no list.                       *)
LEMMA QuietElsewhere ==
  ASSUME SInv, NEW c \in Commands, Alone(c), UNCHANGED <<locks, dacl, profiles>>,
         runs' \in Nat, faults' \in Nat
  PROVE  Elsewhere(c) /\ TypeOK'
BY DEF SInv, TypeOK, Alone, Elsewhere, locks

(* A call whose command is launched, runs, or is over.                     *)
LEMMA CommandKeeps ==
  ASSUME SInv, NEW c \in Commands, Alone(c), Shut, faults' \in Nat,
         run[c].pc = "launch" \/ Running(run[c]),
         Who(run[c], run'[c]), Plan(run[c], run'[c]), Shaped(run'[c]),
         \/ Running(run'[c]) \/ run'[c].pc \in {"delete", "return"}
         \/ run'[c].pc = "local" /\ run'[c].phase = "revoke"
  PROVE  SInv'
<1> DEFINE r == run[c]
           s == run'[c]
<1>1. r \in Runs /\ s \in Runs /\ Shaped(r) /\ LocksHeld(c) /\ Access(c)
  BY DEF SInv, TypeOK, Alone
<1>2. UNCHANGED <<local, mutex, dacl, profiles>> /\ runs' \in Nat
  BY DEF Shut, locks, SInv, TypeOK
<1>3. Elsewhere(c) /\ TypeOK'
  BY <1>2, QuietElsewhere DEF locks
<1>4. /\ ~Editing(s) /\ (Holding(s) <=> ~Contained(s)) /\ (Holding(r) <=> ~Contained(r))
      /\ s.pc # "write" /\ s.task = r.task
  BY DEF Running, Editing, Locking, Holding, Who
<1>5. \A k : MayHave(r, k) => MayHave(s, k)
  BY DEF Running, Editing, MayHave, Contained, Who
<1>6. LocksHeld(c)'
  BY <1>1, <1>2, <1>4, <1>5 DEF LocksHeld, Contained
<1>7. Opening(r)
  BY DEF Opening, Running
<1>8. Access(c)'
  BY <1>1, <1>2, <1>4, <1>7 DEF Access, Contained, Who, Plan
<1> QED
  BY <1>3, <1>6, <1>8, StepKeeps DEF Own

(* The end of a command, whatever comes of it.                             *)
LEMMA FinishKeeps ==
  ASSUME SInv, NEW c \in Commands, NEW outcome \in Outcomes, Update(c, Finish(run[c], outcome)),
         Shut, faults' \in Nat, run[c].pc = "launch" \/ Running(run[c]),
         run[c].tree = {} \/ outcome = "unconfirmed"
  PROVE  SInv'
<1> DEFINE r == run[c]
           s == Finish(r, outcome)
<1>1. r \in Runs /\ Shaped(r)
  BY DEF SInv, TypeOK
<1>2. /\ s \in Runs /\ Who(r, s) /\ Plan(r, s)
      /\ s.tree = r.tree /\ s.killed /\ s.outcome = outcome
      /\ \/ s.pc = "local" /\ s.phase = "revoke" /\ s.path \in r.restores
         \/ /\ r.restores = {} /\ s.phase = "profile"
            /\ s.pc = IF Contained(r) THEN "return" ELSE "delete"
  BY <1>1, FinishIs
<1> HIDE DEF s
<1>3. Alone(c) /\ run'[c] = s
  BY <1>2, UpdateIs DEF SInv, s
<1>4. Rooted(r)
  BY <1>1 DEF Shaped, Rooted
<1>5. Shaped(s)
  BY <1>1, <1>2, <1>4, RevokeShaped DEF Plan
<1> QED
  BY <1>2, <1>3, <1>5, CommandKeeps

(* The command goes on.                                                    *)
LEMMA GoesOn ==
  ASSUME SInv, NEW c \in Commands, NEW s \in Runs, Update(c, s), Shut, faults' \in Nat,
         run[c].pc = "launch" \/ Running(run[c]), Running(s),
         Who(run[c], s), Plan(run[c], s)
  PROVE  SInv'
<1>1. run[c] \in Runs /\ Shaped(run[c]) /\ Alone(c) /\ run'[c] = s
  BY UpdateIs DEF SInv, TypeOK
<1>2. Shaped(s)
  BY <1>1 DEF Shaped, Who, Plan, Contained, Locking, Editing, Running, Fresh, Granting, Revoking,
     Opening
<1> QED
  BY <1>1, <1>2, CommandKeeps

LEMMA FaultTyped ==
  ASSUME TypeOK, Fault \/ NoFault
  PROVE  faults' \in Nat
BY DEF TypeOK, Fault, NoFault

LEMMA ConfirmIs ==
  ASSUME NEW r \in Runs, NEW outcome \in {"cancelled", "exit"}, NEW killed \in BOOLEAN
  PROVE  LET s == [r EXCEPT !.pc = "confirm", !.outcome = outcome, !.killed = killed] IN
         s \in Runs /\ Running(s) /\ Who(r, s) /\ Plan(r, s)
<1>1. "confirm" \in Pcs /\ outcome \in Outcomes
  BY DEF Pcs, Outcomes
<1> QED
  BY <1>1 DEF Runs, Running, Who, Plan

LEMMA LateIs ==
  ASSUME NEW r \in Runs, NEW late \in BOOLEAN
  PROVE  LET s == [r EXCEPT !.pc = "confirm", !.outcome = "cancelled", !.killed = TRUE,
                            !.late = late]
         IN  s \in Runs /\ Running(s) /\ Who(r, s) /\ Plan(r, s)
<1>1. "confirm" \in Pcs /\ "cancelled" \in Outcomes
  BY DEF Pcs, Outcomes
<1> QED
  BY <1>1 DEF Runs, Running, Who, Plan

LEMMA CommandSteps ==
  ASSUME SInv, NEW c \in Commands,
         \/ Launch(c) \/ WaitRoot(c) \/ WaitCancelled(c) \/ Terminate(c) \/ Settle(c)
         \/ SettleCancelled(c) \/ TerminateContained(c) \/ Confirm(c) \/ ConfirmTimesOut(c)
  PROVE  SInv'
<1> DEFINE r == run[c]
<1>1. r \in Runs /\ Shaped(r) /\ TypeOK
  BY DEF SInv, TypeOK
<1>2. Shut /\ faults' \in Nat
  BY <1>1, FaultTyped DEF Launch, WaitRoot, WaitCancelled, Terminate, Settle, SettleCancelled,
     TerminateContained, Confirm, ConfirmTimesOut
<1>3. r.pc = "launch" \/ Running(r)
  BY DEF Launch, WaitRoot, WaitCancelled, Terminate, Settle, SettleCancelled,
     TerminateContained, Confirm, ConfirmTimesOut, At, Running
<1>4. CASE \E outcome \in Outcomes : /\ Update(c, Finish(r, outcome))
                                     /\ r.tree = {} \/ outcome = "unconfirmed"
  BY <1>2, <1>3, <1>4, FinishKeeps
<1>5. CASE \E s \in Runs : Update(c, s) /\ Running(s) /\ Who(r, s) /\ Plan(r, s)
  BY <1>2, <1>3, <1>5, GoesOn
<1>6. CASE Launch(c)
  <2>1. r.tree = {}
    BY <1>1, <1>6 DEF Launch, At, Shaped
  <2>2. [r EXCEPT !.pc = "wait", !.tree = {"root"}] \in Runs
    BY <1>1 DEF Runs, Pcs
  <2> QED
    BY <1>1, <1>4, <1>5, <1>6, <2>1, <2>2 DEF Launch, Outcomes, Running, Who, Plan, Runs
<1>7. CASE WaitRoot(c)
  <2>1. PICK pc \in {"terminate", "settle"} : Go(c, pc)
    BY <1>7 DEF WaitRoot
  <2>2. [r EXCEPT !.pc = pc] \in Runs
    BY <1>1 DEF Runs, Pcs
  <2>3. Update(c, [r EXCEPT !.pc = pc])
    BY <1>1, <2>1 DEF Go, Update, TypeOK
  <2> QED
    BY <1>1, <1>5, <2>2, <2>3 DEF Running, Who, Plan, Runs
<1>8. CASE WaitCancelled(c)
  BY <1>1, <1>5, <1>8, ConfirmIs DEF WaitCancelled
<1>9. CASE Terminate(c)
  BY <1>1, <1>4, <1>5, <1>9, ConfirmIs DEF Terminate, Outcomes
<1>10. CASE SettleCancelled(c)
  BY <1>1, <1>4, <1>5, <1>10, LateIs DEF SettleCancelled, Outcomes
<1>11. CASE TerminateContained(c)
  BY <1>1, <1>4, <1>5, <1>11, ConfirmIs DEF TerminateContained, Outcomes
<1>12. CASE Settle(c) \/ Confirm(c) \/ ConfirmTimesOut(c)
  <2>1. r.outcome \in Outcomes
    BY <1>1 DEF Runs
  <2> QED
    BY <1>4, <1>12, <2>1 DEF Settle, Confirm, ConfirmTimesOut, Outcomes
<1> QED
  BY <1>6, <1>7, <1>8, <1>9, <1>10, <1>11, <1>12

(* Processes come and go by themselves.                                    *)
LEMMA TreeKeeps ==
  ASSUME SInv, NEW c \in Commands, Alone(c), Shut, faults' \in Nat,
         \E tree \in SUBSET {"root", "child"}, exit \in {"none", "zero", "nonzero"} :
           /\ run'[c] = [run[c] EXCEPT !.tree = tree, !.exit = exit]
           /\ run[c].tree = {} => tree = {}
           /\ ~run[c].killed \/ tree \subseteq run[c].tree
  PROVE  SInv'
<1> DEFINE r == run[c]
           s == run'[c]
<1>1. r \in Runs /\ s \in Runs /\ Shaped(r) /\ LocksHeld(c) /\ Access(c)
  BY DEF SInv, TypeOK, Alone
<1>2. UNCHANGED <<local, mutex, dacl, profiles>> /\ runs' \in Nat
  BY DEF Shut, locks, SInv, TypeOK
<1>3. Elsewhere(c) /\ TypeOK'
  BY <1>2, QuietElsewhere DEF locks
<1>4. /\ Who(r, s) /\ Plan(r, s) /\ s.pc = r.pc /\ s.phase = r.phase /\ s.path = r.path
      /\ s.snapshot = r.snapshot /\ s.outcome = r.outcome /\ s.killed = r.killed
      /\ r.tree = {} => s.tree = {}
  BY <1>1 DEF Runs, Who, Plan
<1>5. Shaped(s)
  BY <1>1, <1>4 DEF Shaped, Who, Plan, Contained, Locking, Editing, Running, Fresh, Granting,
     Revoking, Opening
<1>6. /\ \A k : MayHave(s, k) <=> MayHave(r, k)
      /\ Holding(s) <=> Holding(r)
      /\ Editing(s) <=> Editing(r)
      /\ Opening(s) <=> Opening(r)
      /\ Contained(s) <=> Contained(r)
  BY <1>4 DEF MayHave, Holding, Editing, Opening, Contained, Who, Locking, Granting, Running
<1>7. LocksHeld(c)' /\ Access(c)'
  BY <1>1, <1>2, <1>4, <1>6 DEF LocksHeld, Access, Who, Plan
<1> QED
  BY <1>3, <1>5, <1>7, StepKeeps DEF Own

LEMMA TreeIs ==
  ASSUME NEW r \in Runs, NEW tree \in SUBSET {"root", "child"},
         NEW exit \in {"none", "zero", "nonzero"}
  PROVE  [r EXCEPT !.tree = tree, !.exit = exit] \in Runs
BY DEF Runs

LEMMA ProcessSteps ==
  ASSUME SInv, NEW c \in Commands,
         \/ SpawnChild(c) \/ KillTakesEffect(c) \/ \E p \in {"root", "child"} : ProcessExits(c, p)
  PROVE  SInv'
<1>1. run[c] \in Runs /\ run \in [Commands -> Runs] /\ TypeOK
  BY DEF SInv, TypeOK
<1>2. Shut /\ faults' \in Nat
  BY <1>1, FaultTyped DEF SpawnChild, KillTakesEffect, ProcessExits
<1>3. PICK tree \in SUBSET {"root", "child"}, exit \in {"none", "zero", "nonzero"} :
        /\ run' = [run EXCEPT ![c] = [run[c] EXCEPT !.tree = tree, !.exit = exit]]
        /\ run[c].tree = {} => tree = {}
        /\ ~run[c].killed \/ tree \subseteq run[c].tree
  <2>1. CASE SpawnChild(c)
    <3>1. run' = [run EXCEPT ![c] = [run[c] EXCEPT !.tree = run[c].tree \cup {"child"},
                                                   !.exit = run[c].exit]]
      BY <1>1, <2>1 DEF SpawnChild, Runs
    <3> QED
      BY <1>1, <2>1, <3>1 DEF SpawnChild, Runs
  <2>2. CASE KillTakesEffect(c)
    <3>1. run[c].exit \in {"none", "zero", "nonzero"}
      BY <1>1 DEF Runs
    <3> DEFINE exit == IF "root" \in run[c].tree THEN "nonzero" ELSE run[c].exit
               tree == {}
    <3>2. run' = [run EXCEPT ![c] = [run[c] EXCEPT !.tree = tree, !.exit = exit]]
      BY <1>1, <2>2 DEF KillTakesEffect
    <3>3. /\ exit \in {"none", "zero", "nonzero"} /\ tree = {}
          /\ tree \in SUBSET {"root", "child"} /\ tree \subseteq run[c].tree
      BY <3>1
    <3> HIDE DEF exit, tree
    <3> QED
      BY <3>2, <3>3
  <2>3. ASSUME NEW p \in {"root", "child"}, ProcessExits(c, p)
        PROVE  \E tree \in SUBSET {"root", "child"}, exit \in {"none", "zero", "nonzero"} :
                 /\ run' = [run EXCEPT ![c] = [run[c] EXCEPT !.tree = tree, !.exit = exit]]
                 /\ run[c].tree = {} => tree = {}
                 /\ ~run[c].killed \/ tree \subseteq run[c].tree
    <3>1. PICK code \in {"zero", "nonzero"} :
            run' = [run EXCEPT ![c].tree = @ \ {p}, ![c].exit = IF p = "root" THEN code ELSE @]
      BY <2>3 DEF ProcessExits
    <3> DEFINE exit == IF p = "root" THEN code ELSE run[c].exit
               tree == run[c].tree \ {p}
    <3>2. run' = [run EXCEPT ![c] = [run[c] EXCEPT !.tree = tree, !.exit = exit]]
      BY <1>1, <3>1
    <3>3. /\ exit \in {"none", "zero", "nonzero"}
          /\ tree \in SUBSET {"root", "child"} /\ tree \subseteq run[c].tree
      BY <1>1 DEF Runs
    <3> HIDE DEF exit, tree
    <3> QED
      BY <3>2, <3>3
  <2> QED
    BY <2>1, <2>2, <2>3
<1>4. [run[c] EXCEPT !.tree = tree, !.exit = exit] \in Runs
  BY <1>1, TreeIs
<1>5. Alone(c) /\ run'[c] = [run[c] EXCEPT !.tree = tree, !.exit = exit]
  BY <1>1, <1>3, <1>4 DEF Alone
<1> QED
  BY <1>2, <1>3, <1>5, TreeKeeps

--------------------------------------------------------------------------------
LEMMA IdleHasNothing ==
  ASSUME SInv, NEW c \in Commands, At(c, "idle")
  PROVE  \A k \in Keys : <<k, c>> \notin local /\ mutex[k] # c
BY DEF SInv, LocksHeld, MayHave, At, Editing

(* A call that has no lock and opened nothing.                             *)
LEMMA BareKeeps ==
  ASSUME SInv, NEW c \in Commands, NEW s \in Runs, Update(c, s), Shaped(s),
         UNCHANGED <<local, mutex, dacl, profiles>>, runs' \in Nat, faults' \in Nat,
         \A k \in Keys : <<k, c>> \notin local /\ mutex[k] # c,
         ~Holding(s)
  PROVE  SInv'
<1>1. Alone(c) /\ run'[c] = s
  BY UpdateIs DEF SInv
<1>2. Elsewhere(c) /\ TypeOK'
  BY <1>1, QuietElsewhere DEF locks
<1>3. ~Editing(s) /\ (Opening(s) => Contained(s))
  BY OpeningHolds DEF Holding, Editing, Locking, Contained, Shaped, Running
<1>4. LocksHeld(c)' /\ Access(c)'
  BY <1>1, <1>3 DEF LocksHeld, Access, Editing
<1> QED
  BY <1>1, <1>2, <1>4, StepKeeps DEF Own

LEMMA StartSteps ==
  ASSUME SInv, NEW c \in Commands,
         \/ \E t \in Tasks, p \in Processes, w \in Workspaces : Start(c, t, p, w)
         \/ \E p \in Processes : StartContained(c, p)
         \/ Return(c)
  PROVE  SInv'
<1>1. TypeOK /\ run[c] \in Runs /\ Shaped(run[c]) /\ LocksHeld(c)
  BY DEF SInv, TypeOK
<1>2. UNCHANGED <<local, mutex, dacl, profiles>> /\ runs' \in Nat /\ faults' \in Nat
  <2>1. UNCHANGED <<locks, dacl, profiles, faults>> /\ (runs' = runs \/ runs' = runs + 1)
    BY DEF Start, StartContained, Return, NoFault, Shut
  <2> QED
    BY <1>1, <2>1 DEF TypeOK, locks
<1>3. \A k \in Keys : <<k, c>> \notin local /\ mutex[k] # c
  BY <1>1 DEF Start, StartContained, Return, At, LocksHeld, MayHave, Shaped, Editing
<1>4. CASE Return(c)
  <2>1. Over(run[c]) \in Runs /\ Over(run[c]).pc = "idle" /\ Contained(Over(run[c]))
        /\ Over(run[c]).grants = {} /\ Over(run[c]).todo = {} /\ Over(run[c]).restores = {}
    BY <1>1 DEF Over, Idle, Runs, Contained, Pcs, Outcomes
  <2>2. Shaped(Over(run[c])) /\ ~Holding(Over(run[c]))
    BY <2>1 DEF Shaped, Holding, Locking, Editing, Running, Fresh, Granting, Revoking, Opening
  <2> QED
    BY <1>2, <1>3, <1>4, <2>1, <2>2, BareKeeps DEF Return
<1>5. ASSUME NEW t \in Tasks, NEW p \in Processes, NEW w \in Workspaces, Start(c, t, p, w)
      PROVE  SInv'
  <2> DEFINE s == [Idle EXCEPT !.pc = "local", !.task = t, !.process = p,
                               !.grants = {w} \cup Shared, !.todo = {w} \cup Shared]
  <2>1. s \in Runs
    BY DEF Idle, Runs, Paths, Pcs, Outcomes
  <2>2. /\ s.pc = "local" /\ s.phase = "profile" /\ s.todo = s.grants /\ s.restores = {}
        /\ s.task = t /\ s.tree = {} /\ s.outcome = "none"
    BY DEF Idle
  <2>3. Update(c, s)
    BY <1>5 DEF Start
  <2> HIDE DEF s
  <2>4. Shaped(s) /\ ~Holding(s)
    BY <2>2, SandboxAssumption DEF SandboxAssumption, Shaped, Contained, Holding, Locking, Editing,
       Running, Fresh, Granting, Revoking, Opening
  <2> QED
    BY <1>2, <1>3, <2>1, <2>3, <2>4, BareKeeps
<1>6. ASSUME NEW p \in Processes, StartContained(c, p)
      PROVE  SInv'
  <2> DEFINE s == [Idle EXCEPT !.pc = "launch", !.process = p]
  <2>1. s \in Runs
    BY DEF Idle, Runs, Pcs, Outcomes
  <2>2. /\ s.pc = "launch" /\ s.todo = {} /\ s.restores = {} /\ s.grants = {}
        /\ s.task = none /\ s.tree = {}
    BY DEF Idle
  <2>3. Update(c, s)
    BY <1>6 DEF StartContained
  <2> HIDE DEF s
  <2>4. Shaped(s) /\ ~Holding(s)
    BY <2>2 DEF Shaped, Contained, Holding, Locking, Editing, Running, Fresh, Granting, Revoking,
       Opening
  <2> QED
    BY <1>2, <1>3, <2>1, <2>3, <2>4, BareKeeps
<1> QED
  BY <1>4, <1>5, <1>6

(* The locks are taken: first the entry in this process, then the mutex.   *)
LEMMA KeyIs ==
  ASSUME SInv, NEW c \in Commands, Locking(run[c]) \/ Editing(run[c]) \/ At(c, "unlock")
  PROVE  /\ Key(c) \in Keys /\ ~Contained(run[c]) /\ run[c].task \in Tasks
         /\ run[c].phase = "profile" => Key(c) = run[c].task
         /\ run[c].phase # "profile" =>
              Key(c) = run[c].path /\ run[c].path \in Paths /\ run[c].path # run[c].task
<1>1. run[c] \in Runs /\ Shaped(run[c])
  BY DEF SInv, TypeOK
<1>2. ~Contained(run[c]) /\ run[c].task \in Tasks
  BY <1>1 DEF Shaped, Contained, Runs, Locking, Editing, Running, At
<1>3. run[c].phase # "profile" => run[c].path \in Paths
  BY <1>1 DEF Shaped, Runs, Granting, Revoking, At
<1> QED
  BY <1>2, <1>3, SandboxAssumption DEF SandboxAssumption, Key, Keys

LEMMA LockSteps ==
  ASSUME SInv, NEW c \in Commands, LockLocal(c) \/ LockNamed(c)
  PROVE  SInv'
<1> DEFINE r == run[c]
           s == run'[c]
<1>1. TypeOK /\ r \in Runs /\ Shaped(r) /\ LocksHeld(c) /\ Access(c)
  BY DEF SInv, TypeOK
<1>2. /\ Key(c) \in Keys /\ ~Contained(r) /\ r.task \in Tasks
      /\ r.phase = "profile" => Key(c) = r.task
      /\ r.phase # "profile" => Key(c) = r.path /\ r.path \in Paths /\ r.path # r.task
  BY KeyIs DEF LockLocal, LockNamed, At, Locking
<1>3. PICK pc \in Pcs :
        /\ Go(c, pc)
        /\ LockLocal(c) => pc = "named"
        /\ LockNamed(c) => pc = IF r.phase = "profile" THEN "ensure" ELSE "read"
  <2>1. {"named", "ensure", "read"} \subseteq Pcs
    BY DEF Pcs
  <2>2. ~(LockLocal(c) /\ LockNamed(c))
    BY DEF LockLocal, LockNamed, At
  <2> QED
    BY <2>1, <2>2 DEF LockLocal, LockNamed
<1>4. /\ Alone(c) /\ s.pc = pc /\ Who(r, s) /\ Plan(r, s) /\ Tree(r, s) /\ s.phase = r.phase
      /\ s.path = r.path /\ s \in Runs
  <2>1. Alone(c) /\ s = [r EXCEPT !.pc = pc]
    BY <1>1, <1>3, GoIs
  <2> QED
    BY <1>1, <2>1 DEF Runs, Who, Plan, Tree, Alone
<1>5. /\ r.pc = IF LockLocal(c) THEN "local" ELSE "named"
      /\ UNCHANGED <<dacl, profiles, runs, faults>>
  BY DEF LockLocal, LockNamed, At
<1>6. CASE LockLocal(c)
  <2>1. local' = local \cup {<<Key(c), c>>} /\ mutex' = mutex /\ s.pc = "named"
    BY <1>3, <1>4, <1>6 DEF LockLocal
  <2>2. Elsewhere(c)
    BY <1>2, <1>5, <2>1 DEF Elsewhere
  <2>3. TypeOK'
    BY <1>1, <1>2, <1>4, <1>5, <2>1 DEF TypeOK, Alone
  <2>4. Shaped(s)
    BY <1>1, <1>4, <1>5, <1>6, <2>1 DEF Shaped, Who, Plan, Tree, Contained, Locking, Editing,
       Running, Fresh, Granting, Revoking, Opening
  <2>5. /\ \A k : MayHave(r, k) \/ k = Key(c) => MayHave(s, k)
        /\ Holding(s) => Holding(r)
        /\ ~Editing(s)
    BY <1>2, <1>4, <1>5, <1>6, <2>1 DEF MayHave, Holding, Editing, Locking, Who, Contained
  <2>6. LocksHeld(c)'
    BY <1>1, <1>4, <2>1, <2>5 DEF LocksHeld, Who
  <2>7. Opening(s) => Opening(r)
    BY <1>4, <1>5, <1>6, <2>1 DEF Opening, Granting, Locking, Editing, Running
  <2>8. Access(c)'
    BY <1>1, <1>2, <1>4, <1>5, <2>1, <2>5, <2>7 DEF Access, Who, Plan
  <2> QED
    BY <1>4, <2>2, <2>3, <2>4, <2>6, <2>8, StepKeeps DEF Own
<1>7. CASE LockNamed(c)
  <2>1. /\ mutex[Key(c)] = none /\ mutex' = [mutex EXCEPT ![Key(c)] = c] /\ local' = local
        /\ s.pc = IF r.phase = "profile" THEN "ensure" ELSE "read"
        /\ r.pc = "named"
    BY <1>3, <1>4, <1>7 DEF LockNamed, At
  <2>2. none \notin Commands
    BY SandboxAssumption DEF SandboxAssumption
  <2>3. \A k \in Keys : mutex'[k] = IF k = Key(c) THEN c ELSE mutex[k]
    BY <1>1, <1>2, <2>1 DEF TypeOK
  <2>4. Elsewhere(c)
    BY <1>2, <1>5, <2>1, <2>2, <2>3 DEF Elsewhere
  <2>5. TypeOK'
    BY <1>1, <1>2, <1>4, <1>5, <2>1 DEF TypeOK, Alone
  <2>6. Shaped(s)
    BY <1>1, <1>4, <1>5, <1>7, <2>1 DEF Shaped, Who, Plan, Tree, Contained, Locking, Editing,
       Running, Fresh, Granting, Revoking, Opening
  <2>7. \A k : MayHave(r, k) \/ k = Key(c) => MayHave(s, k)
    BY <1>2, <1>4, <2>1 DEF MayHave, Editing, Who, Contained
  <2>8. /\ Holding(s) => mutex'[s.task] = c
        /\ Editing(s) => mutex'[s.path] = c
    BY <1>1, <1>2, <1>4, <2>1, <2>3 DEF LocksHeld, Holding, Editing, Locking, Who, Contained, Keys
  <2>9. LocksHeld(c)'
    BY <1>1, <1>2, <2>1, <2>3, <2>7, <2>8 DEF LocksHeld
  <2>10. Opening(s) => Opening(r)
    BY <1>1, <1>4, <2>1 DEF Opening, Granting, Locking, Editing, Running, Runs
  <2>11. Holding(r) \/ s.pc = "ensure"
    BY <1>2, <2>1 DEF Holding, Locking
  <2>12. Access(c)'
    <3>1. s.pc = "ensure" => s.todo = s.grants
      BY <2>6 DEF Shaped, Fresh
    <3> QED
      BY <1>1, <1>2, <1>4, <1>5, <2>1, <2>10, <2>11, <3>1 DEF Access, Who, Plan
  <2> QED
    BY <1>4, <2>4, <2>5, <2>6, <2>9, <2>12, StepKeeps DEF Own
<1> QED
  BY <1>6, <1>7

--------------------------------------------------------------------------------
(* A path is let go, its DACL edited or not.                               *)
LEMMA FailedIs ==
  ASSUME NEW r \in Runs
  PROVE  LET q == Failed(r) IN
         /\ q \in Runs /\ Who(r, q) /\ q.todo = r.todo /\ q.restores = r.restores
         /\ q.tree = r.tree /\ q.killed = r.killed /\ q.pc = r.pc /\ q.phase = r.phase
         /\ q.path = r.path
         /\ IF r.phase = "revoke" THEN q.unrestored /\ q.outcome = r.outcome
                                  ELSE q.unrestored = r.unrestored /\ q.outcome = "error"
<1>1. "error" \in Outcomes
  BY DEF Outcomes
<1>2. CASE r.phase = "revoke"
  BY <1>2 DEF Failed, Runs, Who
<1>3. CASE r.phase # "revoke"
  BY <1>1, <1>3 DEF Failed, Runs, Who
<1> QED
  BY <1>2, <1>3

LEMMA WrittenIs ==
  ASSUME NEW r \in Runs, r.path \in Paths
  PROVE  LET q == Written(r) IN
         /\ q \in Runs /\ Who(r, q) /\ Tree(r, q) /\ q.pc = r.pc /\ q.phase = r.phase
         /\ q.path = r.path /\ q.unrestored = r.unrestored
         /\ q.todo = r.todo \ {r.path}
         /\ q.restores = IF r.phase = "grant" THEN r.restores \cup {r.path} ELSE r.restores
<1>1. CASE r.phase = "grant"
  BY <1>1 DEF Written, Runs, Who, Tree
<1>2. CASE r.phase # "grant"
  BY <1>2 DEF Written, Runs, Who, Tree
<1> QED
  BY <1>1, <1>2

(* What follows: the next grant, or after an error and afterwards the next *)
(* revocation.                                                             *)
LEMMA AfterPath ==
  ASSUME NEW q \in Runs, Rooted(q), ~Contained(q),
         \/ q.phase = "grant" /\ q.tree = {} /\ (q.restores \cup q.todo = q.grants)
         \/ q.phase = "revoke" /\ (q.tree = {} \/ (q.killed /\ q.outcome = "unconfirmed"))
  PROVE  LET s == AfterLock(q) IN
         /\ s \in Runs /\ Who(q, s) /\ s.todo = q.todo /\ s.unrestored = q.unrestored
         /\ s.restores = IF q.phase = "revoke" THEN q.restores \ {q.path} ELSE q.restores
         /\ Shaped(s)
         /\ s.pc \in {"launch", "delete"} \/ (s.pc = "local" /\ s.phase # "profile")
         /\ Opening(s) => q.phase = "grant" /\ q.outcome = "none"
<1> DEFINE s == AfterLock(q)
<1>1. CASE q.phase = "grant" /\ q.outcome = "none"
  <2>1. s = NextGrant(q)
    BY <1>1 DEF AfterLock
  <2> HIDE DEF s
  <2>2. /\ s \in Runs /\ Who(q, s) /\ Plan(q, s)
        /\ s.pc = "launch" \/ (s.pc = "local" /\ s.phase = "grant")
    BY <2>1, NextGrantIs
  <2>3. Shaped(s)
    BY <1>1, <2>1, GrantShaped
  <2>4. s.todo = q.todo /\ s.unrestored = q.unrestored /\ s.restores = q.restores
    BY <2>2 DEF Plan
  <2> QED
    BY <1>1, <2>2, <2>3, <2>4 DEF s
<1>2. CASE ~(q.phase = "grant" /\ q.outcome = "none")
  <2> DEFINE x == IF q.phase = "revoke" THEN [q EXCEPT !.restores = @ \ {q.path}] ELSE q
  <2>1. s = NextRevoke(x)
    BY <1>2 DEF AfterLock
  <2> HIDE DEF s
  <2>2. /\ x \in Runs /\ Who(q, x) /\ x.todo = q.todo /\ x.unrestored = q.unrestored
        /\ Tree(q, x)
        /\ x.restores = IF q.phase = "revoke" THEN q.restores \ {q.path} ELSE q.restores
    BY DEF Runs, Who, Tree
  <2> HIDE DEF x
  <2>3. /\ s \in Runs /\ Who(x, s) /\ Plan(x, s) /\ Tree(x, s)
        /\ \/ s.pc = "local" /\ s.phase = "revoke" /\ s.path \in x.restores
           \/ /\ x.restores = {} /\ s.phase = "profile"
              /\ s.pc = IF Contained(x) THEN "return" ELSE "delete"
    BY <2>1, <2>2, NextRevokeIs
  <2>4. Rooted(x) /\ ~Contained(x)
    BY <2>2 DEF Rooted, Who, Contained
  <2>5. s.tree = {} \/ (s.killed /\ s.outcome = "unconfirmed")
    BY <2>2, <2>3 DEF Tree
  <2>6. s.restores = x.restores /\ s.todo = x.todo /\ s.unrestored = x.unrestored
    BY <2>3 DEF Plan
  <2>7. Shaped(s)
    BY <2>2, <2>3, <2>4, <2>5, <2>6, RevokeShaped
  <2>8. ~Opening(s) /\ (s.pc = "delete" \/ (s.pc = "local" /\ s.phase # "profile"))
    BY <2>3, <2>4 DEF Opening, Granting, Running, Locking, Editing
  <2>9. Who(q, s)
    BY <2>2, <2>3 DEF Who
  <2> QED
    BY <2>2, <2>3, <2>6, <2>7, <2>8, <2>9 DEF s
<1> QED
  BY <1>1, <1>2

(* Letting the path go keeps the locks of the profile.                     *)
LEMMA PathUnlocked ==
  ASSUME SInv, NEW c \in Commands, run[c].phase # "profile",
         run[c].pc = "named" \/ Editing(run[c]),
         Drop(c), NEW s \in Runs, Update(c, s), Shaped(s), Who(run[c], s),
         s.pc \in {"launch", "delete"} \/ (s.pc = "local" /\ s.phase # "profile"),
         UNCHANGED <<profiles, runs>>, faults' \in Nat,
         \/ dacl' = dacl
         \/ /\ run[c].pc = "write"
            /\ \E entries \in SUBSET Tasks :
                 /\ dacl' = [dacl EXCEPT ![run[c].path] = entries]
                 /\ \A t \in Tasks \ {run[c].task} : t \in entries <=> t \in dacl[run[c].path],
         Access(c)'
  PROVE  SInv'
<1> DEFINE r == run[c]
<1>1. TypeOK /\ r \in Runs /\ Shaped(r) /\ LocksHeld(c) /\ Alone(c) /\ run'[c] = s
  BY UpdateIs DEF SInv, TypeOK
<1>2. /\ ~Contained(r) /\ r.task \in Tasks
      /\ Key(c) = r.path /\ r.path \in Paths /\ r.path # r.task /\ Key(c) \in Keys
  BY KeyIs DEF Locking
<1>3. /\ local' = local \ {<<r.path, c>>}
      /\ \A k \in Keys : mutex'[k] = IF k = r.path /\ mutex[k] = c THEN none ELSE mutex[k]
      /\ mutex' \in [Keys -> Commands \cup {none}]
  BY <1>1, <1>2 DEF Drop, TypeOK
<1>4. none \notin Commands /\ r.task \in Keys
  BY <1>2, SandboxAssumption DEF SandboxAssumption, Keys
<1>5. Holding(r)
  BY <1>2 DEF Holding, Locking, Editing
<1>6. TypeOK'
  BY <1>1, <1>2, <1>3 DEF TypeOK, Alone
<1>7. Elsewhere(c)
  <2>1. \A p \in Paths : dacl'[p] = dacl[p] \/ (r.pc = "write" /\ p = r.path)
    BY <1>1 DEF TypeOK
  <2>2. \A t \in Tasks \ {r.task}, p \in Paths : t \in dacl'[p] <=> t \in dacl[p]
    BY <1>1, <1>2 DEF TypeOK
  <2> QED
    BY <1>2, <1>3, <1>4, <1>5, <2>1, <2>2 DEF Elsewhere
<1>8. /\ \A k : MayHave(r, k) /\ k # r.path => MayHave(s, k)
      /\ ~Editing(s) /\ s.task = r.task
  BY <1>2 DEF MayHave, Editing, Who, Contained
<1>9. LocksHeld(c)'
  BY <1>1, <1>2, <1>3, <1>4, <1>5, <1>8 DEF LocksHeld
<1> QED
  BY <1>1, <1>6, <1>7, <1>9, StepKeeps DEF Own

(* Whatever fails there.                                                   *)
LEMMA PathFails ==
  ASSUME SInv, NEW c \in Commands, run[c].phase # "profile",
         run[c].pc = "named" \/ Editing(run[c]),
         Unlock(c, Failed(run[c])), Fault, UNCHANGED <<dacl, profiles, runs>>
  PROVE  SInv'
<1> DEFINE r == run[c]
           q == Failed(r)
           s == AfterLock(q)
<1>1. TypeOK /\ r \in Runs /\ Shaped(r) /\ LocksHeld(c) /\ Access(c)
  BY DEF SInv, TypeOK
<1>2. /\ ~Contained(r) /\ r.task \in Tasks
      /\ Key(c) = r.path /\ r.path \in Paths /\ r.path # r.task /\ Key(c) \in Keys
  BY KeyIs DEF Locking
<1>3. /\ q \in Runs /\ Who(r, q) /\ q.todo = r.todo /\ q.restores = r.restores
      /\ q.tree = r.tree /\ q.killed = r.killed /\ q.phase = r.phase /\ q.path = r.path
      /\ IF r.phase = "revoke" THEN q.unrestored /\ q.outcome = r.outcome
                               ELSE q.unrestored = r.unrestored /\ q.outcome = "error"
  BY <1>1, FailedIs
<1> HIDE DEF q
<1>4. Granting(r) \/ Revoking(r)
  BY <1>1 DEF Granting, Revoking, Locking, Editing, Runs
<1>5. Rooted(q) /\ ~Contained(q)
  BY <1>1, <1>2, <1>3 DEF Shaped, Rooted, Contained, Who
<1>6. \/ q.phase = "grant" /\ q.tree = {} /\ (q.restores \cup q.todo = q.grants)
      \/ q.phase = "revoke" /\ (q.tree = {} \/ (q.killed /\ q.outcome = "unconfirmed"))
  BY <1>1, <1>3, <1>4 DEF Shaped, Granting, Revoking, Locking, Editing, Running, Opening, Who
<1>7. /\ s \in Runs /\ Who(q, s) /\ s.todo = q.todo /\ s.unrestored = q.unrestored
      /\ s.restores = IF q.phase = "revoke" THEN q.restores \ {q.path} ELSE q.restores
      /\ Shaped(s)
      /\ s.pc \in {"launch", "delete"} \/ (s.pc = "local" /\ s.phase # "profile")
      /\ Opening(s) => q.phase = "grant" /\ q.outcome = "none"
  BY <1>3, <1>5, <1>6, AfterPath
<1>8. Update(c, s) /\ Drop(c)
  BY DEF Unlock, q
<1> HIDE DEF s
<1>9. run'[c] = s
  BY <1>1, <1>7, <1>8, UpdateIs
<1>10. Who(r, s) /\ ~Opening(s) /\ s.pc # "write" /\ Holding(r)
  BY <1>2, <1>3, <1>4, <1>7 DEF Who, Granting, Revoking, Holding, Locking, Editing
<1>11. Access(c)'
  BY <1>1, <1>3, <1>4, <1>7, <1>9, <1>10 DEF Access, Who, Granting, Revoking
<1>12. faults' \in Nat
  BY <1>1, FaultTyped
<1> QED
  BY <1>7, <1>8, <1>10, <1>11, <1>12, PathUnlocked

(* The entry of the task comes or goes; those of others stay as they were  *)
(* read, which is as they are.                                             *)
LEMMA WriteSteps ==
  ASSUME SInv, NEW c \in Commands, WriteDacl(c)
  PROVE  SInv'
<1> DEFINE r == run[c]
           q == Written(r)
           s == AfterLock(q)
<1>1. /\ TypeOK /\ r \in Runs /\ Shaped(r) /\ LocksHeld(c) /\ Access(c)
      /\ r.pc = "write" /\ Editing(r) /\ r.phase # "profile"
  BY DEF SInv, TypeOK, WriteDacl, At, Editing, Shaped
<1>2. CASE Fault /\ UNCHANGED dacl /\ Unlock(c, Failed(r))
  BY <1>1, <1>2, PathFails DEF WriteDacl
<1>3. CASE /\ NoFault /\ Unlock(c, q) /\ dacl' = [dacl EXCEPT ![r.path] = Edited(r)]
  <2>1. /\ ~Contained(r) /\ r.task \in Tasks /\ r.path \in Paths
    BY <1>1, KeyIs
  <2>2. /\ q \in Runs /\ Who(r, q) /\ Tree(r, q) /\ q.pc = r.pc /\ q.phase = r.phase
        /\ q.path = r.path /\ q.unrestored = r.unrestored
        /\ q.todo = r.todo \ {r.path}
        /\ q.restores = IF r.phase = "grant" THEN r.restores \cup {r.path} ELSE r.restores
    BY <1>1, <2>1, WrittenIs
  <2> HIDE DEF q
  <2>3. Granting(r) \/ Revoking(r)
    BY <1>1 DEF Granting, Revoking, Runs
  <2>4. /\ Granting(r) => r.path \in r.todo /\ r.outcome = "none" /\ r.tree = {}
                          /\ (r.restores \cup r.todo = r.grants)
        /\ Revoking(r) => r.path \in r.restores
                          /\ (r.tree = {} \/ (r.killed /\ r.outcome = "unconfirmed"))
        /\ r.todo \subseteq r.grants /\ r.restores \subseteq r.grants
    BY <1>1 DEF Shaped, Opening, Running
  <2>5. Rooted(q) /\ ~Contained(q)
    BY <2>1, <2>2, <2>3, <2>4 DEF Rooted, Contained, Who
  <2>6. \/ q.phase = "grant" /\ q.tree = {} /\ (q.restores \cup q.todo = q.grants)
        \/ q.phase = "revoke" /\ (q.tree = {} \/ (q.killed /\ q.outcome = "unconfirmed"))
    BY <2>2, <2>3, <2>4 DEF Granting, Revoking, Who, Tree
  <2>7. /\ s \in Runs /\ Who(q, s) /\ s.todo = q.todo /\ s.unrestored = q.unrestored
        /\ s.restores = IF q.phase = "revoke" THEN q.restores \ {q.path} ELSE q.restores
        /\ Shaped(s)
        /\ s.pc \in {"launch", "delete"} \/ (s.pc = "local" /\ s.phase # "profile")
        /\ Opening(s) => q.phase = "grant" /\ q.outcome = "none"
    BY <2>2, <2>5, <2>6, AfterPath
  <2>8. Update(c, s) /\ Drop(c)
    BY <1>3 DEF Unlock
  <2> HIDE DEF s
  <2>9. run'[c] = s /\ Who(r, s) /\ s.pc # "write" /\ Holding(r)
    BY <1>1, <2>1, <2>2, <2>7, <2>8, UpdateIs DEF Who, Holding, Locking
  <2>10. r.snapshot = dacl[r.path] /\ dacl[r.path] \in SUBSET Tasks
    BY <1>1, <2>1 DEF Access, TypeOK
  <2>11. /\ Edited(r) \in SUBSET Tasks
         /\ \A t \in Tasks \ {r.task} : t \in Edited(r) <=> t \in dacl[r.path]
         /\ r.task \in Edited(r) <=> r.phase = "grant"
    BY <2>1, <2>10 DEF Edited
  <2>12. \A p \in Paths : dacl'[p] = IF p = r.path THEN Edited(r) ELSE dacl[p]
    BY <1>1, <1>3, <2>1 DEF TypeOK
  <2>13. r.restores \subseteq Paths /\ r.grants \subseteq Paths
    BY <1>1 DEF Runs
  <2>14. ASSUME Opening(s)
         PROVE  s.task \in profiles' /\ \A p \in s.restores : s.task \in dacl'[p]
    <3>1. r.phase = "grant" /\ Opening(r)
      BY <2>2, <2>3, <2>7, <2>14 DEF Opening, Revoking, Granting
    <3>2. r.task \in profiles /\ \A p \in r.restores : r.task \in dacl[p]
      BY <1>1, <2>1, <3>1 DEF Access
    <3>3. s.restores = r.restores \cup {r.path} /\ s.task = r.task /\ profiles' = profiles
      BY <2>2, <2>7, <2>9, <3>1 DEF Who, WriteDacl
    <3> QED
      BY <2>1, <2>11, <2>12, <2>13, <3>1, <3>2, <3>3
  <2>15. ASSUME ~s.unrestored, NEW p \in s.grants \ (s.todo \cup s.restores)
         PROVE  s.task \notin dacl'[p]
    <3>1. /\ ~r.unrestored /\ s.grants = r.grants /\ s.task = r.task /\ p \in Paths
      BY <2>2, <2>7, <2>9, <2>13, <2>15 DEF Who
    <3>2. \A x \in r.grants \ (r.todo \cup r.restores) : r.task \notin dacl[x]
      BY <1>1, <2>9, <3>1 DEF Access
    <3>3. p = r.path => r.phase # "grant"
      BY <2>2, <2>7, <2>15
    <3>4. p # r.path => p \in r.grants \ (r.todo \cup r.restores)
      BY <2>2, <2>7, <2>15, <3>1
    <3> QED
      BY <2>11, <2>12, <3>1, <3>2, <3>3, <3>4
  <2>16. Access(c)'
    BY <2>9, <2>14, <2>15 DEF Access
  <2>17. faults' \in Nat /\ UNCHANGED <<profiles, runs>>
    BY <1>1, <1>3, FaultTyped DEF WriteDacl
  <2> QED
    BY <1>1, <1>3, <2>7, <2>8, <2>9, <2>11, <2>16, <2>17, PathUnlocked
<1> QED
  BY <1>2, <1>3 DEF WriteDacl

LEMMA ReadSteps ==
  ASSUME SInv, NEW c \in Commands, ReadDacl(c)
  PROVE  SInv'
<1> DEFINE r == run[c]
           s == [r EXCEPT !.pc = "write", !.snapshot = dacl[r.path]]
<1>1. /\ TypeOK /\ r \in Runs /\ Shaped(r) /\ LocksHeld(c) /\ Access(c)
      /\ r.pc = "read" /\ Editing(r) /\ r.phase # "profile"
  BY DEF SInv, TypeOK, ReadDacl, At, Editing, Shaped
<1>2. CASE Fault /\ Unlock(c, Failed(r))
  BY <1>1, <1>2, PathFails DEF ReadDacl
<1>3. CASE NoFault /\ UNCHANGED locks /\ Update(c, s)
  <2>1. /\ ~Contained(r) /\ r.task \in Tasks /\ r.path \in Paths
    BY <1>1, KeyIs
  <2>2. dacl[r.path] \in SUBSET Tasks
    BY <1>1, <2>1 DEF TypeOK
  <2>3. /\ s \in Runs /\ s.pc = "write" /\ s.snapshot = dacl[r.path] /\ s.path = r.path
        /\ Who(r, s) /\ Plan(r, s) /\ Tree(r, s) /\ s.phase = r.phase
    BY <1>1, <2>2 DEF Runs, Pcs, Who, Plan, Tree
  <2> HIDE DEF s
  <2>4. Alone(c) /\ run'[c] = s
    BY <1>1, <1>3, <2>3, UpdateIs
  <2>5. UNCHANGED <<local, mutex, dacl, profiles>> /\ runs' \in Nat /\ faults' \in Nat
    BY <1>1, <1>3 DEF ReadDacl, NoFault, TypeOK, locks
  <2>6. Elsewhere(c) /\ TypeOK'
    BY <2>4, <2>5, QuietElsewhere DEF locks
  <2>7. Shaped(s)
    BY <1>1, <2>3 DEF Shaped, Who, Plan, Tree, Contained, Locking, Editing, Running, Fresh,
       Granting, Revoking, Opening
  <2>8. /\ \A k : MayHave(r, k) => MayHave(s, k)
        /\ Holding(r) /\ Editing(s) /\ s.task = r.task
        /\ Opening(s) => Opening(r)
    BY <1>1, <2>1, <2>3 DEF MayHave, Holding, Editing, Locking, Who, Contained, Opening, Granting,
       Running
  <2>9. LocksHeld(c)'
    BY <1>1, <2>3, <2>4, <2>5, <2>8 DEF LocksHeld
  <2>10. Access(c)'
    BY <1>1, <2>1, <2>3, <2>4, <2>5, <2>8 DEF Access, Who, Plan
  <2> QED
    BY <2>4, <2>6, <2>7, <2>9, <2>10, StepKeeps DEF Own
<1> QED
  BY <1>2, <1>3 DEF ReadDacl

--------------------------------------------------------------------------------
(* The profile comes and goes under its mutex.                             *)
LEMMA ProfileKeeps ==
  ASSUME SInv, NEW c \in Commands, run[c].pc \in {"ensure", "derive", "delete"}, Alone(c),
         NEW s, run'[c] = s, Shaped(s), Who(run[c], s), Plan(run[c], s),
         s.pc \in {"derive", "delete", "unlock", "launch"} \/ (s.pc = "local" /\ s.phase = "grant"),
         UNCHANGED <<local, mutex, dacl, runs>>, faults' \in Nat, profiles' \subseteq Tasks,
         \A t \in Tasks \ {run[c].task} : t \in profiles => t \in profiles',
         Opening(s) => run[c].task \in profiles' /\ run[c].pc # "delete"
  PROVE  SInv'
<1> DEFINE r == run[c]
<1>1. TypeOK /\ r \in Runs /\ Shaped(r) /\ LocksHeld(c) /\ Access(c)
  BY DEF SInv, TypeOK
<1>2. /\ ~Contained(r) /\ Holding(r) /\ r.restores = {} /\ r.phase = "profile"
  BY <1>1 DEF Shaped, Contained, Holding, Running, Locking, Fresh
<1>3. TypeOK'
  BY <1>1 DEF TypeOK, Alone
<1>4. Elsewhere(c)
  BY <1>1, <1>2 DEF Elsewhere
<1>5. /\ \A k : MayHave(r, k) => MayHave(s, k)
      /\ ~Editing(s) /\ s.pc # "write" /\ s.task = r.task /\ s.restores = {}
  BY <1>2 DEF MayHave, Editing, Who, Plan, Contained
<1>6. LocksHeld(c)'
  BY <1>1, <1>2, <1>5 DEF LocksHeld
<1>7. Access(c)'
  BY <1>1, <1>2, <1>5 DEF Access, Who, Plan
<1> QED
  BY <1>3, <1>4, <1>6, <1>7, StepKeeps DEF Own

LEMMA ProfileSteps ==
  ASSUME SInv, NEW c \in Commands, EnsureProfile(c) \/ DeriveCapability(c) \/ DeleteProfile(c)
  PROVE  SInv'
<1> DEFINE r == run[c]
<1>1. TypeOK /\ r \in Runs /\ Shaped(r) /\ LocksHeld(c) /\ Access(c)
  BY DEF SInv, TypeOK
<1>2. /\ r.pc \in {"ensure", "derive", "delete"} /\ UNCHANGED <<local, mutex, dacl, runs>>
      /\ faults' \in Nat
  BY <1>1, FaultTyped DEF EnsureProfile, DeriveCapability, DeleteProfile, At, locks
<1>3. /\ ~Contained(r) /\ r.task \in Tasks /\ r.restores = {} /\ r.phase = "profile"
      /\ r.tree = {} \/ (r.killed /\ r.outcome = "unconfirmed")
      /\ r.pc # "delete" => r.todo = r.grants /\ r.tree = {} /\ r.outcome # "unconfirmed"
  BY <1>1, <1>2 DEF Shaped, Contained, Running, Fresh, Runs
<1>4. Rooted(r)
  BY <1>1 DEF Shaped, Rooted
<1>5. ASSUME NEW pc \in {"derive", "unlock"}, Go(c, pc),
             \/ r.pc = "ensure" /\ pc = "derive" /\ profiles' = profiles \cup {r.task}
             \/ r.pc = "delete" /\ pc = "unlock" /\ profiles \ {r.task} \subseteq profiles'
                /\ profiles' \subseteq profiles
      PROVE  SInv'
  <2> DEFINE s == [r EXCEPT !.pc = pc]
  <2>1. Alone(c) /\ run'[c] = s
    BY <1>1, <1>5, GoIs DEF Pcs
  <2>2. /\ s.pc = pc /\ Who(r, s) /\ Plan(r, s) /\ Tree(r, s) /\ s.phase = r.phase
    BY <1>1 DEF Runs, Who, Plan, Tree
  <2> HIDE DEF s
  <2>3. Shaped(s)
    BY <1>1, <1>3, <1>5, <2>2 DEF Shaped, Who, Plan, Tree, Contained, Locking, Editing, Running,
       Fresh, Granting, Revoking, Opening
  <2>4. Opening(s) => pc = "derive"
    BY <2>2 DEF Opening, Granting, Running, Locking, Editing
  <2>5. profiles' \subseteq Tasks
    BY <1>1, <1>3, <1>5 DEF TypeOK
  <2> QED
    BY <1>2, <1>5, <2>1, <2>2, <2>3, <2>4, <2>5, ProfileKeeps
<1>6. ASSUME NEW pc \in {"delete", "unlock"}, Update(c, [Failed(r) EXCEPT !.pc = pc]),
             r.pc \in {"ensure", "derive"}, profiles' = profiles
      PROVE  SInv'
  <2> DEFINE q == Failed(r)
             s == [q EXCEPT !.pc = pc]
  <2>1. /\ q \in Runs /\ Who(r, q) /\ q.todo = r.todo /\ q.restores = r.restores
        /\ q.tree = r.tree /\ q.unrestored = r.unrestored /\ q.phase = r.phase
    BY <1>1, <1>3, FailedIs
  <2>2. Update(c, s)
    BY <1>6
  <2> HIDE DEF q
  <2>3. s \in Runs /\ s.pc = pc /\ Who(r, s) /\ Plan(r, s) /\ s.tree = r.tree /\ s.phase = r.phase
    BY <2>1 DEF Runs, Pcs, Who, Plan
  <2> HIDE DEF s
  <2>4. Alone(c) /\ run'[c] = s
    BY <1>1, <2>2, <2>3, UpdateIs
  <2>5. Shaped(s)
    BY <1>1, <1>3, <1>6, <2>3 DEF Shaped, Who, Plan, Contained, Locking, Editing, Running,
       Fresh, Granting, Revoking, Opening
  <2>6. ~Opening(s)
    BY <2>3 DEF Opening, Granting, Running, Locking, Editing
  <2> QED
    BY <1>1, <1>2, <1>6, <2>3, <2>4, <2>5, <2>6, ProfileKeeps DEF TypeOK
<1>7. CASE DeriveCapability(c) /\ Update(c, NextGrant(r))
  <2> DEFINE s == NextGrant(r)
  <2>1. r.pc = "derive" /\ profiles' = profiles
    BY <1>7 DEF DeriveCapability, At
  <2>2. /\ s \in Runs /\ Who(r, s) /\ Plan(r, s)
        /\ s.pc = "launch" \/ (s.pc = "local" /\ s.phase = "grant")
    BY <1>1, NextGrantIs
  <2>3. r.outcome = "none" /\ r.restores \cup r.todo = r.grants
    BY <1>1, <1>3, <2>1 DEF Shaped
  <2>4. Shaped(s)
    BY <1>1, <1>3, <1>4, <2>1, <2>3, GrantShaped
  <2>5. r.task \in profiles
    BY <1>1, <1>3, <2>1 DEF Access, Opening
  <2>6. Update(c, s)
    BY <1>7
  <2> HIDE DEF s
  <2>7. Alone(c) /\ run'[c] = s
    BY <1>1, <2>2, <2>6, UpdateIs
  <2> QED
    BY <1>1, <1>2, <2>1, <2>2, <2>4, <2>5, <2>7, ProfileKeeps DEF TypeOK
<1>8. CASE EnsureProfile(c)
  <2>1. r.pc = "ensure"
    BY <1>8 DEF EnsureProfile, At
  <2> QED
    BY <1>5, <1>6, <1>8, <2>1 DEF EnsureProfile
<1>9. CASE DeriveCapability(c)
  <2>1. r.pc = "derive"
    BY <1>9 DEF DeriveCapability, At
  <2> QED
    BY <1>6, <1>7, <1>9, <2>1 DEF DeriveCapability
<1>10. CASE DeleteProfile(c)
  <2>1. r.pc = "delete" /\ Go(c, "unlock")
    BY <1>10 DEF DeleteProfile, At
  <2>2. profiles \ {r.task} \subseteq profiles' /\ profiles' \subseteq profiles
    BY <1>10 DEF DeleteProfile
  <2> QED
    BY <1>5, <2>1, <2>2
<1> QED
  BY <1>8, <1>9, <1>10

(* With the profile all is let go.                                         *)
LEMMA UnlockSteps ==
  ASSUME SInv, NEW c \in Commands, UnlockProfile(c) \/ LockFails(c)
  PROVE  SInv'
<1> DEFINE r == run[c]
<1>1. /\ TypeOK /\ r \in Runs /\ Shaped(r) /\ LocksHeld(c) /\ r.pc \in {"unlock", "named"}
      /\ UnlockProfile(c) => r.phase = "profile"
  BY DEF SInv, TypeOK, UnlockProfile, LockFails, At, Shaped
<1>2. CASE LockFails(c) /\ r.phase # "profile"
  <2>1. r.pc = "named"
    BY <1>2 DEF LockFails, At
  <2> QED
    BY <1>2, <2>1, PathFails DEF LockFails
<1>3. CASE r.phase = "profile"
  <2>1. PICK q \in Runs : Unlock(c, q) /\ q.phase = "profile"
    BY <1>1, <1>3, FailedIs DEF UnlockProfile, LockFails
  <2> DEFINE s == Over(q)
  <2>2. Update(c, s) /\ Drop(c)
    BY <2>1 DEF Unlock, AfterLock
  <2>3. s \in Runs /\ s.pc = "idle" /\ s.task = none /\ s.grants = {} /\ s.todo = {}
        /\ s.restores = {}
    BY DEF Over, Idle, Runs, Pcs, Outcomes
  <2> HIDE DEF s
  <2>4. Alone(c) /\ run'[c] = s
    BY <1>1, <2>2, <2>3, UpdateIs
  <2>5. Shaped(s) /\ ~Holding(s) /\ ~Editing(s) /\ ~Opening(s)
    BY <2>3 DEF Shaped, Contained, Holding, Locking, Editing, Running, Fresh, Granting, Revoking,
       Opening
  <2>6. Key(c) = r.task /\ r.task \in Keys
    BY <1>1, <1>3, KeyIs DEF Locking, At
  <2>7. /\ local' = local \ {<<r.task, c>>}
        /\ \A k \in Keys : mutex'[k] = IF k = r.task /\ mutex[k] = c THEN none ELSE mutex[k]
        /\ mutex' \in [Keys -> Commands \cup {none}]
    BY <1>1, <2>2, <2>6 DEF Drop, TypeOK
  <2>8. none \notin Commands
    BY SandboxAssumption DEF SandboxAssumption
  <2>9. UNCHANGED <<dacl, profiles, runs>> /\ faults' \in Nat
    BY <1>1, FaultTyped DEF UnlockProfile, LockFails, TypeOK
  <2>10. TypeOK'
    BY <1>1, <2>4, <2>7, <2>9 DEF TypeOK, Alone
  <2>11. Elsewhere(c)
    BY <2>7, <2>8, <2>9 DEF Elsewhere
  <2>12. \A k : MayHave(r, k) => k = r.task
    BY <1>1, <1>3 DEF MayHave
  <2>13. LocksHeld(c)'
    BY <1>1, <2>4, <2>5, <2>7, <2>8, <2>12 DEF LocksHeld
  <2>14. Access(c)'
    BY <2>3, <2>4, <2>5 DEF Access
  <2> QED
    BY <2>4, <2>5, <2>10, <2>11, <2>13, <2>14, StepKeeps DEF Own
<1> QED
  BY <1>1, <1>2, <1>3

--------------------------------------------------------------------------------
(* A process ends: what was its own is free, and everything else is as it  *)
(* was, the entries it leaves behind included.                             *)
LEMMA CrashKeeps ==
  ASSUME SInv, NEW p \in Processes, Crash(p)
  PROVE  SInv'
<1> DEFINE dead == {c \in Commands : ~At(c, "idle") /\ run[c].process = p}
<1>1. /\ TypeOK
      /\ run' = [c \in Commands |-> IF c \in dead THEN Idle ELSE run[c]]
      /\ local' = {e \in local : e[2] \notin dead}
      /\ mutex' = [k \in Keys |-> IF mutex[k] \in dead THEN none ELSE mutex[k]]
      /\ UNCHANGED <<dacl, profiles, runs>> /\ Fault
  BY DEF SInv, TypeOK, Crash
<1>2. Idle \in Runs /\ Idle.pc = "idle" /\ Contained(Idle) /\ Idle.grants = {}
      /\ Idle.todo = {} /\ Idle.restores = {}
  BY DEF Idle, Runs, Contained, Pcs, Outcomes
<1>3. Shaped(Idle) /\ ~Holding(Idle) /\ ~Editing(Idle) /\ ~Opening(Idle)
  BY <1>2 DEF Shaped, Holding, Locking, Editing, Running, Fresh, Granting, Revoking, Opening
<1>4. faults' \in Nat
  BY <1>1, FaultTyped
<1> HIDE DEF dead
<1>5. TypeOK'
  BY <1>1, <1>2, <1>4 DEF TypeOK
<1>6. none \notin Commands
  BY SandboxAssumption DEF SandboxAssumption
<1>7. ASSUME NEW d \in Commands PROVE Own(d)
  <2>1. Shaped(run[d]) /\ LocksHeld(d) /\ Access(d) /\ run[d] \in Runs
    BY DEF SInv, TypeOK
  <2>2. CASE d \in dead
    <3>1. run'[d] = Idle
      BY <1>1, <2>2
    <3>2. \A k \in Keys : <<k, d>> \notin local' /\ mutex'[k] # d
      BY <1>1, <1>6, <2>2
    <3>3. LocksHeld(d)'
      BY <1>3, <3>1, <3>2 DEF LocksHeld
    <3>4. Access(d)'
      BY <1>2, <1>3, <3>1 DEF Access
    <3> QED
      BY <1>3, <3>1, <3>3, <3>4 DEF Own
  <2>3. CASE d \notin dead
    <3>1. run'[d] = run[d]
      BY <1>1, <2>3
    <3>2. \A k \in Keys : /\ <<k, d>> \in local' => <<k, d>> \in local
                          /\ mutex'[k] = d <=> mutex[k] = d
      BY <1>1, <1>6, <2>3
    <3>3. /\ Holding(run[d]) => run[d].task \in Keys
          /\ Editing(run[d]) => run[d].path \in Keys
      BY <2>1 DEF Holding, Contained, Runs, Keys, Editing, Shaped, Granting, Revoking
    <3>4. LocksHeld(d)'
      BY <2>1, <3>1, <3>2, <3>3 DEF LocksHeld
    <3>5. Access(d)'
      BY <1>1, <2>1, <3>1 DEF Access
    <3> QED
      BY <2>1, <3>1, <3>4, <3>5 DEF Own
  <2> QED
    BY <2>2, <2>3
<1> QED
  BY <1>5, <1>7 DEF SInv, Own

--------------------------------------------------------------------------------
(* The invariant holds at first, and every step keeps it.                  *)
LEMMA SandboxInitially == Init => SInv
<1> SUFFICES ASSUME Init PROVE SInv
  OBVIOUS
<1>1. Idle \in Runs /\ Idle.pc = "idle" /\ Contained(Idle) /\ Idle.grants = {}
      /\ Idle.todo = {} /\ Idle.restores = {}
  BY DEF Idle, Runs, Contained, Pcs, Outcomes
<1>2. Shaped(Idle) /\ ~Holding(Idle) /\ ~Editing(Idle) /\ ~Opening(Idle)
  BY <1>1 DEF Shaped, Holding, Locking, Editing, Running, Fresh, Granting, Revoking, Opening
<1>3. TypeOK
  BY <1>1 DEF Init, TypeOK, Keys
<1>4. none \notin Commands
  BY SandboxAssumption DEF SandboxAssumption
<1>5. ASSUME NEW c \in Commands PROVE Shaped(run[c]) /\ LocksHeld(c) /\ Access(c)
  <2>1. run[c] = Idle /\ local = {} /\ \A k \in Keys : mutex[k] # c
    BY <1>4 DEF Init, Keys
  <2> QED
    BY <1>1, <1>2, <2>1 DEF LocksHeld, Access
<1> QED
  BY <1>3, <1>5 DEF SInv

LEMMA SandboxKeeps == SInv /\ [Next]_vars => SInv'
<1> SUFFICES ASSUME SInv, [Next]_vars PROVE SInv'
  OBVIOUS
<1>1. CASE UNCHANGED vars
  <2>1. UNCHANGED <<run, local, mutex, dacl, profiles, runs, faults>>
    BY <1>1 DEF vars, locks
  <2>2. TypeOK'
    BY <2>1 DEF SInv, TypeOK
  <2>3. ASSUME NEW c \in Commands PROVE Own(c)
    <3>1. Shaped(run[c]) /\ LocksHeld(c) /\ Access(c)
      BY DEF SInv
    <3>2. LocksHeld(c)' /\ Access(c)'
      BY <2>1, <3>1 DEF LocksHeld, Access
    <3> QED
      BY <2>1, <3>1, <3>2 DEF Own
  <2> QED
    BY <2>2, <2>3 DEF SInv, Own
<1>2. ASSUME NEW c \in Commands, Call(c)
      PROVE  SInv'
  <2>1. CASE LockLocal(c) \/ LockNamed(c)
    BY <2>1, LockSteps
  <2>2. CASE LockFails(c) \/ UnlockProfile(c)
    BY <2>2, UnlockSteps
  <2>3. CASE EnsureProfile(c) \/ DeriveCapability(c) \/ DeleteProfile(c)
    BY <2>3, ProfileSteps
  <2>4. CASE ReadDacl(c) \/ WriteDacl(c)
    BY <2>4, ReadSteps, WriteSteps
  <2>5. CASE Return(c)
    BY <2>5, StartSteps
  <2>6. CASE \/ Launch(c) \/ WaitRoot(c) \/ WaitCancelled(c) \/ Terminate(c) \/ Settle(c)
             \/ SettleCancelled(c) \/ TerminateContained(c) \/ Confirm(c) \/ ConfirmTimesOut(c)
    BY <2>6, CommandSteps
  <2> QED
    BY <1>2, <2>1, <2>2, <2>3, <2>4, <2>5, <2>6 DEF Call
<1>3. ASSUME NEW c \in Commands,
             \/ \E t \in Tasks, p \in Processes, w \in Workspaces : Start(c, t, p, w)
             \/ \E p \in Processes : StartContained(c, p)
      PROVE  SInv'
  BY <1>3, StartSteps
<1>4. ASSUME NEW c \in Commands,
             \/ SpawnChild(c) \/ KillTakesEffect(c)
             \/ \E p \in {"root", "child"} : ProcessExits(c, p)
      PROVE  SInv'
  BY <1>4, ProcessSteps
<1>5. CASE \E p \in Processes : Crash(p)
  BY <1>5, CrashKeeps
<1> QED
  BY <1>1, <1>2, <1>3, <1>4, <1>5 DEF Next

(* Calls, locks, profiles and access lists agree in every reachable state. *)
THEOREM SandboxInvariant == Spec => []SInv
BY SandboxInitially, SandboxKeeps, PTL DEF Spec

(* GrantsHeld: a running command has its profile and all its grants, and   *)
(* no other call takes them away.                                          *)
THEOREM RunningHasGrants == Spec => []GrantsHeld
<1>1. SInv => GrantsHeld
  <2> SUFFICES ASSUME SInv, NEW c \in Commands, run[c].tree # {}, ~run[c].killed,
                      ~Contained(run[c])
               PROVE  /\ run[c].task \in profiles
                      /\ \A p \in run[c].grants : run[c].task \in dacl[p]
    BY DEF GrantsHeld
  <2>1. run[c] \in Runs /\ Shaped(run[c]) /\ Access(c)
    BY DEF SInv, TypeOK
  <2>2. Running(run[c])
    BY <2>1 DEF Shaped, Contained
  <2>3. Opening(run[c]) /\ run[c].restores = run[c].grants
    BY <2>1, <2>2 DEF Shaped, Opening
  <2> QED
    BY <2>1, <2>3 DEF Access
<1> QED
  BY <1>1, SandboxInvariant, PTL

(* CleanReturn: a call that is over has no lock; one that leaves has no    *)
(* process and no entry on a path it opened, or says so.                   *)
THEOREM ReturnsClean == Spec => []CleanReturn
<1>1. SInv => CleanReturn
  <2> SUFFICES ASSUME SInv, NEW c \in Commands
               PROVE  /\ At(c, "idle") => /\ \A e \in local : e[2] # c
                                          /\ \A k \in DOMAIN mutex : mutex[k] # c
                      /\ Leaving(c) /\ run[c].outcome # "unconfirmed" => run[c].tree = {}
                      /\ Leaving(c) /\ ~run[c].unrestored =>
                           \A p \in run[c].grants \ run[c].todo : run[c].task \notin dacl[p]
    BY DEF CleanReturn
  <2>1. TypeOK /\ run[c] \in Runs /\ Shaped(run[c]) /\ Access(c)
    BY DEF SInv, TypeOK
  <2>2. ASSUME At(c, "idle")
        PROVE  (\A e \in local : e[2] # c) /\ (\A k \in DOMAIN mutex : mutex[k] # c)
    <3>1. \A k \in Keys : <<k, c>> \notin local /\ mutex[k] # c
      BY <2>2, IdleHasNothing
    <3>2. \A e \in local : e = <<e[1], e[2]>> /\ e[1] \in Keys
      BY <2>1 DEF TypeOK
    <3>3. DOMAIN mutex = Keys
      BY <2>1 DEF TypeOK
    <3> QED
      BY <3>1, <3>2, <3>3
  <2>3. ASSUME Leaving(c), run[c].outcome # "unconfirmed"
        PROVE  run[c].tree = {}
    BY <2>1, <2>3 DEF Leaving, At, Shaped, Running
  <2>4. ASSUME Leaving(c), ~run[c].unrestored, NEW p \in run[c].grants \ run[c].todo
        PROVE  run[c].task \notin dacl[p]
    <3>1. run[c].restores = {} /\ ~Contained(run[c])
      BY <2>1, <2>4 DEF Leaving, At, Shaped
    <3>2. Holding(run[c])
      BY <2>4, <3>1 DEF Leaving, At, Holding, Locking
    <3> QED
      BY <2>1, <2>4, <3>1, <3>2 DEF Access
  <2> QED
    BY <2>2, <2>3, <2>4
<1> QED
  BY <1>1, SandboxInvariant, PTL
================================================================================
