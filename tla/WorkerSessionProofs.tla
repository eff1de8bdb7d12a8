-------------------------- MODULE WorkerSessionProofs --------------------------
(***************************************************************************)
(* Proofs about WorkerSession, for any tasks, budgets, pages, attempts and *)
(* faults: what a worker acts on, what the budget of a task bounds, and    *)
(* which input ends a wait.                                                *)
(*                                                                         *)
(* The budget is the argument with most parts.  A question that is open    *)
(* (its attempt still has the authority, so that it may yet be answered)   *)
(* counts as if it were, and a session may ask one more question for each  *)
(* turn it has left: all three together never exceed the budget, because   *)
(* an attempt asks each of its turns once, and the answers of an attempt   *)
(* that was replaced can no longer come.  The sum of calls is kept alike.  *)
(***************************************************************************)
EXTENDS WorkerSession, TaskStoreProofs, FiniteSetTheorems, SequenceTheorems

--------------------------------------------------------------------------------
(* Types.                                                                  *)

Asking  == {"check", "controls", "project", "kinds", "ask"}
Acting  == {"resume", "act", "tools", "checkpoint", "input", "waitInput"}
Looping == Asking \cup {"wait"} \cup Acting
Leaving == {"ended", "finish", "verify", "outcome", "confirm", "finalize"}
Working == Looping \cup Leaving \cup {"harness"}

Outcomes == {"none", "BLOCKED", "RETRY_WAIT", "candidate", "error"}
Controls == [kind : Kinds, after : 0..MaxEpoch]
Turns    == [epoch : Epochs, turn : Nat, answer : Answers \cup {Pending}]
Sessions == [pc : Working \cup {"none", "begin"}, epoch : 0..MaxEpoch, turn : Nat,
             seen : Nat, latest : Nat, got : Nat, calls : Nat, todo : Nat,
             maxTurns : Nat, maxCalls : Nat, outcome : Outcomes]

SessionTypes ==
  /\ log \in [Tasks -> Seq(Controls)] /\ turns \in [Tasks -> Seq(Turns)]
  /\ sess \in [Tasks -> Sessions] /\ executed \in [Tasks -> Nat]

(* A session serves the latest attempt of its task, and admits one only    *)
(* when no other is left.                                                  *)
OfLatest(t) ==
  /\ \A k \in 1..Len(turns[t]) : turns[t][k].epoch <= epoch[t]
  /\ sess[t].pc \in Working => sess[t].epoch = epoch[t] /\ epoch[t] \in Epochs
  /\ sess[t].pc = "begin" => Quiescent(t)

(* Each turn of an attempt has one question at most, the latest of which   *)
(* is the one the worker waits for or acts on.                             *)
EarlierTurn(t, k) == turns[t][k].epoch = sess[t].epoch => turns[t][k].turn < sess[t].turn
Questions(t) ==
  LET s == sess[t] IN
    /\ s.pc = "begin" => s.maxTurns > 0
    /\ s.pc \in Looping => s.turn \in 1..s.maxTurns
    /\ s.pc \in Asking => \A k \in 1..Len(turns[t]) : EarlierTurn(t, k)
    /\ s.pc \in Acting \cup {"wait"} =>
         /\ s.got \in 1..Len(turns[t])
         /\ turns[t][s.got].epoch = s.epoch /\ turns[t][s.got].turn = s.turn
         /\ \A k \in 1..Len(turns[t]) \ {s.got} : EarlierTurn(t, k)
    /\ s.pc \in Acting => turns[t][s.got].answer # Pending
    /\ s.pc = "tools" => s.todo > 0

(* Questions that are answered or may yet be, and those still to be asked. *)
Open(t)    == {k \in 1..Len(turns[t]) : Authoritative(t, turns[t][k].epoch)}
Counted(t) == Answered(t) \cup Open(t)
ToAsk(s) ==
  CASE s.pc = "begin"               -> s.maxTurns
    [] s.pc \in Asking              -> s.maxTurns - s.turn + 1
    [] s.pc \in Acting \cup {"wait"} -> s.maxTurns - s.turn
    [] OTHER                        -> 0
DecisionsFit(t) == Cardinality(Counted(t)) + ToAsk(sess[t]) <= MaxTaskDecisions

(* Calls that were carried out, are being so, and may yet be admitted; none *)
(* is carried out before the answer that asks for it counts.               *)
OtherCalls(t, k) == {c \in CallsAnswered(t) : c[1] # k}
CallsFit(t) ==
  LET s == sess[t] IN
    /\ s.calls <= s.maxCalls
    /\ executed[t] + s.todo + (s.maxCalls - s.calls) <= MaxTaskCalls
    /\ executed[t] + s.todo <= WorkerToolCalls(t)
    /\ s.pc \in Asking \cup {"begin", "wait", "resume", "act"} => s.todo = 0
    /\ s.pc \in {"wait", "resume", "act"} => executed[t] <= Cardinality(OtherCalls(t, s.got))

(* While the log fits a page: an input ends the wait it was given in, of a *)
(* brain or of an owner, so that none is left unread when a worker asks.   *)
NoInput(t, first, last) == \A k \in first..last : log[t][k].kind # "INPUT"
Unread(t) == NoInput(t, sess[t].seen + 1, Len(log[t]))
InputsRead(t) ==
  LET s == sess[t] IN
    /\ s.pc \in Looping \cup {"begin"} => s.seen <= Len(log[t]) /\ s.latest <= Len(log[t])
    /\ s.pc = "waitInput" =>
         state[t] # "INPUT_REQUIRED" \/ NoInput(t, s.latest + 1, Len(log[t]))
    /\ Len(log[t]) <= ControlPage =>
         /\ s.pc \in Asking => state[t] # "INPUT_REQUIRED"
         /\ s.pc \in {"project", "kinds", "ask"} => Unread(t)
         /\ s.pc = "wait" => \/ state[t] # "INPUT_REQUIRED" /\ Asked(t).answer = Pending
                             \/ Unread(t)
         /\ s.pc = "wait" /\ Asked(t).answer # Pending => state[t] # "INPUT_REQUIRED"
         /\ s.pc \in Acting \ {"waitInput"} => state[t] # "INPUT_REQUIRED" /\ Unread(t)
         /\ s.pc = "waitInput" => NoInput(t, s.seen + 1, s.latest)

TaskInv(t) == OfLatest(t) /\ Questions(t) /\ DecisionsFit(t) /\ CallsFit(t) /\ InputsRead(t)

SessionInv == IInv /\ SessionTypes /\ \A t \in Tasks : TaskInv(t)

--------------------------------------------------------------------------------
(* What a transaction of the store may do to the task of a session.        *)
StoreDrifts(t) ==
  /\ epoch'[t] = epoch[t]
  /\ \A e \in Epochs : authority'[t][e] = "ACTIVE" => authority[t][e] = "ACTIVE"
  /\ Quiescent(t) => Quiescent(t)'
  /\ state'[t] = "INPUT_REQUIRED" => state[t] = "INPUT_REQUIRED"

OthersRows(t) ==
  \A u \in Tasks \ {t} : state'[u] = state[u] /\ epoch'[u] = epoch[u] /\ authority'[u] = authority[u]

LEMMA SameStoreDrifts ==
  ASSUME NEW t \in Tasks, UNCHANGED storeVars PROVE StoreDrifts(t) /\ OthersRows(t)
BY DEF storeVars, StoreDrifts, OthersRows, Quiescent, OpenEpochs

LEMMA OrchestratorDrifts ==
  ASSUME IInv, NEW t \in Tasks,
         \/ \E from \in TaskStates : BlockTask(t, from) \/ RecoverTaskToWorkspaceReady(t, from)
         \/ RecoverBlockedChoice(t)
  PROVE  StoreDrifts(t) /\ OthersRows(t)
BY DEF IInv, TypeOK, BlockTask, OrchestratorTransition, RecoverTaskToWorkspaceReady,
       RecoverBlockedChoice, RecoverNoWorkspaceToPreflight, SetTaskBlocker, Touch,
       RecoverBlockedCheckpointToWaitingResource, Move, StoreDrifts, OthersRows, Quiescent, OpenEpochs

LEMMA AttemptDrifts ==
  ASSUME IInv, NEW t \in Tasks, NEW e \in Epochs,
         \/ ConfirmAttemptTerminated(t, e) \/ RequirePhysicalRecovery(t, e)
         \/ \E to \in TaskStates \ {"INPUT_REQUIRED"} : TransitionForAttempt(t, e, to)
         \/ PersistVerificationOutcome(t, e)
  PROVE  StoreDrifts(t) /\ OthersRows(t)
<1> USE DEF StoreDrifts, OthersRows, Quiescent, OpenEpochs, Move
<1>1. CASE ConfirmAttemptTerminated(t, e)
  BY <1>1 DEF ConfirmAttemptTerminated, SetAuthority, IInv, TypeOK
<1>2. CASE RequirePhysicalRecovery(t, e)
  BY <1>2 DEF RequirePhysicalRecovery, FenceIfActive, IInv, TypeOK
<1>3. CASE \E to \in TaskStates \ {"INPUT_REQUIRED"} : TransitionForAttempt(t, e, to)
  BY <1>3 DEF TransitionForAttempt, IInv, TypeOK
<1>4. CASE PersistVerificationOutcome(t, e)
  BY <1>4 DEF PersistVerificationOutcome, OutcomeTargets, IInv, TypeOK
<1> QED
  BY <1>1, <1>2, <1>3, <1>4

LEMMA ControlDrifts ==
  ASSUME IInv, NEW t \in Tasks,
         \/ \E blockedChoice \in BOOLEAN : Steer(t, blockedChoice)
         \/ PublishTaskInput(t) \/ RequestTaskCancellation(t) \/ FinalizeTaskCancellation(t)
  PROVE  StoreDrifts(t) /\ OthersRows(t)
<1> USE DEF StoreDrifts, OthersRows, Quiescent, OpenEpochs, Move
<1>1. CASE \E blockedChoice \in BOOLEAN : Steer(t, blockedChoice)
  BY <1>1 DEF Steer, IInv, TypeOK
<1>2. CASE PublishTaskInput(t) \/ FinalizeTaskCancellation(t)
  BY <1>2 DEF PublishTaskInput, FinalizeTaskCancellation, IInv, TypeOK
<1>3. CASE RequestTaskCancellation(t)
  BY <1>3 DEF RequestTaskCancellation, Touch, IInv, TypeOK
<1> QED
  BY <1>1, <1>2, <1>3

--------------------------------------------------------------------------------
(* What is counted is finite.                                              *)
LEMMA Positive ==
  /\ MaxTaskDecisions \in Nat \ {0} /\ MaxTaskCalls \in Nat \ {0} /\ MaxEpisode \in Nat \ {0}
  /\ ControlPage \in Nat \ {0}
BY SessionAssumption DEF SessionAssumption

LEMMA AnswersTyped ==
  /\ \A a \in Answers : a.calls \in 0..2 /\ a.kind \in {"tools", "checkpoint", "input", "finish", "block"}
  /\ \A a \in Answers : a.kind # "block" => a.calls > 0
  /\ Pending.calls = 0 /\ Pending \notin Answers
<1>1. \A a \in Answers : \/ a.kind = "tools" /\ a.calls \in 1..2
                         \/ a.kind \in {"checkpoint", "input", "finish"} /\ a.calls = 1
                         \/ a.kind = "block" /\ a.calls \in 0..1
  BY DEF Answers
<1>2. Pending.calls = 0 /\ Pending.kind = "pending"
  BY DEF Pending
<1> QED
  BY <1>1, <1>2

LEMMA TurnTyped ==
  ASSUME SessionTypes, NEW t \in Tasks
  PROVE  /\ Len(turns[t]) \in Nat /\ DOMAIN turns[t] = 1..Len(turns[t])
         /\ \A k \in 1..Len(turns[t]) :
              /\ turns[t][k] \in Turns /\ turns[t][k].epoch \in Epochs /\ turns[t][k].turn \in Nat
              /\ turns[t][k].answer \in Answers \cup {Pending} /\ turns[t][k].answer.calls \in 0..2
<1>1. turns[t] \in Seq(Turns)
  BY DEF SessionTypes
<1>2. Len(turns[t]) \in Nat /\ DOMAIN turns[t] = 1..Len(turns[t])
  BY <1>1
<1>3. \A k \in 1..Len(turns[t]) : turns[t][k] \in Turns
  BY <1>1, ElementOfSeq
<1>4. \A w \in Turns : /\ w.epoch \in Epochs /\ w.turn \in Nat
                       /\ w.answer \in Answers \cup {Pending} /\ w.answer.calls \in 0..2
  BY AnswersTyped DEF Turns
<1> QED
  BY <1>2, <1>3, <1>4

LEMMA LogTyped ==
  ASSUME SessionTypes, NEW t \in Tasks
  PROVE  log[t] \in Seq(Controls) /\ Len(log[t]) \in Nat /\ DOMAIN log[t] = 1..Len(log[t])
BY DEF SessionTypes

LEMMA CountsFinite ==
  ASSUME SessionTypes, NEW t \in Tasks
  PROVE  /\ IsFiniteSet(Answered(t)) /\ IsFiniteSet(Counted(t)) /\ IsFiniteSet(CallsAnswered(t))
         /\ ModelDecisions(t) \in Nat /\ Cardinality(Counted(t)) \in Nat /\ WorkerToolCalls(t) \in Nat
         /\ ModelDecisions(t) <= Cardinality(Counted(t))
         /\ \A k : OtherCalls(t, k) \in SUBSET CallsAnswered(t) /\ IsFiniteSet(OtherCalls(t, k))
                   /\ Cardinality(OtherCalls(t, k)) \in Nat
                   /\ Cardinality(OtherCalls(t, k)) <= WorkerToolCalls(t)
<1> DEFINE D == 1..Len(turns[t])
<1>1. IsFiniteSet(D) /\ DOMAIN turns[t] = D
  BY TurnTyped, FS_Interval
<1>2. Answered(t) \in SUBSET D /\ Counted(t) \in SUBSET D /\ Answered(t) \in SUBSET Counted(t)
  BY <1>1 DEF Answered, Counted, Open
<1>3. IsFiniteSet(D \X (0..2))
  <2> DEFINE N == 0..2
  <2>1. 0 \in Int /\ 2 \in Int
    OBVIOUS
  <2>2. IsFiniteSet(N)
    BY <2>1, FS_Interval
  <2> HIDE DEF D, N
  <2>3. IsFiniteSet(D \X N)
    BY <1>1, <2>2, FS_Product
  <2> QED
    BY <2>3 DEF N
<1>4. CallsAnswered(t) \in SUBSET (D \X (0..2))
  <2> SUFFICES ASSUME NEW k \in D, NEW c \in {k} \X CallsOf(turns[t][k]) PROVE c \in D \X (0..2)
    BY <1>1 DEF CallsAnswered
  <2>1. CallsOf(turns[t][k]) \subseteq 0..2
    BY TurnTyped DEF CallsOf
  <2> QED
    BY <2>1
<1> HIDE DEF D
<1>5. IsFiniteSet(Answered(t)) /\ IsFiniteSet(Counted(t)) /\ IsFiniteSet(CallsAnswered(t))
  BY <1>1, <1>2, <1>3, <1>4, FS_Subset
<1>6. \A k : OtherCalls(t, k) \in SUBSET CallsAnswered(t)
  BY DEF OtherCalls
<1>7. \A k : IsFiniteSet(OtherCalls(t, k)) /\ Cardinality(OtherCalls(t, k)) <= Cardinality(CallsAnswered(t))
  BY <1>5, <1>6, FS_Subset
<1> QED
  BY <1>2, <1>5, <1>6, <1>7, FS_Subset, FS_CardinalityType DEF ModelDecisions, WorkerToolCalls

(* The calls of one answer are as many as it says.                         *)
LEMMA CallsOfOne ==
  ASSUME NEW k, NEW n \in Nat
  PROVE  IsFiniteSet({k} \X (1..n)) /\ Cardinality({k} \X (1..n)) = n
<1> DEFINE N == 1..n
<1>1. IsFiniteSet({k}) /\ Cardinality({k}) = 1
  BY FS_Singleton
<1>2. IsFiniteSet(N) /\ Cardinality(N) = n
  BY FS_Interval
<1> HIDE DEF N
<1>3. IsFiniteSet({k} \X N) /\ Cardinality({k} \X N) = 1 * n
  BY <1>1, <1>2, FS_Product
<1> QED
  BY <1>3 DEF N

LEMMA CallsSplit ==
  ASSUME SessionTypes, NEW t \in Tasks, NEW k \in 1..Len(turns[t])
  PROVE  WorkerToolCalls(t) = Cardinality(OtherCalls(t, k)) + turns[t][k].answer.calls
<1> DEFINE n == turns[t][k].answer.calls
           O == OtherCalls(t, k)
           K == {k} \X (1..n)
<1>1. n \in Nat
  BY TurnTyped
<1>2. CallsAnswered(t) = O \cup K
  <2>1. \A c \in CallsAnswered(t) : c \in O \/ c \in K
    BY DEF CallsAnswered, OtherCalls, CallsOf
  <2>2. O \subseteq CallsAnswered(t)
    BY DEF OtherCalls
  <2>3. K \subseteq CallsAnswered(t)
    BY TurnTyped DEF CallsAnswered, CallsOf
  <2> QED
    BY <2>1, <2>2, <2>3
<1>3. O \cap K = {}
  BY DEF OtherCalls
<1>4. IsFiniteSet(O) /\ IsFiniteSet(K) /\ Cardinality(K) = n /\ Cardinality(O) \in Nat
  BY <1>1, CountsFinite, CallsOfOne
<1> HIDE DEF O, K, n
<1>5. Cardinality(O \cup K) = Cardinality(O) + Cardinality(K) - 0
  BY <1>3, <1>4, FS_Union, FS_EmptySet
<1> QED
  BY <1>1, <1>2, <1>4, <1>5 DEF WorkerToolCalls, O, n

--------------------------------------------------------------------------------
(* Steps that ask nothing.                                                 *)
SameRows(u) ==
  /\ state'[u] = state[u] /\ epoch'[u] = epoch[u] /\ authority'[u] = authority[u]
  /\ sess'[u] = sess[u] /\ turns'[u] = turns[u] /\ log'[u] = log[u] /\ executed'[u] = executed[u]

LEMMA SameKeeps == ASSUME NEW u \in Tasks, SameRows(u), TaskInv(u) PROVE TaskInv(u)'
<1> USE DEF SameRows
<1>1. OfLatest(u)'
  BY DEF TaskInv, OfLatest, Quiescent, OpenEpochs
<1>2. Questions(u)'
  BY DEF TaskInv, Questions, EarlierTurn
<1>3. Answered(u)' = Answered(u) /\ Open(u)' = Open(u) /\ CallsAnswered(u)' = CallsAnswered(u)
  BY DEF Answered, Open, Authoritative, CallsAnswered
<1>4. DecisionsFit(u)'
  BY <1>3 DEF TaskInv, DecisionsFit, Counted
<1>5. CallsFit(u)'
  BY <1>3 DEF TaskInv, CallsFit, OtherCalls, WorkerToolCalls
<1>6. InputsRead(u)'
  BY DEF TaskInv, InputsRead, NoInput, Unread, Asked
<1> QED
  BY <1>1, <1>2, <1>4, <1>5, <1>6 DEF TaskInv

(* The log of a task grows by a control, an input only if one was asked.   *)
LogGrows(t) ==
  \/ log'[t] = log[t]
  \/ \E c \in Controls :
       /\ log'[t] = Append(log[t], c)
       /\ c.kind = "INPUT" => state[t] = "INPUT_REQUIRED" /\ state'[t] # "INPUT_REQUIRED"

LEMMA GrowsBy ==
  ASSUME SessionTypes, NEW t \in Tasks, LogGrows(t)
  PROVE  /\ Len(log[t]) \in Nat /\ Len(log'[t]) \in Nat /\ Len(log[t]) <= Len(log'[t])
         /\ \A k \in 1..Len(log[t]) : log'[t][k] = log[t][k]
         /\ \/ \A k \in (Len(log[t]) + 1)..Len(log'[t]) : log'[t][k].kind # "INPUT"
            \/ state[t] = "INPUT_REQUIRED" /\ state'[t] # "INPUT_REQUIRED"
<1>1. log[t] \in Seq(Controls) /\ Len(log[t]) \in Nat
  BY LogTyped
<1>2. CASE log'[t] = log[t]
  BY <1>1, <1>2
<1>3. ASSUME NEW c \in Controls, log'[t] = Append(log[t], c),
             c.kind = "INPUT" => state[t] = "INPUT_REQUIRED" /\ state'[t] # "INPUT_REQUIRED"
      PROVE  /\ Len(log'[t]) \in Nat /\ Len(log[t]) <= Len(log'[t])
             /\ \A k \in 1..Len(log[t]) : log'[t][k] = log[t][k]
             /\ \/ \A k \in (Len(log[t]) + 1)..Len(log'[t]) : log'[t][k].kind # "INPUT"
                \/ state[t] = "INPUT_REQUIRED" /\ state'[t] # "INPUT_REQUIRED"
  <2>1. /\ Len(log'[t]) = Len(log[t]) + 1 /\ log'[t][Len(log[t]) + 1] = c
        /\ \A k \in 1..Len(log[t]) : log'[t][k] = log[t][k]
    BY <1>1, <1>3
  <2> QED
    BY <1>1, <1>3, <2>1
<1> QED
  BY <1>1, <1>2, <1>3 DEF LogGrows

(* What may be answered of a task does not grow by itself.                 *)
LEMMA CountedShrinks ==
  ASSUME SessionTypes, SessionTypes', NEW t \in Tasks, StoreDrifts(t), turns'[t] = turns[t]
  PROVE  /\ Cardinality(Counted(t)') <= Cardinality(Counted(t))
         /\ Cardinality(Counted(t)') \in Nat /\ Cardinality(Counted(t)) \in Nat
<1>1. Answered(t)' = Answered(t)
  BY DEF Answered
<1>2. Open(t)' \subseteq Open(t)
  BY TurnTyped DEF Open, Authoritative, StoreDrifts
<1>3. Counted(t)' \subseteq Counted(t)
  BY <1>1, <1>2 DEF Counted
<1> QED
  BY <1>3, CountsFinite, FS_Subset, FS_CardinalityType

(* Others act on a task; its session stays where it is, or only finds that *)
(* it has its authority.                                                   *)
LEMMA SessionStays ==
  ASSUME SessionTypes, SessionTypes', NEW t \in Tasks, TaskInv(t), StoreDrifts(t),
         turns'[t] = turns[t], executed'[t] = executed[t], LogGrows(t),
         \/ sess'[t] = sess[t]
         \/ sess[t].pc = "check" /\ sess'[t] = [sess[t] EXCEPT !.pc = "controls"]
  PROVE  TaskInv(t)'
<1> DEFINE s == sess[t]
           q == sess'[t]
<1>0. s \in Sessions /\ q \in Sessions
  BY DEF SessionTypes
<1>1. /\ q.epoch = s.epoch /\ q.turn = s.turn /\ q.seen = s.seen /\ q.latest = s.latest
      /\ q.got = s.got /\ q.calls = s.calls /\ q.todo = s.todo
      /\ q.maxTurns = s.maxTurns /\ q.maxCalls = s.maxCalls
      /\ q.pc = s.pc \/ (s.pc = "check" /\ q.pc = "controls")
  BY <1>0 DEF Sessions
<1> HIDE DEF s, q
<1> DEFINE Kept(S) == q.pc \in S <=> s.pc \in S
<1>2. /\ Kept(Working) /\ Kept(Looping) /\ Kept(Asking) /\ Kept(Acting)
      /\ Kept({"project", "kinds", "ask"}) /\ Kept({"wait", "resume", "act"}) /\ Kept(Acting \cup {"wait"})
      /\ Kept(Acting \ {"waitInput"})
      /\ \A p \in {"begin", "wait", "tools", "waitInput"} : q.pc = p <=> s.pc = p
  BY <1>1 DEF Working, Looping, Asking, Acting, Leaving
<1> HIDE DEF Kept
<1>3. OfLatest(t)'
  BY <1>1, <1>2 DEF TaskInv, OfLatest, StoreDrifts, s, q, Kept
<1>4. Questions(t)'
  BY <1>1, <1>2 DEF TaskInv, Questions, EarlierTurn, s, q, Kept
<1>5. DecisionsFit(t)'
  <2>1. ToAsk(q) = ToAsk(s)
    BY <1>1, <1>2 DEF ToAsk, Kept
  <2>2. ToAsk(s) \in Int
    BY <1>0 DEF ToAsk, Sessions, s
  <2> QED
    BY <2>1, <2>2, CountedShrinks, Positive DEF TaskInv, DecisionsFit, s, q
<1>6. CallsFit(t)'
  <2>1. CallsAnswered(t)' = CallsAnswered(t)
    BY DEF CallsAnswered
  <2> QED
    BY <2>1, <1>1, <1>2 DEF TaskInv, CallsFit, OtherCalls, WorkerToolCalls, s, q, Kept
<1>7. InputsRead(t)'
  <2> DEFINE New(first, last) == \A k \in first..last : log'[t][k].kind # "INPUT"
  <2>1. /\ Len(log[t]) \in Nat /\ Len(log'[t]) \in Nat /\ Len(log[t]) <= Len(log'[t])
        /\ \A k \in 1..Len(log[t]) : log'[t][k] = log[t][k]
        /\ \/ \A k \in (Len(log[t]) + 1)..Len(log'[t]) : log'[t][k].kind # "INPUT"
           \/ state[t] = "INPUT_REQUIRED" /\ state'[t] # "INPUT_REQUIRED"
    BY GrowsBy
  <2>2. s.seen \in Nat /\ s.latest \in Nat /\ ControlPage \in Nat
    BY <1>0, Positive DEF Sessions
  <2>3. state'[t] = "INPUT_REQUIRED" => state[t] = "INPUT_REQUIRED"
    BY DEF StoreDrifts
  <2>4. /\ s.pc \in Looping \cup {"begin"} => s.seen <= Len(log[t]) /\ s.latest <= Len(log[t])
        /\ s.pc = "waitInput" =>
             state[t] # "INPUT_REQUIRED" \/ NoInput(t, s.latest + 1, Len(log[t]))
    BY DEF TaskInv, InputsRead, s
  <2>5. /\ q.pc \in Looping \cup {"begin"} => q.seen <= Len(log'[t]) /\ q.latest <= Len(log'[t])
        /\ q.pc = "waitInput" =>
             state'[t] # "INPUT_REQUIRED" \/ New(q.latest + 1, Len(log'[t]))
    <3>1. q.pc \in Looping \cup {"begin"} => q.seen <= Len(log'[t]) /\ q.latest <= Len(log'[t])
      BY <1>1, <1>2, <2>1, <2>2, <2>4 DEF Kept
    <3>2. ASSUME q.pc = "waitInput", state'[t] = "INPUT_REQUIRED"
          PROVE  New(q.latest + 1, Len(log'[t]))
      <4>1. NoInput(t, s.latest + 1, Len(log[t])) /\ state[t] = "INPUT_REQUIRED"
        BY <1>2, <2>3, <2>4, <3>2
      <4>2. \A k \in (Len(log[t]) + 1)..Len(log'[t]) : log'[t][k].kind # "INPUT"
        BY <2>1, <3>2
      <4>3. \A k \in (s.latest + 1)..Len(log'[t]) : log'[t][k].kind # "INPUT"
        BY <2>1, <2>2, <4>1, <4>2 DEF NoInput
      <4> QED
        BY <1>1, <4>3
    <3> QED
      BY <3>1, <3>2
  <2> DEFINE answered == turns[t][s.got].answer # Pending
  <2>6. Len(log[t]) <= ControlPage =>
         /\ s.pc \in Asking => state[t] # "INPUT_REQUIRED"
         /\ s.pc \in {"project", "kinds", "ask"} => Unread(t)
         /\ s.pc = "wait" => (state[t] # "INPUT_REQUIRED" /\ ~answered) \/ Unread(t)
         /\ s.pc = "wait" /\ answered => state[t] # "INPUT_REQUIRED"
         /\ s.pc \in Acting \ {"waitInput"} => state[t] # "INPUT_REQUIRED" /\ Unread(t)
         /\ s.pc = "waitInput" => NoInput(t, s.seen + 1, s.latest)
    BY DEF TaskInv, InputsRead, Asked, s
  <2>7. Unread(t) /\ (state[t] # "INPUT_REQUIRED" \/ state'[t] = "INPUT_REQUIRED") => Unread(t)'
    <3> SUFFICES ASSUME Unread(t), state[t] # "INPUT_REQUIRED" \/ state'[t] = "INPUT_REQUIRED"
                 PROVE  Unread(t)'
      OBVIOUS
    <3>1. \A k \in (Len(log[t]) + 1)..Len(log'[t]) : log'[t][k].kind # "INPUT"
      BY <2>1
    <3>2. \A k \in (s.seen + 1)..Len(log[t]) : log[t][k].kind # "INPUT"
      BY DEF Unread, NoInput, s
    <3>3. \A k \in (s.seen + 1)..Len(log'[t]) : log'[t][k].kind # "INPUT"
      BY <2>1, <2>2, <3>1, <3>2
    <3> QED
      BY <1>1, <3>3 DEF Unread, NoInput, q
  <2>8. s.pc = "waitInput" /\ NoInput(t, s.seen + 1, s.latest) => New(s.seen + 1, s.latest)
    <3> SUFFICES ASSUME s.pc = "waitInput", NoInput(t, s.seen + 1, s.latest)
                 PROVE  New(s.seen + 1, s.latest)
      OBVIOUS
    <3>1. s.latest <= Len(log[t])
      BY <2>4 DEF Looping, Acting
    <3>2. \A k \in (s.seen + 1)..s.latest : log'[t][k].kind # "INPUT"
      BY <2>1, <2>2, <3>1 DEF NoInput
    <3> QED
      BY <3>2
  <2>9. Len(log'[t]) <= ControlPage =>
         /\ q.pc \in Asking => state'[t] # "INPUT_REQUIRED"
         /\ q.pc \in {"project", "kinds", "ask"} => Unread(t)'
         /\ q.pc = "wait" => (state'[t] # "INPUT_REQUIRED" /\ ~answered) \/ Unread(t)'
         /\ q.pc = "wait" /\ answered => state'[t] # "INPUT_REQUIRED"
         /\ q.pc \in Acting \ {"waitInput"} => state'[t] # "INPUT_REQUIRED" /\ Unread(t)'
         /\ q.pc = "waitInput" => New(s.seen + 1, s.latest)
    <3> SUFFICES ASSUME Len(log'[t]) <= ControlPage
                 PROVE  /\ q.pc \in Asking => state'[t] # "INPUT_REQUIRED"
                        /\ q.pc \in {"project", "kinds", "ask"} => Unread(t)'
                        /\ q.pc = "wait" => (state'[t] # "INPUT_REQUIRED" /\ ~answered) \/ Unread(t)'
                        /\ q.pc = "wait" /\ answered => state'[t] # "INPUT_REQUIRED"
                        /\ q.pc \in Acting \ {"waitInput"} => state'[t] # "INPUT_REQUIRED" /\ Unread(t)'
                        /\ q.pc = "waitInput" => New(s.seen + 1, s.latest)
      OBVIOUS
    <3>1. Len(log[t]) <= ControlPage
      BY <2>1, <2>2
    <3>2. {"project", "kinds", "ask"} \subseteq Asking
      BY DEF Asking
    <3> HIDE DEF answered
    <3> QED
      BY <1>2, <2>3, <2>6, <2>7, <2>8, <3>1, <3>2 DEF Kept
  <2> HIDE DEF answered
  <2>10. /\ turns'[t][q.got].answer # Pending <=> answered
         /\ New(q.seen + 1, q.latest) <=> New(s.seen + 1, s.latest)
    BY <1>1 DEF answered, s, q
  <2> QED
    BY <2>5, <2>9, <2>10 DEF InputsRead, Asked, NoInput, q
<1> QED
  BY <1>3, <1>4, <1>5, <1>6, <1>7 DEF TaskInv

LEMMA ToAskIsNat ==
  ASSUME SessionTypes, NEW t \in Tasks, Questions(t) PROVE ToAsk(sess[t]) \in Nat
<1>1. sess[t].maxTurns \in Nat /\ sess[t].turn \in Nat
  BY DEF SessionTypes, Sessions
<1>2. sess[t].pc \in Looping => sess[t].turn <= sess[t].maxTurns
  BY <1>1 DEF Questions
<1> QED
  BY <1>1, <1>2 DEF ToAsk, Looping

(* A session ends, or its runner goes on.                                  *)
LEMMA SessionLeaves ==
  ASSUME SessionTypes, SessionTypes', NEW t \in Tasks, TaskInv(t), StoreDrifts(t),
         turns'[t] = turns[t], Len(log'[t]) = Len(log[t]),
         \/ sess'[t].pc = "none"
         \/ /\ sess'[t].pc \in Leaving /\ sess[t].pc \in Working
            /\ sess'[t].epoch = sess[t].epoch,
         \/ /\ sess'[t].calls = 0 /\ sess'[t].todo = 0 /\ sess'[t].maxCalls = 0
            /\ executed'[t] \in executed[t]..(executed[t] + sess[t].todo)
         \/ /\ sess'[t].calls = sess[t].calls /\ sess'[t].todo = sess[t].todo
            /\ sess'[t].maxCalls = sess[t].maxCalls /\ executed'[t] = executed[t]
  PROVE  TaskInv(t)'
<1> DEFINE s == sess[t]
           q == sess'[t]
<1>0. s \in Sessions /\ q \in Sessions
  BY DEF SessionTypes
<1>1. q.pc \notin Looping \cup {"begin"} /\ (q.pc \in Working => q.epoch = s.epoch /\ s.pc \in Working)
  BY DEF Working, Looping, Asking, Acting, Leaving
<1>2. OfLatest(t)'
  BY <1>1 DEF TaskInv, OfLatest, StoreDrifts
<1>3. Questions(t)'
  BY <1>1 DEF Questions, Looping, Asking, Acting
<1>4. DecisionsFit(t)'
  <2>1. ToAsk(q) = 0
    BY <1>1 DEF ToAsk, Looping
  <2>2. ToAsk(s) \in Nat /\ Cardinality(Counted(t)) + ToAsk(s) <= MaxTaskDecisions
    BY ToAskIsNat DEF TaskInv, DecisionsFit
  <2> HIDE DEF s, q
  <2>3. Cardinality(Counted(t)') + ToAsk(q) <= MaxTaskDecisions
    BY <2>1, <2>2, CountedShrinks, Positive
  <2> QED
    BY <2>3 DEF DecisionsFit, q
<1>5. CallsFit(t)'
  <2>1. WorkerToolCalls(t)' = WorkerToolCalls(t) /\ WorkerToolCalls(t) \in Nat
    BY CountsFinite DEF CallsAnswered, WorkerToolCalls
  <2>2. /\ s.calls \in Nat /\ s.todo \in Nat /\ s.maxCalls \in Nat
        /\ executed[t] \in Nat /\ executed'[t] \in Nat /\ MaxTaskCalls \in Nat
    BY <1>0, Positive DEF SessionTypes, Sessions
  <2>3. /\ s.calls <= s.maxCalls /\ executed[t] + s.todo + (s.maxCalls - s.calls) <= MaxTaskCalls
        /\ executed[t] + s.todo <= WorkerToolCalls(t)
    BY DEF TaskInv, CallsFit
  <2>4. q.pc \notin {"wait", "resume", "act"} /\ q.pc \notin Asking \cup {"begin", "wait", "resume", "act"}
    BY <1>1 DEF Looping, Acting
  <2>5. \/ q.calls = 0 /\ q.todo = 0 /\ q.maxCalls = 0 /\ executed'[t] <= executed[t] + s.todo
        \/ /\ q.calls = s.calls /\ q.todo = s.todo /\ q.maxCalls = s.maxCalls
           /\ executed'[t] = executed[t]
    BY <2>2
  <2> HIDE DEF s, q
  <2>6. /\ q.calls <= q.maxCalls /\ executed'[t] + q.todo + (q.maxCalls - q.calls) <= MaxTaskCalls
        /\ executed'[t] + q.todo <= WorkerToolCalls(t)
    BY <2>1, <2>2, <2>3, <2>5
  <2> QED
    BY <2>1, <2>4, <2>6 DEF CallsFit, q
<1>6. InputsRead(t)'
  BY <1>1 DEF InputsRead, Looping, Asking, Acting
<1> QED
  BY <1>2, <1>3, <1>4, <1>5, <1>6 DEF TaskInv

--------------------------------------------------------------------------------
(* Types are kept.                                                         *)
LEMMA SessionFields ==
  ASSUME SessionTypes, NEW t \in Tasks
  PROVE  /\ sess[t] \in Sessions /\ sess[t].pc \in Working \cup {"none", "begin"}
         /\ sess[t].epoch \in 0..MaxEpoch /\ sess[t].turn \in Nat /\ sess[t].seen \in Nat
         /\ sess[t].latest \in Nat /\ sess[t].got \in Nat /\ sess[t].calls \in Nat
         /\ sess[t].todo \in Nat /\ sess[t].maxTurns \in Nat /\ sess[t].maxCalls \in Nat
         /\ sess[t].outcome \in Outcomes /\ executed[t] \in Nat
<1>1. sess[t] \in Sessions /\ executed[t] \in Nat
  BY DEF SessionTypes
<1> QED
  BY <1>1 DEF Sessions

LEMMA SessionSet ==
  ASSUME SessionTypes, NEW t \in Tasks, NEW s, sess' = [sess EXCEPT ![t] = s]
  PROVE  /\ s \in Sessions => sess' \in [Tasks -> Sessions]
         /\ sess'[t] = s /\ \A u \in Tasks \ {t} : sess'[u] = sess[u]
BY DEF SessionTypes

LEMMA GoSets ==
  ASSUME SessionTypes, NEW t \in Tasks, NEW pc \in Working \cup {"none", "begin"}, Go(t, pc)
  PROVE  /\ sess' \in [Tasks -> Sessions] /\ sess'[t] = [sess[t] EXCEPT !.pc = pc]
         /\ \A u \in Tasks \ {t} : sess'[u] = sess[u]
<1>1. [sess[t] EXCEPT !.pc = pc] \in Sessions
  BY SessionFields DEF Sessions
<1>2. sess' = [sess EXCEPT ![t] = [sess[t] EXCEPT !.pc = pc]]
  BY DEF Go
<1> QED
  BY <1>1, <1>2, SessionSet

LEMMA NoSessionTyped == NoSession \in Sessions
BY EpochAssumption DEF NoSession, Sessions, Outcomes

LEMMA EndedTyped ==
  ASSUME NEW s \in Sessions, NEW outcome \in Outcomes
  PROVE  /\ Ended(s, outcome) \in Sessions
         /\ Ended(s, outcome).pc = "ended" /\ Ended(s, outcome).epoch = s.epoch
         /\ Ended(s, outcome).calls = 0 /\ Ended(s, outcome).todo = 0
         /\ Ended(s, outcome).maxCalls = 0
BY DEF Ended, NoSession, Sessions, Working, Leaving

LEMMA ResultSets ==
  ASSUME SessionTypes, NEW t \in Tasks, NEW outcome \in Outcomes, Result(t, outcome)
  PROVE  /\ sess' \in [Tasks -> Sessions] /\ sess'[t] = Ended(sess[t], outcome)
         /\ \A u \in Tasks \ {t} : sess'[u] = sess[u]
<1>1. Ended(sess[t], outcome) \in Sessions
  BY SessionFields, EndedTyped
<1>2. sess' = [sess EXCEPT ![t] = Ended(sess[t], outcome)]
  BY DEF Result
<1> QED
  BY <1>1, <1>2, SessionSet

LEMMA EndSets ==
  ASSUME SessionTypes, NEW t \in Tasks, End(t)
  PROVE  /\ sess' \in [Tasks -> Sessions] /\ sess'[t] = NoSession
         /\ \A u \in Tasks \ {t} : sess'[u] = sess[u]
BY SessionSet, NoSessionTyped DEF End

LEMMA NextTurnSets ==
  ASSUME SessionTypes, NEW t \in Tasks, NEW s \in Sessions, NextTurn(t, s)
  PROVE  /\ sess' \in [Tasks -> Sessions] /\ \A u \in Tasks \ {t} : sess'[u] = sess[u]
         /\ s.turn < s.maxTurns => sess'[t] = Turned(s)
         /\ ~(s.turn < s.maxTurns) => sess'[t] = Ended(s, "RETRY_WAIT")
<1>1. Turned(s) \in Sessions
  <2>1. "check" \in Working
    BY DEF Working, Looping, Asking
  <2>2. s.turn + 1 \in Nat
    BY DEF Sessions
  <2> QED
    BY <2>1, <2>2 DEF Turned, Sessions
<1>2. Ended(s, "RETRY_WAIT") \in Sessions
  BY EndedTyped DEF Outcomes
<1> DEFINE r == IF s.turn < s.maxTurns THEN Turned(s) ELSE Ended(s, "RETRY_WAIT")
<1>3. r \in Sessions
  BY <1>1, <1>2
<1>4. sess' = [sess EXCEPT ![t] = r]
  BY Zenon DEF NextTurn
<1> HIDE DEF r
<1>5. /\ sess' \in [Tasks -> Sessions] /\ \A u \in Tasks \ {t} : sess'[u] = sess[u]
      /\ sess'[t] = r
  BY <1>3, <1>4, SessionSet
<1> QED
  BY <1>5 DEF r

LEMMA PageTyped ==
  ASSUME SessionTypes, NEW t \in Tasks, sess[t].seen <= Len(log[t])
  PROVE  /\ Consumed(t) \in Nat /\ sess[t].seen <= Consumed(t) /\ Consumed(t) <= Len(log[t])
         /\ Consumed(t) = LowerOf(Len(log[t]), sess[t].seen + ControlPage)
         /\ DOMAIN Page(t) = 1..(Consumed(t) - sess[t].seen)
         /\ \A k \in 1..(Consumed(t) - sess[t].seen) : Page(t)[k] = log[t][sess[t].seen + k]
<1> DEFINE m == sess[t].seen + 1
           n == LowerOf(Len(log[t]), sess[t].seen + ControlPage)
<1>1. log[t] \in Seq(Controls) /\ Len(log[t]) \in Nat /\ sess[t].seen \in Nat /\ ControlPage \in Nat \ {0}
  BY LogTyped, SessionFields, Positive
<1>2. n \in Nat /\ sess[t].seen <= n /\ n <= Len(log[t]) /\ m \in Nat
  BY <1>1 DEF LowerOf
<1>3. Page(t) = SubSeq(log[t], m, n)
  BY DEF Page
<1>4. /\ Len(Page(t)) = n - sess[t].seen /\ DOMAIN Page(t) = 1..Len(Page(t))
      /\ \A k \in 1..(n - sess[t].seen) : Page(t)[k] = log[t][sess[t].seen + k]
  <2> HIDE DEF n
  <2>1. \A i \in m..n : log[t][i] \in Controls
    BY <1>1, <1>2, ElementOfSeq
  <2>2. /\ SubSeq(log[t], m, n) \in Seq(Controls)
        /\ Len(SubSeq(log[t], m, n)) = IF m <= n THEN n - m + 1 ELSE 0
        /\ \A i \in 1..(n - m + 1) : SubSeq(log[t], m, n)[i] = log[t][m + i - 1]
    <3>1. m \in Int /\ n \in Int
      BY <1>2
    <3> HIDE DEF m
    <3> QED
      BY <2>1, <3>1, SubSeqProperties
  <2>3. DOMAIN SubSeq(log[t], m, n) = 1..Len(SubSeq(log[t], m, n))
    BY <2>2
  <2>4. Len(SubSeq(log[t], m, n)) = n - sess[t].seen
    BY <1>1, <1>2, <2>2
  <2>5. ASSUME NEW k \in 1..(n - sess[t].seen)
        PROVE  SubSeq(log[t], m, n)[k] = log[t][sess[t].seen + k]
    <3>0. sess[t].seen \in Int /\ n \in Int /\ k \in Int /\ 1 <= k /\ k <= n - sess[t].seen
      BY <1>1, <1>2
    <3>1. k \in 1..(n - m + 1) /\ m + k - 1 = sess[t].seen + k
      BY <3>0
    <3> HIDE DEF m
    <3>2. SubSeq(log[t], m, n)[k] = log[t][m + k - 1]
      BY <3>1, <2>2, Zenon
    <3> QED
      BY <3>1, <3>2, Zenon
  <2> HIDE DEF m
  <2> QED
    BY <1>3, <2>3, <2>4, <2>5
<1>5. Consumed(t) = n
  BY <1>1, <1>2, <1>4 DEF Consumed
<1> HIDE DEF n
<1> QED
  BY <1>1, <1>2, <1>4, <1>5 DEF n

(* A step of a task leaves the sessions and the rows of others alone.      *)
Elsewhere(t) ==
  \A u \in Tasks \ {t} : /\ sess'[u] = sess[u] /\ turns'[u] = turns[u]
                         /\ log'[u] = log[u] /\ executed'[u] = executed[u]

LEMMA OnlySession ==
  ASSUME SessionTypes, NEW t \in Tasks, UNCHANGED <<turns, log, executed>>,
         sess' \in [Tasks -> Sessions], \A u \in Tasks \ {t} : sess'[u] = sess[u]
  PROVE  SessionTypes' /\ Elsewhere(t)
BY DEF SessionTypes, Elsewhere

LEMMA MoveTyped ==
  ASSUME SessionTypes, NEW t \in Tasks, UNCHANGED <<turns, log, executed>>,
         \/ UNCHANGED sess
         \/ \E pc \in Working \cup {"none", "begin"} : Go(t, pc)
         \/ \E outcome \in Outcomes : Result(t, outcome)
         \/ End(t)
         \/ \E s \in Sessions : sess' = [sess EXCEPT ![t] = s] \/ NextTurn(t, s)
  PROVE  SessionTypes' /\ Elsewhere(t)
<1>1. CASE UNCHANGED sess
  BY <1>1, OnlySession DEF SessionTypes
<1>2. CASE \E pc \in Working \cup {"none", "begin"} : Go(t, pc)
  BY <1>2, OnlySession, GoSets
<1>3. CASE \E outcome \in Outcomes : Result(t, outcome)
  BY <1>3, OnlySession, ResultSets
<1>4. CASE End(t)
  BY <1>4, OnlySession, EndSets
<1>5. CASE \E s \in Sessions : sess' = [sess EXCEPT ![t] = s] \/ NextTurn(t, s)
  BY <1>5, OnlySession, SessionSet, NextTurnSets
<1> QED
  BY <1>1, <1>2, <1>3, <1>4, <1>5

LEMMA RunnerTyped ==
  ASSUME IInv, SessionTypes, NEW t \in Tasks,
         RunnerStep(t) \/ TimerStep(t) \/ ResumeEnds(t) \/ WorkerFails(t)
  PROVE  SessionTypes' /\ Elsewhere(t)
<1> USE DEF Records, Reads, sessionVars
<1>1. CASE CheckBudget(t)
  <2>1. CASE ExhaustedReason(t)
    BY <1>1, <2>1, MoveTyped DEF CheckBudget
  <2>2. CASE ~ExhaustedReason(t)
    <3> DEFINE c == BoundedAgentConfig(t)
               s == [NoSession EXCEPT !.pc = "begin", !.maxTurns = c.maxTurns,
                                      !.maxCalls = c.maxCalls]
    <3>1. c.maxTurns \in Nat /\ c.maxCalls \in Nat
      BY <2>2, CountsFinite, Positive DEF BoundedAgentConfig, LowerOf, ExhaustedReason
    <3>2. s \in Sessions
      <4> HIDE DEF c
      <4> QED
        BY <3>1, NoSessionTyped DEF Sessions
    <3>3. sess' = [sess EXCEPT ![t] = s]
      BY <1>1, <2>2 DEF CheckBudget
    <3>4. UNCHANGED <<turns, log, executed>>
      BY <1>1 DEF CheckBudget
    <3> QED
      BY <3>2, <3>3, <3>4, MoveTyped
  <2> QED
    BY <2>1, <2>2
<1>2. CASE Begin(t)
  <2>1. CASE End(t)
    BY <1>2, <2>1, MoveTyped DEF Begin
  <2>2. CASE ~End(t)
    <3> DEFINE e == epoch[t] + 1
    <3>1. PICK s \in {FirstTurn(sess[t], e), HarnessStart(sess[t], e)} :
            sess' = [sess EXCEPT ![t] = s]
      BY <1>2, <2>2 DEF Begin
    <3>2. e \in 0..MaxEpoch
      BY <1>2, <2>2, EpochAssumption DEF Begin, BeginAttempt, IInv, TypeOK
    <3>3. {"check", "harness"} \subseteq Working
      BY DEF Working, Looping, Asking
    <3>4. UNCHANGED <<turns, log, executed>>
      BY <1>2 DEF Begin
    <3> HIDE DEF e
    <3>5. FirstTurn(sess[t], e) \in Sessions /\ HarnessStart(sess[t], e) \in Sessions
      BY <3>2, <3>3, SessionFields DEF FirstTurn, HarnessStart, Sessions
    <3> QED
      BY <3>1, <3>4, <3>5, MoveTyped
  <2> QED
    BY <2>1, <2>2
<1>3. CASE CheckCancel(t) \/ Finish(t) \/ Verify(t) \/ VerifyOutcome(t) \/ Confirm(t) \/ Finalize(t)
  <2>1. \/ \E pc \in {"confirm", "verify", "finish", "outcome", "finalize"} : Go(t, pc)
        \/ End(t)
    BY <1>3 DEF CheckCancel, Finish, Verify, VerifyOutcome, Confirm, Finalize
  <2>2. UNCHANGED <<turns, log, executed>>
    BY <1>3 DEF CheckCancel, Finish, Verify, VerifyOutcome, Confirm, Finalize
  <2> QED
    BY <2>1, <2>2, MoveTyped DEF Working, Leaving
<1>4. CASE TimerStep(t) \/ ResumeEnds(t) \/ WorkerFails(t)
  <2>1. /\ \E outcome \in {"BLOCKED", "RETRY_WAIT", "error"} : Result(t, outcome)
        /\ UNCHANGED <<turns, log, executed>>
    BY <1>4 DEF TimerStep, WaitEnds, ResumeEnds, ClockExpires, WorkerFails
  <2> QED
    BY <2>1, MoveTyped DEF Outcomes
<1> QED
  BY <1>1, <1>2, <1>3, <1>4 DEF RunnerStep

(* The answer that is acted on.                                            *)
LEMMA AskedTyped ==
  ASSUME SessionTypes, NEW t \in Tasks, Questions(t), sess[t].pc \in Acting \cup {"wait"}
  PROVE  /\ sess[t].got \in 1..Len(turns[t]) /\ Asked(t) = turns[t][sess[t].got]
         /\ Asked(t).answer \in Answers \cup {Pending} /\ Asked(t).answer.calls \in 0..2
         /\ sess[t].pc \in Acting => Asked(t).answer \in Answers
<1>1. sess[t].got \in 1..Len(turns[t]) /\ (sess[t].pc \in Acting => turns[t][sess[t].got].answer # Pending)
  BY DEF Questions
<1> QED
  BY <1>1, TurnTyped DEF Asked

LEMMA AskTyped ==
  ASSUME SessionTypes, NEW t \in Tasks, TaskInv(t), AskBrain(t)
  PROVE  SessionTypes' /\ Elsewhere(t)
<1>1. sess[t].pc = "ask" /\ UNCHANGED <<log, executed>>
  BY DEF AskBrain, At
<1>2. "wait" \in Working
  BY DEF Working, Looping
<1>3. ASSUME NEW k \in Nat, Waits(t, k)
      PROVE  sess' \in [Tasks -> Sessions] /\ \A u \in Tasks \ {t} : sess'[u] = sess[u]
  <2>1. [sess[t] EXCEPT !.pc = "wait", !.got = k] \in Sessions
    BY <1>2, SessionFields DEF Sessions
  <2>2. sess' = [sess EXCEPT ![t] = [sess[t] EXCEPT !.pc = "wait", !.got = k]]
    BY <1>3 DEF Waits
  <2> QED
    BY <2>1, <2>2, SessionSet
<1>4. CASE PublishWebTurn(t) /\ Waits(t, Len(turns[t]) + 1)
  <2>1. sess[t].epoch \in Epochs
    BY <1>1 DEF TaskInv, OfLatest, Working, Looping, Asking
  <2>2. [epoch |-> sess[t].epoch, turn |-> sess[t].turn, answer |-> Pending] \in Turns
    BY <2>1, SessionFields DEF Turns
  <2>3. turns' \in [Tasks -> Seq(Turns)] /\ \A u \in Tasks \ {t} : turns'[u] = turns[u]
    BY <1>4, <2>2 DEF PublishWebTurn, SessionTypes
  <2> QED
    BY <1>1, <1>3, <1>4, <2>3, TurnTyped DEF SessionTypes, Elsewhere
<1>5. CASE \E k \in SameRequest(t) : Waits(t, k) /\ UNCHANGED turns
  <2>1. SameRequest(t) \subseteq Nat
    BY TurnTyped DEF SameRequest
  <2> QED
    BY <1>1, <1>3, <1>5, <2>1 DEF SessionTypes, Elsewhere
<1>6. CASE Result(t, "BLOCKED") /\ UNCHANGED turns
  BY <1>1, <1>6, MoveTyped DEF Outcomes
<1> QED
  BY <1>4, <1>5, <1>6 DEF AskBrain

LEMMA LoopTyped ==
  ASSUME SessionTypes, NEW t \in Tasks, TaskInv(t), LoopStep(t) \/ CapacityGranted(t)
  PROVE  SessionTypes' /\ Elsewhere(t)
<1> USE DEF Records, Reads, sessionVars, At
<1> DEFINE s == sess[t]
<1>1. /\ {"controls", "kinds", "act", "resume", "wait", "check", "waitInput", "project", "ask"} \subseteq Working
      /\ {"BLOCKED", "RETRY_WAIT", "candidate", "error"} \subseteq Outcomes
  BY DEF Working, Looping, Asking, Acting, Outcomes
<1>2. CASE HarnessRuns(t) \/ CheckAttempt(t) \/ PollAnswer(t) \/ CapacityGranted(t)
  <2>1. \/ \E outcome \in {"BLOCKED", "candidate", "error"} : Result(t, outcome)
        \/ Go(t, "controls") \/ Go(t, "act") \/ Go(t, "resume")
    BY <1>2 DEF HarnessRuns, CheckAttempt, PollAnswer, CapacityGranted
  <2>2. UNCHANGED <<turns, log, executed>>
    BY <1>2 DEF HarnessRuns, CheckAttempt, PollAnswer, CapacityGranted
  <2> QED
    BY <1>1, <2>1, <2>2, MoveTyped
<1>3. CASE ConsumeControls(t)
  <2>1. CASE Result(t, "BLOCKED")
    BY <1>1, <1>3, <2>1, MoveTyped DEF ConsumeControls
  <2>2. CASE sess' = [sess EXCEPT ![t].pc = "project", ![t].seen = Consumed(t)]
    <3>1. s.seen <= Len(log[t])
      BY <1>3 DEF ConsumeControls, TaskInv, InputsRead, Looping, Asking
    <3>2. Consumed(t) \in Nat
      BY <3>1, PageTyped
    <3>3. [s EXCEPT !.pc = "project", !.seen = Consumed(t)] \in Sessions
      BY <1>1, <3>2, SessionFields DEF Sessions
    <3>4. sess' = [sess EXCEPT ![t] = [s EXCEPT !.pc = "project", !.seen = Consumed(t)]]
      BY <2>2
    <3> QED
      BY <1>3, <3>3, <3>4, MoveTyped DEF ConsumeControls
  <2> QED
    BY <1>3, <2>1, <2>2 DEF ConsumeControls
<1>4. CASE ProjectLatest(t) \/ ProjectKinds(t) \/ EnterInputRequired(t)
  <2>1. UNCHANGED <<turns, log, executed>>
    BY <1>4 DEF ProjectLatest, ProjectKinds, EnterInputRequired
  <2>2. CASE Result(t, "BLOCKED")
    BY <1>1, <2>1, <2>2, MoveTyped
  <2>3. CASE \E pc \in Working, n \in Nat : sess' = [sess EXCEPT ![t].pc = pc, ![t].latest = n]
    <3>1. PICK pc \in Working, n \in Nat : sess' = [sess EXCEPT ![t].pc = pc, ![t].latest = n]
      BY <2>3
    <3>2. [s EXCEPT !.pc = pc, !.latest = n] \in Sessions
      BY SessionFields DEF Sessions
    <3>3. sess' = [sess EXCEPT ![t] = [s EXCEPT !.pc = pc, !.latest = n]]
      BY <3>1
    <3> QED
      BY <2>1, <3>2, <3>3, MoveTyped
  <2> QED
    BY <1>1, <1>4, <2>2, <2>3, LogTyped DEF ProjectLatest, ProjectKinds, EnterInputRequired
<1>5. CASE AskBrain(t)
  BY <1>5, AskTyped
<1>6. CASE ActOn(t)
  <2>1. UNCHANGED <<turns, log, executed>>
    BY <1>6 DEF ActOn
  <2>2. CASE \E outcome \in {"BLOCKED", "RETRY_WAIT", "candidate"} : Result(t, outcome)
    BY <1>1, <2>1, <2>2, MoveTyped
  <2>3. CASE ~ \E outcome \in {"BLOCKED", "RETRY_WAIT", "candidate"} : Result(t, outcome)
    <3> DEFINE a == Asked(t).answer
               n == [s EXCEPT !.calls = @ + a.calls, !.todo = a.calls, !.pc = a.kind]
    <3>1. a \in Answers /\ a.calls \in Nat
      BY <1>6, AskedTyped DEF ActOn, TaskInv, Acting
    <3>2. a.kind \notin {"block", "finish"}
      BY <1>6, <2>3 DEF ActOn
    <3>3. a.kind \in Working
      BY <3>1, <3>2, AnswersTyped DEF Working, Looping, Acting
    <3>4. sess' = [sess EXCEPT ![t] = n]
      BY <1>6, <2>3 DEF ActOn
    <3> HIDE DEF a
    <3>5. s.calls + a.calls \in Nat
      BY <3>1, SessionFields
    <3>6. n \in Sessions
      BY <3>1, <3>3, <3>5, SessionFields DEF Sessions
    <3> QED
      BY <2>1, <3>4, <3>6, MoveTyped
  <2> QED
    BY <2>2, <2>3
<1>7. CASE ExecuteTools(t)
  <2>1. UNCHANGED <<turns, log>>
    BY <1>7 DEF ExecuteTools
  <2>2. CASE UNCHANGED executed /\ Result(t, "BLOCKED")
    BY <1>1, <2>1, <2>2, MoveTyped
  <2>3. CASE executed' = [executed EXCEPT ![t] = @ + 1]
    <3>1. executed' \in [Tasks -> Nat] /\ \A u \in Tasks \ {t} : executed'[u] = executed[u]
      BY <2>3 DEF SessionTypes
    <3>2. sess' \in [Tasks -> Sessions] /\ \A u \in Tasks \ {t} : sess'[u] = sess[u]
      <4>1. CASE s.todo > 1 /\ sess' = [sess EXCEPT ![t].todo = @ - 1]
        <5>1. [s EXCEPT !.todo = @ - 1] \in Sessions
          BY <4>1, SessionFields DEF Sessions
        <5>2. sess' = [sess EXCEPT ![t] = [s EXCEPT !.todo = @ - 1]]
          BY <4>1
        <5> QED
          BY <5>1, <5>2, SessionSet
      <4>2. CASE NextTurn(t, s)
        BY <4>2, SessionFields, NextTurnSets
      <4>3. CASE Result(t, "BLOCKED")
        BY <1>1, <4>3, ResultSets
      <4> QED
        BY <1>7, <2>3, <4>1, <4>2, <4>3 DEF ExecuteTools
    <3> QED
      BY <2>1, <3>1, <3>2 DEF SessionTypes, Elsewhere
  <2> QED
    BY <1>7, <2>2, <2>3 DEF ExecuteTools
<1>8. CASE Checkpoint(t)
  <2>1. UNCHANGED <<turns, log, executed>> /\ (NextTurn(t, s) \/ Result(t, "BLOCKED"))
    BY <1>8 DEF Checkpoint
  <2> QED
    BY <1>1, <2>1, SessionFields, MoveTyped
<1>9. CASE PollInput(t)
  <2> DEFINE n == [s EXCEPT !.seen = Consumed(t)]
  <2>1. s.seen <= Len(log[t])
    BY <1>9 DEF PollInput, TaskInv, InputsRead, Looping, Acting
  <2>2. n \in Sessions
    BY <2>1, PageTyped, SessionFields DEF Sessions
  <2>3. /\ UNCHANGED <<turns, log, executed>>
        /\ NextTurn(t, n) \/ sess' = [sess EXCEPT ![t] = n] \/ Result(t, "BLOCKED")
    BY <1>9 DEF PollInput
  <2> HIDE DEF n
  <2> QED
    BY <1>1, <2>2, <2>3, MoveTyped
<1> QED
  BY <1>2, <1>3, <1>4, <1>5, <1>6, <1>7, <1>8, <1>9 DEF LoopStep

LEMMA ControlTyped ==
  ASSUME IInv, NEW t \in Tasks, NEW kind \in Kinds
  PROVE  Control(t, kind) \in Controls /\ Control(t, kind).kind = kind
<1>1. epoch[t] \in 0..MaxEpoch /\ 0 \in 0..MaxEpoch
  BY EpochAssumption DEF IInv, TypeOK
<1> QED
  BY <1>1 DEF Control, Controls

LEMMA OtherTyped ==
  ASSUME IInv, SessionTypes, NEW t \in Tasks, DaemonStep(t) \/ OwnerStep(t) \/ Respond(t)
  PROVE  SessionTypes' /\ Elsewhere(t) /\ UNCHANGED <<sess, executed>>
<1>1. CASE DaemonStep(t)
  <2>1. UNCHANGED <<sess, turns, log, executed>>
    BY <1>1 DEF DaemonStep, Reconcile, Replace, Records, sessionVars
  <2> QED
    BY <2>1, MoveTyped
<1>2. CASE OwnerStep(t)
  <2>1. PICK kind \in Kinds : Publish(t, kind)
    BY <1>2 DEF OwnerStep, OwnerSteers, OwnerInputs, OwnerCancels, Kinds
  <2>2. log' \in [Tasks -> Seq(Controls)] /\ \A u \in Tasks \ {t} : log'[u] = log[u]
    BY <2>1, ControlTyped DEF Publish, SessionTypes
  <2> QED
    BY <2>1, <2>2 DEF Publish, SessionTypes, Elsewhere
<1>3. CASE Respond(t)
  <2>1. PICK k \in DOMAIN turns[t], answer \in Answers : RespondWebTurn(t, k, answer)
    BY <1>3 DEF Respond
  <2>2. turns' = [turns EXCEPT ![t] = [turns[t] EXCEPT ![k] = [turns[t][k] EXCEPT !.answer = answer]]]
    BY <2>1 DEF RespondWebTurn
  <2>3. [turns[t][k] EXCEPT !.answer = answer] \in Turns
    BY TurnTyped DEF Turns
  <2>4. [turns[t] EXCEPT ![k] = [turns[t][k] EXCEPT !.answer = answer]] \in Seq(Turns)
    BY <2>3, TurnTyped, ExceptSeq DEF SessionTypes
  <2>5. turns' \in [Tasks -> Seq(Turns)] /\ \A u \in Tasks \ {t} : turns'[u] = turns[u]
    BY <2>2, <2>4 DEF SessionTypes
  <2> QED
    BY <1>3, <2>5 DEF Respond, SessionTypes, Elsewhere
<1> QED
  BY <1>1, <1>2, <1>3

--------------------------------------------------------------------------------
(* Steps that end a session.                                               *)
LEMMA ResultLeaves ==
  ASSUME SessionTypes, SessionTypes', NEW t \in Tasks, TaskInv(t), StoreDrifts(t),
         turns' = turns, log' = log, sess[t].pc \in Working,
         NEW outcome \in Outcomes, Result(t, outcome),
         executed'[t] \in executed[t]..(executed[t] + sess[t].todo)
  PROVE  TaskInv(t)'
<1>1. sess'[t] = Ended(sess[t], outcome)
  BY ResultSets
<1>2. /\ sess'[t].pc = "ended" /\ sess'[t].epoch = sess[t].epoch
      /\ sess'[t].calls = 0 /\ sess'[t].todo = 0 /\ sess'[t].maxCalls = 0
  BY <1>1, SessionFields, EndedTyped
<1>3. "ended" \in Leaving
  BY DEF Leaving
<1> QED
  BY <1>2, <1>3, SessionLeaves

LEMMA NoSessionLeaves ==
  ASSUME SessionTypes, SessionTypes', NEW t \in Tasks, TaskInv(t), StoreDrifts(t),
         turns'[t] = turns[t], log'[t] = log[t], executed'[t] = executed[t], sess'[t] = NoSession
  PROVE  TaskInv(t)'
<1>1. /\ sess'[t].pc = "none" /\ sess'[t].calls = 0 /\ sess'[t].todo = 0 /\ sess'[t].maxCalls = 0
  BY DEF NoSession
<1>2. executed'[t] \in executed[t]..(executed[t] + sess[t].todo)
  BY SessionFields
<1> QED
  BY <1>1, <1>2, SessionLeaves

LEMMA GoLeaves ==
  ASSUME SessionTypes, SessionTypes', NEW t \in Tasks, TaskInv(t), StoreDrifts(t),
         turns' = turns, log' = log, executed' = executed,
         sess[t].pc \in Leaving, NEW pc \in Leaving, Go(t, pc)
  PROVE  TaskInv(t)'
<1>1. pc \in Working /\ sess[t].pc \in Working
  BY DEF Working
<1>2. sess'[t] = [sess[t] EXCEPT !.pc = pc]
  BY <1>1, GoSets
<1>3. /\ sess'[t].pc = pc /\ sess'[t].epoch = sess[t].epoch /\ sess'[t].calls = sess[t].calls
      /\ sess'[t].todo = sess[t].todo /\ sess'[t].maxCalls = sess[t].maxCalls
  BY <1>2, SessionFields DEF Sessions
<1> QED
  BY <1>1, <1>3, SessionLeaves

(* What a step leaves of the store, besides BeginAttempt, the question and *)
(* its answers.                                                            *)
LEMMA RunnerDrifts ==
  ASSUME IInv, SessionTypes, NEW t \in Tasks, TaskInv(t),
         \/ TimerStep(t) \/ ResumeEnds(t) \/ WorkerFails(t) \/ HarnessRuns(t) \/ CheckCancel(t) \/ Finish(t)
         \/ Verify(t) \/ VerifyOutcome(t) \/ Confirm(t) \/ Finalize(t)
  PROVE  StoreDrifts(t) /\ OthersRows(t)
<1> USE DEF Reads, At
<1> DEFINE e == sess[t].epoch
<1>1. sess[t].pc \in Leaving => e \in Epochs
  BY DEF TaskInv, OfLatest, Working
<1>2. CASE TimerStep(t) \/ ResumeEnds(t) \/ WorkerFails(t) \/ HarnessRuns(t) \/ CheckCancel(t)
  BY <1>2, SameStoreDrifts DEF TimerStep, WaitEnds, ResumeEnds, ClockExpires, WorkerFails, HarnessRuns, CheckCancel
<1>3. CASE Finish(t)
  <2>1. CASE UNCHANGED storeVars
    BY <2>1, SameStoreDrifts
  <2>2. CASE ~UNCHANGED storeVars
    <3> DEFINE to == IF sess[t].outcome = "error" THEN "BLOCKED" ELSE sess[t].outcome
    <3>1. TransitionForAttempt(t, e, to)
      BY <1>3, <2>2 DEF Finish
    <3>2. to # "INPUT_REQUIRED"
      BY SessionFields DEF Outcomes
    <3>3. to \in TaskStates
      BY <3>1 DEF TransitionForAttempt, AttemptTransitions, TaskStates
    <3>4. e \in Epochs
      BY <1>1, <1>3 DEF Finish, Leaving
    <3> HIDE DEF to, e
    <3> QED
      BY <3>1, <3>2, <3>3, <3>4, AttemptDrifts
  <2> QED
    BY <2>1, <2>2
<1>4. CASE Verify(t) \/ VerifyOutcome(t) \/ Confirm(t)
  <2>1. e \in Epochs
    BY <1>1, <1>4 DEF Verify, VerifyOutcome, Confirm, Leaving
  <2>2. \/ UNCHANGED storeVars \/ TransitionForAttempt(t, e, "VERIFYING")
        \/ PersistVerificationOutcome(t, e) \/ ConfirmAttemptTerminated(t, e)
    BY <1>4 DEF Verify, VerifyOutcome, Confirm
  <2>3. "VERIFYING" \in TaskStates \ {"INPUT_REQUIRED"}
    BY DEF TaskStates
  <2> HIDE DEF e
  <2> QED
    BY <2>1, <2>2, <2>3, SameStoreDrifts, AttemptDrifts
<1>5. CASE Finalize(t)
  BY <1>5, SameStoreDrifts, ControlDrifts DEF Finalize
<1> QED
  BY <1>2, <1>3, <1>4, <1>5

LEMMA RunnerLeaves ==
  ASSUME IInv, SessionTypes, SessionTypes', NEW t \in Tasks, TaskInv(t),
         \/ TimerStep(t) \/ ResumeEnds(t) \/ WorkerFails(t) \/ HarnessRuns(t) \/ CheckCancel(t) \/ Finish(t)
         \/ Verify(t) \/ VerifyOutcome(t) \/ Confirm(t) \/ Finalize(t)
  PROVE  TaskInv(t)'
<1> USE DEF Reads, Records, sessionVars, At
<1>1. StoreDrifts(t)
  BY RunnerDrifts
<1>2. turns' = turns /\ log' = log /\ executed' = executed
  BY DEF TimerStep, WaitEnds, ResumeEnds, ClockExpires, WorkerFails, HarnessRuns, CheckCancel, Finish, Verify,
         VerifyOutcome, Confirm, Finalize
<1>3. executed'[t] \in executed[t]..(executed[t] + sess[t].todo)
  BY <1>2, SessionFields
<1>4. CASE TimerStep(t) \/ ResumeEnds(t) \/ WorkerFails(t) \/ HarnessRuns(t)
  <2>1. \E outcome \in {"candidate", "error", "BLOCKED", "RETRY_WAIT"} : Result(t, outcome)
    BY <1>4 DEF TimerStep, WaitEnds, ResumeEnds, ClockExpires, WorkerFails, HarnessRuns
  <2>2. sess[t].pc \in Working
    BY <1>4 DEF TimerStep, WaitEnds, ResumeEnds, ClockExpires, WorkerFails, InWorker, HarnessRuns,
       Working, Looping, Asking, Acting
  <2>3. {"candidate", "error", "BLOCKED", "RETRY_WAIT"} \subseteq Outcomes
    BY DEF Outcomes
  <2> QED
    BY <1>1, <1>2, <1>3, <2>1, <2>2, <2>3, ResultLeaves
<1>5. CASE CheckCancel(t) \/ Finish(t) \/ Verify(t) \/ VerifyOutcome(t) \/ Confirm(t) \/ Finalize(t)
  <2>1. CASE End(t)
    BY <1>1, <1>2, <2>1, EndSets, NoSessionLeaves
  <2>2. CASE \E pc \in {"confirm", "verify", "finish", "outcome", "finalize"} : Go(t, pc)
    <3>1. sess[t].pc \in Leaving /\ {"confirm", "verify", "finish", "outcome", "finalize"} \subseteq Leaving
      BY <1>5 DEF CheckCancel, Finish, Verify, VerifyOutcome, Confirm, Finalize, Leaving
    <3> QED
      BY <1>1, <1>2, <2>2, <3>1, GoLeaves
  <2> QED
    BY <1>5, <2>1, <2>2 DEF CheckCancel, Finish, Verify, VerifyOutcome, Confirm, Finalize
<1> QED
  BY <1>4, <1>5

--------------------------------------------------------------------------------
(* Admission.                                                              *)
LEMMA NoneOpen ==
  ASSUME SessionTypes, NEW t \in Tasks, Quiescent(t) PROVE Counted(t) = Answered(t)
<1>1. \A e \in Epochs : authority[t][e] # "ACTIVE"
  BY DEF Quiescent, OpenEpochs
<1>2. Open(t) = {}
  BY <1>1, TurnTyped DEF Open, Authoritative
<1> QED
  BY <1>2 DEF Counted

LEMMA CheckBudgetKeeps ==
  ASSUME SessionInv, SessionTypes', NEW t \in Tasks, CheckBudget(t)
  PROVE  TaskInv(t)'
<1> USE DEF Records, sessionVars, SessionInv
<1>1. turns'[t] = turns[t] /\ log'[t] = log[t] /\ executed'[t] = executed[t] /\ TaskInv(t)
  BY DEF CheckBudget
<1>2. CASE ExhaustedReason(t)
  <2>1. BlockTask(t, "WORKSPACE_READY") /\ sess'[t] = sess[t]
    BY <1>2 DEF CheckBudget
  <2>2. StoreDrifts(t)
    BY <2>1, OrchestratorDrifts DEF TaskStates, PreAttemptStates
  <2> QED
    BY <1>1, <2>1, <2>2, SessionStays DEF LogGrows
<1>3. CASE ~ExhaustedReason(t)
  <2> DEFINE c == BoundedAgentConfig(t)
             q == [NoSession EXCEPT !.pc = "begin", !.maxTurns = c.maxTurns, !.maxCalls = c.maxCalls]
  <2>1. sess'[t] = q /\ UNCHANGED storeVars
    BY <1>3 DEF CheckBudget, SessionTypes
  <2>2. /\ q.pc = "begin" /\ q.maxTurns = c.maxTurns /\ q.maxCalls = c.maxCalls
        /\ q.seen = 0 /\ q.latest = 0 /\ q.calls = 0 /\ q.todo = 0
    BY DEF NoSession
  <2>3. /\ ModelDecisions(t) \in Nat /\ WorkerToolCalls(t) \in Nat
        /\ c.maxTurns \in Nat \ {0} /\ ModelDecisions(t) + c.maxTurns <= MaxTaskDecisions
        /\ c.maxCalls \in Nat /\ WorkerToolCalls(t) + c.maxCalls <= MaxTaskCalls
    BY <1>3, CountsFinite, Positive DEF BoundedAgentConfig, LowerOf, ExhaustedReason
  <2>4. Quiescent(t)
    BY DEF CheckBudget, IInv, Safe, SettledStates, PreAttemptStates
  <2> HIDE DEF c, q
  <2>5. OfLatest(t)'
    BY <1>1, <2>1, <2>2, <2>4
       DEF TaskInv, OfLatest, storeVars, Quiescent, OpenEpochs, Working, Looping, Asking, Acting, Leaving
  <2>6. Questions(t)'
    BY <2>1, <2>2, <2>3 DEF Questions, Looping, Asking, Acting
  <2>7. DecisionsFit(t)'
    <3>1. Counted(t)' = Answered(t)
      <4>1. Answered(t)' = Answered(t) /\ Open(t)' = Open(t)
        BY <1>1, <2>1 DEF Answered, Open, Authoritative, storeVars
      <4> QED
        BY <2>4, <4>1, NoneOpen DEF Counted
    <3>2. ToAsk(q) = c.maxTurns
      BY <2>2 DEF ToAsk, Asking, Acting
    <3> QED
      BY <2>1, <2>3, <3>1, <3>2 DEF DecisionsFit, ModelDecisions
  <2>8. CallsFit(t)'
    <3>1. WorkerToolCalls(t)' = WorkerToolCalls(t)
      BY <1>1 DEF WorkerToolCalls, CallsAnswered
    <3>2. executed[t] \in Nat /\ executed[t] <= WorkerToolCalls(t) /\ MaxTaskCalls \in Nat
      BY <1>1, <2>3, SessionFields, Positive DEF TaskInv, CallsFit
    <3>3. /\ q.calls <= q.maxCalls /\ executed[t] + q.todo + (q.maxCalls - q.calls) <= MaxTaskCalls
          /\ executed[t] + q.todo <= WorkerToolCalls(t)
      BY <2>2, <2>3, <3>2
    <3> QED
      BY <1>1, <2>1, <2>2, <3>1, <3>3 DEF CallsFit
  <2>9. InputsRead(t)'
    BY <1>1, <2>1, <2>2, LogTyped DEF InputsRead, Looping, Asking, Acting
  <2> QED
    BY <2>5, <2>6, <2>7, <2>8, <2>9 DEF TaskInv
<1> QED
  BY <1>2, <1>3

LEMMA BeginKeeps ==
  ASSUME SessionInv, SessionTypes', NEW t \in Tasks, Begin(t)
  PROVE  TaskInv(t)'
<1> USE DEF Records, sessionVars, SessionInv
<1>1. turns'[t] = turns[t] /\ log'[t] = log[t] /\ executed'[t] = executed[t] /\ TaskInv(t)
  BY DEF Begin
<1>2. CASE End(t) /\ UNCHANGED storeVars
  BY <1>1, <1>2, SameStoreDrifts, EndSets, NoSessionLeaves
<1>3. CASE ~(End(t) /\ UNCHANGED storeVars)
  <2> DEFINE s == sess[t]
             q == sess'[t]
  <2>1. /\ BeginAttempt(t) /\ s.pc = "begin" /\ Quiescent(t)
        /\ q \in {FirstTurn(s, epoch[t] + 1), HarnessStart(s, epoch[t] + 1)}
    BY <1>1, <1>3 DEF Begin, At, SessionTypes, TaskInv, OfLatest
  <2>2. /\ epoch'[t] = epoch[t] + 1 /\ epoch'[t] \in Epochs /\ state'[t] = "RUNNING"
        /\ epoch[t] \in 0..MaxEpoch
    BY <2>1, EpochAssumption DEF BeginAttempt, Move, IInv, TypeOK, Epochs
  <2>3. \/ q.pc = "check" /\ q.turn = 1
        \/ q.pc = "harness"
    BY <2>1, SessionFields DEF FirstTurn, HarnessStart, Sessions
  <2>4. /\ q.epoch = epoch'[t] /\ q.seen = s.seen /\ q.latest = s.latest /\ q.calls = s.calls
        /\ q.todo = s.todo /\ q.maxTurns = s.maxTurns /\ q.maxCalls = s.maxCalls
    BY <2>1, <2>2, SessionFields DEF FirstTurn, HarnessStart, Sessions
  <2>5. /\ s.seen <= Len(log[t]) /\ s.latest <= Len(log[t]) /\ s.maxTurns > 0 /\ s.maxTurns \in Nat
    BY <1>1, <2>1, SessionFields DEF TaskInv, InputsRead, Questions
  <2>6. \A k \in 1..Len(turns[t]) : turns[t][k].epoch <= epoch[t] /\ turns[t][k].epoch \in Epochs
    BY <1>1, TurnTyped DEF TaskInv, OfLatest
  <2>7. q.pc \in Asking <=> q.pc = "check"
    BY <2>3 DEF Asking
  <2>8. q.pc \notin Acting \cup {"wait", "begin"} /\ q.pc \in Working /\ (q.pc \in Looping <=> q.pc = "check")
    BY <2>3 DEF Acting, Working, Looping, Asking
  <2> HIDE DEF s, q
  <2>9. \A k \in 1..Len(turns[t]) : turns[t][k].epoch # epoch'[t]
    BY <2>2, <2>6 DEF Epochs
  <2>10. OfLatest(t)'
    <3>1. \A k \in 1..Len(turns[t]) : turns[t][k].epoch <= epoch'[t]
      BY <2>2, <2>6 DEF Epochs
    <3> QED
      BY <1>1, <2>2, <2>4, <2>8, <3>1 DEF OfLatest, q
  <2>11. Questions(t)'
    <3>1. q.pc = "check" => q.turn \in 1..q.maxTurns
      BY <2>3, <2>4, <2>5
    <3>2. \A k \in 1..Len(turns[t]) : turns[t][k].epoch # q.epoch
      BY <2>4, <2>9
    <3>3. q.pc # "tools" /\ q.pc # "begin"
      BY <2>3
    <3> QED
      BY <1>1, <2>7, <2>8, <3>1, <3>2, <3>3 DEF Questions, EarlierTurn, q
  <2>12. DecisionsFit(t)'
    <3>1. Counted(t)' = Counted(t)
      <4>1. Answered(t)' = Answered(t)
        BY <1>1 DEF Answered
      <4>2. Open(t)' = {}
        BY <1>1, <2>9 DEF Open, Authoritative
      <4> QED
        BY <2>1, <4>1, <4>2, NoneOpen DEF Counted
    <3>2. ToAsk(q) <= s.maxTurns /\ ToAsk(q) \in Nat
      BY <2>3, <2>4, <2>5 DEF ToAsk, Asking, Acting
    <3>3. Cardinality(Counted(t)) + s.maxTurns <= MaxTaskDecisions
      <4>1. ToAsk(s) = s.maxTurns
        BY <2>1 DEF ToAsk, Asking, Acting
      <4> QED
        BY <1>1, <4>1 DEF TaskInv, DecisionsFit, s
    <3>4. Cardinality(Counted(t)) \in Nat
      BY CountsFinite
    <3>5. Cardinality(Counted(t)) + ToAsk(q) <= MaxTaskDecisions
      BY <2>5, <3>2, <3>3, <3>4, Positive
    <3> QED
      BY <3>1, <3>5 DEF DecisionsFit, q
  <2>13. CallsFit(t)'
    <3>1. WorkerToolCalls(t)' = WorkerToolCalls(t)
      BY <1>1 DEF WorkerToolCalls, CallsAnswered
    <3>2. q.pc \notin {"wait", "resume", "act"}
      BY <2>3
    <3>3. q.todo = 0
      BY <1>1, <2>1, <2>4 DEF TaskInv, CallsFit, s
    <3> QED
      BY <1>1, <2>4, <3>1, <3>2, <3>3 DEF TaskInv, CallsFit, s, q
  <2>14. InputsRead(t)'
    <3>1. q.pc \notin {"project", "kinds", "ask", "wait", "waitInput"} /\ q.pc \notin Acting
      BY <2>3, <2>8
    <3>2. q.seen <= Len(log'[t]) /\ q.latest <= Len(log'[t])
      BY <1>1, <2>4, <2>5
    <3>3. state'[t] # "INPUT_REQUIRED"
      BY <2>2
    <3> QED
      BY <3>1, <3>2, <3>3 DEF InputsRead, q
  <2> QED
    BY <2>10, <2>11, <2>12, <2>13, <2>14 DEF TaskInv
<1> QED
  BY <1>2, <1>3

--------------------------------------------------------------------------------
(* The loop, up to the question.                                           *)
LEMMA AskingKeeps ==
  ASSUME SessionTypes, SessionTypes', NEW t \in Tasks, TaskInv(t),
         state' = state, epoch' = epoch, authority' = authority,
         turns' = turns, log' = log, executed' = executed,
         sess[t].pc \in Asking, sess'[t].pc \in Asking,
         sess'[t].epoch = sess[t].epoch, sess'[t].turn = sess[t].turn,
         sess'[t].calls = sess[t].calls, sess'[t].todo = sess[t].todo,
         sess'[t].maxTurns = sess[t].maxTurns, sess'[t].maxCalls = sess[t].maxCalls,
         sess'[t].seen <= Len(log[t]), sess'[t].latest <= Len(log[t]),
         /\ Len(log[t]) <= ControlPage /\ sess'[t].pc \in {"project", "kinds", "ask"}
         => NoInput(t, sess'[t].seen + 1, Len(log[t]))
  PROVE  TaskInv(t)'
<1> DEFINE s == sess[t]
           q == sess'[t]
<1>1. /\ s.pc \in Looping /\ q.pc \in Looping /\ s.pc \in Working /\ q.pc \in Working
      /\ q.pc \notin Acting \cup {"wait"} /\ q.pc # "begin" /\ q.pc \notin {"tools", "resume", "act"}
      /\ q.pc # "waitInput" /\ s.pc # "begin" /\ s.pc \notin Acting \cup {"wait"}
  BY DEF Asking, Looping, Working, Acting
<1>2. OfLatest(t)'
  BY <1>1 DEF TaskInv, OfLatest
<1>3. Questions(t)'
  BY <1>1 DEF TaskInv, Questions, EarlierTurn
<1>4. DecisionsFit(t)'
  <2>1. ToAsk(q) = q.maxTurns - q.turn + 1 /\ ToAsk(s) = s.maxTurns - s.turn + 1
    BY <1>1 DEF ToAsk
  <2>2. Counted(t)' = Counted(t)
    BY DEF Counted, Answered, Open, Authoritative
  <2> QED
    BY <2>1, <2>2 DEF TaskInv, DecisionsFit
<1>5. CallsFit(t)'
  <2>1. WorkerToolCalls(t)' = WorkerToolCalls(t)
    BY DEF WorkerToolCalls, CallsAnswered
  <2>2. q.pc \notin {"wait", "resume", "act"}
    BY <1>1
  <2> QED
    BY <2>1, <2>2 DEF TaskInv, CallsFit
<1>6. InputsRead(t)'
  <2>1. Len(log[t]) <= ControlPage => state[t] # "INPUT_REQUIRED"
    BY DEF TaskInv, InputsRead
  <2> QED
    BY <1>1, <2>1 DEF InputsRead, Unread, NoInput
<1> QED
  BY <1>2, <1>3, <1>4, <1>5, <1>6 DEF TaskInv

LEMMA AskingStepKeeps ==
  ASSUME SessionTypes, SessionTypes', NEW t \in Tasks, TaskInv(t),
         CheckAttempt(t) \/ ConsumeControls(t) \/ ProjectLatest(t) \/ ProjectKinds(t)
  PROVE  TaskInv(t)'
<1> DEFINE s == sess[t]
<1>1. /\ UNCHANGED storeVars /\ turns' = turns /\ log' = log /\ executed' = executed
      /\ s.pc \in {"check", "controls", "project", "kinds"}
  BY DEF CheckAttempt, ConsumeControls, ProjectLatest, ProjectKinds, Reads, Records, sessionVars, At
<1>2. s.pc \in Asking /\ s.pc \in Working /\ s.pc \in Looping /\ {"controls", "project", "kinds", "ask"} \subseteq Asking
  BY <1>1 DEF Asking, Looping, Working
<1>3. state' = state /\ epoch' = epoch /\ authority' = authority
  BY <1>1 DEF storeVars
<1>4. /\ s.seen <= Len(log[t]) /\ s.latest <= Len(log[t]) /\ Len(log[t]) \in Nat /\ 0 <= Len(log[t])
      /\ Len(log[t]) <= ControlPage /\ s.pc \in {"project", "kinds", "ask"} => Unread(t)
  BY <1>2, LogTyped DEF TaskInv, InputsRead
<1>5. CASE Result(t, "BLOCKED")
  <2>1. executed'[t] \in executed[t]..(executed[t] + s.todo)
    BY <1>1, SessionFields
  <2> QED
    BY <1>1, <1>2, <1>5, <2>1, SameStoreDrifts, ResultLeaves DEF Outcomes
<1>6. CASE CheckAttempt(t) /\ Go(t, "controls")
  <2>1. sess'[t] = [s EXCEPT !.pc = "controls"]
    BY <1>6, GoSets DEF Working, Looping, Asking
  <2> QED
    BY <1>1, <1>6, <2>1, SameStoreDrifts, SessionStays DEF CheckAttempt, At, LogGrows
<1>7. CASE ConsumeControls(t) /\ ~Result(t, "BLOCKED")
  <2> DEFINE n == Consumed(t)
  <2>1. n \in Nat /\ n <= Len(log[t]) /\ n = LowerOf(Len(log[t]), s.seen + ControlPage)
    BY <1>4, PageTyped
  <2>2. sess'[t] = [s EXCEPT !.pc = "project", !.seen = n]
    BY <1>7 DEF ConsumeControls, SessionTypes
  <2>3. Len(log[t]) <= ControlPage => n = Len(log[t])
    BY <1>4, <2>1, SessionFields, Positive DEF LowerOf
  <2> HIDE DEF n
  <2>4. /\ sess'[t].pc = "project" /\ sess'[t].seen = n /\ sess'[t].latest = s.latest
        /\ sess'[t].epoch = s.epoch /\ sess'[t].turn = s.turn /\ sess'[t].calls = s.calls
        /\ sess'[t].todo = s.todo /\ sess'[t].maxTurns = s.maxTurns /\ sess'[t].maxCalls = s.maxCalls
    BY <2>2, SessionFields DEF Sessions
  <2>5. Len(log[t]) <= ControlPage => NoInput(t, n + 1, Len(log[t]))
    BY <1>4, <2>1, <2>3 DEF NoInput
  <2> QED
    BY <1>1, <1>2, <1>3, <1>4, <2>1, <2>4, <2>5, AskingKeeps
<1>8. CASE (ProjectLatest(t) \/ ProjectKinds(t)) /\ ~Result(t, "BLOCKED")
  <2>1. PICK pc \in {"kinds", "ask"}, m \in {0, Len(log[t])} :
          sess' = [sess EXCEPT ![t].pc = pc, ![t].latest = m]
    BY <1>8 DEF ProjectLatest, ProjectKinds
  <2>2. sess'[t] = [s EXCEPT !.pc = pc, !.latest = m]
    BY <2>1 DEF SessionTypes
  <2>3. /\ sess'[t].pc = pc /\ sess'[t].seen = s.seen /\ sess'[t].latest = m
        /\ sess'[t].epoch = s.epoch /\ sess'[t].turn = s.turn /\ sess'[t].calls = s.calls
        /\ sess'[t].todo = s.todo /\ sess'[t].maxTurns = s.maxTurns /\ sess'[t].maxCalls = s.maxCalls
    BY <2>2, SessionFields DEF Sessions
  <2>4. m <= Len(log[t])
    BY <1>4
  <2>5. Len(log[t]) <= ControlPage => NoInput(t, s.seen + 1, Len(log[t]))
    BY <1>4, <1>8 DEF Unread, ProjectLatest, ProjectKinds, At
  <2> QED
    BY <1>1, <1>2, <1>3, <1>4, <2>3, <2>4, <2>5, AskingKeeps
<1> QED
  BY <1>5, <1>6, <1>7, <1>8 DEF CheckAttempt

(* A question takes one of the turns the session had left.                 *)
LEMMA PublishKeeps ==
  ASSUME SessionTypes, SessionTypes', NEW t \in Tasks, TaskInv(t), sess[t].pc = "ask",
         PublishWebTurn(t), Waits(t, Len(turns[t]) + 1), UNCHANGED <<log, executed>>
  PROVE  TaskInv(t)'
<1> DEFINE s == sess[t]
           q == sess'[t]
           n == Len(turns[t]) + 1
           w == [epoch |-> s.epoch, turn |-> s.turn, answer |-> Pending]
<1>1. /\ s.pc \in Asking /\ s.pc \in Looping /\ s.pc \in Working
      /\ s.pc \notin Acting \cup {"wait"} /\ s.pc \in {"project", "kinds", "ask"}
  BY DEF Asking, Looping, Working, Acting
<1>2. q = [s EXCEPT !.pc = "wait", !.got = n]
  BY DEF Waits, SessionTypes
<1>3. /\ q.pc = "wait" /\ q.got = n /\ q.epoch = s.epoch /\ q.turn = s.turn /\ q.seen = s.seen
      /\ q.latest = s.latest /\ q.calls = s.calls /\ q.todo = s.todo
      /\ q.maxTurns = s.maxTurns /\ q.maxCalls = s.maxCalls
  BY <1>2, SessionFields DEF Sessions
<1>4. /\ q.pc \notin Asking /\ q.pc \notin Acting /\ q.pc \in Working /\ q.pc \in Looping
      /\ q.pc \in Acting \cup {"wait"}
  BY <1>3 DEF Asking, Acting, Working, Looping
<1>5. /\ Len(turns[t]) \in Nat /\ DOMAIN turns[t] = 1..Len(turns[t]) /\ turns'[t] = Append(turns[t], w)
      /\ turns[t] \in Seq(Turns)
  BY TurnTyped DEF PublishWebTurn, SessionTypes
<1>6. /\ Len(turns'[t]) = n /\ turns'[t][n] = w /\ DOMAIN turns'[t] = 1..n
      /\ \A k \in 1..Len(turns[t]) : turns'[t][k] = turns[t][k]
  BY <1>5
<1>7. /\ 1..n = (1..Len(turns[t])) \cup {n} /\ n \notin 1..Len(turns[t]) /\ n \in 1..n
  BY <1>5
<1>8. /\ epoch'[t] = epoch[t] /\ authority'[t] = authority[t] /\ log'[t] = log[t]
      /\ executed'[t] = executed[t] /\ Authoritative(t, s.epoch)
  BY DEF PublishWebTurn, Authority
<1>9. w.epoch = s.epoch /\ w.turn = s.turn /\ w.answer = Pending /\ w.answer.calls = 0
  BY AnswersTyped
<1>10. s.epoch = epoch[t] /\ epoch[t] \in Epochs /\ s.turn \in 1..s.maxTurns /\ s.maxTurns \in Nat
  BY <1>1, SessionFields DEF TaskInv, OfLatest, Questions
<1>11. \A k \in 1..Len(turns[t]) : turns[t][k].epoch <= epoch[t] /\ EarlierTurn(t, k)
  BY <1>1 DEF TaskInv, OfLatest, Questions
<1>12. /\ Cardinality(Counted(t)) + ToAsk(s) <= MaxTaskDecisions
       /\ executed[t] <= WorkerToolCalls(t) /\ s.todo = 0
       /\ s.calls <= s.maxCalls /\ executed[t] + s.todo + (s.maxCalls - s.calls) <= MaxTaskCalls
       /\ executed[t] + s.todo <= WorkerToolCalls(t)
  BY <1>1, SessionFields, CountsFinite DEF TaskInv, DecisionsFit, CallsFit
<1>13. /\ s.seen <= Len(log[t]) /\ s.latest <= Len(log[t])
       /\ Len(log[t]) <= ControlPage => Unread(t)
  BY <1>1 DEF TaskInv, InputsRead
<1> HIDE DEF s, q, n, w
<1>14. OfLatest(t)'
  BY <1>3, <1>4, <1>6, <1>7, <1>8, <1>9, <1>10, <1>11, EpochAssumption DEF OfLatest, q, Epochs
<1>15. Questions(t)'
  <2>1. q.turn \in 1..q.maxTurns
    BY <1>3, <1>10
  <2>2. \A k \in 1..Len(turns[t]) : turns'[t][k].epoch = q.epoch => turns'[t][k].turn < q.turn
    BY <1>3, <1>6, <1>11 DEF EarlierTurn, s
  <2>3. q.got \in 1..Len(turns'[t]) /\ turns'[t][q.got].epoch = q.epoch /\ turns'[t][q.got].turn = q.turn
    BY <1>3, <1>6, <1>7, <1>9
  <2>4. \A k \in 1..Len(turns'[t]) \ {q.got} : turns'[t][k].epoch = q.epoch => turns'[t][k].turn < q.turn
    BY <2>2, <1>3, <1>6, <1>7
  <2>5. q.pc # "begin" /\ q.pc # "tools"
    BY <1>3
  <2> QED
    BY <1>4, <2>1, <2>3, <2>4, <2>5 DEF Questions, EarlierTurn, q
<1>16. DecisionsFit(t)'
  <2>1. Counted(t)' = Counted(t) \cup {n}
    <3>1. Answered(t)' = Answered(t)
      BY <1>5, <1>6, <1>7, <1>9 DEF Answered
    <3>2. Open(t)' = Open(t) \cup {n}
      BY <1>6, <1>7, <1>8, <1>9 DEF Open, Authoritative
    <3> QED
      BY <3>1, <3>2 DEF Counted
  <2>2. n \notin Counted(t)
    BY <1>5, <1>7 DEF Counted, Answered, Open
  <2>3. Cardinality(Counted(t)') = Cardinality(Counted(t)) + 1 /\ Cardinality(Counted(t)) \in Nat
    BY <2>1, <2>2, CountsFinite, FS_AddElement
  <2>4. ToAsk(s) = s.maxTurns - s.turn + 1
    BY <1>1 DEF ToAsk, Asking
  <2>5. ToAsk(q) = s.maxTurns - s.turn
    BY <1>3, <1>4 DEF ToAsk
  <2>6. Cardinality(Counted(t)') + ToAsk(q) <= MaxTaskDecisions
    BY <1>10, <1>12, <2>3, <2>4, <2>5, Positive
  <2> QED
    BY <2>6 DEF DecisionsFit, q
<1>17. CallsFit(t)'
  <2>1. CallsAnswered(t)' = CallsAnswered(t)
    <3>1. CallsOf(w) = {}
      BY <1>9 DEF CallsOf
    <3>2. \A k \in 1..Len(turns[t]) : CallsOf(turns'[t][k]) = CallsOf(turns[t][k])
      BY <1>6
    <3> QED
      BY <1>5, <1>6, <1>7, <3>1, <3>2 DEF CallsAnswered
  <2>2. {c \in CallsAnswered(t)' : c[1] # q.got} = CallsAnswered(t)
    <3>1. \A c \in CallsAnswered(t) : c[1] \in 1..Len(turns[t])
      BY <1>5 DEF CallsAnswered
    <3> QED
      BY <1>3, <1>7, <2>1, <3>1
  <2>3. WorkerToolCalls(t)' = WorkerToolCalls(t)
    BY <2>1 DEF WorkerToolCalls
  <2>4. Cardinality({c \in CallsAnswered(t)' : c[1] # q.got}) = WorkerToolCalls(t)
    BY <2>2 DEF WorkerToolCalls
  <2> QED
    BY <1>3, <1>8, <1>12, <2>3, <2>4 DEF CallsFit, OtherCalls, q, s
<1>18. InputsRead(t)'
  <2>1. Len(log'[t]) <= ControlPage => Unread(t)'
    BY <1>3, <1>8, <1>13 DEF Unread, NoInput, q, s
  <2>2. turns'[t][q.got].answer = Pending
    BY <1>3, <1>6, <1>9
  <2>3. q.seen <= Len(log'[t]) /\ q.latest <= Len(log'[t])
    BY <1>3, <1>8, <1>13
  <2> QED
    BY <1>3, <1>4, <2>1, <2>2, <2>3 DEF InputsRead, Asked, q
<1> QED
  BY <1>14, <1>15, <1>16, <1>17, <1>18 DEF TaskInv

LEMMA AskKeeps ==
  ASSUME SessionTypes, SessionTypes', NEW t \in Tasks, TaskInv(t), AskBrain(t)
  PROVE  TaskInv(t)'
<1>1. sess[t].pc = "ask" /\ UNCHANGED <<log, executed>>
  BY DEF AskBrain, At
<1>2. sess[t].pc \in Asking /\ sess[t].pc \in Working
  BY <1>1 DEF Asking, Working, Looping
<1>3. CASE PublishWebTurn(t) /\ Waits(t, Len(turns[t]) + 1)
  BY <1>1, <1>3, PublishKeeps
<1>4. SameRequest(t) = {}
  <2> SUFFICES ASSUME NEW k \in SameRequest(t) PROVE FALSE
    OBVIOUS
  <2>1. /\ k \in 1..Len(turns[t]) /\ turns[t][k].turn = sess[t].turn
        /\ turns[t][k].epoch = sess[t].epoch
    BY TurnTyped DEF SameRequest
  <2>2. turns[t][k].turn < sess[t].turn
    BY <1>2, <2>1 DEF TaskInv, Questions, EarlierTurn
  <2> QED
    BY <2>1, <2>2, SessionFields
<1>5. CASE Result(t, "BLOCKED") /\ UNCHANGED <<storeVars, turns>>
  <2>1. executed'[t] \in executed[t]..(executed[t] + sess[t].todo)
    BY <1>1, SessionFields
  <2> QED
    BY <1>1, <1>2, <1>5, <2>1, SameStoreDrifts, ResultLeaves DEF Outcomes
<1> QED
  BY <1>3, <1>4, <1>5 DEF AskBrain

--------------------------------------------------------------------------------
(* Acting on the answer.                                                   *)
LEMMA ActingKeeps ==
  ASSUME SessionTypes, NEW t \in Tasks, TaskInv(t),
         epoch' = epoch, authority' = authority, turns' = turns,
         sess[t].pc \in Acting \cup {"wait"}, sess'[t].pc \in Acting,
         sess'[t].epoch = sess[t].epoch, sess'[t].turn = sess[t].turn,
         sess'[t].got = sess[t].got, sess'[t].maxTurns = sess[t].maxTurns,
         Asked(t).answer # Pending, sess'[t].pc = "tools" => sess'[t].todo > 0,
         CallsFit(t)', InputsRead(t)'
  PROVE  TaskInv(t)'
<1> DEFINE s == sess[t]
           q == sess'[t]
<1>1. /\ s.pc \in Looping /\ q.pc \in Looping /\ s.pc \in Working /\ q.pc \in Working
      /\ q.pc \notin Asking /\ s.pc \notin Asking /\ q.pc # "begin" /\ s.pc # "begin"
  BY DEF Asking, Looping, Working, Acting
<1>2. OfLatest(t)'
  BY <1>1 DEF TaskInv, OfLatest
<1>3. Questions(t)'
  BY <1>1 DEF TaskInv, Questions, EarlierTurn, Asked
<1>4. DecisionsFit(t)'
  <2>1. ToAsk(q) = q.maxTurns - q.turn /\ ToAsk(s) = s.maxTurns - s.turn
    BY <1>1 DEF ToAsk
  <2>2. Counted(t)' = Counted(t)
    BY DEF Counted, Answered, Open, Authoritative
  <2> QED
    BY <2>1, <2>2 DEF TaskInv, DecisionsFit
<1> QED
  BY <1>2, <1>3, <1>4 DEF TaskInv

LEMMA PollAnswerKeeps ==
  ASSUME SessionTypes, SessionTypes', NEW t \in Tasks, TaskInv(t),
         PollAnswer(t) \/ CapacityGranted(t)
  PROVE  TaskInv(t)'
<1> DEFINE s == sess[t]
           q == sess'[t]
<1>1. /\ UNCHANGED storeVars /\ turns' = turns /\ log' = log /\ executed' = executed
      /\ s.pc \in {"wait", "resume"} /\ Asked(t).answer # Pending
  BY DEF PollAnswer, CapacityGranted, Reads, Records, sessionVars, At, TaskInv, Questions, Acting,
         Asked
<1>2. PICK pc \in {"resume", "act"} : q = [s EXCEPT !.pc = pc]
  BY GoSets DEF PollAnswer, CapacityGranted, Working, Looping, Acting
<1>3. /\ q.pc \in {"resume", "act"} /\ q.epoch = s.epoch /\ q.turn = s.turn
      /\ q.seen = s.seen /\ q.got = s.got /\ q.latest = s.latest /\ q.calls = s.calls /\ q.todo = s.todo
      /\ q.maxTurns = s.maxTurns /\ q.maxCalls = s.maxCalls
  BY <1>2, SessionFields DEF Sessions
<1>4. /\ q.pc \in Acting \ {"waitInput"} /\ s.pc \in Acting \cup {"wait"} /\ s.pc \in Looping
      /\ s.pc # "wait" => s.pc \in Acting \ {"waitInput"}
  BY <1>1, <1>3 DEF Acting, Looping
<1>5. CallsFit(t)'
  <2>1. CallsAnswered(t)' = CallsAnswered(t)
    BY <1>1 DEF CallsAnswered
  <2>2. /\ executed[t] + s.todo <= WorkerToolCalls(t) /\ s.todo = 0 /\ s.calls <= s.maxCalls
        /\ executed[t] + s.todo + (s.maxCalls - s.calls) <= MaxTaskCalls
        /\ executed[t] <= Cardinality(OtherCalls(t, s.got))
    BY <1>1 DEF TaskInv, CallsFit
  <2>3. WorkerToolCalls(t)' = WorkerToolCalls(t) /\ OtherCalls(t, s.got)' = OtherCalls(t, s.got)
    BY <1>3, <2>1 DEF WorkerToolCalls, OtherCalls
  <2>4. executed'[t] = executed[t]
    BY <1>1
  <2> HIDE DEF q
  <2> QED
    BY <1>3, <2>2, <2>3, <2>4 DEF CallsFit, q
<1>6. InputsRead(t)'
  <2>1. /\ s.seen <= Len(log[t]) /\ s.latest <= Len(log[t])
        /\ Len(log[t]) <= ControlPage => state[t] # "INPUT_REQUIRED" /\ Unread(t)
    BY <1>1, <1>4 DEF TaskInv, InputsRead
  <2>2. Unread(t) => Unread(t)'
    BY <1>1, <1>3 DEF Unread, NoInput
  <2>3. q.pc \notin Asking /\ q.pc \notin {"project", "kinds", "ask", "wait", "waitInput"}
    BY <1>3 DEF Asking
  <2>4. state' = state /\ Len(log[t])' = Len(log[t])
    BY <1>1 DEF storeVars
  <2> HIDE DEF s, q
  <2> QED
    BY <1>3, <1>4, <2>1, <2>2, <2>3, <2>4 DEF InputsRead, q
<1>7. epoch' = epoch /\ authority' = authority
  BY <1>1 DEF storeVars
<1> QED
  BY <1>1, <1>3, <1>4, <1>5, <1>6, <1>7, ActingKeeps

LEMMA ActOnKeeps ==
  ASSUME SessionTypes, SessionTypes', NEW t \in Tasks, TaskInv(t), ActOn(t)
  PROVE  TaskInv(t)'
<1> DEFINE s == sess[t]
           q == sess'[t]
           a == Asked(t).answer
<1>1. /\ UNCHANGED storeVars /\ turns' = turns /\ log' = log /\ executed' = executed /\ s.pc = "act"
  BY DEF ActOn, Reads, Records, sessionVars, At
<1>2. s.pc \in Acting \ {"waitInput"} /\ s.pc \in Looping /\ s.pc \in Working
  BY <1>1 DEF Acting, Looping, Working
<1>3. CASE \E outcome \in {"BLOCKED", "RETRY_WAIT", "candidate"} : Result(t, outcome)
  <2>1. executed'[t] \in executed[t]..(executed[t] + s.todo)
    BY <1>1, SessionFields
  <2>2. {"BLOCKED", "RETRY_WAIT", "candidate"} \subseteq Outcomes
    BY DEF Outcomes
  <2> QED
    BY <1>1, <1>2, <1>3, <2>1, <2>2, SameStoreDrifts, ResultLeaves
<1>4. CASE ~ \E outcome \in {"BLOCKED", "RETRY_WAIT", "candidate"} : Result(t, outcome)
  <2>1. /\ a \in Answers /\ a.calls \in 0..2 /\ s.got \in 1..Len(turns[t])
        /\ Asked(t) = turns[t][s.got]
    BY <1>2, AskedTyped DEF TaskInv
  <2>2. /\ sess' = [sess EXCEPT ![t].calls = @ + a.calls, ![t].todo = a.calls, ![t].pc = a.kind]
        /\ a.kind \notin {"block", "finish"} /\ ~(s.calls + a.calls > s.maxCalls)
    BY <1>4 DEF ActOn, OverCallBudget
  <2>3. a.kind \in {"tools", "checkpoint", "input"} /\ a.calls > 0 /\ a # Pending
    BY <2>1, <2>2, AnswersTyped
  <2> HIDE DEF a
  <2>4. q = [s EXCEPT !.calls = @ + a.calls, !.todo = a.calls, !.pc = a.kind]
    BY <2>2 DEF SessionTypes
  <2>5. /\ q.pc = a.kind /\ q.epoch = s.epoch /\ q.turn = s.turn /\ q.seen = s.seen /\ q.got = s.got
        /\ q.latest = s.latest /\ q.calls = s.calls + a.calls /\ q.todo = a.calls
        /\ q.maxTurns = s.maxTurns /\ q.maxCalls = s.maxCalls
    BY <2>4, SessionFields DEF Sessions
  <2>6. q.pc \in Acting \ {"waitInput"} /\ q.pc \notin {"act", "resume"}
    BY <2>3, <2>5 DEF Acting
  <2>7. CallsFit(t)'
    <3>1. WorkerToolCalls(t)' = WorkerToolCalls(t)
      BY <1>1 DEF CallsAnswered, WorkerToolCalls
    <3>2. WorkerToolCalls(t) = Cardinality(OtherCalls(t, s.got)) + a.calls
      BY <2>1, CallsSplit DEF a
    <3>3. /\ s.calls <= s.maxCalls /\ executed[t] + s.todo + (s.maxCalls - s.calls) <= MaxTaskCalls
          /\ s.todo = 0 /\ executed[t] <= Cardinality(OtherCalls(t, s.got))
      BY <1>1 DEF TaskInv, CallsFit
    <3>4. /\ s.calls \in Nat /\ s.maxCalls \in Nat /\ executed[t] \in Nat /\ MaxTaskCalls \in Nat
          /\ Cardinality(OtherCalls(t, s.got)) \in Nat /\ a.calls \in Nat
      BY <2>1, SessionFields, CountsFinite, Positive
    <3> HIDE DEF s, q
    <3>5. /\ q.calls <= q.maxCalls /\ executed[t] + q.todo + (q.maxCalls - q.calls) <= MaxTaskCalls
          /\ executed[t] + q.todo <= WorkerToolCalls(t)
      BY <2>2, <2>5, <3>2, <3>3, <3>4
    <3>6. q.pc \notin Asking \cup {"begin", "wait", "resume", "act"}
      BY <2>6 DEF Acting, Asking
    <3> QED
      BY <1>1, <3>1, <3>5, <3>6 DEF CallsFit, q
  <2>8. InputsRead(t)'
    <3>1. /\ s.seen <= Len(log[t]) /\ s.latest <= Len(log[t])
          /\ Len(log[t]) <= ControlPage => state[t] # "INPUT_REQUIRED" /\ Unread(t)
      BY <1>1, <1>2 DEF TaskInv, InputsRead
    <3>2. Unread(t) => Unread(t)'
      BY <1>1, <2>5 DEF Unread, NoInput
    <3>3. q.pc \notin Asking /\ q.pc \notin {"project", "kinds", "ask", "wait", "waitInput"}
      BY <2>6 DEF Asking, Acting
    <3> HIDE DEF s, q
    <3> QED
      BY <1>1, <2>5, <3>1, <3>2, <3>3 DEF InputsRead, storeVars, q
  <2>9. epoch' = epoch /\ authority' = authority
    BY <1>1 DEF storeVars
  <2>10. q.pc = "tools" => q.todo > 0
    BY <2>3, <2>5
  <2> QED
    BY <1>1, <1>2, <2>3, <2>5, <2>6, <2>7, <2>8, <2>9, <2>10, ActingKeeps DEF a
<1> QED
  BY <1>3, <1>4

(* A turn is over: the next one begins, or the session is out of turns.    *)
LEMMA TurnEnds ==
  ASSUME SessionTypes, SessionTypes', NEW t \in Tasks, TaskInv(t), UNCHANGED storeVars,
         turns' = turns, log' = log, sess[t].pc \in Acting,
         NEW n \in 0..Len(log[t]), NextTurn(t, [sess[t] EXCEPT !.seen = n]),
         executed'[t] \in executed[t]..(executed[t] + sess[t].todo),
         Len(log[t]) <= ControlPage => state[t] # "INPUT_REQUIRED"
  PROVE  TaskInv(t)'
<1> DEFINE s == sess[t]
           m == [s EXCEPT !.seen = n]
           q == sess'[t]
<1>1. m \in Sessions
  <2>1. n \in Nat
    BY LogTyped
  <2> QED
    BY <2>1, SessionFields DEF Sessions
<1>2. /\ m.epoch = s.epoch /\ m.turn = s.turn /\ m.seen = n /\ m.calls = s.calls
      /\ m.maxTurns = s.maxTurns /\ m.maxCalls = s.maxCalls
  BY SessionFields DEF Sessions
<1>3. /\ s.pc \in Looping /\ s.pc \in Working /\ s.pc \notin Asking /\ s.pc # "begin"
      /\ s.pc \in Acting \cup {"wait"}
  BY DEF Asking, Looping, Working, Acting
<1>4. CASE ~(s.turn < s.maxTurns)
  <2>1. q = Ended(m, "RETRY_WAIT")
    BY <1>1, <1>2, <1>4, NextTurnSets
  <2>2. /\ q.pc = "ended" /\ q.epoch = s.epoch /\ q.calls = 0 /\ q.todo = 0 /\ q.maxCalls = 0
    <3> HIDE DEF m, q, s
    <3> QED
      BY <1>1, <1>2, <2>1, EndedTyped DEF Outcomes
  <2> QED
    BY <1>3, <2>2, SameStoreDrifts, SessionLeaves DEF Leaving
<1>5. CASE s.turn < s.maxTurns
  <2>1. q = Turned(m)
    <3> HIDE DEF m
    <3> QED
      BY <1>1, <1>2, <1>5, NextTurnSets DEF m
  <2>2. /\ q.pc = "check" /\ q.epoch = s.epoch /\ q.turn = s.turn + 1 /\ q.seen = n /\ q.latest = 0
        /\ q.calls = s.calls /\ q.todo = 0 /\ q.maxTurns = s.maxTurns /\ q.maxCalls = s.maxCalls
    <3> HIDE DEF m
    <3> QED
      BY <1>1, <1>2, <2>1 DEF Turned, Sessions
  <2>3. /\ q.pc \in Looping /\ q.pc \in Working /\ q.pc \in Asking /\ q.pc \notin Acting \cup {"wait"}
        /\ q.pc \notin {"begin", "tools", "wait", "resume", "act", "waitInput", "project", "kinds", "ask"}
    BY <2>2 DEF Looping, Working, Asking, Acting
  <2>4. state' = state /\ epoch' = epoch /\ authority' = authority
    BY DEF storeVars
  <2>5. s.turn \in Nat /\ s.maxTurns \in Nat /\ 0 <= Len(log[t]) /\ Len(log[t]) \in Nat
    BY SessionFields, LogTyped
  <2>6. OfLatest(t)'
    BY <1>3, <2>2, <2>3, <2>4 DEF TaskInv, OfLatest
  <2>7. Questions(t)'
    <3>1. /\ s.got \in 1..Len(turns[t]) /\ turns[t][s.got].turn = s.turn /\ s.turn \in 1..s.maxTurns
          /\ \A k \in 1..Len(turns[t]) \ {s.got} : EarlierTurn(t, k)
      BY <1>3 DEF TaskInv, Questions
    <3>2. q.turn \in 1..q.maxTurns
      BY <1>5, <2>2, <2>5, <3>1
    <3>3. \A k \in 1..Len(turns[t]) : turns[t][k].epoch = q.epoch => turns[t][k].turn < q.turn
      <4> SUFFICES ASSUME NEW k \in 1..Len(turns[t]), turns[t][k].epoch = q.epoch
                   PROVE  turns[t][k].turn < q.turn
        OBVIOUS
      <4>1. turns[t][k].turn <= s.turn /\ turns[t][k].turn \in Nat
        BY <2>2, <2>5, <3>1, TurnTyped DEF EarlierTurn
      <4> QED
        BY <2>2, <2>5, <4>1
    <3> QED
      BY <2>3, <3>2, <3>3 DEF Questions, EarlierTurn
  <2>8. DecisionsFit(t)'
    <3>1. ToAsk(q) = q.maxTurns - q.turn + 1
      BY <2>3 DEF ToAsk
    <3>2. ToAsk(s) = s.maxTurns - s.turn
      BY <1>3 DEF ToAsk
    <3>3. ToAsk(q) = ToAsk(s)
      BY <2>2, <2>5, <3>1, <3>2
    <3>4. Counted(t)' = Counted(t)
      BY <2>4 DEF Counted, Answered, Open, Authoritative
    <3> QED
      BY <3>3, <3>4 DEF TaskInv, DecisionsFit
  <2>9. CallsFit(t)'
    <3>1. WorkerToolCalls(t)' = WorkerToolCalls(t) /\ WorkerToolCalls(t) \in Nat
      BY CountsFinite DEF WorkerToolCalls, CallsAnswered
    <3>2. /\ s.calls \in Nat /\ s.todo \in Nat /\ s.maxCalls \in Nat /\ MaxTaskCalls \in Nat
          /\ executed[t] \in Nat /\ executed'[t] \in Nat /\ executed'[t] <= executed[t] + s.todo
      BY SessionFields, Positive DEF SessionTypes
    <3>3. /\ s.calls <= s.maxCalls /\ executed[t] + s.todo + (s.maxCalls - s.calls) <= MaxTaskCalls
          /\ executed[t] + s.todo <= WorkerToolCalls(t)
      BY DEF TaskInv, CallsFit
    <3> HIDE DEF s, q
    <3>4. /\ q.calls <= q.maxCalls /\ executed'[t] + q.todo + (q.maxCalls - q.calls) <= MaxTaskCalls
          /\ executed'[t] + q.todo <= WorkerToolCalls(t)
      BY <2>2, <3>1, <3>2, <3>3
    <3> QED
      BY <2>2, <2>3, <3>1, <3>4 DEF CallsFit, q
  <2>10. InputsRead(t)'
    <3>1. q.seen <= Len(log'[t]) /\ q.latest <= Len(log'[t]) /\ q.pc \notin Acting
      BY <2>2, <2>3, <2>5
    <3>2. Len(log'[t]) <= ControlPage => state'[t] # "INPUT_REQUIRED"
      BY <2>4
    <3> HIDE DEF s, q
    <3> QED
      BY <2>3, <3>1, <3>2 DEF InputsRead, q
  <2> QED
    BY <2>6, <2>7, <2>8, <2>9, <2>10 DEF TaskInv
<1> QED
  BY <1>4, <1>5

LEMMA SeenAlready ==
  ASSUME SessionTypes, NEW t \in Tasks, TaskInv(t), sess[t].pc \in Looping
  PROVE  /\ sess[t].seen \in 0..Len(log[t])
         /\ sess[t] = [sess[t] EXCEPT !.seen = sess[t].seen]
BY SessionFields, LogTyped DEF TaskInv, InputsRead, Sessions

LEMMA WorkKeeps ==
  ASSUME SessionTypes, SessionTypes', NEW t \in Tasks, TaskInv(t), ExecuteTools(t) \/ Checkpoint(t)
  PROVE  TaskInv(t)'
<1> DEFINE s == sess[t]
           q == sess'[t]
<1>1. /\ UNCHANGED storeVars /\ turns' = turns /\ log' = log /\ s.pc \in {"tools", "checkpoint"}
  BY DEF ExecuteTools, Checkpoint, At
<1>2. /\ s.pc \in Acting \ {"waitInput"} /\ s.pc \in Looping /\ s.pc \in Working /\ s.pc \in Acting
      /\ s.pc \in Acting \cup {"wait"}
  BY <1>1 DEF Acting, Looping, Working
<1>3. Len(log[t]) <= ControlPage => state[t] # "INPUT_REQUIRED"
  BY <1>2 DEF TaskInv, InputsRead
<1>4. \/ executed' = executed
      \/ executed' = [executed EXCEPT ![t] = @ + 1] /\ s.pc = "tools" /\ s.todo > 0
  BY DEF ExecuteTools, Checkpoint, At, TaskInv, Questions
<1>5. executed'[t] \in executed[t]..(executed[t] + s.todo)
  BY <1>4, SessionFields DEF SessionTypes
<1>6. CASE Result(t, "BLOCKED")
  BY <1>1, <1>2, <1>5, <1>6, SameStoreDrifts, ResultLeaves DEF Outcomes
<1>7. CASE NextTurn(t, s)
  BY <1>1, <1>2, <1>3, <1>5, <1>7, SeenAlready, TurnEnds
<1>8. CASE /\ ExecuteTools(t) /\ s.todo > 1 /\ executed' = [executed EXCEPT ![t] = @ + 1]
           /\ sess' = [sess EXCEPT ![t].todo = @ - 1]
  <2>1. q = [s EXCEPT !.todo = @ - 1] /\ s.pc = "tools" /\ executed'[t] = executed[t] + 1
    BY <1>8 DEF SessionTypes, ExecuteTools, At
  <2>2. /\ q.pc = "tools" /\ q.epoch = s.epoch /\ q.turn = s.turn /\ q.seen = s.seen /\ q.got = s.got
        /\ q.latest = s.latest /\ q.calls = s.calls /\ q.todo = s.todo - 1
        /\ q.maxTurns = s.maxTurns /\ q.maxCalls = s.maxCalls
    BY <2>1, SessionFields DEF Sessions
  <2>3. Asked(t).answer # Pending
    BY <1>2 DEF TaskInv, Questions, Asked
  <2>4. CallsFit(t)'
    <3>1. WorkerToolCalls(t)' = WorkerToolCalls(t) /\ WorkerToolCalls(t) \in Nat
      BY <1>1, CountsFinite DEF WorkerToolCalls, CallsAnswered
    <3>2. /\ s.calls \in Nat /\ s.todo \in Nat /\ s.maxCalls \in Nat /\ MaxTaskCalls \in Nat
          /\ executed[t] \in Nat
      BY SessionFields, Positive
    <3>3. /\ s.calls <= s.maxCalls /\ executed[t] + s.todo + (s.maxCalls - s.calls) <= MaxTaskCalls
          /\ executed[t] + s.todo <= WorkerToolCalls(t)
      BY DEF TaskInv, CallsFit
    <3> HIDE DEF s, q
    <3>4. /\ q.calls <= q.maxCalls /\ executed'[t] + q.todo + (q.maxCalls - q.calls) <= MaxTaskCalls
          /\ executed'[t] + q.todo <= WorkerToolCalls(t)
      BY <2>1, <2>2, <3>2, <3>3
    <3>5. q.pc \notin Asking \cup {"begin", "wait", "resume", "act"}
      BY <2>2 DEF Asking
    <3> QED
      BY <3>1, <3>4, <3>5 DEF CallsFit, q
  <2>5. InputsRead(t)'
    <3>1. q.pc = s.pc /\ q.seen = s.seen /\ q.latest = s.latest
      BY <2>1, <2>2
    <3>2. q.pc # "wait" /\ q.pc # "waitInput"
      BY <2>2
    <3> QED
      BY <1>1, <3>1, <3>2 DEF TaskInv, InputsRead, Unread, NoInput, storeVars
  <2>6. epoch' = epoch /\ authority' = authority /\ q.pc \in Acting /\ q.todo > 0
    BY <1>1, <1>8, <2>2, SessionFields DEF storeVars, Acting
  <2> QED
    BY <1>1, <1>2, <2>2, <2>3, <2>4, <2>5, <2>6, ActingKeeps
<1> QED
  BY <1>6, <1>7, <1>8 DEF ExecuteTools, Checkpoint

--------------------------------------------------------------------------------
(* Waiting for the owner.                                                  *)
LEMMA EnterInputKeeps ==
  ASSUME SessionTypes, SessionTypes', NEW t \in Tasks, TaskInv(t), EnterInputRequired(t)
  PROVE  TaskInv(t)'
<1> DEFINE s == sess[t]
           q == sess'[t]
<1>1. turns' = turns /\ log' = log /\ executed' = executed /\ s.pc = "input"
  BY DEF EnterInputRequired, Records, sessionVars, At
<1>2. /\ s.pc \in Acting \ {"waitInput"} /\ s.pc \in Looping /\ s.pc \in Working
      /\ s.pc \in Acting \cup {"wait"} /\ s.pc \in Acting
  BY <1>1 DEF Acting, Looping, Working
<1>3. CASE Result(t, "BLOCKED") /\ UNCHANGED storeVars
  <2>1. executed'[t] \in executed[t]..(executed[t] + s.todo)
    BY <1>1, SessionFields
  <2> QED
    BY <1>1, <1>2, <1>3, <2>1, SameStoreDrifts, ResultLeaves DEF Outcomes
<1>4. CASE ~(Result(t, "BLOCKED") /\ UNCHANGED storeVars)
  <2>1. /\ epoch' = epoch /\ authority' = authority
        /\ sess' = [sess EXCEPT ![t].pc = "waitInput", ![t].latest = Len(log[t])]
    BY <1>4 DEF EnterInputRequired, TransitionForAttempt
  <2>2. q = [s EXCEPT !.pc = "waitInput", !.latest = Len(log[t])]
    BY <2>1 DEF SessionTypes
  <2>3. /\ q.pc = "waitInput" /\ q.epoch = s.epoch /\ q.turn = s.turn /\ q.seen = s.seen
        /\ q.got = s.got /\ q.latest = Len(log[t]) /\ q.calls = s.calls /\ q.todo = s.todo
        /\ q.maxTurns = s.maxTurns /\ q.maxCalls = s.maxCalls
    BY <2>2, SessionFields DEF Sessions
  <2>4. /\ q.pc \in Acting /\ q.pc \notin Asking /\ q.pc \notin Acting \ {"waitInput"}
        /\ q.pc \notin {"begin", "tools", "wait", "resume", "act", "project", "kinds", "ask"}
    BY <2>3 DEF Acting, Asking
  <2>5. Asked(t).answer # Pending
    BY <1>2 DEF TaskInv, Questions, Asked
  <2>6. CallsFit(t)'
    <3>1. WorkerToolCalls(t)' = WorkerToolCalls(t)
      BY <1>1 DEF WorkerToolCalls, CallsAnswered
    <3> QED
      BY <1>1, <2>3, <2>4, <3>1 DEF TaskInv, CallsFit
  <2>7. InputsRead(t)'
    <3>1. s.seen <= Len(log[t]) /\ (Len(log[t]) <= ControlPage => Unread(t)) /\ Len(log[t]) \in Nat
      BY <1>2, LogTyped DEF TaskInv, InputsRead
    <3>2. \A k \in (q.latest + 1)..Len(log'[t]) : log'[t][k].kind # "INPUT"
      BY <1>1, <2>3, <3>1
    <3>3. Len(log'[t]) <= ControlPage =>
            \A k \in (q.seen + 1)..q.latest : log'[t][k].kind # "INPUT"
      BY <1>1, <2>3, <3>1 DEF Unread, NoInput
    <3>4. q.seen <= Len(log'[t]) /\ q.latest <= Len(log'[t])
      BY <1>1, <2>3, <3>1
    <3> HIDE DEF s, q
    <3> QED
      BY <2>4, <3>2, <3>3, <3>4 DEF InputsRead, NoInput, q
  <2>8. q.pc # "tools"
    BY <2>3
  <2> QED
    BY <1>1, <1>2, <2>1, <2>3, <2>4, <2>5, <2>6, <2>7, <2>8, ActingKeeps
<1> QED
  BY <1>3, <1>4

(* An input among the controls just read is newer than the wait.           *)
LEMMA InputSeen ==
  ASSUME SessionTypes, NEW t \in Tasks, TaskInv(t), sess[t].pc = "waitInput",
         Has(Page(t), "INPUT"), Len(log[t]) <= ControlPage
  PROVE  \E k \in (sess[t].latest + 1)..Len(log[t]) : log[t][k].kind = "INPUT"
<1> DEFINE s == sess[t]
<1>1. s.seen <= Len(log[t]) /\ NoInput(t, s.seen + 1, s.latest)
  BY DEF TaskInv, InputsRead, Looping, Acting
<1>2. s.seen \in Nat /\ s.latest \in Nat /\ Len(log[t]) \in Nat
  BY SessionFields, LogTyped
<1>3. PICK j \in DOMAIN Page(t) : Page(t)[j].kind = "INPUT"
  BY DEF Has
<1>4. /\ j \in 1..(Consumed(t) - s.seen) /\ Consumed(t) \in Nat /\ Consumed(t) <= Len(log[t])
      /\ Page(t)[j] = log[t][s.seen + j]
  BY <1>1, <1>3, PageTyped
<1> HIDE DEF s
<1>5. log[t][s.seen + j].kind = "INPUT"
  BY <1>3, <1>4
<1>6. s.seen + j \in Int /\ s.seen + 1 <= s.seen + j /\ s.seen + j <= Len(log[t])
  BY <1>2, <1>4
<1>7. ~(s.seen + j <= s.latest)
  <2> SUFFICES ASSUME s.seen + j <= s.latest PROVE FALSE
    OBVIOUS
  <2>1. s.seen + j \in (s.seen + 1)..s.latest
    BY <1>2, <1>6
  <2> QED
    BY <1>1, <1>5, <2>1 DEF NoInput
<1>8. s.seen + j \in (s.latest + 1)..Len(log[t])
  BY <1>2, <1>6, <1>7
<1> QED
  BY <1>5, <1>8 DEF s

LEMMA PollInputKeeps ==
  ASSUME SessionTypes, SessionTypes', NEW t \in Tasks, TaskInv(t), PollInput(t)
  PROVE  TaskInv(t)'
<1> DEFINE s == sess[t]
           q == sess'[t]
           n == Consumed(t)
<1>1. /\ UNCHANGED storeVars /\ turns' = turns /\ log' = log /\ executed' = executed
      /\ s.pc = "waitInput"
  BY DEF PollInput, Reads, Records, sessionVars, At
<1>2. /\ s.pc \in Looping /\ s.pc \in Working /\ s.pc \in Acting \cup {"wait"} /\ s.pc \in Acting
  BY <1>1 DEF Acting, Looping, Working
<1>3. executed'[t] \in executed[t]..(executed[t] + s.todo)
  BY <1>1, SessionFields
<1>4. /\ s.seen <= Len(log[t]) /\ s.latest <= Len(log[t])
      /\ state[t] # "INPUT_REQUIRED" \/ NoInput(t, s.latest + 1, Len(log[t]))
      /\ Len(log[t]) <= ControlPage => NoInput(t, s.seen + 1, s.latest)
  BY <1>1, <1>2 DEF TaskInv, InputsRead
<1>5. n \in 0..Len(log[t]) /\ s.seen <= n
  BY <1>4, PageTyped, LogTyped
<1>6. CASE Result(t, "BLOCKED")
  BY <1>1, <1>2, <1>3, <1>6, SameStoreDrifts, ResultLeaves DEF Outcomes
<1>7. CASE Has(Page(t), "INPUT") /\ NextTurn(t, [s EXCEPT !.seen = n])
  <2>1. Len(log[t]) <= ControlPage => state[t] # "INPUT_REQUIRED"
    BY <1>1, <1>4, <1>7, InputSeen DEF NoInput
  <2> HIDE DEF n
  <2> QED
    BY <1>1, <1>2, <1>3, <1>5, <1>7, <2>1, TurnEnds
<1>8. CASE sess' = [sess EXCEPT ![t] = [s EXCEPT !.seen = n]]
  <2>1. q = [s EXCEPT !.seen = n]
    BY <1>8 DEF SessionTypes
  <2> HIDE DEF n
  <2>2. /\ q.pc = "waitInput" /\ q.epoch = s.epoch /\ q.turn = s.turn /\ q.seen = n
        /\ q.got = s.got /\ q.latest = s.latest /\ q.calls = s.calls /\ q.todo = s.todo
        /\ q.maxTurns = s.maxTurns /\ q.maxCalls = s.maxCalls
    BY <1>1, <2>1, SessionFields DEF Sessions
  <2>3. /\ q.pc \in Acting /\ q.pc \notin Asking /\ q.pc \notin Acting \ {"waitInput"}
        /\ q.pc \notin {"begin", "tools", "wait", "resume", "act", "project", "kinds", "ask"}
    BY <2>2 DEF Acting, Asking
  <2>4. Asked(t).answer # Pending
    BY <1>2 DEF TaskInv, Questions, Asked
  <2>5. CallsFit(t)'
    <3>1. WorkerToolCalls(t)' = WorkerToolCalls(t)
      BY <1>1 DEF WorkerToolCalls, CallsAnswered
    <3> QED
      BY <1>1, <2>2, <2>3, <3>1 DEF TaskInv, CallsFit
  <2>6. InputsRead(t)'
    <3>1. Len(log'[t]) <= ControlPage =>
            \A k \in (q.seen + 1)..q.latest : log'[t][k].kind # "INPUT"
      <4> SUFFICES ASSUME Len(log[t]) <= ControlPage, NEW k \in (n + 1)..s.latest
                   PROVE  log[t][k].kind # "INPUT"
        BY <1>1, <2>2
      <4>1. k \in (s.seen + 1)..s.latest
        BY <1>5, SessionFields, LogTyped
      <4> QED
        BY <1>4, <4>1 DEF NoInput
    <3>2. state'[t] # "INPUT_REQUIRED" \/
            \A k \in (q.latest + 1)..Len(log'[t]) : log'[t][k].kind # "INPUT"
      BY <1>1, <1>4, <2>2 DEF NoInput, storeVars
    <3>3. q.seen <= Len(log'[t]) /\ q.latest <= Len(log'[t])
      BY <1>1, <1>4, <1>5, <2>2
    <3> HIDE DEF s, q
    <3> QED
      BY <2>3, <3>1, <3>2, <3>3 DEF InputsRead, NoInput, q
  <2>7. epoch' = epoch /\ authority' = authority /\ q.pc # "tools"
    BY <1>1, <2>2 DEF storeVars
  <2> QED
    BY <1>1, <1>2, <2>2, <2>3, <2>4, <2>5, <2>6, <2>7, ActingKeeps
<1> QED
  BY <1>6, <1>7, <1>8 DEF PollInput

--------------------------------------------------------------------------------
(* Others act: the brain, the owner, the daemon, a crash.                  *)

(* What is answered was counted as a question that might be.               *)
LEMMA RespondKeeps ==
  ASSUME IInv, SessionTypes, SessionTypes', NEW t \in Tasks, TaskInv(t), Respond(t)
  PROVE  TaskInv(t)'
<1> DEFINE s == sess[t]
<1>1. PICK k \in DOMAIN turns[t], answer \in Answers : RespondWebTurn(t, k, answer)
  BY DEF Respond
<1>2. /\ epoch' = epoch /\ authority' = authority /\ log' = log /\ executed' = executed
      /\ sess' = sess /\ state[t] = "INPUT_REQUIRED" /\ Authoritative(t, turns[t][k].epoch)
      /\ turns[t][k].answer = Pending /\ state'[t] = "RUNNING"
  BY <1>1 DEF Respond, RespondWebTurn, Move, IInv, TypeOK
<1>3. /\ Len(turns'[t]) = Len(turns[t]) /\ DOMAIN turns'[t] = DOMAIN turns[t]
      /\ DOMAIN turns[t] = 1..Len(turns[t])
      /\ \A j \in 1..Len(turns[t]) : /\ turns'[t][j].epoch = turns[t][j].epoch
                                     /\ turns'[t][j].turn = turns[t][j].turn
                                     /\ j # k => turns'[t][j].answer = turns[t][j].answer
      /\ turns'[t][k].answer = answer
  <2> DEFINE w == [turns[t][k] EXCEPT !.answer = answer]
  <2>1. turns'[t] = [turns[t] EXCEPT ![k] = w]
    BY <1>1 DEF RespondWebTurn, SessionTypes
  <2>2. k \in 1..Len(turns[t]) /\ turns[t] \in Seq(Turns) /\ DOMAIN turns[t] = 1..Len(turns[t])
    BY TurnTyped DEF SessionTypes
  <2>3. w \in Turns /\ w.epoch = turns[t][k].epoch /\ w.turn = turns[t][k].turn /\ w.answer = answer
    BY <2>2, TurnTyped DEF Turns
  <2> HIDE DEF w
  <2>4. /\ turns'[t] \in Seq(Turns) /\ Len(turns'[t]) = Len(turns[t])
        /\ \A j \in 1..Len(turns[t]) : turns'[t][j] = IF j = k THEN w ELSE turns[t][j]
    BY <2>1, <2>2, <2>3, ExceptSeq
  <2>5. DOMAIN turns'[t] = 1..Len(turns'[t])
    BY <2>4
  <2> QED
    BY <2>2, <2>3, <2>4, <2>5
<1>4. answer # Pending /\ answer.calls \in 0..2 /\ Pending.calls = 0
  BY AnswersTyped
<1>5. OfLatest(t)'
  BY <1>2, <1>3 DEF TaskInv, OfLatest, Quiescent, OpenEpochs
<1>6. Questions(t)'
  <2>1. \A j \in 1..Len(turns[t]) : turns[t][j].answer # Pending => turns'[t][j].answer # Pending
    BY <1>3, <1>4
  <2> QED
    BY <1>2, <1>3, <2>1 DEF TaskInv, Questions, EarlierTurn, Acting
<1>7. DecisionsFit(t)'
  <2>1. Answered(t)' = Answered(t) \cup {k}
    BY <1>2, <1>3, <1>4 DEF Answered
  <2>2. Open(t)' = Open(t) /\ k \in Open(t)
    BY <1>2, <1>3 DEF Open, Authoritative
  <2>3. Counted(t)' = Counted(t)
    BY <2>1, <2>2 DEF Counted
  <2> QED
    BY <1>2, <2>3 DEF TaskInv, DecisionsFit
<1>8. CallsFit(t)'
  <2> DEFINE all == CallsAnswered(t)'
             others == {c \in all : c[1] # s.got}
  <2>1. all = CallsAnswered(t) \cup ({k} \X (1..answer.calls))
    <3>1. \A j \in 1..Len(turns[t]) : j # k => CallsOf(turns'[t][j]) = CallsOf(turns[t][j])
      BY <1>3 DEF CallsOf
    <3>2. CallsOf(turns'[t][k]) = 1..answer.calls /\ CallsOf(turns[t][k]) = {}
      BY <1>2, <1>3, <1>4 DEF CallsOf
    <3> DEFINE D == 1..Len(turns[t])
               old(j) == {j} \X CallsOf(turns[t][j])
               new(j) == {j} \X CallsOf(turns'[t][j])
    <3>3. \A j \in D : j # k => new(j) = old(j)
      BY <3>1
    <3>4. new(k) = {k} \X (1..answer.calls) /\ old(k) = {} /\ k \in D
      BY <1>3, <3>2
    <3>5. all = UNION {new(j) : j \in D} /\ CallsAnswered(t) = UNION {old(j) : j \in D}
      BY <1>3 DEF CallsAnswered
    <3> HIDE DEF D, old, new, all
    <3> QED
      BY <3>3, <3>4, <3>5
  <2>2. IsFiniteSet(all) /\ IsFiniteSet(others)
    <3>1. answer.calls \in Nat
      BY <1>4
    <3>2. IsFiniteSet({k} \X (1..answer.calls))
      BY <3>1, CallsOfOne
    <3>3. IsFiniteSet(all)
      <4> HIDE DEF all
      <4> QED
        BY <2>1, <3>2, CountsFinite, FS_Union
    <3> QED
      BY <3>3, FS_Subset
  <2>3. WorkerToolCalls(t) <= Cardinality(all) /\ Cardinality(all) \in Nat
    BY <2>1, <2>2, FS_Subset, FS_CardinalityType DEF WorkerToolCalls
  <2>4. /\ Cardinality(OtherCalls(t, s.got)) <= Cardinality(others) /\ Cardinality(others) \in Nat
        /\ executed[t] \in Nat /\ s.todo \in Nat /\ WorkerToolCalls(t) \in Nat
        /\ Cardinality(OtherCalls(t, s.got)) \in Nat
    <3>1. OtherCalls(t, s.got) \subseteq others
      BY <2>1 DEF OtherCalls
    <3> HIDE DEF others, all
    <3> QED
      BY <2>2, <3>1, SessionFields, CountsFinite, FS_Subset, FS_CardinalityType
  <2>5. /\ executed[t] + s.todo <= Cardinality(all)
        /\ s.pc \in {"wait", "resume", "act"} => executed[t] <= Cardinality(others)
    <3>1. /\ executed[t] + s.todo <= WorkerToolCalls(t)
          /\ s.pc \in {"wait", "resume", "act"} => executed[t] <= Cardinality(OtherCalls(t, s.got))
      BY DEF TaskInv, CallsFit
    <3> HIDE DEF others, all, s
    <3> QED
      BY <2>3, <2>4, <3>1
  <2> QED
    BY <1>2, <2>5 DEF TaskInv, CallsFit, OtherCalls, WorkerToolCalls
<1>9. InputsRead(t)'
  BY <1>2 DEF TaskInv, InputsRead, Unread, NoInput, Asked
<1> QED
  BY <1>5, <1>6, <1>7, <1>8, <1>9 DEF TaskInv

LEMMA DaemonDrifts ==
  ASSUME IInv, NEW t \in Tasks, DaemonStep(t)
  PROVE  StoreDrifts(t) /\ OthersRows(t)
<1>1. CASE Reconcile(t)
  BY <1>1, AttemptDrifts DEF Reconcile
<1>2. CASE Replace(t)
  <2>1. "RETRY_WAIT" \in TaskStates
    BY DEF TaskStates
  <2> QED
    BY <1>2, <2>1, OrchestratorDrifts DEF Replace
<1> QED
  BY <1>1, <1>2 DEF DaemonStep

LEMMA OwnerDrifts ==
  ASSUME IInv, SessionTypes, NEW t \in Tasks, OwnerStep(t)
  PROVE  StoreDrifts(t) /\ OthersRows(t) /\ LogGrows(t)
<1>1. StoreDrifts(t) /\ OthersRows(t)
  BY ControlDrifts DEF OwnerStep, OwnerSteers, OwnerInputs, OwnerCancels
<1>2. PICK kind \in Kinds : /\ Publish(t, kind)
                            /\ kind = "INPUT" => PublishTaskInput(t)
  BY DEF OwnerStep, OwnerSteers, OwnerInputs, OwnerCancels, Kinds
<1>3. log'[t] = Append(log[t], Control(t, kind))
  BY <1>2 DEF Publish, SessionTypes
<1>4. Control(t, kind) \in Controls /\ Control(t, kind).kind = kind
  BY ControlTyped
<1>5. kind = "INPUT" => state[t] = "INPUT_REQUIRED" /\ state'[t] # "INPUT_REQUIRED"
  BY <1>2 DEF PublishTaskInput, Move, IInv, TypeOK
<1>6. LogGrows(t)
  BY <1>3, <1>4, <1>5 DEF LogGrows
<1> QED
  BY <1>1, <1>6

LEMMA AroundKeeps ==
  ASSUME IInv, SessionTypes, SessionTypes', NEW t \in Tasks, TaskInv(t),
         DaemonStep(t) \/ OwnerStep(t) \/ Respond(t)
  PROVE  TaskInv(t)'
<1>1. CASE DaemonStep(t)
  <2>1. UNCHANGED <<sess, turns, log, executed>>
    BY <1>1 DEF DaemonStep, Reconcile, Replace, Records, sessionVars
  <2> QED
    BY <1>1, <2>1, DaemonDrifts, SessionStays DEF LogGrows
<1>2. CASE OwnerStep(t)
  <2>1. UNCHANGED <<sess, turns, executed>>
    BY <1>2 DEF OwnerStep, OwnerSteers, OwnerInputs, OwnerCancels, Publish
  <2> QED
    BY <1>2, <2>1, OwnerDrifts, SessionStays
<1>3. CASE Respond(t)
  BY <1>3, RespondKeeps
<1> QED
  BY <1>1, <1>2, <1>3

LEMMA CrashKeeps ==
  ASSUME SessionInv, Crash
  PROVE  SessionTypes' /\ \A t \in Tasks : TaskInv(t)'
<1> USE DEF SessionInv
<1>1. /\ UNCHANGED <<turns, log, executed>> /\ UNCHANGED storeVars
      /\ sess' = [t \in Tasks |-> NoSession]
  BY DEF Crash
<1>2. SessionTypes'
  BY <1>1, NoSessionTyped DEF SessionTypes
<1>3. ASSUME NEW t \in Tasks PROVE TaskInv(t)'
  BY <1>1, <1>2, SameStoreDrifts, NoSessionLeaves
<1> QED
  BY <1>2, <1>3

--------------------------------------------------------------------------------
(* Every step is a transaction of the store on its own task, or none.      *)
StoreStep(t) == UNCHANGED storeVars \/ PreExecutionNext(t) \/ AttemptNext(t) \/ ControlNext(t)

LEMMA StoreStepOthers ==
  ASSUME IInv, NEW t \in Tasks, StoreStep(t) PROVE OthersRows(t)
<1> USE DEF OthersRows, IInv, TypeOK, Move, Touch
<1>1. CASE UNCHANGED storeVars
  BY <1>1 DEF storeVars
<1>2. CASE PreExecutionNext(t)
  BY <1>2 DEF PreExecutionNext, SubmitTask, AdvancePreExecution, OrchestratorTransition, BlockTask,
     BeginAttempt, SetAuthority, RecoverTaskToWorkspaceReady, SetTaskBlocker,
     RecoverNoWorkspaceToPreflight, RecoverBlockedCheckpointToWaitingResource
<1>3. CASE AttemptNext(t)
  <2>1. CASE \E e \in Epochs : LogicalFenceAttempt(t, e) \/ ConfirmAttemptTerminated(t, e)
    BY <2>1 DEF LogicalFenceAttempt, ConfirmAttemptTerminated, SetAuthority
  <2>2. CASE \E e \in Epochs, to \in TaskStates : TransitionForAttempt(t, e, to)
    BY <2>2 DEF TransitionForAttempt
  <2>3. CASE \E e \in Epochs : PersistVerificationOutcome(t, e)
    BY <2>3 DEF PersistVerificationOutcome
  <2>4. CASE \E e \in Epochs : RequirePhysicalRecovery(t, e)
    BY <2>4 DEF RequirePhysicalRecovery, FenceIfActive
  <2>5. CASE PublishTaskInput(t)
    BY <2>5 DEF PublishTaskInput
  <2> QED
    BY <1>3, <2>1, <2>2, <2>3, <2>4, <2>5 DEF AttemptNext
<1>4. CASE ControlNext(t)
  BY <1>4 DEF ControlNext, Steer, RequestTaskCancellation, FinalizeTaskCancellation
<1> QED
  BY <1>1, <1>2, <1>3, <1>4 DEF StoreStep

LEMMA LoopUsesStore ==
  ASSUME IInv, SessionTypes, NEW t \in Tasks, TaskInv(t), LoopStep(t) \/ CapacityGranted(t)
  PROVE  StoreStep(t)
<1> USE DEF Reads, StoreStep
<1>1. sess[t].pc \in {"ask", "input"} => sess[t].epoch \in Epochs
  BY DEF TaskInv, OfLatest, Working, Looping, Asking, Acting
<1>2. "INPUT_REQUIRED" \in TaskStates
  BY DEF TaskStates
<1>3. CASE AskBrain(t)
  <2>1. CASE PublishWebTurn(t)
    <3>1. TransitionForAttempt(t, sess[t].epoch, "INPUT_REQUIRED")
      BY <2>1 DEF PublishWebTurn, Authority, TransitionForAttempt, AttemptTransitions
    <3> QED
      BY <1>1, <1>2, <1>3, <3>1 DEF AskBrain, At, AttemptNext
  <2> QED
    BY <1>3, <2>1 DEF AskBrain
<1>4. CASE EnterInputRequired(t)
  BY <1>1, <1>2, <1>4 DEF EnterInputRequired, At, AttemptNext
<1> QED
  BY <1>3, <1>4 DEF LoopStep, HarnessRuns, CheckAttempt, ConsumeControls, ProjectLatest,
     ProjectKinds, PollAnswer, CapacityGranted, ActOn, ExecuteTools, Checkpoint, PollInput

LEMMA RunnerUsesStore ==
  ASSUME IInv, SessionTypes, NEW t \in Tasks, TaskInv(t), RunnerStep(t)
  PROVE  StoreStep(t)
<1> USE DEF Reads, StoreStep
<1> DEFINE e == sess[t].epoch
<1>1. CASE CheckBudget(t)
  BY <1>1 DEF CheckBudget, PreExecutionNext, TaskStates, PreAttemptStates
<1>2. CASE Begin(t)
  BY <1>2 DEF Begin, PreExecutionNext
<1>3. CASE CheckCancel(t)
  BY <1>3 DEF CheckCancel
<1>4. CASE Finish(t) \/ Verify(t) \/ VerifyOutcome(t)
  <2>1. e \in Epochs
    BY <1>4 DEF Finish, Verify, VerifyOutcome, At, TaskInv, OfLatest, Working, Leaving
  <2>2. \/ UNCHANGED storeVars \/ PersistVerificationOutcome(t, e)
        \/ \E to : CanTransition(t, to) /\ TransitionForAttempt(t, e, to)
    BY <1>4 DEF Finish, Verify, VerifyOutcome
  <2>3. \A to : CanTransition(t, to) => to \in TaskStates
    BY DEF CanTransition, AttemptTransitions, TaskStates
  <2> QED
    BY <2>1, <2>2, <2>3 DEF AttemptNext
<1>5. CASE Confirm(t)
  BY <1>5 DEF Confirm, OpenEpochs, AttemptNext
<1>6. CASE Finalize(t)
  BY <1>6 DEF Finalize, ControlNext
<1> QED
  BY <1>1, <1>2, <1>3, <1>4, <1>5, <1>6 DEF RunnerStep

LEMMA AroundUsesStore ==
  ASSUME IInv, SessionTypes, NEW t \in Tasks,
         TimerStep(t) \/ ResumeEnds(t) \/ WorkerFails(t) \/ DaemonStep(t) \/ OwnerStep(t) \/ Respond(t)
  PROVE  StoreStep(t)
<1> USE DEF StoreStep
<1>1. CASE TimerStep(t) \/ ResumeEnds(t) \/ WorkerFails(t)
  BY <1>1 DEF TimerStep, WaitEnds, ResumeEnds, ClockExpires, WorkerFails, Reads
<1>2. CASE DaemonStep(t)
  BY <1>2 DEF DaemonStep, Reconcile, Replace, RecoverBlockedChoice, ReplaceableStates, AttemptNext,
     PreExecutionNext, TaskStates
<1>3. CASE OwnerStep(t)
  BY <1>3 DEF OwnerStep, OwnerSteers, OwnerInputs, OwnerCancels, ControlNext, AttemptNext
<1>4. CASE Respond(t)
  <2>1. PICK k \in DOMAIN turns[t], answer \in Answers : RespondWebTurn(t, k, answer)
    BY <1>4 DEF Respond
  <2>2. turns[t][k].epoch \in Epochs
    BY TurnTyped
  <2>3. PublishTaskInput(t)
    BY <2>1, <2>2 DEF RespondWebTurn, PublishTaskInput, Authoritative
  <2> QED
    BY <2>3 DEF AttemptNext
<1> QED
  BY <1>1, <1>2, <1>3, <1>4

--------------------------------------------------------------------------------
(* The invariant.                                                          *)
SessionStep(t) == \/ LoopStep(t) \/ RunnerStep(t) \/ TimerStep(t) \/ ResumeStep(t)
                  \/ WorkerFails(t) \/ DaemonStep(t) \/ OwnerStep(t) \/ Respond(t)

LEMMA StepUsesStore ==
  ASSUME SessionInv, NEW t \in Tasks, SessionStep(t) PROVE StoreStep(t)
BY LoopUsesStore, RunnerUsesStore, AroundUsesStore DEF SessionInv, SessionStep, ResumeStep

LEMMA StepTyped ==
  ASSUME SessionInv, NEW t \in Tasks, SessionStep(t) PROVE SessionTypes' /\ Elsewhere(t)
BY LoopTyped, RunnerTyped, OtherTyped DEF SessionInv, SessionStep, ResumeStep

LEMMA StepKeeps ==
  ASSUME SessionInv, SessionTypes', NEW t \in Tasks, SessionStep(t) PROVE TaskInv(t)'
<1>1. CASE LoopStep(t)
  BY <1>1, RunnerLeaves, AskingStepKeeps, AskKeeps, PollAnswerKeeps, ActOnKeeps, WorkKeeps,
     EnterInputKeeps, PollInputKeeps DEF SessionInv, LoopStep
<1>2. CASE RunnerStep(t)
  BY <1>2, CheckBudgetKeeps, BeginKeeps, RunnerLeaves DEF SessionInv, RunnerStep
<1>3. CASE TimerStep(t) \/ ResumeEnds(t) \/ WorkerFails(t)
  BY <1>3, RunnerLeaves DEF SessionInv
<1>4. CASE DaemonStep(t) \/ OwnerStep(t) \/ Respond(t)
  BY <1>4, AroundKeeps DEF SessionInv
<1>5. CASE CapacityGranted(t)
  BY <1>5, PollAnswerKeeps DEF SessionInv
<1> QED
  BY <1>1, <1>2, <1>3, <1>4, <1>5 DEF SessionStep, ResumeStep

LEMMA StoreStepInductive ==
  ASSUME IInv, NEW t \in Tasks, StoreStep(t) PROVE IInv' /\ [Next]_storeVars
<1>1. [Next]_storeVars
  BY DEF StoreStep, Next
<1> QED
  BY <1>1, Inductive

LEMMA SessionInitially == SessionInit => SessionInv
<1> SUFFICES ASSUME SessionInit PROVE SessionInv
  OBVIOUS
<1>1. IInv
  BY EpochAssumption DEF SessionInit, IInv, TypeOK, Safe, SettledStates, PreAttemptStates, OpenEpochs,
     Quiescent, Epochs, TaskStates, AuthorityStates, WorkspaceStates, Results, IntegrationStates
<1>2. SessionTypes
  BY NoSessionTyped DEF SessionInit, SessionTypes
<1>3. ASSUME NEW t \in Tasks PROVE TaskInv(t)
  <2>1. /\ sess[t] = NoSession /\ turns[t] = <<>> /\ log[t] = <<>> /\ executed[t] = 0
        /\ NoSession.pc = "none" /\ NoSession.todo = 0 /\ NoSession.calls = 0 /\ NoSession.maxCalls = 0
    BY DEF SessionInit, NoSession
  <2>2. DOMAIN turns[t] = {} /\ 1..Len(turns[t]) = {}
    BY <2>1
  <2>3. "none" \notin Working /\ "none" \notin Looping
    BY DEF Working, Looping, Leaving, Asking, Acting
  <2>4. OfLatest(t) /\ Questions(t) /\ InputsRead(t)
    BY <2>1, <2>2, <2>3 DEF OfLatest, Questions, InputsRead, Looping, Asking, Acting
  <2>5. Counted(t) = {} /\ CallsAnswered(t) = {}
    BY <2>2 DEF Counted, Answered, Open, CallsAnswered
  <2>6. ToAsk(sess[t]) = 0
    BY <2>1 DEF ToAsk, Asking, Acting
  <2>7. DecisionsFit(t)
    BY <2>5, <2>6, FS_EmptySet, Positive DEF DecisionsFit
  <2>8. CallsFit(t)
    <3>1. WorkerToolCalls(t) = 0
      BY <2>5, FS_EmptySet DEF WorkerToolCalls
    <3>2. sess[t].pc \notin {"wait", "resume", "act"}
      BY <2>1
    <3> QED
      BY <2>1, <3>1, <3>2, Positive DEF CallsFit
  <2> QED
    BY <2>4, <2>7, <2>8 DEF TaskInv
<1> QED
  BY <1>1, <1>2, <1>3 DEF SessionInv

LEMMA SessionInductive == SessionInv /\ [SessionNext]_allVars => SessionInv' /\ [Next]_storeVars
<1> SUFFICES ASSUME SessionInv, [SessionNext]_allVars PROVE SessionInv' /\ [Next]_storeVars
  OBVIOUS
<1>1. CASE UNCHANGED allVars
  <2>1. UNCHANGED storeVars /\ UNCHANGED <<log, turns, sess, executed>>
    BY <1>1 DEF allVars, sessionVars
  <2>2. IInv'
    BY <2>1, Inductive DEF SessionInv
  <2>3. SessionTypes'
    BY <2>1 DEF SessionInv, SessionTypes
  <2>4. \A t \in Tasks : TaskInv(t)'
    BY <2>1, SameKeeps DEF SessionInv, SameRows, storeVars
  <2> QED
    BY <2>1, <2>2, <2>3, <2>4 DEF SessionInv
<1>2. CASE Crash
  <2>1. UNCHANGED storeVars
    BY <1>2 DEF Crash
  <2> QED
    BY <1>2, <2>1, CrashKeeps, Inductive DEF SessionInv
<1>3. ASSUME NEW t \in Tasks, SessionStep(t) PROVE SessionInv' /\ [Next]_storeVars
  <2>1. StoreStep(t) /\ SessionTypes' /\ Elsewhere(t)
    BY <1>3, StepUsesStore, StepTyped
  <2>2. IInv' /\ [Next]_storeVars /\ OthersRows(t)
    BY <2>1, StoreStepInductive, StoreStepOthers DEF SessionInv
  <2>3. TaskInv(t)'
    BY <1>3, <2>1, StepKeeps
  <2>4. ASSUME NEW u \in Tasks \ {t} PROVE TaskInv(u)'
    BY <2>1, <2>2, SameKeeps DEF SessionInv, Elsewhere, OthersRows, SameRows
  <2>5. \A u \in Tasks : TaskInv(u)'
    BY <2>3, <2>4
  <2> QED
    BY <2>1, <2>2, <2>5 DEF SessionInv
<1> QED
  BY <1>1, <1>2, <1>3 DEF SessionNext, SessionStep

(* In every reachable state of the sessions the types hold and, for every  *)
(* task, the facts of TaskInv: whom a session serves, which questions it   *)
(* has asked, what of the budget is left, and which inputs are read.       *)
THEOREM SessionInvariant == SessionSpec => []SessionInv
BY SessionInitially, SessionInductive, PTL DEF SessionSpec

(* What the sessions, the brain and the owner do to the durable rows are   *)
(* transactions of the store.                                              *)
THEOREM SessionUsesStore == SessionSpec => [][Next]_storeVars
BY SessionInvariant, SessionInductive, PTL DEF SessionSpec

(* A worker acts only on the answer to the question it asked itself.       *)
THEOREM AnswerIsForAsker == SessionSpec => []AnswerForAsker
<1>1. SessionInv => AnswerForAsker
  BY DEF SessionInv, AnswerForAsker, TaskInv, Questions, Acting, Asked
<1> QED
  BY <1>1, SessionInvariant, PTL

(* The brain decides and the workers of a task act within its budget, over *)
(* all attempts, crashes and restarts, whatever the budget is.             *)
THEOREM BudgetHolds == SessionSpec => []WithinTaskBudget
<1>1. SessionInv => WithinTaskBudget
  <2> SUFFICES ASSUME SessionInv, NEW t \in Tasks
               PROVE  /\ ModelDecisions(t) <= MaxTaskDecisions
                      /\ executed[t] <= MaxTaskCalls /\ executed[t] <= WorkerToolCalls(t)
    BY DEF WithinTaskBudget
  <2> USE DEF SessionInv
  <2>1. ToAsk(sess[t]) \in Nat /\ Cardinality(Counted(t)) + ToAsk(sess[t]) <= MaxTaskDecisions
    BY ToAskIsNat DEF TaskInv, DecisionsFit
  <2>2. /\ ModelDecisions(t) \in Nat /\ Cardinality(Counted(t)) \in Nat
        /\ ModelDecisions(t) <= Cardinality(Counted(t)) /\ WorkerToolCalls(t) \in Nat
    BY CountsFinite
  <2>3. ModelDecisions(t) <= MaxTaskDecisions
    BY <2>1, <2>2, Positive
  <2>4. /\ sess[t].calls <= sess[t].maxCalls
        /\ executed[t] + sess[t].todo + (sess[t].maxCalls - sess[t].calls) <= MaxTaskCalls
        /\ executed[t] + sess[t].todo <= WorkerToolCalls(t)
    BY DEF TaskInv, CallsFit
  <2>5. executed[t] <= MaxTaskCalls /\ executed[t] <= WorkerToolCalls(t)
    BY <2>2, <2>4, SessionFields, Positive
  <2> QED
    BY <2>3, <2>5
<1> QED
  BY <1>1, SessionInvariant, PTL

(* While the controls of a task fit a page, an input wait ends only with   *)
(* an input that was given after the worker asked.                         *)
THEOREM InputIsNew == SessionSpec => InputNotReplayed
<1>1. SessionInv /\ [SessionNext]_allVars =>
        [\A t \in Tasks :
           sess[t].pc = "waitInput" /\ sess'[t].pc = "check" /\ Len(log[t]) <= ControlPage
           => \E k \in (sess[t].latest + 1)..Len(log[t]) : log[t][k].kind = "INPUT"]_allVars
  <2> SUFFICES ASSUME SessionInv, SessionNext, NEW t \in Tasks, sess[t].pc = "waitInput",
                      sess'[t].pc = "check", Len(log[t]) <= ControlPage
               PROVE  \E k \in (sess[t].latest + 1)..Len(log[t]) : log[t][k].kind = "INPUT"
    OBVIOUS
  <2> USE DEF SessionInv
  <2>1. ~Crash
    BY DEF Crash, NoSession
  <2>2. PICK u \in Tasks : SessionStep(u)
    BY <2>1 DEF SessionNext, SessionStep
  <2>3. u = t
    BY <2>2, StepTyped DEF Elsewhere
  <2>4. PollInput(t) \/ Result(t, "RETRY_WAIT") \/ Result(t, "error")
    <3>1. ~RunnerStep(t)
      BY DEF RunnerStep, CheckBudget, Begin, CheckCancel, Finish, Verify, VerifyOutcome, Confirm,
             Finalize, At
    <3>2. LoopStep(t) => PollInput(t)
      BY DEF LoopStep, HarnessRuns, CheckAttempt, ConsumeControls, ProjectLatest, ProjectKinds,
             AskBrain, PollAnswer, ActOn, ExecuteTools, Checkpoint, EnterInputRequired, At
    <3>3. TimerStep(t) \/ ResumeEnds(t) \/ WorkerFails(t) => Result(t, "RETRY_WAIT") \/ Result(t, "error")
      BY DEF TimerStep, WaitEnds, ResumeEnds, ClockExpires, WorkerFails, At
    <3>4. DaemonStep(t) \/ OwnerStep(t) \/ Respond(t) => sess' = sess
      BY OtherTyped
    <3> QED
      BY <2>2, <2>3, <3>1, <3>2, <3>3, <3>4 DEF SessionStep, ResumeStep, CapacityGranted, At
  <2>5. ASSUME NEW outcome \in Outcomes, Result(t, outcome) PROVE FALSE
    BY <2>5, ResultSets, SessionFields, EndedTyped
  <2>6. ~Result(t, "RETRY_WAIT") /\ ~Result(t, "error") /\ ~Result(t, "BLOCKED")
    BY <2>5 DEF Outcomes
  <2>7. PollInput(t) /\ Has(Page(t), "INPUT")
    <3>1. PollInput(t)
      BY <2>4, <2>6
    <3>2. sess' # [sess EXCEPT ![t] = [sess[t] EXCEPT !.seen = Consumed(t)]]
      <4> SUFFICES ASSUME sess' = [sess EXCEPT ![t] = [sess[t] EXCEPT !.seen = Consumed(t)]]
                   PROVE  FALSE
        OBVIOUS
      <4>1. sess'[t] = [sess[t] EXCEPT !.seen = Consumed(t)]
        BY DEF SessionTypes
      <4>2. sess'[t].pc = sess[t].pc
        BY <4>1, SessionFields DEF Sessions
      <4> QED
        BY <4>2
    <3> QED
      BY <3>1, <3>2, <2>6 DEF PollInput
  <2> QED
    BY <2>7, InputSeen
<1> QED
  BY <1>1, SessionInvariant, PTL DEF SessionSpec, InputNotReplayed
================================================================================
