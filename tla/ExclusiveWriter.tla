---------------------------- MODULE ExclusiveWriter ----------------------------
(***************************************************************************)
(* What attempts, fences and termination proofs are for, seen from the     *)
(* workspaces of the tasks: write authority is granted to one holder at a  *)
(* time and never again to an earlier one; only the holder's processes     *)
(* write; and authority is released, and a task closed, only over dead     *)
(* processes.                                                              *)
(***************************************************************************)
EXTENDS Naturals

CONSTANT Tasks

VARIABLES holder,   \* by task, the attempt that holds the workspace, 0 if none does
          last,     \* the last attempt the workspace was granted to
          live,     \* processes of the holder are alive
          closed    \* the task is over

vars == <<holder, last, live, closed>>

Init == /\ holder = [t \in Tasks |-> 0]     /\ last   = [t \in Tasks |-> 0]
        /\ live   = [t \in Tasks |-> FALSE] /\ closed = [t \in Tasks |-> FALSE]

Grant(t) ==
  /\ holder[t] = 0 /\ ~closed[t]
  /\ last' = [last EXCEPT ![t] = @ + 1] /\ holder' = [holder EXCEPT ![t] = last[t] + 1]
  /\ UNCHANGED <<live, closed>>
Write(t) ==
  /\ holder[t] # 0 /\ live' = [live EXCEPT ![t] = TRUE] /\ UNCHANGED <<holder, last, closed>>
Stop(t) ==
  /\ live' = [live EXCEPT ![t] = FALSE] /\ UNCHANGED <<holder, last, closed>>
Release(t) ==
  /\ holder' = [holder EXCEPT ![t] = 0] /\ live' = [live EXCEPT ![t] = FALSE]
  /\ UNCHANGED <<last, closed>>
Close(t) ==
  /\ holder[t] = 0 /\ ~live[t]
  /\ closed' = [closed EXCEPT ![t] = TRUE] /\ UNCHANGED <<holder, last, live>>

Next == \E t \in Tasks : Grant(t) \/ Write(t) \/ Stop(t) \/ Release(t) \/ Close(t)
Spec == Init /\ [][Next]_vars
================================================================================
