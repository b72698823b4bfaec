---------------------------- MODULE TaskLevel ----------------------------
(***************************************************************************)
(* How far the tasks of an agent are: not created, queued, active, final.  *)
(* This is what the submission (RemoteSubmit) and the execution            *)
(* (AgentRunner) of a task have in common: both implement it, so neither   *)
(* lets a task do what it could not do in the other.                       *)
(***************************************************************************)
EXTENDS Naturals

CONSTANT Task

VARIABLE level

Init == level = [t \in Task |-> 0]

Move(t, to) == level' = [level EXCEPT ![t] = to]

Create(t) == level[t] = 0 /\ Move(t, 1)
Withdraw(t) == level[t] = 1 /\ Move(t, 3)
Advance(t) == level[t] \in {1, 2} /\ Move(t, level[t] + 1)

Next == \E t \in Task : Create(t) \/ Withdraw(t) \/ Advance(t)

Spec == Init /\ [][Next]_level
=============================================================================
