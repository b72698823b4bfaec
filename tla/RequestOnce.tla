---------------------------- MODULE RequestOnce ----------------------------
(***************************************************************************)
(* What submitting a remote request promises, whatever the network does: a *)
(* request is attempted, creates at most one task, only after the          *)
(* controller has noted that it may have, and is confirmed only when the   *)
(* task exists.                                                            *)
(***************************************************************************)
EXTENDS Naturals

CONSTANT Request

VARIABLES
  view,   \* what the controller's history says of the request
  tasks   \* how many tasks the agent holds for it

vars == <<view, tasks>>

Init == /\ view = [r \in Request |-> "draft"]
        /\ tasks = [r \in Request |-> 0]

Attempt(r) ==
  /\ view[r] = "draft"
  /\ view' = [view EXCEPT ![r] = "unknown"]
  /\ UNCHANGED tasks

Create(r) ==
  /\ view[r] = "unknown"
  /\ tasks[r] = 0
  /\ tasks' = [tasks EXCEPT ![r] = 1]
  /\ UNCHANGED view

Confirm(r) ==
  /\ view[r] = "unknown"
  /\ tasks[r] = 1
  /\ view' = [view EXCEPT ![r] = "accepted"]
  /\ UNCHANGED tasks

Next == \E r \in Request : Attempt(r) \/ Create(r) \/ Confirm(r)

Spec == Init /\ [][Next]_vars
=============================================================================
