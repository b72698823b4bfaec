--------------------------- MODULE TaskLifecycle ---------------------------
(***************************************************************************)
(* What the controller of a remote task may rely on, with no agent, queue, *)
(* handler or process in sight.  A request waits, is worked on, and ends   *)
(* in exactly one outcome; its process is launched at most once, only      *)
(* while it is worked on; an outcome that only a process can have implies  *)
(* a launch; and what was interrupted ends as "recovery_required" instead  *)
(* of being tried again.                                                   *)
(***************************************************************************)
EXTENDS Naturals

CONSTANT Task

VARIABLES
  outcome,   \* "none", "waiting", "active", or how the task ended
  launches   \* how often its process was launched

vars == <<outcome, launches>>

Init == /\ outcome = [t \in Task |-> "none"]
        /\ launches = [t \in Task |-> 0]

Become(t, to) == /\ outcome' = [outcome EXCEPT ![t] = to]
                 /\ UNCHANGED launches

Accept(t) == outcome[t] = "none" /\ Become(t, "waiting")

Withdraw(t) == outcome[t] = "waiting" /\ Become(t, "cancelled")

Begin(t) == outcome[t] = "waiting" /\ Become(t, "active")

Launch(t) == /\ outcome[t] = "active"
             /\ launches[t] = 0
             /\ launches' = [launches EXCEPT ![t] = 1]
             /\ UNCHANGED outcome

\* The process has ended, or was never launched.
Finish(t) ==
  /\ outcome[t] = "active"
  /\ \E o \in IF launches[t] = 0 THEN {"failed", "cancelled"}
              ELSE {"succeeded", "failed", "cancelled", "timed_out"} :
       Become(t, o)

\* Nothing can be confirmed about the process.
Abandon(t) == outcome[t] = "active" /\ Become(t, "recovery_required")

Next == \E t \in Task : \/ Accept(t) \/ Withdraw(t) \/ Begin(t)
                        \/ Launch(t) \/ Finish(t) \/ Abandon(t)

Spec == Init /\ [][Next]_vars
=============================================================================
