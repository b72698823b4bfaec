-------------------------- MODULE ResultDelivery --------------------------
(***************************************************************************)
(* What the results of a finished task promise, with no copy, file, range  *)
(* or connection in sight: they are settled once, as a complete list or as *)
(* incomplete with no list, and the place the user chose stays empty until *)
(* it holds one file of the list, whole, which it then keeps.              *)
(***************************************************************************)
CONSTANT File

VARIABLES
  result,   \* "pending", "complete" or "incomplete"
  list,     \* the files of a complete result
  place     \* the file in the chosen place, if there is one

vars == <<result, list, place>>

Init == result = "pending" /\ list = {} /\ place = {}

Complete ==
  /\ result = "pending"
  /\ result' = "complete"
  /\ list' \subseteq File
  /\ UNCHANGED place

GiveUp ==
  /\ result = "pending"
  /\ result' = "incomplete"
  /\ UNCHANGED <<list, place>>

Deliver ==
  /\ place = {}
  /\ \E file \in list : place' = {file}
  /\ UNCHANGED <<result, list>>

Next == Complete \/ GiveUp \/ Deliver

Spec == Init /\ [][Next]_vars
=============================================================================
