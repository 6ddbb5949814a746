-------------------------- MODULE ReceiverContract --------------------------
(***************************************************************************)
(* What every part of the library promises to the functions a user wraps in *)
(* a receiver: values come first, then at most one completion, an error or  *)
(* done, and nothing after it.                                              *)
(*                                                                         *)
(* end[r] is "none", "error" or "done"; n[r] counts r's values.             *)
(***************************************************************************)
EXTENDS Naturals

CONSTANT Receivers
VARIABLES n, end

vars == <<n, end>>

Init ==
  /\ n = [r \in Receivers |-> 0]
  /\ end = [r \in Receivers |-> "none"]

Value(r) ==
  /\ end[r] = "none"
  /\ n' = [n EXCEPT ![r] = @ + 1]
  /\ UNCHANGED end

Complete(r, how) ==
  /\ end[r] = "none"
  /\ end' = [end EXCEPT ![r] = how]
  /\ UNCHANGED n

Next ==
  \E r \in Receivers :
    \/ Value(r)
    \/ \E how \in {"error", "done"} : Complete(r, how)

Spec == Init /\ [][Next]_vars
=============================================================================
