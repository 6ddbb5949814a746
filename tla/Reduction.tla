----------------------------- MODULE Reduction -----------------------------
(***************************************************************************)
(* What a bulk operation promises: the function is called for every index,  *)
(* the result comes once, after the last call, and is made from what all    *)
(* calls accumulated; if a call throws there is an error and no value.      *)
(***************************************************************************)
CONSTANT Index
VARIABLES called,  \* the indices the function was called for
          threw,   \* some call threw
          sum,     \* the indices that were accumulated
          result   \* "none", "value", "error" or "done"

vars == <<called, threw, sum, result>>

Init == called = {} /\ threw = FALSE /\ sum = {} /\ result = "none"

Call(i) ==
  /\ result = "none" /\ i \notin called
  /\ called' = called \cup {i}
  /\ \/ sum' = sum \cup {i} /\ UNCHANGED threw
     \/ threw' = TRUE /\ UNCHANGED sum
  /\ UNCHANGED result

Give ==
  /\ result = "none" /\ result' = "value"
  /\ sum = Index /\ ~threw
  /\ UNCHANGED <<called, threw, sum>>

\* An error is that of a call, or it comes before the first call or after the last.
Fail ==
  /\ result = "none" /\ result' = "error"
  /\ threw \/ called \in {{}, Index}
  /\ UNCHANGED <<called, threw, sum>>

\* There was no input.
Pass ==
  /\ result = "none" /\ result' = "done"
  /\ called = {}
  /\ UNCHANGED <<called, threw, sum>>

Next == (\E i \in Index : Call(i)) \/ Give \/ Fail \/ Pass

Spec == Init /\ [][Next]_vars
=============================================================================
