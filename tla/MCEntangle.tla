----------------------------- MODULE MCEntangle -----------------------------
(* The two forms of an entangled pair, one in each behaviour.  Entangle has   *)
(* four addresses: two objects, and room for one move of each side at the    *)
(* same time, in either address order.                                       *)
EXTENDS Entangle, SharedEntangle

VARIABLE form  \* "entangle" or "shared_entangle", what the pair was made by

pairVars == <<vars, sharedVars, form>>

PairInit == Init /\ SharedInit /\ form \in {"entangle", "shared_entangle"}

PairNext ==
  \/ form = "entangle" /\ Next /\ UNCHANGED <<sharedVars, form>>
  \/ form = "shared_entangle" /\ SharedNext /\ UNCHANGED <<vars, form>>

PairSpec == PairInit /\ [][PairNext]_pairVars /\ Fairness /\ SharedFairness
=============================================================================
