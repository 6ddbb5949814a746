---------------------------- MODULE FlowReceiver ----------------------------
(***************************************************************************)
(* What a call does to one flow receiver (include/pushmi/flow_receiver.h):  *)
(* a receiver with a started_ flag, which ends the process when a signal    *)
(* comes before starting() or starting() comes twice.                       *)
(***************************************************************************)
EXTENDS Receiver

FlowReceiverType ==
  [started : BOOLEAN, dead : BOOLEAN, done : BOOLEAN, n : Nat, end : Ends]

NewFlowReceiver ==
  [started |-> FALSE, dead |-> FALSE, done |-> FALSE, n |-> 0, end |-> "none"]

terminate(r) == [r EXCEPT !.dead = TRUE]

\* Mutant: starting() does not record that it was called.
StartingForgets(r) == IF r.started THEN terminate(r) ELSE r

\* flow_receiver::starting, value, error and done.
Starting(r) == IF r.started THEN terminate(r) ELSE [r EXCEPT !.started = TRUE]
FlowValue(r) == IF r.started THEN Value(r) ELSE terminate(r)
FlowError(r, e) == IF r.started THEN Error(r, e) ELSE terminate(r)
FlowDone(r)     == IF r.started THEN Done(r) ELSE terminate(r)

\* A value or a completion that reaches the functions of the receiver.
Listens(r) == r.started /\ ~r.done
=============================================================================
