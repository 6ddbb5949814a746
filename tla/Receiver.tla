------------------------------ MODULE Receiver ------------------------------
(***************************************************************************)
(* What a call does to one receiver (include/pushmi/receiver.h,             *)
(* extension_points.h).  A receiver is a record: done is its done_ flag, n  *)
(* counts the values its value function took, end says which completion     *)
(* function ran.  The modules of the components that call receivers share   *)
(* these operators.                                                         *)
(*                                                                         *)
(* An error is "error" (the one the caller passed), "null" (an              *)
(* exception_ptr that has been moved from) or "thrown" (what the receiver's *)
(* own value function threw).                                               *)
(***************************************************************************)
EXTENDS Naturals

Errors == {"error", "null", "thrown"}
Ends   == Errors \cup {"none", "done"}

ReceiverType == [done : BOOLEAN, n : Nat, end : Ends]

NewReceiver == [done |-> FALSE, n |-> 0, end |-> "none"]

\* receiver::value.
Value(r) == IF r.done THEN r ELSE [r EXCEPT !.n = @ + 1]

\* Mutant: error() forgets done_.
ErrorForgets(r, e) == [r EXCEPT !.end = e]

\* receiver::error.
Error(r, e) == IF r.done THEN r ELSE [r EXCEPT !.done = TRUE, !.end = e]

\* receiver::done.
Done(r) == IF r.done THEN r ELSE [r EXCEPT !.done = TRUE, !.end = "done"]

\* set_value: an exception of the value function is given to the same receiver's
\* error(); a receiver that is done does not call the function, so cannot throw.
set_value(r, throws) == IF throws /\ ~r.done THEN Error(r, "thrown") ELSE Value(r)

\* set_error.
set_error(r, e) == Error(r, e)

\* set_done: done_ is set before the function is called, so the error() that follows
\* an exception is ignored: the receiver is done either way.
set_done(r) == Done(r)

\* The receiver has been told something.
Told(r)  == r.n > 0 \/ r.end # "none"
Ended(r) == r.end # "none"
=============================================================================
