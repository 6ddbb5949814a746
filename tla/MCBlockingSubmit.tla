-------------------------- MODULE MCBlockingSubmit --------------------------
(* BlockingSubmit with three nested tasks: a chain of submissions three deep, *)
(* or several tasks submitted by one, next to the delivery of the executor.   *)
EXTENDS BlockingSubmit
=============================================================================
