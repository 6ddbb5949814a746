---------------------------- MODULE MCTimeSource ----------------------------
(* TimeSource with a few interchangeable items and queues. *)
EXTENDS TimeSource, TLC

Symmetry == Permutations(Item) \cup Permutations(Queue)
=============================================================================
