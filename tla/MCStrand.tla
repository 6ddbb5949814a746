------------------------------ MODULE MCStrand ------------------------------
(* Strand with a few items and a three-bit size_t: a batch of two items, one  *)
(* submitted while the last of them runs, and one after that.                 *)
EXTENDS Strand
=============================================================================
