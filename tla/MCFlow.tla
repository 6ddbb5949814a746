------------------------------- MODULE MCFlow -------------------------------
(* Five values on a strand, and on trampolines that defer after one to three   *)
(* levels, with requests for up to three values and one failing submission.    *)
EXTENDS Flow
=============================================================================
