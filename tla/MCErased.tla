------------------------------ MODULE MCErased ------------------------------
(***************************************************************************)
(* The type-erased wrappers with three places and two objects.              *)
(***************************************************************************)
EXTENDS Erased
=============================================================================
