----------------------------- MODULE MCSubject ------------------------------
(* Three subscribers and two producers with two signals each: a value and a   *)
(* completion of one, interleaved with those of the other.                    *)
EXTENDS Subject
=============================================================================
