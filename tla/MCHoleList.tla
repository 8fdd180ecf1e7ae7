------------------------------ MODULE MCHoleList ------------------------------
(* HoleList for TLC: two chunks with a click between them. *)
EXTENDS HoleList

TwoChunks == <<[base |-> 1, size |-> 5], [base |-> 7, size |-> 3]>>
=============================================================================
