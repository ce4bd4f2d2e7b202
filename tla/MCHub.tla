------------------------------- MODULE MCHub -------------------------------
(* Instances of Hub for TLC: one user with two connection slots. *)
EXTENDS Hub

CONSTANTS u1, c1, c2

OneUser == [c \in Conns |-> u1]
=============================================================================
