----------------------------- MODULE MCMessages -----------------------------
(***************************************************************************)
(* Two users; the first has two connections, the second moderates.         *)
(***************************************************************************)
EXTENDS Messages, TLC

CONSTANTS u1, u2, c1, c2, c3

MCUserOf == (c1 :> u1) @@ (c2 :> u1) @@ (c3 :> u2)

MCWorkloads ==
    [dm : BOOLEAN, messages : {1}, texts : {{1, 2}}, kinds : {{"edit", "delete", "react"}}]
    \union [dm : {FALSE}, messages : {2}, texts : {{1}}, kinds : {{"delete", "focus"}}]
    \union [dm : {TRUE}, messages : {2}, texts : {{1}}, kinds : {{"focus", "close"}}]
=============================================================================
