------------------------------ MODULE MCVoice ------------------------------
(***************************************************************************)
(* One connection and two channels; two connections of one user, which     *)
(* replace each other; two users and a channel of one seat; two users and  *)
(* a channel of one camera.                                                *)
(***************************************************************************)
EXTENDS Voice, TLC

CONSTANTS u1, u2, c1, c2, c3, ch1, ch2

MCUserOf == (c1 :> u1 @@ c2 :> u1 @@ c3 :> u2)

MCMaxUsers == (ch1 :> 1 @@ ch2 :> 2)
MCMaxVideo == (ch1 :> 1 @@ ch2 :> 1)

Scenario(cs, chs, n) == [conns |-> cs, channels |-> chs, failures |-> n]

MCScenarios ==
  {Scenario({c1}, {ch1, ch2}, 2),
   Scenario({c1, c2}, {ch1}, 1),
   Scenario({c1, c3}, {ch1}, 1),
   Scenario({c1, c3}, {ch2}, 0)}
=============================================================================
