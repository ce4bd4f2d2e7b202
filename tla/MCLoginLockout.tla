--------------------------- MODULE MCLoginLockout ---------------------------
(* An instance of LoginLockout for TLC: two failures are counted within    *)
(* two ticks; slow mode is one tick, or longer than Cleanup remembers.     *)
EXTENDS LoginLockout, TLC

MCPolicies ==
  failKey :> {[limit |-> 2, window |-> 2]} @@ lockKey :> {}
    @@ slowKey :> {[limit |-> 1, window |-> 1], [limit |-> 1, window |-> 3]}

Symmetry == Permutations(Requests)
=============================================================================
