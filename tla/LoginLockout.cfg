\* Two requests at a time; the lock is set, expires and is set again.
SPECIFICATION LoginSpec
CONSTANTS
  failKey = failKey  lockKey = lockKey  slowKey = slowKey
  Keys = {failKey, lockKey, slowKey}
  Policies <- MCPolicies
  Durations = {2}
  MaxWindow = 2
  MaxTime = 4
  MaxGrants = 3
  Requests = {r1, r2}
SYMMETRY Symmetry
INVARIANTS TypeOK WindowRespected LockoutKept FailuresBounded
