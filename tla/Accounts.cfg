SPECIFICATION Spec
CONSTANTS
    u1 = u1
    u2 = u2
    u3 = u3
    Users = {u1, u2, u3}
    Requests = {r1, r2}
    Challenges = {c1}
    Nobody = Nobody
    MaxUses = 1
    MaxFailures = 5
    Workloads <- MCWorkloads
INVARIANTS  InviteRespected OneSessionPerChallenge  EveryoneEnrolled DeletedSignedOut
CHECK_DEADLOCK FALSE
