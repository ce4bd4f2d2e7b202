SPECIFICATION Spec
CONSTANTS
    u1 = u1
    u2 = u2
    c1 = c1
    c2 = c2
    c3 = c3
    Users = {u1, u2}
    Mods = {u2}
    Handlers = {c1, c2, c3}
    UserOf <- MCUserOf
    Texts = {1, 2}
    MaxMessages = 2
    Workloads <- MCWorkloads
INVARIANTS TypeOK  ReadStaysRead 
