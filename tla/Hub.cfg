\* The connections of one user through two slots.
SPECIFICATION FairSpec
CONSTANTS
  u1 = u1  c1 = c1  c2 = c2
  Users = {u1}
  Conns = {c1, c2}
  NoConn = NoConn
  UserOf <- OneUser
  PresenceChoices = {"online", "idle", "offline"}
INVARIANTS TypeOK OneReceivingConnection 
PROPERTY DisplacedConnectionEnds
