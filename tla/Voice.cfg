SPECIFICATION VoiceSpec
CONSTANTS
  u1 = u1  u2 = u2  c1 = c1  c2 = c2  c3 = c3  ch1 = ch1  ch2 = ch2
  Users = {u1, u2}
  Conns = {c1, c2, c3}
  UserOf <- MCUserOf
  NoConn = NoConn
  Channels = {ch1, ch2}
  NoCh = NoCh
  MaxUsers <- MCMaxUsers
  MaxVideo <- MCMaxVideo
  MaxFailures = 2
  Scenarios <- MCScenarios
INVARIANTS VoiceTypeOK  
