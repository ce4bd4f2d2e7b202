\* Replay, live delivery and overflow for one client, with scoped traffic.
SPECIFICATION Spec
CONSTANTS
  Conns = {c1}
  Channels = {ch1}
  SendBuf = 2
  BroadcastBuf = 1
  Size = 3
  MaxSeq = 4
INVARIANTS TypeOK InOrder NothingLostSilently
