SPECIFICATION RingSpec
CONSTANTS
  Data = {d1, d2}
  NoData = none
  Size = 3
  MaxSeq = 7
INVARIANTS RingHoldsTail ReplyExact
PROPERTY ImplementsReplayWindow
