CONSTANTS
  MaxStreams = 1
  ChannelSize = 2
  EndedTTL = 0
  Greeted = {TRUE, FALSE}
SPECIFICATION Spec
INVARIANTS
  EveryCallReported
CHECK_DEADLOCK FALSE
