CONSTANTS
  MaxStreams = 2
  ChannelSize = 1
  EndedTTL = 0
  Greeted = {TRUE, FALSE}
SPECIFICATION Spec
INVARIANTS
  TypeOK
  ReportedOnce
  ReportedUnlessEarly
  RecordingReported
  AgentGoneForGood
CHECK_DEADLOCK FALSE
