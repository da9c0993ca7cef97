SPECIFICATION Spec
CONSTANTS
  Parts <- AllParts
  MaxHeard = 4
  Packets = {1, 3}
  QueueLen = 2
  RingLen = 4
  StartFrames = {1, 2}
  StopFrames = 2
  MaxWindows = 8
  EchoTail = 2
  InterruptMute = 2
  GateHold = 2
  PreRoll = 1
  Forever = 4
  voice = voice
  prompt = prompt
  Writers = {voice, prompt}
  Prompter = prompt
  PromptChunks = 2
  Greeting = 2
  MaxLead = 3
  ChatSize = 1
  MaxTranscript = 4
  HasTools = {TRUE, FALSE}
  MaxCallerTurns = 2
  MaxChunks = 2
  MaxBreaks = 1
  Operators = {ann, bob}
  Setups <- MCSetups
  Detectors = {poller, webhook}
  MaxRooms = 2
  MaxAnswered = 1
  hello = hello
  message = message
  other = other
  Announcements = {hello, message, other}
  SizeOf <- MCSizeOf
  CacheMax = 3
  Getters = {g1, g2}
  SilenceNeeded = 3
  MaxPause = 2
  MaxInbound = 3
  MaxTurns = 3
  MaxAttempts = 4
INVARIANTS
  TypeOK
  WordsAreNotLost
  SegmentsAreWhole
  SilenceIsLast
  ReportsKeepApart
  TranscriptKeepsOpening
  GateTracksPlayback
  BargeTakesAPerson
  EndedCallLeavesNothing
  FailedTransferCanBeRetried
  CacheCountsItself
  MessageAfterGreeting
SYMMETRY Symmetry
CHECK_DEADLOCK FALSE
