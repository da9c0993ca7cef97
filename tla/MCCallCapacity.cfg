CONSTANTS
  Tier = {llm}
  LLM = llm
  TierWindow = 1
  TierMinSamples = 1
  FirstTurnWindow = 1
  FirstTurnMin = 1
  Cooldown = 1
  Outbound = {o1}
  Inbound = {i1}
  Browser = {b1}
  CallId <- BothIds
  MaxGPUCalls = 1
  MaxTotalCalls = 2
  PinnedWeight = 0
  MinHumanWeight = 50
  SafetyFactor = 2
  OutcomeWindow = 4
  OutcomeMin = 2
  ReservationTTL = 1
  MediaDeadline = 1
  CallBound = 3
SPECIFICATION FairSpec
INVARIANTS
  LifeTypeOK
  OneSlotPerCall
  RunningPipelineCounted
  SlotsConserved
PROPERTIES
  KeepsLedger
  SlotsReturn
CHECK_DEADLOCK FALSE
