CONSTANTS
  Tier = {llm}
  LLM = llm
  TierWindow = 1
  TierMinSamples = 1
  FirstTurnWindow = 1
  FirstTurnMin = 1
  Cooldown = 1
  CallId = {c1, c2, c3, c4}
  MaxGPUCalls = 1
  MaxTotalCalls = 3
  PinnedWeight = 0
  MinHumanWeight = 60
  SafetyFactor = 2
  OutcomeWindow = 2
  OutcomeMin = 2
  ReservationTTL = 0
  CallBound = 5
SPECIFICATION Spec
SYMMETRY Ids
INVARIANTS
  TypeOK
  TotalCeiling
  OvershootBounded
CHECK_DEADLOCK FALSE
