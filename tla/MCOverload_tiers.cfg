CONSTANTS
  Tier = {llm, tts}
  LLM = llm
  TierWindow = 1
  TierMinSamples = 1
  FirstTurnWindow = 3
  FirstTurnMin = 2
  Cooldown = 2
  Dispatched = {c1, c2}
  Unrefused = {}
  Prompts = {q1, q2, q3}
  GateSlots = 2
  MaxPolls = 2
  home = home
  office = office
  r1 = r1
  r2 = r2
  r3 = r3
  Connections = {r1, r2, r3}
  AddressOf <- MCAddressOf
  MaxConns = 2
  Burst = 1
  Parts = {"calls"}
SPECIFICATION Spec
PROPERTIES
  AcceptanceResumes
CHECK_DEADLOCK FALSE
