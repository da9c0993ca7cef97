SPECIFICATION Spec
CONSTANTS
  caller = caller
  auditioner = auditioner
  asr = asr
  tts = tts
  None = None
  Users = {caller, auditioner}
  Pools = {asr, tts}
  Order <- MCOrder
  DemoCalls = {auditioner}
  ScrapOnCancel = {}
  PoolSize = 1
  MaxCreated = 2
INVARIANTS
  TypeOK
  EnginesAccountedFor
PROPERTIES
  KeepsOwners
  HangupReturnsEngines
CHECK_DEADLOCK FALSE
