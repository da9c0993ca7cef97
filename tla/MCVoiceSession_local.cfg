SPECIFICATION Spec
CONSTANTS
  caller = caller
  auditioner = auditioner
  asr = asr
  tts = tts
  None = None
  Users = {caller, auditioner}
  Pools = {asr, tts}
  Order <- MCOrder
  DemoCalls = {auditioner}
  ScrapOnCancel = {asr, tts}
  PoolSize = 1
  MaxCreated = 2
INVARIANT
  PooledEnginesWork
CHECK_DEADLOCK FALSE
