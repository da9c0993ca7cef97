SPECIFICATION Spec
CONSTANTS
  phone = phone
  web = web
  Dispatches = {phone, web}
  KindOf <- MCKindOf
  StrayFlaws = {"signature", "size"}
  Skews <- MCSkews
  MaxDrift = 1
  NonceTTL = 2
  MaxCalls = 1
  MaxAttempts = 2
  MaxWire = 2
  MaxTime = 3
  Events = {ringing, human, ended, failed}
  Terminals = {ended, failed}
  Keys = {session, ccid}
  FirstKey = session
  None = None
  Reports = {recording}
  Turns = {t1, t2}
  Verdicts = {annoyed, wantsHuman}
  Silent = Silent
  ReportLadder <- MCReportLadder
  AlertLadder <- MCAlertLadder
  AlertBudget = 4
  SlowestVerdict = 3
INVARIANTS
  TypeOK
  LetInOnce
  EndsOnce
  NoSilentLoss
  GuessCostsNothing
  StaysConnected
CHECK_DEADLOCK FALSE
