SPECIFICATION Spec
CONSTANTS
  None = None
  Patch <- Candidates
  Fails <- Failing
  EditLocation <- Edits
  Location = {"L1", "L2", "all"}
  WholeProgram = "all"
  Case = {1, 2, 3}
  Usable = {1, 2, 3}
  MaxExamples = 3
  Mode = "typed"
  Granularity = "fine"
  Typing = "noisy"
  GuardFallback = TRUE
  Budget = 4
  DrawCap = 2
  MaxBackendFailures = 3
  GuardOn = TRUE
  AuditGuarded = FALSE
  FreeGuarded = FALSE
  ForceFull = FALSE
  ChatHistory = FALSE
  RestartAfter = 2
  SelfTestBlocks = {}
  SkipsOracle = FALSE
INVARIANTS
  RaisedOnConsecutive
CHECK_DEADLOCK FALSE
