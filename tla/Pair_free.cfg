SPECIFICATION PairSpec
CONSTANTS
  None = None
  Patch <- Candidates
  Fails <- Failing
  EditLocation <- Edits
  Location = {"L1", "L2", "all"}
  WholeProgram = "all"
  Violates <- Properties
  Case = {1, 2, 3}
  Usable = {1, 2, 3}
  MaxExamples = 3
  Mode = "typed"
  Granularity = "fine"
  Typing = "never"
  GuardFallback = TRUE
  Budget = 3
  DrawCap = 2
  MaxBackendFailures = 2
  GuardOn = TRUE
  AuditGuarded = FALSE
  FreeGuarded = TRUE
  ForceFull = TRUE
  ChatHistory = FALSE
  RestartAfter = 2
  SelfTestBlocks = {}
  SkipsOracle = FALSE
  SteerOn = FALSE
INVARIANTS
  NeverWorse
  CoherenceZeroIsOneBucket
CHECK_DEADLOCK FALSE
