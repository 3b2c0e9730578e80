SPECIFICATION FairSweepSpec
CONSTANTS
  None = None
  Patch <- Candidates
  Fails <- Failing
  EditLocation <- Edits
  Location = {"L1", "all"}
  WholeProgram = "all"
  Violates <- Properties
  SampleAt <- Sampled
  Case = {1, 2}
  Usable = {1, 2}
  MaxExamples = 1
  Mode = "typed"
  Granularity = "fine"
  Typing = "ideal"
  GuardFallback = TRUE
  Budget = 3
  DrawCap = 2
  MaxBackendFailures = 2
  GuardOn = TRUE
  AuditGuarded = FALSE
  FreeGuarded = FALSE
  ForceFull = FALSE
  ChatHistory = FALSE
  RestartAfter = 2
  SelfTestBlocks = {}
  SkipsOracle = FALSE
  Cells = 2
  SteerOn = TRUE
  FaultyFails = {1}
  AuditCap = 1
  AuditSample = {1}
  CheckOverfit = TRUE
  CheckRegression = TRUE
  MaxFaults = 3
  MaxRuns = 2
INVARIANTS
  OneEpisodePerCell
  AuditsMatchLog
PROPERTIES
  CompleteIsFinal
  EventuallyComplete
CHECK_DEADLOCK FALSE
