SPECIFICATION FairSpec
CONSTANTS
  None = None
  Patch <- Candidates
  Fails <- Failing
  EditLocation <- Edits
  Location = {"L1", "L2", "all"}
  WholeProgram = "all"
  Case = {1, 2, 3, 4, 5}
  Usable = {1, 2, 3}
  MaxExamples = 2
  Mode = "untyped"
  Granularity = "fine"
  Typing = "ideal"
  GuardFallback = TRUE
  Budget = 3
  DrawCap = 2
  MaxBackendFailures = 3
  GuardOn = TRUE
  AuditGuarded = FALSE
  FreeGuarded = TRUE
  ForceFull = TRUE
  ChatHistory = TRUE
  RestartAfter = 2
  SelfTestBlocks = {"c"}
  SkipsOracle = TRUE
INVARIANTS
  MemoryIsVerdicts
  FirstAcceptReported
PROPERTIES
  TranscriptBounded
  EpisodeEnds
CHECK_DEADLOCK FALSE
