SPECIFICATION Spec
CONSTANTS
  None = None
  Patch <- Candidates
  Fails <- Failing
  EditLocation <- Edits
  Location = {"L1", "L2", "all"}
  WholeProgram = "all"
  Case = {1, 2, 3}
  Usable = {1, 2, 3}
  MaxExamples = 3
  Mode = "typed"
  Granularity = "fine"
  Typing = "noisy"
  GuardFallback = TRUE
  Budget = 5
  DrawCap = 2
  MaxBackendFailures = 3
  GuardOn = TRUE
  AuditGuarded = TRUE
  FreeGuarded = FALSE
  ForceFull = FALSE
  ChatHistory = FALSE
  RestartAfter = 2
  SelfTestBlocks = {}
  SkipsOracle = FALSE
INVARIANTS
  TypeOK
  SteerAndGuardAgree
  GuardRecall
  CoherenceMeasured
  GuardSoundness
  RefutationsDistinct
PROPERTIES
  ImplementsMemory
  ImplementsSearch
CHECK_DEADLOCK FALSE
