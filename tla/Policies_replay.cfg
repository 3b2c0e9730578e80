SPECIFICATION FairPolicySpec
CONSTANTS
  None = None
  Patch <- Candidates
  Fails <- Failing
  EditLocation <- Edits
  Location = {"L1", "L2", "all"}
  WholeProgram = "all"
  Case = {1, 2, 3}
  Usable = {1, 2, 3}
  MaxExamples = 3
  Mode = "typed"
  Granularity = "fine"
  Typing = "ideal"
  GuardFallback = TRUE
  Worklist <- Listed
  TaskOf <- Owner
  Answered = {"t", "u"}
  Jobs = 2
  TaskGroup = 2
  MaxKills = 2
  Studied = "t"
  Depths = {2, 3}
  MaxRounds = 4
INVARIANTS
  OfflineGuardIsGuard
  SameEvidence
PROPERTIES
  EventuallyBuilt
CHECK_DEADLOCK FALSE
