SPECIFICATION GateSpec
CONSTANTS
  Absent = Absent
  AutoSize = AutoSize
  Candidate = {1, 2, 3, 4, 5}
  Task <- Tasks
  Rating <- Ratings
  Profiles <- Findings
  Floor = 20
  Sizes = {2, 3, AutoSize}
  Modes = {"programs", "hard", "terciles"}
  JobCounts = {1, 2}
  TopUp = TRUE
  CapFactor = 3
  MutantsPerTask = 3
INVARIANTS
  JobsDoNotMatter
  RefreezeIsAWalk
