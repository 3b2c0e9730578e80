SPECIFICATION FairCorpusSpec
CONSTANTS
  None = None
  Name = {"a", "b", "d"}
  Pools <- Orders
  ShardRange <- ShardRanges
  Calls = {12}
  Machine = {1, 2}
  Judged <- Verdicts
  StopAfter = {4}
  MaxFaults = 1
  Quota <- Ones
  MinCalls = 4
  MinPerBand = 0
  Pins = TRUE
INVARIANTS
  EvictedOnlyByMoves
PROPERTIES
  PaidTasksKept
  EventuallyCovered
