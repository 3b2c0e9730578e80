SPECIFICATION FairGridSpec
CONSTANTS
  None = None
  Presets = 2
  Tasks = 3
  Budget = 2
  ForceFull = {1}
  Declared <- OneGap
  ShardCounts = {1, 2}
  Machine = {"m1", "m2", "m3"}
  AcceptAt <- Verdicts
  Instrument <- Runtimes
  Cuts <- WalkCuts
  MaxFaults = 2
INVARIANTS
  RecheckHolds
  OneEpisodeMerged
PROPERTIES
  RoundsKept
  GridCompletes
