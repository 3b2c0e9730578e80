SPECIFICATION FairReproduceSpec
CONSTANTS
  None = None
  Cut = Cut
  Screen = Screen
  Cell = {"c1", "c2"}
  Main = {"c1"}
  Options <- Used
  MaxFaults = 2
INVARIANTS
  ReleaseIsCurrent
  GapsAreDeclared
PROPERTIES
  EventuallyReproduced
