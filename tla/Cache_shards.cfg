SPECIFICATION Spec
CONSTANTS
  None = None
  Torn = Torn
  Proc = {p1, p2}
  r1 = r1
  r2 = r2
  r3 = r3
  Key <- Keys
  Reply = {r1, r2, r3}
  Usd <- Prices
  OldBlob <- Before
  TooLong = {"long"}
  MaxUsd = 1
  Cap = 1
  MaxCrashes = 1
SYMMETRY Alike
INVARIANTS
  WholeReplies
  RepliesPerKey
  PaymentsPerKey
  SpendBounded
