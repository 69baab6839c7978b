SPECIFICATION FairSpec
CONSTANTS
  p1 = p1 p2 = p2 c1 = c1 c2 = c2
  Provider <- TwoProviders
  Targets <- InOrder
  Account = {a1}
  Client = {c1}
  MaxEdits = 1
  MaxPatches = 1
  MaxCrashes = 0
  Off = Off Broken = Broken NoSnapshot = NoSnapshot NoForm = NoForm Idle = Idle
PROPERTY Converges
CHECK_DEADLOCK FALSE
