SPECIFICATION Spec
CONSTANTS
  p1 = p1 p2 = p2 c1 = c1 c2 = c2
  Provider <- TwoProviders
  Targets <- InOrder
  Account = {a1}
  Client <- TwoClients
  MaxEdits = 0
  MaxPatches = 2
  MaxCrashes = 1
  Off = Off Broken = Broken NoSnapshot = NoSnapshot NoForm = NoForm Idle = Idle
INVARIANTS SavedIsPublishedOrDue OneProbeMayFinish RefreshIsServed InterruptedIsDropped
PROPERTY WritesSerialize
SYMMETRY Alike
CHECK_DEADLOCK FALSE
