SPECIFICATION Spec
CONSTANTS
  b1 = b1
  b2 = b2
  pkg = pkg
  v1 = v1
  v2 = v2
  Binary <- TwoKegs
  OwnerOf <- OneOwner
  Build <- TwoBuilds
  VersionOf <- Numbered
  Ships <- Cellar
  MaxInterrupts = 2
  NoBinary = NoBinary
  NoUnit = NoUnit
  NoJournal = NoJournal
  Gone = Gone
  Stopped = Stopped
  Idle = Idle
INVARIANTS AutostartSurvives ConfiguredIsRunning
PROPERTIES NoMixedStart ForeignSettingsKept RelocationIsAtomic
