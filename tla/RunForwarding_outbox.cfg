SPECIFICATION Spec
CONSTANTS
  k1 = k1 k2 = k2 r1 = r1 r2 = r2 r1x = r1x t1 = t1 t2 = t2 c1 = c1 c2 = c2
  NoExpiry = NoExpiry NoRow = NoRow NoError = NoError NoTarget = NoTarget
  Down = Down NoJob = NoJob NoAnswer = NoAnswer
  Record <- ThreeRecord
  Key <- MCKey
  KeyOf <- ThreeKeyOf
  EventRank <- MCEventRank
  FinishedAt <- ThreeFinishedAt
  ExpiresAt <- ThreeExpiresAt
  Size <- ThreeSize
  Client = {c1, c2}
  Permits <- ThreePermits
  Target <- OneTarget
  Config <- OutboxConfig
  PeerPolicy <- TightPeerPolicy
  Skew <- FastPeer
  FutureSlack = 0
  Millisecond = 2
  AttemptLimit = 0
  Horizon = 2
  MaxTime = 2
  MaxCrashes = 1
INVARIANTS ReceiptIsDurable PeerReceiptIsDurable
PROPERTIES OnlyExpiryErases FailureIsSticky
