SPECIFICATION FairSpec
CONSTANTS
  k1 = k1 k2 = k2 r1 = r1 r2 = r2 r1x = r1x t1 = t1 t2 = t2 c1 = c1 c2 = c2
  NoExpiry = NoExpiry NoRow = NoRow NoError = NoError NoTarget = NoTarget
  Down = Down NoJob = NoJob NoAnswer = NoAnswer
  Record <- TwoRecord
  Key <- MCKey
  KeyOf <- TwoKeyOf
  EventRank <- MCEventRank
  FinishedAt <- TwoFinishedAt
  ExpiresAt <- TwoExpiresAt
  Size <- TwoSize
  Client = {c1, c2}
  Permits <- TwoPermits
  Target <- TwoTarget
  Config <- RebindConfig
  PeerPolicy <- TwoPeerPolicy
  Skew <- FastPeer
  FutureSlack = 0
  Millisecond = 1
  AttemptLimit = 1
  Horizon = 2
  MaxTime = 2
  MaxCrashes = 2
INVARIANTS NoRedirection DeliveredRecordIsAcknowledged
PROPERTIES ImplementsOutbox ExpiredIsErased PendingIsSettled
