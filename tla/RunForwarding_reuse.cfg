SPECIFICATION Spec
CONSTANTS
  k1 = k1 k2 = k2 r1 = r1 r2 = r2 r1x = r1x t1 = t1 t2 = t2 c1 = c1 c2 = c2
  NoExpiry = NoExpiry NoRow = NoRow NoError = NoError NoTarget = NoTarget
  Down = Down NoJob = NoJob NoAnswer = NoAnswer
  Record <- AliasRecord
  Key <- OneKey
  KeyOf <- AliasKeyOf
  EventRank <- OneEventRank
  FinishedAt <- AliasFinishedAt
  ExpiresAt <- AliasExpiresAt
  Size <- AliasSize
  Client = {c1, c2}
  Permits <- AliasPermits
  Target <- OneTarget
  Config <- ShortConfig
  PeerPolicy <- LongPeerPolicy
  Skew <- NoSkew
  FutureSlack = 0
  Millisecond = 1
  AttemptLimit = 2
  Horizon = 5
  MaxTime = 4
  MaxCrashes = 1
INVARIANTS DeliveredRecordIsAcknowledged
