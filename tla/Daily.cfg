SPECIFICATION FairSpec
CONSTANTS
  g1 = g1
  g2 = g2
  g3 = g3
  g4 = g4
  g5 = g5
  Registered <- MCRegistered
  Orders <- MCOrders
  PageSize = 3
  PageRetries = 1
  Addresses <- MCAddresses
  Range24 <- MCRange24
  Place <- MCPlace
  Lookups <- MCLookups
  Fingerprint <- MCFingerprint
  Answering <- MCAnswering
  BatchSize = 1
  Migrating = {"w2"}
  MaxRuns = 2
  MaxMoves = 1
  MinStake = 1
  Far <- MCFar
  Many <- MCMany
  MaxProviders = 1
INVARIANTS IInv EveryGatewayIsFetchedOnce MigrationsAreKept ClustersPartTheGateways FailedNamesDoNotBias DocumentsJoin
PROPERTIES RunSettles
CHECK_DEADLOCK FALSE
