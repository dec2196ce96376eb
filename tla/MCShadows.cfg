SPECIFICATION ShadowsSpec
CONSTANTS
  Threads <- MCThreads
  Syncs = {s}
  Backfill = backfill
  Promoters = {p}
  Limit = 1
  MaxMail = 1
  MaxRemovals = 1
  MaxPromotions = 2
  MaxCrashes = 1
  Nothing = Nothing
INVARIANT ShadowsFollow
PROPERTY NoneStarves
CHECK_DEADLOCK FALSE
