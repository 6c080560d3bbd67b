SPECIFICATION FairSpec
CONSTANTS
  Rows <- MCRows
  Tombstones <- MCTombstones
  OnCompacted <- MCOnCompacted
  Publishers = {p1, p2}
  BatchSize = 2
  BrokerCopies = 1
  JsonbAsText = TRUE
  DoubleEncode = TRUE
  BrokerFails = FALSE
  MaxCrashes = 0
PROPERTY EveryRowReachesLog
\* Every row may end settled, with no publisher left anything to do.
CHECK_DEADLOCK FALSE
