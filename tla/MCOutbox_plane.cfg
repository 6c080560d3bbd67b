SPECIFICATION FairSpec
CONSTANTS
  Rows <- MCRows
  Tombstones <- MCTombstones
  OnCompacted <- MCOnCompacted
  Publishers = {p1, p2}
  BatchSize = 2
  BrokerCopies = 2
  JsonbAsText = FALSE
  DoubleEncode = FALSE
  BrokerFails = TRUE
  MaxCrashes = 1
INVARIANTS
  TypeOK
  ClaimsExclusive
  HandedOverOnce
  SentIsLogged
PROPERTIES
  EveryRowClaimed
  EveryClaimSettles
\* Every row may end settled, with no publisher left anything to do.
CHECK_DEADLOCK FALSE
