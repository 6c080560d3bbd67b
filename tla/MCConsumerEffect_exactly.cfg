SPECIFICATION BothSpec
CONSTANTS
  e1 = e1
  e2 = e2
  e3 = e3
  one = one
  two = two
  N = 4
  Events = {e1, e2, e3}
  EventAt <- MCEventAt
  Poison = {}
  Unreadable = {}
  Steps = 2
  Workers = {w1, w2}
  NoWorker = NoWorker
  MaxFaults = 1
  Turns = {one, two}
  Nobody = Nobody
  MaxRetries = 1
  Threshold = 2
  MaxTokens = 2
INVARIANT ExactlyOnce
\* The group stops once every offset is committed, or no worker is left.
CHECK_DEADLOCK FALSE
