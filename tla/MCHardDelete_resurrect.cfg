SPECIFICATION BothSpec
CONSTANTS
  r1 = r1
  r2 = r2
  t1 = t1
  h1 = h1
  w1 = w1
  w2 = w2
  e1 = e1
  Requests = {r1}
  Turns = {t1}
  Handlers = {h1}
  Workers = {w1}
  Erasers = {}
  NoRun = NoRun
  call = call
  first = first
  second = second
  indexer = indexer
  collector = collector
  Nobody = Nobody
  Calls = {call}
  Openers = {first, second}
  Indexers = {indexer}
  Collectors = {}
  MaxRaises = 2
  MaxFaults = 0
  MaxGen = 1
INVARIANT NothingResurrected
\* Every call, turn and delivery may have ended.
CHECK_DEADLOCK FALSE
