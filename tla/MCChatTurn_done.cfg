SPECIFICATION Spec
CONSTANTS
  t1 = t1
  t2 = t2
  Turns = {t1, t2}
  OpenAI = {t2}
  NoTurn = NoTurn
  QMax = 2
  MaxFaults = 0
INVARIANTS
  DoneClosesItsTurn
\* Every request may have been served.
CHECK_DEADLOCK FALSE
