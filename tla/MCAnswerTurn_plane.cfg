SPECIFICATION Spec
CONSTANTS
  doc = doc  earlier = earlier  question = question  node = node
  Citems = {doc, earlier}
  Question = question
  Node = node
  Evidenced = {doc}
  Single <- MCSingle
  Grouped <- MCGrouped
  Effective <- MCEffective
  Answers <- MCAnswers
  MaxView = 2
  MaxBuilds = 2
CHECK_DEADLOCK FALSE
INVARIANTS CitationsStand GateIsTrue OnlyCleaned
PROPERTIES PackIsRight RestoreIsRight TurnEnds
