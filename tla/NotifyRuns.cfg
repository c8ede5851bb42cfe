\* Two rules, runs that may overlap once one is deleted, crashes, fair.
SPECIFICATION LateSpec
CONSTANTS
  a1 = a1
  a2 = a2
  m1 = m1
  x1 = x1
  x2 = x2
  Rule <- TwoRules
  Minion <- OneMinion
  Runner <- TwoRunners
  NoRule = NoRule
  MaxFault = 2
PROPERTIES NeverRepeats SettledWordIsRight
