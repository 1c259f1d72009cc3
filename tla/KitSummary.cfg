SPECIFICATION Spec
CONSTANTS
  VSize = 2
  Dust = 3
  P2shVSize = 4
  P2shDust = 5
  Rates = {1, 3}
  DefaultRate = 2
  Values = {9}
  Kits <- ByDescriptor
INVARIANT SummaryCompletes
CHECK_DEADLOCK FALSE
