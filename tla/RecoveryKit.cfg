SPECIFICATION Spec
CONSTANTS
  VSize = 2
  Dust = 3
  P2shVSize = 4
  P2shDust = 5
  Rates = {1, 3}
  DefaultRate = 2
  Values <- MCValues
  Kits <- MCKits
INVARIANTS TypeOK KitIsEnough SpendIsSound OnlyDustIsStranded
CHECK_DEADLOCK FALSE
