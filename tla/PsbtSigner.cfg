SPECIFICATION Spec
CONSTANTS
  k1 = k1
  k2 = k2
  x1 = x1
  Keys = {k1, k2}
  NoKey = NoKey
  Preimages = {x1, x2}
  NoPreimage = NoPreimage
  Psbts <- MCPsbts
INVARIANTS TypeOK WitnessesAreValid NoLeafPassedOver FinalizersAgree
CHECK_DEADLOCK FALSE
