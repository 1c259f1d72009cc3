SPECIFICATION Spec
CONSTANTS
  Values = {1, 2}
  MaxOutputs = 2
INVARIANT ReviewCompletes
CHECK_DEADLOCK FALSE
