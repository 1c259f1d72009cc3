SPECIFICATION Spec
CONSTANTS
  s1 = s1
  s2 = s2
  s3 = s3
  Scripts = {s1, s2, s3}
  Foreign = Foreign
  MaxLeaves = 6
  N = 5
  Even = {1, 2}
  Nums = 2
SYMMETRY Interchangeable
INVARIANTS IInv EveryLeafOpens OnlyTheContractOpens
\* One leaf is shown, then the run is over.
CHECK_DEADLOCK FALSE
