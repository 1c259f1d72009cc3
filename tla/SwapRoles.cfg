SPECIFICATION SafeSpec
CONSTANTS
  FollowerTimeout = 6
  HolderTimeout = 2
  FeeRates = {5}
  HolderFeeRates = {5}
  RelayFeeRate = 5
  KitGated = TRUE
  MaxDrift = 1
  Delay = 1
  MaxHeight = 7
INVARIANT Atomicity
CHECK_DEADLOCK FALSE
