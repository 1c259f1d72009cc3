SPECIFICATION SafeSpec
CONSTANTS
  FollowerTimeout = 2
  HolderTimeout = 6
  FeeRates = {1, 5}
  HolderFeeRates = {1, 5}
  RelayFeeRate = 5
  KitGated = TRUE
  MaxDrift = 1
  Delay = 1
  MaxHeight = 7
INVARIANT ClaimRevealsSecret
CHECK_DEADLOCK FALSE
