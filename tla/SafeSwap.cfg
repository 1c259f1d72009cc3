SPECIFICATION Spec
CONSTANTS
  FollowerTimeout = 2
  HolderTimeout <- MCHolderTimeout
  FeeRates = {1, 5}
  HolderFeeRates = {5}
  RelayFeeRate = 5
  KitGated = TRUE
  MaxDrift = 1
  Delay = 2
  MaxHeight = 9
INVARIANTS IInv Atomicity HolderClaimsFirst ClaimRevealsSecret ConfirmationGate
PROPERTIES SpendsAreFinal ImplementsExchangeSafe FollowerSettles
  HolderSettles ImplementsExchange
CHECK_DEADLOCK FALSE
