SPECIFICATION FairSpec
CONSTANTS
  MinGap = 2
  Delay = 3
  MaxHeight = 7
  Heights <- MCHeights
INVARIANTS IInv LenderBeforeSafety RepaidInTime
PROPERTY NothingIsStranded
\* The collateral is spent, or was never built.
CHECK_DEADLOCK FALSE
