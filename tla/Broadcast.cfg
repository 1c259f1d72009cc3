SPECIFICATION Spec
CONSTANTS
  Nets = {"bch", "doge"}
  blockchair = blockchair
  explorer = explorer
  own = own
  NoUrl = NoUrl
  Configured <- MCConfigured
  Own = own
  Blockchair = {blockchair}
INVARIANTS TypeOK SuccessIsTrue FailureIsTrue FailureIsExhaustive HintIsFollowed
PROPERTY DeliversEventually
CHECK_DEADLOCK FALSE
