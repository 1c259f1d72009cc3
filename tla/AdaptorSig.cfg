SPECIFICATION Spec
CONSTANTS
  N = 5
  Even = {1, 3}
  Msgs = {m}
  Tries = 2
INVARIANTS TypeOK PresignVerifies VerifiedCompletes AcceptedReveals WrongSecretIsUseless
CHECK_DEADLOCK FALSE
