SPECIFICATION Spec
CONSTANTS
  HandshakeWindow = 2
  BecomePrimary = 2
  Renegotiate = 9
  Expire = 18
  KeyIdMask = 3
  MaxLeap = 1
  NoKey = NoKey
INVARIANTS KeyLimitHonoured
CHECK_DEADLOCK FALSE
