SPECIFICATION Spec
CONSTANTS
  HandshakeWindow = 2
  BecomePrimary = 2
  Renegotiate = 5
  Expire = 10
  KeyIdMask = 3
  MaxLeap = 2
  NoKey = NoKey
INVARIANTS TypeOK KeyLifetime RekeyUnderway FlushTerminates StaysUp
PROPERTIES PromotedReady
CHECK_DEADLOCK FALSE
