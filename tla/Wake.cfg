SPECIFICATION Spec
CONSTANTS
  QUALIFIED = 5
  RELEASED = 3
  RECOVERY = 110
  SETTLE = 15
  U8_MAX = 255
INVARIANTS
  RecoveryWins
PROPERTIES
  OffUntilAsked
  WakeDecides
