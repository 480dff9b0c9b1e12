SPECIFICATION DisplaySpec
CONSTANTS
  Frame = {f1, f2}
  f1 = f1
  f2 = f2
  NoFrame = none
  LED_COLS = 4
  AlwaysOn = {TRUE, FALSE}
  BADGE = badge
  DARK = dark
INVARIANTS
  OverlayIsWhole
  OverlayIsLastFrame
  NeverFrozen
  ScreenOffIsDark
VIEW DisplayView
SYMMETRY Pictures
