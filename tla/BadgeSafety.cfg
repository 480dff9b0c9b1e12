SPECIFICATION Spec
CONSTANTS
  W = 64
  QUIET = 1
  WATCHDOG = 3
  RETRY = 4
  FIRST = 5
  NEXT_SCAN = 6
  SHUTDOWN_LIMIT = 9
  SECOND = 4
  HALF = 2
  CAPACITY = 1
  Address = {a1}
  a1 = a1
  Detection = {}
  NoDetection = nothing
  Priority <- NothingToDetect
  PageCount <- NothingToDetect
  FrogDance = {}
  AlwaysOn = {TRUE, FALSE}
  ReadsMayFail = TRUE
  RolesMayFail = TRUE
  AllocMayFail = TRUE
  CancelsMayHang = TRUE
VIEW TimeView
INVARIANTS
  WakeIsOnItsWay
PROPERTY ArbiterSpec
