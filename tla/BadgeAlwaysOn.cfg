SPECIFICATION Spec
CONSTANTS
  W = 64
  QUIET = 1
  WATCHDOG = 2
  RETRY = 3
  FIRST = 4
  NEXT_SCAN = 4
  SHUTDOWN_LIMIT = 5
  SECOND = 4
  HALF = 2
  CAPACITY = 1
  Address = {}
  Detection = {}
  NoDetection = nothing
  Priority <- NothingToDetect
  PageCount <- NothingToDetect
  FrogDance = {}
  AlwaysOn = {TRUE}
  ReadsMayFail = FALSE
  RolesMayFail = FALSE
  AllocMayFail = FALSE
  CancelsMayHang = TRUE
VIEW TimeView
PROPERTY AlwaysOnReturnsToNormal
