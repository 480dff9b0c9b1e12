SPECIFICATION NearWrap
CONSTANTS
  W = 32
  QUIET = 1
  WATCHDOG = 3
  RETRY = 4
  FIRST = 5
  NEXT_SCAN = 6
  SHUTDOWN_LIMIT = 9
  SECOND = 2
  HALF = 1
  CAPACITY = 2
  Address = {a1, a2, a3}
  a1 = a1
  a2 = a2
  a3 = a3
  NoDetection = nothing
  Detection = {}
  Priority <- NothingToDetect
  PageCount <- NothingToDetect
  FrogDance = {}
  Builds = {FALSE}
  Inputs <- LifecycleInputs
  STRIDE = 1
  MaxLag = 1
VIEW TimeView
INVARIANT CancelRetriesOnTime
