SPECIFICATION NearWrap
CONSTANTS
  W = 16
  QUIET = 1
  WATCHDOG = 2
  RETRY = 3
  FIRST = 3
  NEXT_SCAN = 4
  SHUTDOWN_LIMIT = 5
  SECOND = 4
  HALF = 2
  CAPACITY = 1
  Address = {a1}
  a1 = a1
  NoDetection = nothing
  Detection = {"dance", "cop"}
  Priority <- Ranks
  PageCount <- PagesOf
  FrogDance = {"dance"}
  Builds = {TRUE, FALSE}
  Inputs <- PictureInputs
  STRIDE = 1
  MaxLag = 0
VIEW PictureView
INVARIANTS
  HighestPriorityWins
  ScreenIsLastFrame
  PageOnTime
  PoseOnTime
  AnswersThePanel
