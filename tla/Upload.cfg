SPECIFICATION Spec
CONSTANTS
  CHUNK = 2
  HEADER = 6
  COLUMN = 3
  MaxData = 13
  Columns = {0, 1, 2, 3}
  Start = start
  start = start
  Truncated = truncated
  truncated = truncated
INVARIANTS
  CopyFits
  BufferIsReleased
PROPERTY StoresWholeUploads
