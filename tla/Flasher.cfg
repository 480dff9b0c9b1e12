SPECIFICATION Spec
CONSTANTS
  Badge = {b1, b2}
  top = top
  bottom = bottom
  Image = {top, bottom}
  Length <- MCLength
  SECTOR = 2
  CHUNK = 3
  MIN_ERASE = 3
  FLASH = 3
  None = none
  Info = {1, 2, 3}
  Ports = 1
  MaxSessions = 2
INVARIANTS
  TypeOK
PROPERTIES
  EraseAfterReadback
  NothingLandsLater
  FlashesAsOrdered
  FlashEnds
