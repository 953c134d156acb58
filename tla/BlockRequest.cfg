SPECIFICATION Spec
CONSTANTS
  SECTOR_SIZE = 2
  ID_LEN = 2
  IdLength = 1
  FileLength = 5
  U64_MAX = 7
  Lengths = {0, 1, 3}
  MaxRequests = 3
  MaxPayloads = 2
INVARIANTS
  TypeOK
  WritesExact
  GuestSeesOnlyItsOwn
  UsedLengthCounts
  OutcomeReported
CHECK_DEADLOCK FALSE
