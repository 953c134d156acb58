\* A FIFO and a buffer of two, and five bytes of input.
SPECIFICATION FairSpec
CONSTANTS
  FIFO_SIZE = 2
  RX_CHUNK = 3
  MaxInput = 5
INVARIANTS
  BytesInOrder
  NoLostWakeup
PROPERTIES
  Arrives
\* The task ends.
CHECK_DEADLOCK FALSE
