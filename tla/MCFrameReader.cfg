SPECIFICATION Spec
CONSTANTS
  Byte = {0, 5, 123, 126}
  MIN_FRAME_LEN = 5
  MAX_FRAME_LEN = 5
  MaxFed = 10
INVARIANTS TypeOK LengthDiscipline
PROPERTY ImplementsStream
CHECK_DEADLOCK FALSE
