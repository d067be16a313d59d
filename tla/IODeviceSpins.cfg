CONSTANTS
  Total = 2
  Kinds = {"file"}
SPECIFICATION Spec
PROPERTY ReaderStops
CHECK_DEADLOCK FALSE
