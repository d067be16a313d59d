CONSTANTS
  Byte = {"a", "b"}
  Newline = "nl"
  MaxLen = 3
SPECIFICATION Spec
INVARIANT ResultWritten
CHECK_DEADLOCK FALSE
