CONSTANTS
  Byte = {"a", "b"}
  Newline = "nl"
  MaxLen = 3
  Total = 6
  Kinds = {"process", "file", "socket"}
SPECIFICATION MCSpec
INVARIANTS OneLine WrongPassphraseReported WipedBeforeNewline TruncationNeedsError
PROPERTIES CleanEndIsComplete ProcessReaderStops
CHECK_DEADLOCK FALSE
