CONSTANTS
  Byte = {0, 1}
  Zero = 0
  IntBits = 4
  Offsets = {0}
  Whences = {"SET", "CUR", "END"}
  MaxChunk = 2
SPECIFICATION Spec
INVARIANT NeverUndefined
CHECK_DEADLOCK FALSE
