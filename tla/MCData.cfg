SPECIFICATION MCSpec
CONSTANTS
  Byte = {0, 1}
  Zero = 0
  IntBits = 3
  Offsets <- MCOffsets
  Whences = {"SET", "CUR", "END"}
  MaxChunk = 2
  d1 = d1
  d2 = d2
  h1 = h1
  h2 = h2
  Body = {d1, d2}
  Static = Static
  Handle = {h1, h2}
  Supports <- MCSupports
  Version <- MCVersion
  Reader <- MCReader
  Plain <- MCPlain
  Tag = {"S", "T"}
  MaxLines = 2
  MaxUses = 2
SYMMETRY Interchangeable
INVARIANTS
  NothingDangles
  StatusAsMeant
  AnswerIsReply
PROPERTIES
  ReleasedByLast
  IsFile
CHECK_DEADLOCK FALSE
