SPECIFICATION MCSpec
CONSTANTS
  p1 = p1
  p2 = p2
  v1 = v1
  v2 = v2
  Method <- MCMethod
  Object = {o1, o2}
  NoObject = NoObject
  Idle = Idle
  Error <- MCError
  Slot = {p1, p2}
  ResultVar = {v1, v2}
  ElemVar = {e1}
  NoSlot = NoSlot
  Kind = {"decrypt", "verify", "sign", "encrypt", "import", "keygen", "mount", "assuan", "notation"}
  MaxElems = 2
  NoteLists <- MCNotes
  ListMode = {"local", "extern", "ephemeral"}
  OldModes = {"ephemeral"}
  Flag = {"armor"}
  FileName = {"file"}
  HomeDir = {"home"}
  Engines <- MCEngines
  KeyObject <- MCKeyObject
  HasImportKeys = TRUE
  HasNoEncryptTo = FALSE
  MaxKeys = 2
  MaxNotations = 1
SYMMETRY Interchangeable
INVARIANTS
  CalleeExists
  ErrorIsOutcome
  ResultSurvives
  NoStaleReads
  FreedWithResult
  SettingsKept
  KeysGiven
