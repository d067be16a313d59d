CONSTANTS
  N = 3
  Option <- MCOption
  ParentOf <- MCParentOf
  AltType <- MCAltType
  Value = {"v"}
  Unset = "<null>"
  Handle = {h1, h2}
  Cell = {x1, x2, x3}
  Nil = Nil
  Free = Free
SPECIFICATION Spec
SYMMETRY Symmetry
INVARIANTS FreedOnce OneOwner StaleAccessKnown TypesMatch
PROPERTIES SavedIsCurrent
CHECK_DEADLOCK FALSE
