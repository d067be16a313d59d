SPECIFICATION MCSpec
CONSTANTS
  b1 = b1
  b2 = b2
  b3 = b3
  Struct = {s1, s2}
  Block = {b1, b2, b3}
  Handle = {h1, h2}
  View = {view1}
  Null = Null
  Listed <- MCListed
  Index = {1, 2}
  MaxSigners = 1
  Item = {t1, t2}
  TrustVar = {x1, x2}
  NoItem = NoItem
  Var = {v1, v2, v3}
  ListError = {"NO_ERROR", "CANCELED", "GENERAL"}
  Cell = {c1, c2, c3, c4}
  NoCell = NoCell
SYMMETRY Interchangeable
INVARIANTS
  CountsBalanced
  PartsBelong
  MergedFromSameKey
PROPERTY IsValue
CHECK_DEADLOCK FALSE
