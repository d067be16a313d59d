CONSTANTS
  State <- MCState
  StartState = 0
  ErrorState <- ERROR
  Input <- MCInput
  Line <- MCLine
  Error <- MCError
  Position <- MCPosition
  Command = {"sign"}
  MaxUses = 1
  Slots = 2
  UserIDLists <- MCLists
  Notices <- MCNotices
SPECIFICATION SignSpec
INVARIANTS NeverHung
CHECK_DEADLOCK FALSE
