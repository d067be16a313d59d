CONSTANTS
  State <- MCState
  StartState = "START"
  ErrorState = "ERROR"
  Input <- MCInput
  Line <- MCLine
  Error <- MCError
  Position <- MCPosition
  Command <- MCCommand
  Notices <- MCNotices
  MaxUses = 2
SPECIFICATION DialogueSpec
INVARIANTS DoesWhatIsAsked WholeAnswers
PROPERTIES RefusedValueAborts Terminates
CHECK_DEADLOCK FALSE
