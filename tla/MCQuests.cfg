SPECIFICATION Spec
CONSTANTS
  Lines <- MCLines
  MaxAsked = 2
  MaxReopened = 2
INVARIANTS
  LogSound
PROPERTIES
  DoneStays
  AllFinished
CHECK_DEADLOCK FALSE
