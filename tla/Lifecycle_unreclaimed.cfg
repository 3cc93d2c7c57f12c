\* The system may stop: nobody has to call
SPECIFICATION FairSpec
CONSTANTS
  MaxCalls = 2
  MaxFactory = 2
  Strict = TRUE
  MaxLate = 0
PROPERTY Reclaimed
CHECK_DEADLOCK FALSE
