\* The system may stop: nobody has to call
SPECIFICATION FairSpec
CONSTANTS
  MaxCalls = 4
  MaxFactory = 4
  Strict = FALSE
  MaxLate = 2
INVARIANTS TypeOK Exclusive MetaKept
PROPERTIES Serialised OnlyExpired Reclaimed
CHECK_DEADLOCK FALSE
