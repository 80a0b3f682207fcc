SPECIFICATION LiveSpec
CONSTANTS
  MaxLines = 2
  MaxPushes = 1
INVARIANTS TypeOK ClosedUnused ReaderAttends
PROPERTY EndsWhenAsked
CHECK_DEADLOCK FALSE
