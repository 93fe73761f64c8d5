CONSTANTS
  Ids = {1, 2}
  NoMaster = NoMaster
  MaxRequests = 4
  MaxLosses = 0
  MaxJoins = 1
SPECIFICATION Spec
PROPERTY PreparationAfterCountdown
CHECK_DEADLOCK FALSE
