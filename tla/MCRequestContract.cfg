CONSTANTS
  Players = {1, 2, 3, 4}
  All = All
  Active = Active
  NoLeader = NoLeader
  MaxRequests = 1
SPECIFICATION ContractOnce
PROPERTY RequestKeepsContract
CHECK_DEADLOCK FALSE
