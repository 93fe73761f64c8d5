CONSTANTS
  Ids = {1, 2}
  NoMaster = NoMaster
  MaxRequests = 4
  MaxLosses = 2
  MaxJoins = 1
SPECIFICATION FairSpec
INVARIANTS
  MasterIsFirst
  CountdownHasTimer
  MembersHeard
  CountdownFollowsReadiness
PROPERTIES
  CountdownEndsOrStops
CHECK_DEADLOCK FALSE
