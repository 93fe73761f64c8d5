CONSTANTS
  Players = {1, 2}
  All = All
  Active = Active
  NoLeader = NoLeader
  MaxRequests = 2
SPECIFICATION FairSpec
INVARIANTS
  HandledIsFinished
  RepliesAccounted
  WaitedRepliesComplete
  NothingOutlivesWait
  LeaderConnected
PROPERTIES
  StopEndsRequest
  LostTargetsEndWait
