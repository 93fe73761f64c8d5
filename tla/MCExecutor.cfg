SPECIFICATION FairSpec
INVARIANTS
  FinishedWhenStopped
PROPERTIES
  ClosedForGood
  ClosedOutOfPreparation
  RunningSessionStops
  StopReturns
CHECK_DEADLOCK FALSE
