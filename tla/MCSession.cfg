CONSTANTS
  Ids = {1, 2, 3}
  NoLeader = NoLeader
SPECIFICATION FairSpec
INVARIANTS
  LeaderWhilePlaying
  RestoredWithItsPlayers
PROPERTIES
  KeepsPromise
  StoppedSessionEnds
