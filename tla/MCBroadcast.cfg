CONSTANTS
  Players = {1, 2, 3, 4}
  NoLeader = NoLeader
SPECIFICATION Spec
INVARIANTS
  SurvivorsToldOfCrashes
  LeaderKnownAfterOneLoss
PROPERTY ImplementsAtomicBroadcast
