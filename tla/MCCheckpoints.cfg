CONSTANTS
  Ids = {1, 2}
  NoLeader = NoLeader
  MaxHp = 2
  Changes <- MCChanges
  Groups <- MCGroups
  Names = {"old", "new"}
  NoName = NoName
  Found <- MCFound
SPECIFICATION FairSpec
INVARIANTS
  PromisedLoads
  PartyDeadEnds
PROPERTIES
  EnemiesAttackOnce
  DeadLeftAlone
  KeepsToScenes
  InstructionEnds
