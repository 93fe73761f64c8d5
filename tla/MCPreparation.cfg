CONSTANTS
  Ids = {1, 2, 3}
  NoMaster = NoMaster
  MaxJoins = 1
SPECIFICATION FairSpec
INVARIANTS
  MasterIsMember
  NoMemberWithoutSocket
PROPERTIES
  LivingMembersStay
  ClosureEndsPreparation
  LostMasterEndsWait
