CONSTANTS
  Ids = {1, 2}
  NoLeader = NoLeader
SPECIFICATION Spec
INVARIANT VotedIsPlayer
