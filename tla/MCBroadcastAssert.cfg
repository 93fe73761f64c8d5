CONSTANTS
  Players = {1, 2, 3}
  NoLeader = NoLeader
SPECIFICATION Spec
INVARIANT ConnectionAsserted
