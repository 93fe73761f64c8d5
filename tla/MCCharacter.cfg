CONSTANTS
  Items = {"sword", "potion"}
  Bonus <- MCBonus
  Initial <- MCInitial
  Unlimited = Unlimited
  Sizes = {1}
  Limits <- MCLimits
  Steps <- MCSteps
  Quantities <- MCQuantities
  MaxSize = 2
  NoCheckpoint = NoCheckpoint
SPECIFICATION CharacterSpec
INVARIANTS
  Restorable
  SimulationMeansApplied
  NextUpdateShowsAll
  RestoredAsSaved
