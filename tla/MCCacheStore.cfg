SPECIFICATION Spec
CONSTANTS
  p1 = p1
  p2 = p2
  p3 = p3
  Handles = {p1, p2, p3}
  RecipeOf <- MCRecipeOf
  Candidates <- MCCandidates
  TierSets <- MCTierSets
  NoHandle = NoHandle
  NoSnapshot = NoSnapshot
  MaxBegun = 4
SYMMETRY Twins
INVARIANTS
  RowsAgree
  LoadsFindNoCorruption
  NothingSupersededIsKept
  PagesNeverMix
PROPERTIES
  PublishesWholeSlots
