SPECIFICATION Spec
CONSTANTS
  FileOrder <- MCFileOrder
  Batches <- MCBatches
  Damaged <- NoDamage
INVARIANTS
  GraphIsFullResolution
