SPECIFICATION Spec
CONSTANTS
  FileOrder <- MCFileOrder
  Batches <- SharedBatches
  Damaged <- NoDamage
INVARIANTS
  RemovedAreAbsent
