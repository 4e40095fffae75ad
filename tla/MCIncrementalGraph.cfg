SPECIFICATION Spec
CONSTANTS
  FileOrder <- MCFileOrder
  Batches <- MCBatches
  Damaged <- MCDamaged
INVARIANTS
  IndexIsOfFiles
  PendingIsOfFiles
  AnswersAreCurrent
  MirrorAgrees
PROPERTIES
  LineageSuffices
