SPECIFICATION Spec
CONSTANTS
  a = a
  b = b
  p = p
  q = q
  Files = {a, b}
  Procs = {p}
  Contents <- PlainContents
  NatureOf <- Plain
  Rules = {"r", "s"}
  Commands <- AllCommands
  StampsTell = FALSE
  Absent = Absent
  None = None
  MaxAttempts = 2
  MaxEdits = 2
  MaxCommands = 2
INVARIANTS
  TypeOK
  PublishedTreeExisted
  FreshMeansCurrent
  DriftBlamesTheTree
