SPECIFICATION FairSpec
CONSTANTS
  a = a
  b = b
  p = p
  q = q
  Files = {a}
  Procs = {p, q}
  Contents <- OddContents
  NatureOf <- Odd
  Rules = {"r"}
  Commands <- RacingCommands
  StampsTell = FALSE
  Absent = Absent
  None = None
  MaxAttempts = 2
  MaxEdits = 1
  MaxCommands = 2
INVARIANT
  FreshMeansCurrent
PROPERTY
  EveryCommandEnds
