SPECIFICATION Spec
CONSTANTS
  p = p
  q = q
  r = r
  NoFile = NoFile
  Procs = {p, q, r}
  SchemaOf <- TwoBuilds
  Versions = {1, 2, 3}
  MaxFiles = 2
SYMMETRY Twins
INVARIANT
  TypeOK
PROPERTIES
  OpensSafely
  OpeningKeepsSnapshots
