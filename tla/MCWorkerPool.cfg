SPECIFICATION Spec
CONSTANTS
  Threads = {t1, t2}
  Pids = {p1, p2, p3, p4}
  NoPid = NoPid
  WorkLen = 2
  Natures = {"facts", "crash", "hang", "protocol", "extraction-error"}
  MaxStrays = 1
SYMMETRY ThreadsAndPids
INVARIANTS
  TypeOK
  HandlesAreLive
  BusyIsKillable
  Contained
  SerialVerdict
  NoWorkerOutlivesPool
PROPERTY AnswersEveryItemOnce
