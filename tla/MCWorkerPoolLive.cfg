SPECIFICATION FairSpec
CONSTANTS
  Threads = {t1, t2}
  Pids = {p1, p2, p3, p4}
  NoPid = NoPid
  WorkLen = 2
  Natures = {"facts", "crash", "hang"}
  MaxStrays = 0
PROPERTIES
  ExpiryDrainsPool
  AnswersWithoutHang
