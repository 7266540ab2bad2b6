SPECIFICATION FifoSpec
CONSTANTS
  VPage = {p1, p2, p3, p4, p5}
  RAM_PAGES = 3
  SWAP_PAGES = 4
  PAGESIZE = 1
  Word = {w0, w1}
  Zero = w0
  NULL = NULL
  Replace = "fifo"
  MaxFaults = 9
  MaxStores = 1
INVARIANTS
  AbortMeansSwapExceeded
PROPERTIES
  EvictsOldest
CHECK_DEADLOCK FALSE
