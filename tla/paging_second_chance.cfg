SPECIFICATION Spec
CONSTANTS
  VPage = {p1, p2, p3, p4}
  RAM_PAGES = 3
  SWAP_PAGES = 3
  PAGESIZE = 1
  Word = {w0, w1}
  Zero = w0
  NULL = NULL
  Replace = "second_chance"
  MaxFaults = 8
  MaxStores = 2
SYMMETRY PageSymmetry
INVARIANTS
  OwnersAgree
  SlotsOwned
  CleanCopy
  StatisticsAddUp
PROPERTIES
  PagesAreMemory
  SecondChance
CHECK_DEADLOCK FALSE
