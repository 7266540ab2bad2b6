SPECIFICATION MachineSpec
CONSTANTS
  VPage <- Pages
  NPAGES = 16
  RAM_PAGES = 3
  SWAP_PAGES = 12
  PAGESIZE = 4
  Word <- Words
  Zero = 0
  NULL = NULL
  Replace = "second_chance"
  MaxFaults = 1000
  MaxStores = 100
  NREG = 8
  IMM = 128
  WORD = 262144
  Program <- Programs
  Garbage = {0, 5}
  FacN = {1, 2, 3, 4, 5, 6, 7, 8}
  GcdN = {1, 4, 6}
  FillFrom = {24, 36, 48}
INVARIANT RunsProgram
INVARIANT ProgramsCompute
PROPERTY Ends
CHECK_DEADLOCK FALSE
