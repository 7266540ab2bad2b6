SPECIFICATION Spec
CONSTANTS
  Addr = {4, 12, 28, 36, 60}
  Instr = {0, 1, 2}
  Zero = 0
  InitialSize = 2
  MaxInstr = 5
INVARIANTS
  Searchable
  LoopsEnd
PROPERTIES
  TableIsMap
CHECK_DEADLOCK FALSE
