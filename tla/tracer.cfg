SPECIFICATION Spec
CONSTANTS
  Last = 2
  Kind = {"divw", "lookalike", "other"}
  Operand <- MCOperand
  MAX_DENOMINATOR = 1
  MaxSteps = 3
  MaxSignals = 2
INVARIANTS
  TrapsInPlace
  
PROPERTIES
  AlwaysResumed
  EndNoticed
CHECK_DEADLOCK FALSE
