SPECIFICATION Spec
CONSTANTS
  Node = {n1, n2, n3, n4}
  NULL = NULL
  List = {a, b}
  Datum = {d, e}
INVARIANT Linked
INVARIANT RingsApart
PROPERTY ListsAreSequences
PROPERTY FreeEnds
CHECK_DEADLOCK FALSE
