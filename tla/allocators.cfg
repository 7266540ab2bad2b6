SPECIFICATION AllSpec
CONSTANTS
  ALIGNMENT = 2
  META_SIZE = 2
  WORD = 32
  HeapLimit = 18
  Size = {0, 1, 2, 3, 4, 13, 29, 31}
  NULL = NULL
  ListHeapLimit = 18
  ListHeapSize = {1, 2, 5}
INVARIANT BlocksApart
INVARIANT ShortOnlyIfHuge
INVARIANT HeapMerged
 
PROPERTY DudeIsAllocator
CHECK_DEADLOCK FALSE
