SPECIFICATION Spec
CONSTANTS
  Thread = {t1}
  Name = {a, b, c}
  Empty = Empty
  NBLOCKS = 5
  DIR_ENTRIES = 3
  Op = {"getattr", "create", "write", "truncate", "unlink", "rename"}
  BLOCK_SIZE = 1
  MaxFileSize = 2
  MayCrash = FALSE
  UseDamaged = FALSE
  MountedDirectory <- FormattedDirectory
  MountedMap <- FormattedMap
PROPERTIES
  
  CallsReturn
CHECK_DEADLOCK FALSE
