SPECIFICATION Spec
CONSTANTS
  Thread = {t1, t2}
  Name = {a, b}
  Empty = Empty
  NBLOCKS = 5
  DIR_ENTRIES = 2
  Op = {"getattr", "create", "write"}
  BLOCK_SIZE = 2
  MaxFileSize = 3
  MayCrash = FALSE
  UseDamaged = TRUE
  MountedDirectory <- FormattedDirectory
  MountedMap <- FormattedMap
PROPERTIES
  CreateIsSaved
CHECK_DEADLOCK FALSE
