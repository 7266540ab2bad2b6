SPECIFICATION Spec
CONSTANTS
  Thread = {t1}
  Name = {a, b, c}
  Empty = Empty
  NBLOCKS = 5
  DIR_ENTRIES = 2
  Op = {"getattr", "create", "write", "truncate", "unlink", "rename"}
  BLOCK_SIZE = 2
  MaxFileSize = 3
  MayCrash = TRUE
  UseDamaged = TRUE
  MountedDirectory <- FormattedDirectory
  MountedMap <- FormattedMap
INVARIANTS
  DirectoryWellFormed
  NoSharedBlock
  NoLeak
  SizeMatchesBlocks
PROPERTIES
  WritesOwnBlock
  RenameMoves
