------------------------------ MODULE FsSupport ------------------------------
(***************************************************************************)
(* The two disk structures of lab3/fs_support.c and the operators on them. *)
(* The block map gives for every block the one that follows it; block 0    *)
(* heads the list of free blocks.  The directory is a flat table of        *)
(* entries; the first entry without a name ends it.                        *)
(***************************************************************************)
EXTENDS Integers, FiniteSets, FiniteSetsExt

CONSTANTS
  Name,          \* file names
  Empty,         \* the name of an empty entry: its first byte is 0
  NBLOCKS,       \* FS_NBLOCKS
  DIR_ENTRIES    \* DIR_ENTRIES_PER_BLOCK

ASSUME FsAssumption ==
  /\ Empty \notin Name
  /\ NBLOCKS \in Nat /\ 3 <= NBLOCKS /\ NBLOCKS <= 65535
  /\ DIR_ENTRIES \in Nat \ {0}

BLKMAP_BID == 0
ROOTDIR_BID == 1
EOF_BLOCK == 65535

(* blocks that hold file data, and blocks whose map entry means something *)
DataBlock == 2 .. NBLOCKS - 1
Block == DataBlock \cup {BLKMAP_BID}
Link == Block \cup {EOF_BLOCK}

Index == 0 .. DIR_ENTRIES - 1
DirEntry == [name : Name \cup {Empty}, size_bytes : Nat, first_block : Link]
Directory == [Index -> DirEntry]
BlockMap == [Block -> Link]

-------------------------------------------------------------------------------
(* The directory. *)

(* first_empty_dir_entry, DIR_ENTRIES where the code returns -1 *)
FirstEmpty(dir) == Min({i \in Index : dir[i].name = Empty} \cup {DIR_ENTRIES})

(* entries that find_dir_entry inspects *)
Active(dir) == 0 .. FirstEmpty(dir) - 1

NotFound == -1
Matches(dir, path) == {i \in Active(dir) : dir[i].name = path}
find_dir_entry(dir, path) ==
  IF Matches(dir, path) = {} THEN NotFound ELSE Min(Matches(dir, path))

Exists(dir, path) == Matches(dir, path) # {}

(* the entries behind di move up by one, and the last one loses its name but
   keeps its other fields *)
LastMoved(dir, di) ==
  Min({i \in Index : i >= di /\ (i = DIR_ENTRIES - 1 \/ dir[i + 1].name = Empty)})
scooch_dir_entries_KeepsLast(dir, di) ==
  [i \in Index |-> IF i \in di .. LastMoved(dir, di) - 1 THEN dir[i + 1] ELSE dir[i]]
scooch_dir_entries_ForgetsFirst(dir, di) ==
  [i \in Index |->
     IF i \in di + 1 .. LastMoved(dir, di) - 1 THEN dir[i + 1]
     ELSE IF i = LastMoved(dir, di) THEN [dir[i] EXCEPT !.name = Empty]
     ELSE dir[i]]
scooch_dir_entries(dir, di) ==
  [i \in Index |->
     IF i \in di .. LastMoved(dir, di) - 1 THEN dir[i + 1]
     ELSE IF i = LastMoved(dir, di) THEN [dir[i] EXCEPT !.name = Empty]
     ELSE dir[i]]

-------------------------------------------------------------------------------
(* The block map. *)

(* allocateBlock: the head of the free list, unless it points to itself *)
NoFreeBlock(map) == map[BLKMAP_BID] = BLKMAP_BID
Allocated(map) == IF NoFreeBlock(map) THEN EOF_BLOCK ELSE map[BLKMAP_BID]
AfterAllocate_StaysLinked(map) ==
  IF NoFreeBlock(map) THEN map
  ELSE [map EXCEPT ![BLKMAP_BID] = map[map[BLKMAP_BID]]]
AfterAllocate(map) ==
  IF NoFreeBlock(map) THEN map
  ELSE [map EXCEPT ![BLKMAP_BID] = map[map[BLKMAP_BID]], ![Allocated(map)] = EOF_BLOCK]

(* freeBlock: the block becomes the head of the free list *)
AfterFree(map, freedId) ==
  [map EXCEPT ![freedId] = map[BLKMAP_BID], ![BLKMAP_BID] = freedId]

-------------------------------------------------------------------------------
(* What the structures mean. *)

(* the data blocks on the list that starts with the given link *)
Chain(map, link) ==
  LET within[n \in 0 .. NBLOCKS] ==
        IF n = 0 THEN {link} \cap DataBlock
        ELSE within[n - 1] \cup ({map[b] : b \in within[n - 1]} \cap DataBlock)
  IN  within[NBLOCKS]

FreeBlocks(map) == Chain(map, map[BLKMAP_BID])
FileBlocks(dir, map) == UNION {Chain(map, dir[i].first_block) : i \in Active(dir)}

(* every place on the disk that names block b *)
References(dir, map, b) ==
  {<<"map", x>> : x \in {x \in Block : map[x] = b}} \cup
  {<<"entry", i>> : i \in {i \in Active(dir) : dir[i].first_block = b}}
================================================================================
