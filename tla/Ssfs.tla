--------------------------------- MODULE Ssfs ---------------------------------
(***************************************************************************)
(* The FUSE handlers of lab3/ssfs.c that change the disk.  A handler runs  *)
(* in steps that end where it reads or writes the disk; between the steps  *)
(* of one thread another thread may run, since all of them share the two   *)
(* caches bdir and bmap of fs_support.c, and the process may be killed.    *)
(* File data is left out: the block map and the directory decide which     *)
(* file a block belongs to.                                                *)
(***************************************************************************)
EXTENDS FsSupport

CONSTANTS
  Thread,             \* threads of fuse_main; one when mounted with -s
  Op,                 \* handlers the clients of a run use
  BLOCK_SIZE,         \* bytes in a block
  MaxFileSize,        \* bound: no write reaches beyond this many bytes
  MayCrash,           \* may the process be killed and started again?
  UseDamaged,         \* bound: do clients go on once the disk is damaged?
  MountedDirectory,   \* contents of the disk when it is mounted first
  MountedMap

ASSUME SsfsAssumption ==
  /\ Op \subseteq {"getattr", "create", "write", "truncate", "unlink", "rename"}
  /\ BLOCK_SIZE \in Nat \ {0}
  /\ MaxFileSize \in Nat
  /\ {MayCrash, UseDamaged} \subseteq BOOLEAN
  /\ MountedDirectory \in Directory
  /\ MountedMap \in BlockMap

VARIABLES
  disk_dir,    \* block ROOTDIR_BID of the disk
  disk_map,    \* block BLKMAP_BID of the disk
  bdir,        \* the directory cache
  bmap,        \* the block map cache
  thread,      \* pc and local variables of each thread
  damaged      \* history: did a flaw occur that breaks the disk?

vars == <<disk_dir, disk_map, bdir, bmap, thread, damaged>>

(* Calls, as the kernel passes them on.  do_truncate ignores its offset. *)
Call ==
  {c \in [op : {"getattr", "create", "truncate", "unlink"}, path : Name]
         \cup [op : {"rename"}, path : Name, npath : Name]
         \cup [op : {"write"}, path : Name,
               offset : 0 .. MaxFileSize - 1, size : 1 .. MaxFileSize] :
     /\ c.op \in Op
     /\ c.op = "rename" => c.path # c.npath
     /\ c.op = "write" => c.offset + c.size <= MaxFileSize}

NoCall == [op |-> "none"]
Paths(c) == CASE c.op = "none"   -> {}
              [] c.op = "rename" -> {c.path, c.npath}
              [] OTHER           -> {c.path}

(* di, udi and tdi are the indices do_rename or do_write, do_unlink and
   do_truncate hold; fresh says that this call gave the file its first block *)
Idle == [pc |-> "idle", call |-> NoCall, di |-> 0, udi |-> 0, tdi |-> 0,
         crtblk |-> EOF_BLOCK, blkoffs |-> 0, fresh |-> FALSE]

PC == {"idle", "getattr", "create", "create_save", "write", "write_map", "write_save",
       "navigate", "truncate", "freeing", "truncate_save", "unlink", "scooch",
       "unlink_save", "rename", "rename_entry", "rename_save"}

TypeOK ==
  /\ {disk_dir, bdir} \subseteq
       [Index -> [name : Name \cup {Empty}, size_bytes : 0 .. MaxFileSize, first_block : Link]]
  /\ {disk_map, bmap} \subseteq BlockMap
  /\ thread \in [Thread ->
       [pc : PC, call : Call \cup {NoCall}, di : Index, udi : Index, tdi : Index,
        crtblk : Link, blkoffs : 0 .. MaxFileSize, fresh : BOOLEAN]]
  /\ damaged \in BOOLEAN

(* static storage starts as zeros *)
NoDirectory ==
  [i \in Index |-> [name |-> Empty, size_bytes |-> 0, first_block |-> BLKMAP_BID]]
NoMap == [b \in Block |-> BLKMAP_BID]

Init ==
  /\ disk_dir = MountedDirectory
  /\ disk_map = MountedMap
  /\ bdir = NoDirectory
  /\ bmap = NoMap
  /\ thread = [t \in Thread |-> Idle]
  /\ damaged = FALSE

-------------------------------------------------------------------------------
(* Calls.  The kernel creates a file only after a lookup has failed; it keeps
   changes of the directory apart, and calls that concern the same file. *)

ChangesDirectory(c) == c.op \in {"create", "unlink", "rename"}

Admitted(c) ==
  /\ c.op = "create" => ~Exists(disk_dir, c.path)
  /\ \A u \in Thread : LET d == thread[u].call IN
       /\ Paths(c) \cap Paths(d) = {}
       /\ ~(ChangesDirectory(c) /\ ChangesDirectory(d))

Begin(t) ==
  /\ thread[t] = Idle
  /\ damaged => UseDamaged
  /\ \E c \in Call :
       /\ Admitted(c)
       /\ thread' = [thread EXCEPT ![t].pc = c.op, ![t].call = c]
  /\ UNCHANGED <<disk_dir, disk_map, bdir, bmap, damaged>>

At(t, pc) == thread[t].pc = pc
Path(t) == thread[t].call.path
GoTo(t, pc) == thread' = [thread EXCEPT ![t].pc = pc]
Return(t) == thread' = [thread EXCEPT ![t] = Idle]

(* do_truncate also runs on behalf of do_unlink, and both of do_rename *)
Leave(t, handler) ==
  IF thread[t].call.op = handler THEN Return(t)
  ELSE GoTo(t, CASE handler = "truncate" -> "scooch"
                 [] handler = "unlink"   -> "rename_entry")
RemovedPath_Old(t) == Path(t)
RemovedPath(t) == IF thread[t].call.op = "rename" THEN thread[t].call.npath ELSE Path(t)

(* save_directory *)
SaveDirectory(t) ==
  /\ disk_dir' = bdir
  /\ UNCHANGED <<disk_map, bdir, bmap, damaged>>

-------------------------------------------------------------------------------
(* do_getattr, and do_read, which does to the caches what do_getattr does *)
GetAttr(t) ==
  /\ At(t, "getattr")
  /\ bdir' = disk_dir
  /\ Return(t)
  /\ UNCHANGED <<disk_dir, disk_map, bmap, damaged>>

(* do_create *)

CreateFull(t) ==
  /\ At(t, "create")
  /\ bdir' = disk_dir
  /\ FirstEmpty(disk_dir) = DIR_ENTRIES
  /\ Return(t)
  /\ UNCHANGED <<disk_dir, disk_map, bmap, damaged>>

CreateEntry(t) ==
  /\ At(t, "create")
  /\ FirstEmpty(disk_dir) < DIR_ENTRIES
  /\ bdir' = [disk_dir EXCEPT ![FirstEmpty(disk_dir)] =
                [name |-> Path(t), size_bytes |-> 0, first_block |-> EOF_BLOCK]]
  /\ GoTo(t, "create_save")
  /\ UNCHANGED <<disk_dir, disk_map, bmap, damaged>>

CreateSave(t) == At(t, "create_save") /\ SaveDirectory(t) /\ Return(t)

-------------------------------------------------------------------------------
(* do_write *)

(* load_directory and find_dir_entry, when the path is there *)
Found(path) == bdir' = disk_dir /\ Exists(disk_dir, path)

WriteLookup(t) ==
  /\ At(t, "write")
  /\ Found(Path(t))
  /\ thread' = [thread EXCEPT ![t].pc = "write_map",
                              ![t].di = find_dir_entry(disk_dir, Path(t))]
  /\ UNCHANGED <<disk_dir, disk_map, bmap, damaged>>

GrownSize_WithoutOffset(de, c) == c.size
GrownSize(de, c) == c.offset + c.size

(* load_blockmap; an empty file that grows gets its first block *)
WriteGrow(t) ==
  LET c == thread[t].call
      de == bdir[thread[t].di]
      grows == c.offset + c.size > de.size_bytes
      first == IF de.first_block = EOF_BLOCK THEN Allocated(disk_map) ELSE de.first_block
      allocates == grows /\ de.first_block = EOF_BLOCK
  IN /\ At(t, "write_map")
     /\ bmap' = IF allocates THEN AfterAllocate(disk_map) ELSE disk_map
     /\ \/ /\ grows /\ first # EOF_BLOCK
           /\ bdir' = [bdir EXCEPT ![thread[t].di] =
                         [de EXCEPT !.size_bytes = GrownSize(de, c), !.first_block = first]]
           /\ thread' = [thread EXCEPT ![t].pc = "write_save", ![t].fresh = allocates]
        \/ /\ grows /\ first = EOF_BLOCK      \* no more free blocks
           /\ Return(t)
           /\ UNCHANGED bdir
        \/ /\ ~grows
           /\ thread' = [thread EXCEPT ![t].pc = "navigate", ![t].crtblk = de.first_block,
                                       ![t].blkoffs = c.offset \div BLOCK_SIZE]
           /\ UNCHANGED bdir
     /\ UNCHANGED <<disk_dir, disk_map, damaged>>

WriteSave(t) ==
  /\ At(t, "write_save")
  /\ SaveDirectory(t)
  /\ thread' = [thread EXCEPT ![t].pc = "navigate",
                              ![t].crtblk = bdir[thread[t].di].first_block,
                              ![t].blkoffs = thread[t].call.offset \div BLOCK_SIZE]

(* a new block at the end of the list that crtblk ends *)
Extended_Unlinked(map, crtblk) == AfterAllocate(map)
Extended(map, crtblk) == [AfterAllocate(map) EXCEPT ![crtblk] = Allocated(map)]

(* one round of the loop that follows the links, extending the list when it
   ends too early *)
Navigate(t) ==
  LET crtblk == thread[t].crtblk
      Advance(b) == thread' = [thread EXCEPT ![t].crtblk = b, ![t].blkoffs = @ - 1]
  IN /\ At(t, "navigate")
     /\ thread[t].blkoffs > 0
     /\ crtblk \in Block
     /\ \/ /\ bmap[crtblk] # EOF_BLOCK
           /\ Advance(bmap[crtblk])
           /\ UNCHANGED <<bmap, damaged>>
        \/ /\ bmap[crtblk] = EOF_BLOCK
           /\ ~NoFreeBlock(bmap)
           /\ bmap' = Extended(bmap, crtblk)
           /\ Advance(Allocated(bmap))
           /\ UNCHANGED damaged
        \/ /\ bmap[crtblk] = EOF_BLOCK
           /\ NoFreeBlock(bmap)               \* out of free blocks
           /\ Return(t)
           /\ damaged' = (damaged \/ thread[t].fresh)
           /\ UNCHANGED bmap
     /\ UNCHANGED <<disk_dir, disk_map, bdir>>

(* the data block is written, then save_blockmap *)
WriteData(t) ==
  /\ At(t, "navigate")
  /\ thread[t].blkoffs = 0
  /\ disk_map' = bmap
  /\ Return(t)
  /\ UNCHANGED <<disk_dir, bdir, bmap, damaged>>

-------------------------------------------------------------------------------
(* do_truncate: the blocks go to the free list one by one, then the map is
   saved, then the directory *)

TruncateLookup(t) ==
  LET tdi == find_dir_entry(disk_dir, RemovedPath(t))
  IN /\ At(t, "truncate")
     /\ Exists(disk_dir, RemovedPath(t))
     /\ bdir' = [disk_dir EXCEPT ![tdi].size_bytes = 0]
     /\ bmap' = disk_map
     /\ thread' = [thread EXCEPT ![t].pc = "freeing", ![t].tdi = tdi]
     /\ UNCHANGED <<disk_dir, disk_map, damaged>>

NextToFree_ReadLate(freed, next) == AfterFree(bmap, freed)[freed]
NextToFree_CutLoose(freed, next) == EOF_BLOCK
NextToFree(freed, next) == next

TruncateFree(t) ==
  LET first == bdir[thread[t].tdi].first_block
  IN /\ At(t, "freeing")
     /\ first \in Block
     /\ bmap' = AfterFree(bmap, first)
     /\ bdir' = [bdir EXCEPT ![thread[t].tdi].first_block = NextToFree(first, bmap[first])]
     /\ UNCHANGED <<disk_dir, disk_map, thread, damaged>>

TruncateSaveMap(t) ==
  /\ At(t, "freeing")
  /\ bdir[thread[t].tdi].first_block = EOF_BLOCK
  /\ disk_map' = bmap
  /\ GoTo(t, "truncate_save")
  /\ UNCHANGED <<disk_dir, bdir, bmap, damaged>>

TruncateSave(t) == At(t, "truncate_save") /\ SaveDirectory(t) /\ Leave(t, "truncate")

-------------------------------------------------------------------------------
(* do_unlink *)

UnlinkLookup(t) ==
  /\ At(t, "unlink")
  /\ Found(RemovedPath(t))
  /\ thread' = [thread EXCEPT ![t].pc = "truncate",
                              ![t].udi = find_dir_entry(disk_dir, RemovedPath(t))]
  /\ UNCHANGED <<disk_dir, disk_map, bmap, damaged>>

UnlinkScooch(t) ==
  /\ At(t, "scooch")
  /\ bdir' = scooch_dir_entries(bdir, thread[t].udi)
  /\ GoTo(t, "unlink_save")
  /\ UNCHANGED <<disk_dir, disk_map, bmap, damaged>>

(* do_rename still holds an index that scooch_dir_entries has moved *)
UnlinkSave(t) ==
  /\ At(t, "unlink_save")
  /\ disk_dir' = bdir
  /\ Leave(t, "unlink")
  /\ damaged' = (damaged \/ (thread[t].call.op = "rename" /\ thread[t].udi < thread[t].di))
  /\ UNCHANGED <<disk_map, bdir, bmap>>

-------------------------------------------------------------------------------
(* do_rename *)

RenameLookup(t) ==
  /\ At(t, "rename")
  /\ Found(Path(t))
  /\ thread' = [thread EXCEPT ![t].pc = "unlink",
                              ![t].di = find_dir_entry(disk_dir, Path(t))]
  /\ UNCHANGED <<disk_dir, disk_map, bmap, damaged>>

RenameEntry(t) ==
  /\ At(t, "rename_entry")
  /\ bdir' = [bdir EXCEPT ![thread[t].di].name = thread[t].call.npath]
  /\ GoTo(t, "rename_save")
  /\ UNCHANGED <<disk_dir, disk_map, bmap, damaged>>

RenameSave(t) == At(t, "rename_save") /\ SaveDirectory(t) /\ Return(t)

-------------------------------------------------------------------------------
(* the path is not there: the handler returns -ENOENT, which do_rename and
   do_unlink ignore *)
NoSuchFile(t) ==
  /\ \E handler \in {"write", "truncate", "unlink", "rename"} :
       /\ At(t, handler)
       /\ ~Exists(disk_dir, IF handler \in {"truncate", "unlink"} THEN RemovedPath(t)
                            ELSE Path(t))
       /\ Leave(t, handler)
  /\ bdir' = disk_dir
  /\ UNCHANGED <<disk_dir, disk_map, bmap, damaged>>

Handler(t) ==
  \/ GetAttr(t)
  \/ CreateFull(t) \/ CreateEntry(t) \/ CreateSave(t)
  \/ WriteLookup(t) \/ WriteGrow(t) \/ WriteSave(t) \/ Navigate(t) \/ WriteData(t)
  \/ TruncateLookup(t) \/ TruncateFree(t) \/ TruncateSaveMap(t) \/ TruncateSave(t)
  \/ UnlinkLookup(t) \/ UnlinkScooch(t) \/ UnlinkSave(t)
  \/ RenameLookup(t) \/ RenameEntry(t) \/ RenameSave(t)
  \/ NoSuchFile(t)

(* Between two disk writes that belong together the disk is inconsistent: a
   file has a first block that is free too, or blocks that are free already. *)
InWindow(t) ==
  \/ At(t, "navigate") /\ thread[t].fresh
  \/ At(t, "truncate_save") /\ disk_dir[thread[t].tdi].first_block # EOF_BLOCK

(* the process is killed and started again; the disk stays *)
Crash ==
  /\ MayCrash
  /\ \E t \in Thread : thread[t] # Idle
  /\ bdir' = NoDirectory
  /\ bmap' = NoMap
  /\ thread' = [t \in Thread |-> Idle]
  /\ damaged' = (damaged \/ \E t \in Thread : InWindow(t))
  /\ UNCHANGED <<disk_dir, disk_map>>

Next ==
  \/ \E t \in Thread : Begin(t) \/ Handler(t)
  \/ Crash

(* a handler that was called goes on running; nobody has to call one *)
Fairness == \A t \in Thread : WF_vars(Handler(t))

Spec == Init /\ [][Next]_vars /\ Fairness
-------------------------------------------------------------------------------
(* Properties. *)

Sound == ~damaged /\ ~\E t \in Thread : InWindow(t)

(* The directory on disk is always a table without holes in which every name
   occurs once, also in the middle of a handler, after a crash, and whatever
   do_rename overwrites: find_dir_entry and first_empty_dir_entry stop at the
   first hole (fs_support.c:78-111). *)
DirectoryWellFormed ==
  /\ \A i \in Index : disk_dir[i].name # Empty => i \in Active(disk_dir)
  /\ \A n \in Name : Cardinality(Matches(disk_dir, n)) <= 1

(* A data block belongs to one file or to the free list: nothing on the disk
   names it twice (fs_support.h:12-23), except between the two disk writes of
   a truncate and of a first write. *)
NoSharedBlock ==
  Sound => \A x \in DataBlock : Cardinality(References(disk_dir, disk_map, x)) <= 1

(* No data block is lost: each is on the free list or in a file that exists
   (do_truncate, ssfs.c:328-342; do_unlink, 384-387). *)
NoLeak ==
  Sound => DataBlock = FreeBlocks(disk_map) \cup FileBlocks(disk_dir, disk_map)

(* A file has a first block exactly if it has bytes, and no more blocks than
   its bytes fill (ssfs.c:205-222,234-255,326-348). *)
SizeMatchesBlocks ==
  Sound => \A i \in Active(disk_dir) : LET de == disk_dir[i] IN
    /\ de.size_bytes = 0 <=> de.first_block = EOF_BLOCK
    /\ (Cardinality(Chain(disk_map, de.first_block)) - 1) * BLOCK_SIZE < de.size_bytes \/ de.size_bytes = 0

(* what the disk says of a file *)
OnDisk(n) ==
  {LET de == disk_dir[i] IN <<de.size_bytes, de.first_block, Chain(disk_map, de.first_block)>> :
     i \in Matches(disk_dir, n)}

(* No step changes anything of a file that no running call names, although
   entries move up when one is removed and all files share the map. *)
OthersUndisturbed ==
  [][~damaged' =>
       \A n \in Name : OnDisk(n)' # OnDisk(n) => \E t \in Thread : n \in Paths(thread[t].call)
    ]_vars

(* A write goes to a block that the disk, when do_write returns, gives to the
   file written to, wherever the list was extended on the way to it. *)
WritesOwnBlock ==
  [][\A t \in Thread : WriteData(t) /\ ~damaged =>
       \E i \in Matches(disk_dir', Path(t)) :
         thread[t].crtblk \in Chain(disk_map', disk_dir'[i].first_block)]_vars

(* do_rename, unless its index is stale: the new name has what the old one
   had, whether or not a file of that name was removed, and the old name is
   gone (ssfs.c:357-372). *)
RenameMoves ==
  [][\A t \in Thread, o, n \in Name :
       /\ RenameSave(t) /\ ~damaged
       /\ thread[t].call = [op |-> "rename", path |-> o, npath |-> n]
       => OnDisk(n)' = OnDisk(o) /\ OnDisk(o)' = {}]_vars

(* Every call returns: the loops that follow block lists end (ssfs.c:236-255,
   332-339), unless the lists are damaged. *)
CallsReturn == \A t \in Thread : thread[t] # Idle ~> damaged \/ thread[t] = Idle

-------------------------------------------------------------------------------
(* What a comment in the code says of it, and it does not do. *)

(* "must save directory changes to disk!" (ssfs.c:421): a file is in the
   directory when do_create returns 0. *)
CreateIsSaved ==
  [][\A t \in Thread : CreateSave(t) => Exists(disk_dir', Path(t))]_vars
================================================================================
