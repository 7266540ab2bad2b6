------------------------------ MODULE ListHeap -------------------------------
(***************************************************************************)
(* The allocators of project/mem_luke.c and project/memory.c: both put a   *)
(* block behind the last one with sbrk and link it to the list.  mem_luke  *)
(* also gives freed blocks out again and merges neighbours; memory.c has   *)
(* an empty free.                                                          *)
(***************************************************************************)
EXTENDS Integers, Sequences, SequencesExt

CONSTANTS
  HEADER,      \* sizeof(list_t)
  HeapLimit,   \* bytes sbrk can give
  Size         \* what the program asks for

VARIABLES
  library,    \* which of the two is linked to the program
  blocks,     \* the list that head points to: addr, size and vacant of each
  brk,        \* first byte behind the heap
  live,       \* history: what the program holds
  asked,      \* history: sizes asked for so far
  oversold,   \* history: a block was given out for more than its size
  crashed     \* a header was written where sbrk had failed to make room

vars == <<library, blocks, brk, live, asked, oversold, crashed>>

TypeOK ==
  /\ library \in {"mem_luke", "memory"}
  /\ blocks \in Seq([addr : Nat, size : Nat, vacant : BOOLEAN])
  /\ brk \in 0 .. HeapLimit
  /\ live \subseteq [addr : Nat, size : Nat]
  /\ asked \subseteq Size
  /\ oversold \in BOOLEAN
  /\ crashed \in BOOLEAN

Init ==
  /\ library \in {"mem_luke", "memory"}
  /\ blocks = <<>>
  /\ brk = 0
  /\ live = {}
  /\ asked = {}
  /\ oversold = FALSE
  /\ crashed = FALSE

-------------------------------------------------------------------------------
(* merge_list: a vacant block swallows the vacant ones that follow it *)
Swallow_NoHeader(a, b) == [a EXCEPT !.size = @ + b.size]
Swallow_HeaderTwice(a, b) == [a EXCEPT !.size = @ + b.size + 2 * HEADER]
Swallow(a, b) == [a EXCEPT !.size = @ + b.size + HEADER]

Merge(merged, b) ==
  IF merged # <<>> /\ Last(merged).vacant /\ b.vacant
    THEN Front(merged) \o <<Swallow(Last(merged), b)>>
    ELSE Append(merged, b)

merge_list(bs) == FoldLeft(Merge, <<>>, bs)

(* first_free_block: the size does not matter; nothing is vacant in memory.c *)
Vacant(bs) == SelectInSeq(bs, LAMBDA b : b.vacant)

(* the list, the block given out and the end of the heap after malloc *)
Malloc(size) ==
  LET i == Vacant(blocks)
  IN  IF i # 0
        THEN [list |-> [blocks EXCEPT ![i].vacant = FALSE], given |-> blocks[i], brk |-> brk]
        ELSE LET new == [addr |-> brk, size |-> size, vacant |-> FALSE]
             IN  [list |-> Append(blocks, new), given |-> new, brk |-> brk + HEADER + size]

Payload(b) == b.addr + HEADER
Given(size) == [addr |-> Payload(Malloc(size).given), size |-> size]

(* the list after free *)
Freed(bs, a) ==
  IF library = "memory" THEN bs
  ELSE merge_list([i \in DOMAIN bs |->
         IF Payload(bs[i]) = a THEN [bs[i] EXCEPT !.vacant = TRUE] ELSE bs[i]])

(* nothing is said of a program that writes over the headers of others *)
Following == ~oversold /\ ~crashed

(* malloc, and calloc, which clears the bytes asked for *)
Allocate(size) ==
  /\ Following
  /\ Malloc(size).brk <= HeapLimit
  /\ blocks' = Malloc(size).list
  /\ brk' = Malloc(size).brk
  /\ live' = live \cup {Given(size)}
  /\ asked' = asked \cup {size}
  /\ oversold' = (Malloc(size).given.size < size)
  /\ UNCHANGED <<library, crashed>>

Free(b) ==
  /\ Following
  /\ blocks' = Freed(blocks, b.addr)
  /\ live' = live \ {b}
  /\ UNCHANGED <<library, brk, asked, oversold, crashed>>

(* The new block is taken before the old one is vacant.  If it is too small,
   memmove writes over the header behind it before free reads the list. *)
Realloc(b, size) ==
  /\ Following
  /\ Malloc(size).brk <= HeapLimit
  /\ oversold' = (Malloc(size).given.size < size)
  /\ blocks' = IF oversold' THEN Malloc(size).list ELSE Freed(Malloc(size).list, b.addr)
  /\ brk' = Malloc(size).brk
  /\ live' = (live \ {b}) \cup {Given(size)}
  /\ asked' = asked \cup {size}
  /\ UNCHANGED <<library, crashed>>

(* sbrk returns -1 as a pointer, which !req does not notice *)
HeapFull(size) ==
  /\ Following
  /\ Malloc(size).brk > HeapLimit
  /\ crashed' = TRUE
  /\ UNCHANGED <<library, blocks, brk, live, asked, oversold>>

Next ==
  \/ \E size \in Size : Allocate(size) \/ HeapFull(size)
  \/ \E b \in live : Free(b) \/ \E size \in Size : Realloc(b, size)

Spec == Init /\ [][Next]_vars
-------------------------------------------------------------------------------
(* Properties. *)

(* The blocks fill the heap without a gap, whatever was merged: merge_list adds
   sizes (mem_luke.c:39) and is right only if the next block in the list is the
   next in memory. *)
HeapFilled ==
  \A i \in DOMAIN blocks :
    Payload(blocks[i]) + blocks[i].size =
      IF i = Len(blocks) THEN brk ELSE blocks[i + 1].addr

(* After each call no two vacant blocks are neighbours (mem_luke.c:30-46). *)
FullyMerged ==
  \A i \in 2 .. Len(blocks) : ~(blocks[i - 1].vacant /\ blocks[i].vacant)

(* The list is what the heap is, after every merge: no bytes are lost or
   counted twice, and no two vacant blocks are left apart (mem_luke.c:30-46). *)
HeapMerged == HeapFilled /\ FullyMerged

(* The program's blocks and their headers are apart, unless one was given out
   for a request that is larger than another one before it: first_free_block
   looks for a vacant block of any size (mem_luke.c:48-55). *)
ApartUnlessLarger ==
  IF oversold THEN \E b \in live, s \in asked : s < b.size
  ELSE \A b, c \in live : b.addr < c.addr => b.addr + b.size <= c.addr - HEADER
=============================================================================
