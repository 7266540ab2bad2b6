-------------------------------- MODULE Dude --------------------------------
(***************************************************************************)
(* The allocator of project/dude.c: a list of blocks in the order of their *)
(* addresses, the first free one that is large enough, or a new one at the *)
(* end of the heap.  Sizes are those of size_t and wrap around.            *)
(***************************************************************************)
EXTENDS Integers, Sequences

CONSTANTS
  ALIGNMENT,
  META_SIZE,   \* bytes of a block's header
  WORD,        \* number of values of a size_t
  HeapLimit,   \* bytes sbrk can give
  Size,        \* what the program asks for
  NULL

ASSUME DudeAssumption ==
  /\ ALIGNMENT \in Nat \ {0}
  /\ META_SIZE \in Nat \ {0}
  /\ HeapLimit \in Nat
  /\ WORD \in Nat \ {0}
  /\ Size \subseteq 0 .. WORD - 1
  /\ NULL \notin Int

VARIABLES
  blocks,   \* the list that base points to: addr, size and in_use of each
  brk,      \* first byte behind the heap
  live,     \* history: what the program holds
  result,   \* what the last call of malloc returned
  short,    \* history: a block was made for which the heap did not grow enough
  failed    \* the assertion in free has failed

vars == <<blocks, brk, live, result, short, failed>>

TypeOK ==
  /\ blocks \in Seq([addr : 0 .. HeapLimit, size : Size \ {0}, in_use : BOOLEAN])
  /\ brk \in 0 .. HeapLimit
  /\ live \subseteq [addr : Int, size : Size \ {0}]
  /\ result \in Int \cup {NULL}
  /\ short \in BOOLEAN
  /\ failed \in BOOLEAN

Init ==
  /\ blocks = <<>>
  /\ brk = 0
  /\ live = {}
  /\ result = NULL
  /\ short = FALSE
  /\ failed = FALSE

-------------------------------------------------------------------------------
(* ALIGN, in the arithmetic of size_t *)
ALIGN_Down(n) == (n % WORD) - ((n % WORD) % ALIGNMENT)
ALIGN(n) == ((n + ALIGNMENT - 1) % WORD) - (((n + ALIGNMENT - 1) % WORD) % ALIGNMENT)

Needed(size) == ALIGN((size + META_SIZE) % WORD)

(* sbrk takes a signed number: the upper half of size_t shrinks the heap *)
Increment(size) == IF 2 * Needed(size) < WORD THEN Needed(size) ELSE Needed(size) - WORD

Break(size) == brk + Increment(size)

Payload(b) == b.addr + META_SIZE

Valid(size) == size > 0

(* find_block *)
Fits_AnySize(b, size) == ~b.in_use
Fits(b, size) == ~b.in_use /\ b.size >= size

Fitting(size) == {i \in DOMAIN blocks : Fits(blocks[i], size)}

Give(a, size) ==
  /\ result' = a
  /\ live' = live \cup {[addr |-> a, size |-> size]}

Following == ~short /\ ~failed

Reuse(size) ==
  /\ Following
  /\ Valid(size)
  /\ \E i \in Fitting(size) :
       /\ \A j \in Fitting(size) : i <= j
       /\ blocks' = [blocks EXCEPT ![i].in_use = TRUE]
       /\ Give(Payload(blocks[i]), size)
  /\ UNCHANGED <<brk, short, failed>>

(* allocate_space *)
Grow(size) ==
  /\ Following
  /\ Valid(size) /\ Fitting(size) = {}
  /\ Break(size) \in 0 .. HeapLimit
  /\ brk' = Break(size)
  /\ blocks' = Append(blocks, [addr |-> brk, size |-> size, in_use |-> TRUE])
  /\ Give(brk + META_SIZE, size)
  /\ short' = (Break(size) < brk + META_SIZE + size)
  /\ UNCHANGED failed

NoBlock(size) ==
  /\ Following
  /\ \/ ~Valid(size)
     \/ Fitting(size) = {} /\ Break(size) \notin 0 .. HeapLimit
  /\ result' = NULL
  /\ UNCHANGED <<blocks, brk, live, short, failed>>

(* free of a block the program holds *)
Free(b) ==
  /\ Following
  /\ \E i \in DOMAIN blocks :
       /\ Payload(blocks[i]) = b.addr
       /\ failed' = ~blocks[i].in_use
       /\ blocks' = [blocks EXCEPT ![i].in_use = FALSE]
  /\ live' = live \ {b}
  /\ UNCHANGED <<brk, result, short>>

Next ==
  \/ \E size \in Size : Reuse(size) \/ Grow(size) \/ NoBlock(size)
  \/ \E b \in live : Free(b)

Spec == Init /\ [][Next]_vars
-------------------------------------------------------------------------------
(* Properties. *)

(* Blocks follow one another without overlapping, up to the end of the heap *)
Laid ==
  \A i \in DOMAIN blocks :
    /\ Payload(blocks[i]) + blocks[i].size <= brk
    /\ \A j \in i + 1 .. Len(blocks) :
         Payload(blocks[i]) + blocks[i].size <= blocks[j].addr

(* What the program holds it has got from a block in use that is as large as
   it asked for, and no two hold the same one (dude.c:73-85). *)
HeldBlocks ==
  /\ \A b \in live : \E i \in DOMAIN blocks :
       /\ Payload(blocks[i]) = b.addr
       /\ b.size <= blocks[i].size
       /\ blocks[i].in_use
  /\ \A b, c \in live : b.addr = c.addr => b = c

(* As long as the heap grew by what each new block needs, blocks do not
   overlap, and the program's own are apart (dude.c:27-85). *)
BlocksApart == ~short => Laid /\ HeldBlocks

(* The assertion of free (dude.c:92) does not fail for a block the program
   holds. *)
AssertionHolds == ~failed

(* The sum of size and header wraps around (dude.c:58) only for requests
   near the largest or beyond half of the address space. *)
ShortOnlyIfHuge ==
  short => \E b \in live : 2 * (b.size + META_SIZE + ALIGNMENT) > WORD

Promise == INSTANCE Allocator

(* dude.c keeps the promise of malloc, as long as the heap grows by what each
   new block needs (dude.c:27-94). *)
DudeIsAllocator == Promise!Spec
=============================================================================
