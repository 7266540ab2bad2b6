---------------------------- MODULE AllocatorProofs ----------------------------
(***************************************************************************)
(* Proofs about the allocators of project/: about Dude for every alignment, *)
(* header, width of size_t, heap and set of sizes; and about ListHeap, as   *)
(* the instance MCAllocators makes of it, for every header, heap and set of *)
(* sizes.                                                                   *)
(***************************************************************************)
EXTENDS MCAllocators, SequenceTheorems, WellFoundedInduction, TLAPS

-------------------------------------------------------------------------------
(* Dude. *)

Block == [addr : 0 .. HeapLimit, size : Size \ {0}, in_use : BOOLEAN]

(* The inductive invariant of Dude: blocks in the order of their addresses tell
   one block from another by its address, which HeldBlocks needs, and HeldBlocks
   says that free finds the block it is given in use. *)
IInv == TypeOK /\ BlocksApart /\ AssertionHolds

-------------------------------------------------------------------------------
(* Lemmas. *)

(* A size the program may ask for is a number. *)
LEMMA SizeTyped ==
  ASSUME NEW n \in Size \ {0}
  PROVE  n \in Nat /\ n > 0
  BY DudeAssumption

(* Numbers: the fields of a block. *)
LEMMA BlockTyped ==
  ASSUME TypeOK, NEW i \in DOMAIN blocks
  PROVE  /\ blocks[i] \in Block
         /\ blocks[i].addr \in Nat /\ blocks[i].size \in Nat /\ blocks[i].size > 0
         /\ Payload(blocks[i]) \in Nat
<1>1. blocks \in Seq(Block)
  BY DEF TypeOK, Block
<1>2. blocks[i] \in Block
  BY <1>1
<1>3. blocks[i].addr \in 0 .. HeapLimit /\ blocks[i].size \in Size \ {0}
  BY <1>2 DEF Block
<1>4. blocks[i].size \in Nat /\ blocks[i].size > 0
  BY <1>3, SizeTyped
<1>5. QED
  BY <1>2, <1>3, <1>4, DudeAssumption DEF Payload

(* Two blocks of a laid out heap have different addresses. *)
LEMMA PayloadTellsBlocks ==
  ASSUME TypeOK, Laid, NEW i \in DOMAIN blocks, NEW j \in DOMAIN blocks,
         Payload(blocks[i]) = Payload(blocks[j])
  PROVE  i = j
<1>1. ASSUME NEW k \in DOMAIN blocks, NEW m \in DOMAIN blocks, k < m
      PROVE  Payload(blocks[k]) < Payload(blocks[m])
  <2>1. m \in k + 1 .. Len(blocks)
    BY <1>1 DEF TypeOK
  <2>2. Payload(blocks[k]) + blocks[k].size <= blocks[m].addr
    BY <2>1 DEF Laid
  <2>3. QED
    BY <2>2, BlockTyped, DudeAssumption DEF Payload
<1>2. i \in Int /\ j \in Int /\ Payload(blocks[i]) \in Int
  BY BlockTyped DEF TypeOK
<1>3. ~(i < j) /\ ~(j < i)
  BY <1>1, <1>2
<1>4. QED
  BY <1>2, <1>3

(* Setting the flag of a block leaves the layout as it is. *)
LEMMA FlagKeepsLayout ==
  ASSUME TypeOK, NEW i \in DOMAIN blocks, NEW flag \in BOOLEAN,
         blocks' = [blocks EXCEPT ![i].in_use = flag]
  PROVE  /\ blocks' \in Seq(Block) /\ DOMAIN blocks' = DOMAIN blocks
         /\ \A j \in DOMAIN blocks :
              /\ Payload(blocks'[j]) = Payload(blocks[j])
              /\ blocks'[j].size = blocks[j].size
              /\ blocks'[j].addr = blocks[j].addr
              /\ blocks'[j].in_use = IF j = i THEN flag ELSE blocks[j].in_use
         /\ brk' = brk /\ Laid => Laid'
<1>1. blocks \in Seq(Block) /\ DOMAIN blocks = 1 .. Len(blocks) /\ Len(blocks) \in Nat
  BY DEF TypeOK, Block
<1>2. /\ DOMAIN blocks' = DOMAIN blocks
      /\ \A j \in DOMAIN blocks :
           blocks'[j] = IF j = i THEN [blocks[i] EXCEPT !.in_use = flag] ELSE blocks[j]
  OBVIOUS
<1>3. \A j \in DOMAIN blocks : blocks[j] \in Block
  BY BlockTyped
<1>4. [blocks[i] EXCEPT !.in_use = flag] \in Block
  BY <1>3 DEF Block
<1>5. \A j \in DOMAIN blocks : blocks'[j] \in Block
  BY <1>2, <1>3, <1>4
<1>6. blocks' \in Seq(Block) /\ Len(blocks') = Len(blocks)
  BY <1>1, <1>2, <1>5
<1>7. \A j \in DOMAIN blocks :
        /\ blocks'[j].size = blocks[j].size
        /\ blocks'[j].addr = blocks[j].addr
        /\ blocks'[j].in_use = IF j = i THEN flag ELSE blocks[j].in_use
  BY <1>2, <1>3 DEF Block
<1>8. \A j \in DOMAIN blocks : Payload(blocks'[j]) = Payload(blocks[j])
  BY <1>7 DEF Payload
<1>9. ASSUME brk' = brk, Laid
      PROVE  Laid'
  <2>1. ASSUME NEW j \in DOMAIN blocks', NEW k \in j + 1 .. Len(blocks')
        PROVE  Payload(blocks'[j]) + blocks'[j].size <= blocks'[k].addr
    <3>1. j \in DOMAIN blocks /\ k \in DOMAIN blocks /\ k \in j + 1 .. Len(blocks)
      BY <1>1, <1>2, <1>6
    <3>2. Payload(blocks[j]) + blocks[j].size <= blocks[k].addr
      BY <1>9, <3>1 DEF Laid
    <3>3. QED
      BY <1>7, <1>8, <3>1, <3>2
  <2>2. \A j \in DOMAIN blocks' : Payload(blocks'[j]) + blocks'[j].size <= brk'
    BY <1>2, <1>7, <1>8, <1>9 DEF Laid
  <2>3. QED
    BY <2>1, <2>2 DEF Laid
<1>10. QED
  BY <1>2, <1>6, <1>7, <1>8, <1>9

(* A new block lies behind the others. *)
LEMMA GrowAppends ==
  ASSUME TypeOK, NEW size \in Size, Grow(size)
  PROVE  /\ blocks' \in Seq(Block)
         /\ DOMAIN blocks' = 1 .. Len(blocks) + 1
         /\ \A j \in DOMAIN blocks : blocks'[j] = blocks[j]
         /\ blocks'[Len(blocks) + 1] = [addr |-> brk, size |-> size, in_use |-> TRUE]
<1>1. blocks \in Seq(Block)
  BY DEF TypeOK, Block
<1>2. [addr |-> brk, size |-> size, in_use |-> TRUE] \in Block
  BY DudeAssumption DEF TypeOK, Block, Grow, Valid
<1>3. blocks' = Append(blocks, [addr |-> brk, size |-> size, in_use |-> TRUE])
  BY DEF Grow
<1> HIDE DEF Block
<1>4. QED
  BY <1>1, <1>2, <1>3

(* What the program is given is new and apart from what it holds. *)
LEMMA GivenIsApart ==
  ASSUME IInv, ~short, NEW size \in Size, Reuse(size) \/ Grow(size)
  PROVE  \E b \in [addr : Int, size : Size \ {0}] :
           /\ b.size = size /\ live' = live \cup {b}
           /\ \A c \in live : c.addr # b.addr
                           /\ (b.addr + b.size <= c.addr \/ c.addr + c.size <= b.addr)
<1>1. TypeOK /\ Laid /\ HeldBlocks
  BY DEF IInv, BlocksApart
<1>2. size \in Size \ {0} /\ size \in Nat /\ size > 0
  BY DudeAssumption DEF Reuse, Grow, Valid
<1>3. \A c \in live : c.addr \in Int /\ c.size \in Nat /\ c.size > 0
  <2>1. \A c \in live : c.addr \in Int /\ c.size \in Size \ {0}
    BY <1>1 DEF TypeOK
  <2>2. QED
    BY <2>1, SizeTyped
<1>4. CASE Reuse(size)
  <2>1. PICK i \in DOMAIN blocks :
          /\ ~blocks[i].in_use /\ blocks[i].size >= size
          /\ live' = live \cup {[addr |-> Payload(blocks[i]), size |-> size]}
    BY <1>4 DEF Reuse, Fitting, Fits, Give
  <2> DEFINE b == [addr |-> Payload(blocks[i]), size |-> size]
  <2>2. b \in [addr : Int, size : Size \ {0}]
    BY <1>1, <1>2, BlockTyped
  <2>3. ASSUME NEW c \in live
        PROVE  /\ c.addr # b.addr
               /\ b.addr + b.size <= c.addr \/ c.addr + c.size <= b.addr
    <3>1. PICK j \in DOMAIN blocks :
            Payload(blocks[j]) = c.addr /\ c.size <= blocks[j].size /\ blocks[j].in_use
      BY <1>1 DEF HeldBlocks
    <3>2. i # j /\ i \in Int /\ j \in Int /\ i <= Len(blocks) /\ j <= Len(blocks)
      BY <1>1, <2>1, <3>1 DEF TypeOK
    <3>3. CASE i < j
      <4>1. Payload(blocks[i]) + blocks[i].size <= blocks[j].addr
        BY <1>1, <3>2, <3>3 DEF Laid
      <4>2. QED
        BY <1>1, <1>2, <1>3, <2>1, <3>1, <4>1, BlockTyped, DudeAssumption DEF Payload
    <3>4. CASE j < i
      <4>1. Payload(blocks[j]) + blocks[j].size <= blocks[i].addr
        BY <1>1, <3>2, <3>4 DEF Laid
      <4>2. QED
        BY <1>1, <1>2, <1>3, <2>1, <3>1, <4>1, BlockTyped, DudeAssumption DEF Payload
    <3>5. QED
      BY <3>2, <3>3, <3>4
  <2>4. QED
    BY <2>1, <2>2, <2>3
<1>5. CASE Grow(size)
  <2> DEFINE b == [addr |-> brk + META_SIZE, size |-> size]
  <2>1. live' = live \cup {b}
    BY <1>5 DEF Grow, Give
  <2>2. b \in [addr : Int, size : Size \ {0}]
    BY <1>1, <1>2, DudeAssumption DEF TypeOK
  <2>3. ASSUME NEW c \in live
        PROVE  c.addr # b.addr /\ c.addr + c.size <= b.addr
    <3>1. PICK j \in DOMAIN blocks :
            Payload(blocks[j]) = c.addr /\ c.size <= blocks[j].size
      BY <1>1 DEF HeldBlocks
    <3>2. Payload(blocks[j]) + blocks[j].size <= brk
      BY <1>1 DEF Laid
    <3>3. QED
      BY <1>1, <1>3, <3>1, <3>2, BlockTyped, DudeAssumption DEF TypeOK
  <2>4. QED
    BY <2>1, <2>2, <2>3
<1>6. QED
  BY <1>4, <1>5

-------------------------------------------------------------------------------
(* The invariant is inductive. *)

LEMMA InitInvariant == Init => IInv
<1> SUFFICES ASSUME Init
             PROVE  IInv
  OBVIOUS
<1>1. DOMAIN blocks = {}
  BY DEF Init
<1>2. TypeOK
  <2>1. blocks \in Seq(Block)
    BY DEF Init
  <2>2. brk \in 0 .. HeapLimit
    BY DudeAssumption DEF Init
  <2>3. blocks \in Seq([addr : 0 .. HeapLimit, size : Size \ {0}, in_use : BOOLEAN])
    BY <2>1 DEF Block
  <2>4. QED
    BY <2>2, <2>3 DEF Init, TypeOK
<1>3. Laid
  BY <1>1 DEF Laid
<1>4. HeldBlocks
  BY DEF Init, HeldBlocks
<1>5. QED
  BY <1>2, <1>3, <1>4 DEF Init, IInv, BlocksApart, AssertionHolds

LEMMA ReusePreserves ==
  ASSUME IInv, NEW size \in Size, Reuse(size)
  PROVE  IInv'
<1>1. /\ TypeOK /\ Laid /\ HeldBlocks /\ ~short /\ ~failed
      /\ brk' = brk /\ short' = short /\ failed' = failed
  BY DEF IInv, BlocksApart, Reuse, Following
<1>2. PICK i \in DOMAIN blocks :
        /\ ~blocks[i].in_use /\ blocks[i].size >= size
        /\ blocks' = [blocks EXCEPT ![i].in_use = TRUE]
        /\ Give(Payload(blocks[i]), size)
  BY DEF Reuse, Fitting, Fits
<1>3. /\ blocks' \in Seq(Block) /\ DOMAIN blocks' = DOMAIN blocks
      /\ \A j \in DOMAIN blocks :
           /\ Payload(blocks'[j]) = Payload(blocks[j])
           /\ blocks'[j].size = blocks[j].size
           /\ blocks'[j].in_use = IF j = i THEN TRUE ELSE blocks[j].in_use
      /\ Laid'
  BY <1>1, <1>2, FlagKeepsLayout
<1> DEFINE b == [addr |-> Payload(blocks[i]), size |-> size]
<1>4. live' = live \cup {b} /\ result' = Payload(blocks[i])
  BY <1>2 DEF Give
<1>5. b \in [addr : Int, size : Size \ {0}] /\ Payload(blocks[i]) \in Int
  BY <1>1, BlockTyped, DudeAssumption DEF Reuse, Valid
<1>6. TypeOK'
  BY <1>1, <1>3, <1>4, <1>5 DEF TypeOK, Block
<1>7. \A c \in live : c.addr # b.addr
  <2>1. ASSUME NEW c \in live, c.addr = b.addr
        PROVE  FALSE
    <3>1. PICK j \in DOMAIN blocks : Payload(blocks[j]) = c.addr /\ blocks[j].in_use
      BY <1>1 DEF HeldBlocks
    <3>2. QED
      BY <1>1, <1>2, <2>1, <3>1, PayloadTellsBlocks
  <2>2. QED
    BY <2>1
<1>8. ASSUME NEW c \in live'
      PROVE  \E j \in DOMAIN blocks' :
               /\ Payload(blocks'[j]) = c.addr
               /\ c.size <= blocks'[j].size
               /\ blocks'[j].in_use
  <2>1. CASE c \in live
    <3>1. PICK j \in DOMAIN blocks :
            Payload(blocks[j]) = c.addr /\ c.size <= blocks[j].size /\ blocks[j].in_use
      BY <1>1, <2>1 DEF HeldBlocks
    <3>2. QED
      BY <1>3, <3>1
  <2>2. CASE c = b
    <3>1. size <= blocks[i].size
      BY <1>1, <1>2, BlockTyped, DudeAssumption
    <3>2. QED
      BY <1>3, <2>2, <3>1
  <2>3. QED
    BY <1>4, <2>1, <2>2
<1>9. \A c, d \in live' : c.addr = d.addr => c = d
  BY <1>1, <1>4, <1>7 DEF HeldBlocks
<1>10. QED
  BY <1>1, <1>3, <1>6, <1>8, <1>9 DEF IInv, BlocksApart, HeldBlocks, AssertionHolds

LEMMA GrowPreserves ==
  ASSUME IInv, NEW size \in Size, Grow(size)
  PROVE  IInv'
<1>1. /\ TypeOK /\ Laid /\ HeldBlocks /\ ~short /\ ~failed /\ failed' = failed
      /\ brk' = Break(size) /\ brk' \in 0 .. HeapLimit
      /\ short' = (brk' < brk + META_SIZE + size)
      /\ result' = brk + META_SIZE
  BY DEF IInv, BlocksApart, Grow, Following, Give
<1>2. /\ blocks' \in Seq(Block)
      /\ DOMAIN blocks' = 1 .. Len(blocks) + 1
      /\ \A j \in DOMAIN blocks : blocks'[j] = blocks[j]
      /\ blocks'[Len(blocks) + 1] = [addr |-> brk, size |-> size, in_use |-> TRUE]
  BY <1>1, GrowAppends
<1> DEFINE b == [addr |-> brk + META_SIZE, size |-> size]
           last == Len(blocks) + 1
<1>3. live' = live \cup {b}
  BY DEF Grow, Give
<1>4. /\ brk \in Nat /\ brk' \in Nat /\ size \in Nat /\ size > 0 /\ META_SIZE \in Nat
      /\ size \in Size \ {0} /\ Len(blocks) \in Nat /\ DOMAIN blocks = 1 .. Len(blocks)
  BY <1>1, DudeAssumption DEF TypeOK, Grow, Valid
<1>5. TypeOK'
  BY <1>1, <1>2, <1>3, <1>4 DEF TypeOK, Block
<1>6. Len(blocks') = last
  BY <1>2, <1>4
<1>7. /\ last \in DOMAIN blocks' /\ Payload(blocks'[last]) = b.addr
      /\ blocks'[last].size = size /\ blocks'[last].in_use /\ blocks'[last].addr = brk
  BY <1>2, <1>4 DEF Payload
<1>8. ASSUME ~short'
      PROVE  Laid'
  <2>1. b.addr + size <= brk'
    <3>1. ~(brk' < brk + META_SIZE + size)
      BY <1>1, <1>8
    <3>2. b.addr = brk + META_SIZE
      OBVIOUS
    <3> HIDE DEF b
    <3>3. QED
      BY <1>4, <3>1, <3>2
  <2>2. \A j \in DOMAIN blocks :
          /\ Payload(blocks[j]) + blocks[j].size <= brk
          /\ Payload(blocks[j]) \in Int /\ blocks[j].size \in Int
    BY <1>1, BlockTyped DEF Laid
  <2>3. \A j \in DOMAIN blocks' : Payload(blocks'[j]) + blocks'[j].size <= brk'
    <3> SUFFICES ASSUME NEW j \in DOMAIN blocks'
                 PROVE  Payload(blocks'[j]) + blocks'[j].size <= brk'
      OBVIOUS
    <3>1. CASE j = last
      BY <1>7, <2>1, <3>1
    <3>2. CASE j \in DOMAIN blocks
      BY <1>2, <1>4, <2>1, <2>2, <3>2
    <3>3. QED
      BY <1>2, <1>4, <3>1, <3>2
  <2>4. ASSUME NEW j \in DOMAIN blocks', NEW k \in j + 1 .. Len(blocks')
        PROVE  Payload(blocks'[j]) + blocks'[j].size <= blocks'[k].addr
    <3>1. j \in DOMAIN blocks
      BY <1>2, <1>4, <1>6
    <3>2. CASE k = last
      BY <1>2, <1>7, <2>2, <3>1, <3>2
    <3>3. CASE k # last
      <4>1. k \in j + 1 .. Len(blocks) /\ k \in DOMAIN blocks
        BY <1>4, <1>6, <3>1, <3>3
      <4>2. QED
        BY <1>1, <1>2, <3>1, <4>1 DEF Laid
    <3>4. QED
      BY <3>2, <3>3
  <2>5. QED
    BY <2>3, <2>4 DEF Laid
<1>9. \A c \in live : c.addr # b.addr
  <2>1. ASSUME NEW c \in live
        PROVE  c.addr < b.addr
    <3>1. PICK j \in DOMAIN blocks : Payload(blocks[j]) = c.addr
      BY <1>1 DEF HeldBlocks
    <3>2. Payload(blocks[j]) + blocks[j].size <= brk
      BY <1>1 DEF Laid
    <3>3. QED
      BY <1>1, <1>4, <3>1, <3>2, BlockTyped, DudeAssumption
  <2>2. QED
    BY <2>1, <1>4
<1>10. ASSUME NEW c \in live'
       PROVE  \E j \in DOMAIN blocks' :
                /\ Payload(blocks'[j]) = c.addr
                /\ c.size <= blocks'[j].size
                /\ blocks'[j].in_use
  <2>1. CASE c \in live
    <3>1. PICK j \in DOMAIN blocks :
            Payload(blocks[j]) = c.addr /\ c.size <= blocks[j].size /\ blocks[j].in_use
      BY <1>1, <2>1 DEF HeldBlocks
    <3>2. j \in DOMAIN blocks' /\ blocks'[j] = blocks[j]
      BY <1>2, <1>4
    <3>3. QED
      BY <3>1, <3>2
  <2>2. CASE c = b
    BY <1>4, <1>7, <2>2
  <2>3. QED
    BY <1>3, <2>1, <2>2
<1>11. \A c, d \in live' : c.addr = d.addr => c = d
  BY <1>1, <1>3, <1>9 DEF HeldBlocks
<1>12. QED
  BY <1>1, <1>5, <1>8, <1>10, <1>11 DEF IInv, BlocksApart, HeldBlocks, AssertionHolds

LEMMA FreePreserves ==
  ASSUME IInv, NEW b \in live, Free(b)
  PROVE  IInv'
<1>1. /\ TypeOK /\ Laid /\ HeldBlocks /\ ~short /\ ~failed
      /\ brk' = brk /\ short' = short /\ result' = result /\ live' = live \ {b}
  BY DEF IInv, BlocksApart, Free, Following
<1>2. PICK i \in DOMAIN blocks :
        /\ Payload(blocks[i]) = b.addr
        /\ failed' = ~blocks[i].in_use
        /\ blocks' = [blocks EXCEPT ![i].in_use = FALSE]
  BY DEF Free
<1>3. /\ blocks' \in Seq(Block) /\ DOMAIN blocks' = DOMAIN blocks
      /\ \A j \in DOMAIN blocks :
           /\ Payload(blocks'[j]) = Payload(blocks[j])
           /\ blocks'[j].size = blocks[j].size
           /\ blocks'[j].in_use = IF j = i THEN FALSE ELSE blocks[j].in_use
      /\ Laid'
  BY <1>1, <1>2, FlagKeepsLayout
<1>4. ~failed'
  <2>1. PICK j \in DOMAIN blocks : Payload(blocks[j]) = b.addr /\ blocks[j].in_use
    BY <1>1 DEF HeldBlocks
  <2>2. QED
    BY <1>1, <1>2, <2>1, PayloadTellsBlocks
<1>5. TypeOK'
  <2>1. blocks' \in Seq([addr : 0 .. HeapLimit, size : Size \ {0}, in_use : BOOLEAN])
    BY <1>3 DEF Block
  <2>2. failed' = FALSE
    BY <1>2, <1>4
  <2>3. QED
    BY <1>1, <2>1, <2>2 DEF TypeOK
<1>6. ASSUME NEW c \in live'
      PROVE  \E j \in DOMAIN blocks' :
               /\ Payload(blocks'[j]) = c.addr
               /\ c.size <= blocks'[j].size
               /\ blocks'[j].in_use
  <2>1. c \in live /\ c.addr # b.addr
    BY <1>1 DEF HeldBlocks
  <2>2. PICK j \in DOMAIN blocks :
          Payload(blocks[j]) = c.addr /\ c.size <= blocks[j].size /\ blocks[j].in_use
    BY <1>1, <2>1 DEF HeldBlocks
  <2>3. j # i
    BY <1>2, <2>1, <2>2
  <2>4. QED
    BY <1>3, <2>2, <2>3
<1>7. \A c, d \in live' : c.addr = d.addr => c = d
  BY <1>1 DEF HeldBlocks
<1>8. QED
  BY <1>1, <1>3, <1>4, <1>5, <1>6, <1>7 DEF IInv, BlocksApart, HeldBlocks, AssertionHolds

LEMMA StepInvariant == IInv /\ [Next]_vars => IInv'
<1> SUFFICES ASSUME IInv, [Next]_vars
             PROVE  IInv'
  OBVIOUS
<1>1. ASSUME NEW size \in Size, NoBlock(size)
      PROVE  IInv'
  BY <1>1 DEF NoBlock, IInv, TypeOK, BlocksApart, Laid, HeldBlocks, AssertionHolds
<1>2. CASE UNCHANGED vars
  BY <1>2 DEF vars, IInv, TypeOK, BlocksApart, Laid, HeldBlocks, AssertionHolds
<1>3. QED
  BY <1>1, <1>2, ReusePreserves, GrowPreserves, FreePreserves DEF Next

THEOREM DudeInvariant == Spec => []IInv
  BY InitInvariant, StepInvariant, PTL DEF Spec

(* Blocks, and what the program was given of them, never overlap while the
   heap grows by what they need. *)
THEOREM BlocksStayApart == Spec => []BlocksApart
<1>1. IInv => BlocksApart
  BY DEF IInv
<1>2. QED
  BY <1>1, DudeInvariant, PTL

(* Freeing what malloc gave out never fails the assertion of free. *)
THEOREM AssertionAlwaysHolds == Spec => []AssertionHolds
<1>1. IInv => AssertionHolds
  BY DEF IInv
<1>2. QED
  BY <1>1, DudeInvariant, PTL

-------------------------------------------------------------------------------
(* The heap is too short only for a huge request. *)

(* Rounding up keeps what is asked for, unless it wraps around. *)
LEMMA AlignRoundsUp ==
  ASSUME NEW n \in Nat, n + ALIGNMENT <= WORD
  PROVE  ALIGN(n) \in Nat /\ n <= ALIGN(n) /\ ALIGN(n) < n + ALIGNMENT
<1> DEFINE m == n + ALIGNMENT - 1
<1>1. m \in Nat /\ m < WORD /\ ALIGNMENT \in Nat \ {0} /\ WORD \in Nat \ {0}
  BY DudeAssumption
<1>2. m % WORD = m
  BY <1>1
<1>3. m % ALIGNMENT \in 0 .. ALIGNMENT - 1 /\ m % ALIGNMENT <= m
  BY <1>1
<1>4. ALIGN(n) = m - (m % ALIGNMENT)
  BY <1>2 DEF ALIGN
<1>5. QED
  BY <1>1, <1>3, <1>4

(* The break moves by what a request of ordinary size needs. *)
LEMMA BreakCoversRequest ==
  ASSUME TypeOK, NEW size \in Size, 2 * (size + META_SIZE + ALIGNMENT) <= WORD
  PROVE  ~(Break(size) < brk + META_SIZE + size)
<1> DEFINE n == size + META_SIZE
<1>1. /\ size \in Nat /\ META_SIZE \in Nat /\ ALIGNMENT \in Nat \ {0} /\ WORD \in Nat \ {0}
      /\ brk \in Nat
  BY DudeAssumption DEF TypeOK
<1>2. n \in Nat /\ n + ALIGNMENT <= WORD /\ n < WORD /\ n % WORD = n
  BY <1>1
<1>3. ALIGN(n) \in Nat /\ n <= ALIGN(n) /\ ALIGN(n) < n + ALIGNMENT
  BY <1>2, AlignRoundsUp
<1>4. Needed(size) = ALIGN(n)
  BY <1>2 DEF Needed
<1>5. 2 * ALIGN(n) < WORD
  BY <1>1, <1>3
<1>6. Break(size) = brk + ALIGN(n)
  BY <1>4, <1>5 DEF Break, Increment
<1>7. QED
  BY <1>1, <1>3, <1>6

(* Once a block is short nothing is freed any more, so that the request that
   made it short is still among those the program holds. *)
THEOREM ShortBlockWasHuge == Spec => []ShortOnlyIfHuge
<1>1. Init => ShortOnlyIfHuge
  BY DEF Init, ShortOnlyIfHuge
<1>2. IInv /\ ShortOnlyIfHuge /\ [Next]_vars => ShortOnlyIfHuge'
  <2> SUFFICES ASSUME IInv, ShortOnlyIfHuge, [Next]_vars, short'
               PROVE  \E b \in live' : 2 * (b.size + META_SIZE + ALIGNMENT) > WORD
    BY DEF ShortOnlyIfHuge
  <2>1. ASSUME NEW size \in Size, Grow(size)
        PROVE  \E b \in live' : 2 * (b.size + META_SIZE + ALIGNMENT) > WORD
    <3>1. Break(size) < brk + META_SIZE + size
      BY <2>1 DEF Grow
    <3>2. size \in Nat /\ META_SIZE \in Nat /\ ALIGNMENT \in Nat /\ WORD \in Nat
      BY DudeAssumption
    <3>3. ~(2 * (size + META_SIZE + ALIGNMENT) <= WORD)
      BY <3>1, BreakCoversRequest DEF IInv
    <3>4. [addr |-> brk + META_SIZE, size |-> size] \in live'
      BY <2>1 DEF Grow, Give
    <3>5. 2 * (size + META_SIZE + ALIGNMENT) > WORD
      BY <3>2, <3>3
    <3>6. QED
      BY <3>4, <3>5
  <2>2. ASSUME NEW size \in Size, Reuse(size) \/ NoBlock(size)
        PROVE  FALSE
    BY <2>2 DEF Reuse, NoBlock, Following
  <2>3. ASSUME NEW b \in live, Free(b)
        PROVE  FALSE
    BY <2>3 DEF Free, Following
  <2>4. CASE UNCHANGED vars
    BY <2>4 DEF vars, ShortOnlyIfHuge
  <2>5. QED
    BY <2>1, <2>2, <2>3, <2>4 DEF Next
<1>3. QED
  BY <1>1, <1>2, DudeInvariant, PTL DEF Spec

-------------------------------------------------------------------------------
(* The allocator keeps its promise. *)

THEOREM DudeImplementsAllocator == Spec => DudeIsAllocator
<1>1. Init => Promise!Init
  BY DEF Init, Promise!Init
<1>2. IInv /\ [Next]_vars => [Promise!Next]_live
  <2> SUFFICES ASSUME IInv, Next, live' # live
               PROVE  Promise!Next
    BY DEF vars
  <2>1. ASSUME NEW size \in Size, Reuse(size) \/ Grow(size)
        PROVE  Promise!Malloc
    <3>1. ~short
      BY <2>1 DEF Reuse, Grow, Following
    <3>2. PICK b :
            /\ live' = live \cup {b}
            /\ \A c \in live : c.addr # b.addr
                            /\ (b.addr + b.size <= c.addr \/ c.addr + c.size <= b.addr)
      BY <2>1, <3>1, GivenIsApart
    <3>3. b \in live' \ live
      BY <3>2
    <3>4. QED
      BY <3>2, <3>3 DEF Promise!Malloc, Promise!Disjoint
  <2>2. ASSUME NEW b \in live, Free(b)
        PROVE  Promise!Free
    BY <2>2 DEF Free, Promise!Free
  <2>3. ASSUME NEW size \in Size, NoBlock(size)
        PROVE  FALSE
    BY <2>3 DEF NoBlock
  <2>4. QED
    BY <2>1, <2>2, <2>3 DEF Next, Promise!Next
<1>3. QED
  BY <1>1, <1>2, DudeInvariant, PTL DEF Spec, DudeIsAllocator, Promise!Spec

-------------------------------------------------------------------------------
(* ListHeap: what merge_list makes of a list. *)

ListBlock == [addr : Nat, size : Nat, vacant : BOOLEAN]

(* the bytes of a block end here *)
End(b) == LH!Payload(b) + b.size

(* Another last element. *)
LEMMA LastReplaced ==
  ASSUME NEW S, NEW m \in Seq(S), m # <<>>, NEW x \in S, NEW n,
         n = SubSeq(m, 1, Len(m) - 1) \o <<x>>
  PROVE  /\ n \in Seq(S) /\ Len(n) = Len(m)
         /\ \A i \in 1 .. Len(m) : n[i] = IF i = Len(m) THEN x ELSE m[i]
<1>1. PICK k : k = Len(m)
  OBVIOUS
<1>2. k \in Nat /\ k >= 1 /\ \A i \in 1 .. k : m[i] \in S
  BY <1>1
<1>3. PICK f : f = SubSeq(m, 1, k - 1)
  OBVIOUS
<1>4. \A i \in 1 .. k - 1 : m[i] \in S
  BY <1>2
<1>5. k - 1 \in Int /\ 1 \in Int
  BY <1>2
<1>6. /\ f \in Seq(S) /\ Len(f) = (IF 1 <= k - 1 THEN (k - 1) - 1 + 1 ELSE 0)
      /\ \A i \in 1 .. (k - 1) - 1 + 1 : f[i] = m[1 + i - 1]
  BY <1>3, <1>4, <1>5, SubSeqProperties
<1>7. Len(f) = k - 1
  BY <1>2, <1>6
<1>8. \A i \in 1 .. k - 1 : f[i] = m[i]
  BY <1>2, <1>6
<1>9. n = f \o <<x>> /\ <<x>> \in Seq(S) /\ Len(<<x>>) = 1 /\ <<x>>[1] = x
  BY <1>1, <1>3
<1>10. QED
  BY <1>1, <1>2, <1>6, <1>7, <1>8, <1>9, ConcatProperties

(* The block that has swallowed another. *)
LEMMA Swallowed ==
  ASSUME NEW a \in ListBlock, NEW b \in ListBlock
  PROVE  /\ LH!Swallow(a, b) \in ListBlock
         /\ LH!Swallow(a, b).addr = a.addr /\ LH!Swallow(a, b).vacant = a.vacant
         /\ LH!Swallow(a, b).size = a.size + b.size + META_SIZE
<1>1. a.size \in Nat /\ b.size \in Nat /\ META_SIZE \in Nat
  BY DudeAssumption DEF ListBlock
<1>2. PICK k : k = a.size + b.size + META_SIZE
  OBVIOUS
<1>3. k \in Nat
  BY <1>1, <1>2
<1>4. LH!Swallow(a, b) = [a EXCEPT !.size = k]
  BY <1>2, Zenon DEF LH!Swallow
<1>5. [a EXCEPT !.size = k] \in ListBlock
  BY <1>3 DEF ListBlock
<1>6. /\ [a EXCEPT !.size = k].addr = a.addr /\ [a EXCEPT !.size = k].vacant = a.vacant
      /\ [a EXCEPT !.size = k].size = k
  BY DEF ListBlock
<1>7. QED
  BY <1>2, <1>4, <1>5, <1>6

(* A merge of one more block: it is swallowed or put behind the others. *)
MergeShaped(m, b, n) ==
  /\ n \in Seq(ListBlock)
  /\ \/ /\ m # <<>> /\ m[Len(m)].vacant /\ b.vacant
        /\ Len(n) = Len(m) /\ n[Len(m)] = LH!Swallow(m[Len(m)], b)
     \/ /\ m = <<>> \/ ~m[Len(m)].vacant \/ ~b.vacant
        /\ Len(n) = Len(m) + 1 /\ n[Len(m) + 1] = b
  /\ \A i \in 1 .. Len(n) : i <= Len(m) /\ (i < Len(m) \/ Len(n) = Len(m) + 1) => n[i] = m[i]

LEMMA MergeShape ==
  ASSUME NEW m \in Seq(ListBlock), NEW b \in ListBlock
  PROVE  MergeShaped(m, b, LH!Merge(m, b))
<1>0. PICK n : n = LH!Merge(m, b)
  OBVIOUS
<1>1. META_SIZE \in Nat
  BY DudeAssumption
<1>2. CASE m # <<>> /\ m[Len(m)].vacant /\ b.vacant
  <2>1. Len(m) \in Nat /\ Len(m) >= 1 /\ m[Len(m)] \in ListBlock
    BY <1>2
  <2>2. PICK x : x = LH!Swallow(m[Len(m)], b)
    OBVIOUS
  <2>3. x \in ListBlock
    BY <1>1, <2>1, <2>2, Swallowed
  <2>4. n = SubSeq(m, 1, Len(m) - 1) \o <<x>>
    BY <1>0, <1>2, <2>2, Zenon DEF LH!Merge, LH!Last, LH!Front
  <2>5. n \in Seq(ListBlock) /\ Len(n) = Len(m)
    BY <1>2, <2>3, <2>4, LastReplaced
  <2>6. \A i \in 1 .. Len(m) : n[i] = IF i = Len(m) THEN x ELSE m[i]
    BY <1>2, <2>3, <2>4, LastReplaced
  <2>7. n[Len(m)] = x /\ \A i \in 1 .. Len(m) : i < Len(m) => n[i] = m[i]
    BY <2>1, <2>6
  <2> QED BY <1>0, <1>2, <2>1, <2>2, <2>5, <2>7 DEF MergeShaped
<1>3. CASE ~(m # <<>> /\ m[Len(m)].vacant /\ b.vacant)
  <2>1. n = Append(m, b)
    BY <1>0, <1>3, Zenon DEF LH!Merge, LH!Last
  <2>2. /\ n \in Seq(ListBlock) /\ Len(n) = Len(m) + 1 /\ n[Len(m) + 1] = b
        /\ \A i \in 1 .. Len(m) : n[i] = m[i]
    BY <2>1
  <2> QED BY <1>0, <1>3, <2>2 DEF MergeShaped
<1>4. QED
  BY <1>2, <1>3

(* merge_list is a fold over the indices of bs: a recursive function on sets of
   indices, which folds in the block with the largest index last. *)
MergeStep(bs, w) ==
  [s \in SUBSET (DOMAIN bs) |->
     IF s = {} THEN <<>> ELSE LH!Merge(w[s \ {LH!Max(s)}], bs[LH!Max(s)])]

(* The fold of the community modules is this one. *)
LEMMA MergeIsFold ==
  ASSUME NEW bs
  PROVE  LH!merge_list(bs) = (CHOOSE w : w = MergeStep(bs, w))[DOMAIN bs]
BY Zenon DEF LH!merge_list, LH!FoldLeft, LH!MapThenFoldSet, MergeStep

(* A set of numbers with a bound has a largest one. *)
LEMMA MaxOfBounded ==
  ASSUME NEW k \in Nat, NEW s \in SUBSET (1 .. k), s # {}
  PROVE  LH!Max(s) \in s /\ \A y \in s : y <= LH!Max(s)
<1> DEFINE bounds == {n \in Nat : \A y \in s : y <= n}
<1>1. k \in bounds
  OBVIOUS
<1>2. PICK m \in bounds : \A n \in bounds : ~(<<n, m>> \in OpToRel(<, Nat))
  BY <1>1, WFMin, NatLessThanWellFounded
<1>3. m \in Nat /\ \A y \in s : y <= m
  BY <1>2
<1>4. m \in s
  <2> SUFFICES ASSUME m \notin s PROVE FALSE
    OBVIOUS
  <2>1. m >= 1
    <3>1. PICK y \in s : y \in 1 .. k
      OBVIOUS
    <3> QED BY <1>3, <3>1
  <2>2. m - 1 \in bounds
    BY <1>3, <2>1
  <2>3. <<m - 1, m>> \in OpToRel(<, Nat)
    BY <1>3, <2>1 DEF OpToRel
  <2> QED BY <1>2, <2>2, <2>3
<1>5. \E x \in s : \A y \in s : x >= y
  BY <1>3, <1>4
<1>6. QED
  BY <1>5, Zenon DEF LH!Max

(* The fold exists: what merge_list makes of the first n blocks, for each n. *)
LEMMA MergeUnrolled ==
  ASSUME NEW bs \in Seq(ListBlock)
  PROVE  \E it : /\ it[0] = <<>>
                 /\ \A n \in 0 .. Len(bs) - 1 : it[n + 1] = LH!Merge(it[n], bs[n + 1])
                 /\ LH!merge_list(bs) = it[Len(bs)]
<1>1. PICK k : k = Len(bs)
  OBVIOUS
<1>2. k \in Nat /\ DOMAIN bs = 1 .. k
  BY <1>1
<1> DEFINE Upto(w, n) == \A s \in SUBSET (1 .. n) : w[s] = MergeStep(bs, w)[s]
           Missing == {n \in Nat : n <= k /\ ~\E w : Upto(w, n)}
<1>3. \A w : MergeStep(bs, w)[{}] = <<>>
  BY DEF MergeStep
<1>4. ASSUME NEW w, NEW s \in SUBSET (1 .. k), s # {}
      PROVE  /\ LH!Max(s) \in s /\ s \ {LH!Max(s)} \in SUBSET (1 .. k)
             /\ MergeStep(bs, w)[s] = LH!Merge(w[s \ {LH!Max(s)}], bs[LH!Max(s)])
  BY <1>2, <1>4, MaxOfBounded DEF MergeStep
<1>5. Missing = {}
  <2> SUFFICES ASSUME Missing # {} PROVE FALSE
    OBVIOUS
  <2>1. PICK n \in Missing : \A j \in Missing : <<j, n>> \notin OpToRel(<, Nat)
    <3> HIDE DEF Upto
    <3> QED BY NatLessThanWellFounded, WFMin
  <2>2. n \in Nat /\ n <= k /\ ~\E w : Upto(w, n)
    BY <2>1
  <2>3. n # 0
    <3>1. PICK w : w = [s \in SUBSET (1 .. 0) |-> <<>>]
      OBVIOUS
    <3>2. \A s \in SUBSET (1 .. 0) : s = {}
      OBVIOUS
    <3>3. Upto(w, 0)
      BY <1>3, <3>1, <3>2
    <3> QED BY <2>2, <3>3
  <2>4. n - 1 \in Nat /\ n - 1 <= k /\ n - 1 \notin Missing
    <3>1. n - 1 \in Nat /\ n - 1 < n /\ n - 1 <= k
      BY <1>2, <2>2, <2>3
    <3>2. <<n - 1, n>> \in OpToRel(<, Nat)
      BY <2>2, <3>1 DEF OpToRel
    <3> HIDE DEF Missing
    <3> QED BY <2>1, <3>1, <3>2
  <2>5. PICK w : Upto(w, n - 1)
    BY <2>4
  <2>6. PICK v : v = MergeStep(bs, w)
    OBVIOUS
  <2>7. ASSUME NEW s \in SUBSET (1 .. n) PROVE v[s] = MergeStep(bs, v)[s]
    <3>1. CASE s = {}
      BY <1>3, <2>6, <3>1
    <3>2. CASE s # {}
      <4>1. PICK x : x = LH!Max(s)
        OBVIOUS
      <4>2. x \in s /\ \A y \in s : y <= x
        BY <2>2, <3>2, <4>1, MaxOfBounded
      <4>3. s \ {x} \in SUBSET (1 .. n - 1)
        BY <2>2, <4>2
      <4>4. v[s \ {x}] = w[s \ {x}]
        BY <2>5, <2>6, <4>3
      <4>5. s \in SUBSET (1 .. k)
        BY <1>2, <2>2
      <4>6. v[s] = LH!Merge(w[s \ {x}], bs[x])
        <5> HIDE DEF Upto
        <5> QED BY <1>4, <2>6, <3>2, <4>1, <4>5
      <4>7. MergeStep(bs, v)[s] = LH!Merge(v[s \ {x}], bs[x])
        <5> HIDE DEF Upto
        <5> QED BY <1>4, <3>2, <4>1, <4>5
      <4> QED BY <4>4, <4>6, <4>7
    <3> QED BY <3>1, <3>2
  <2> QED BY <2>2, <2>7
<1>6. PICK w : Upto(w, k)
  <2> HIDE DEF Upto
  <2>1. k \notin Missing
    BY <1>5
  <2> QED BY <1>2, <2>1
<1> HIDE DEF Missing
<1>7. PICK v : v = MergeStep(bs, w)
  OBVIOUS
<1>8. v = MergeStep(bs, v)
  <2>1. ASSUME NEW s \in SUBSET (1 .. k) PROVE v[s] = MergeStep(bs, v)[s]
    <3>1. CASE s = {}
      BY <1>3, <1>7, <3>1
    <3>2. CASE s # {}
      <4>1. PICK x : x = LH!Max(s)
        OBVIOUS
      <4>2. s \ {x} \in SUBSET (1 .. k)
        OBVIOUS
      <4>3. v[s \ {x}] = w[s \ {x}]
        BY <1>6, <1>7, <4>2
      <4> HIDE DEF Upto
      <4>4. v[s] = LH!Merge(w[s \ {x}], bs[x])
        BY <1>4, <1>7, <3>2, <4>1
      <4>5. MergeStep(bs, v)[s] = LH!Merge(v[s \ {x}], bs[x])
        BY <1>4, <3>2, <4>1
      <4> QED BY <4>3, <4>4, <4>5
    <3> QED BY <3>1, <3>2
  <2>2. \A u : MergeStep(bs, u) = [s \in SUBSET (1 .. k) |-> MergeStep(bs, u)[s]]
    BY <1>2 DEF MergeStep
  <2> HIDE DEF Upto
  <2> QED BY <1>7, <2>1, <2>2, Zenon
<1> HIDE DEF Upto
<1>9. PICK iter : iter = (CHOOSE u : u = MergeStep(bs, u))
  OBVIOUS
<1>10. iter = MergeStep(bs, iter)
  BY <1>8, <1>9, Zenon
<1>11. PICK it : it = [n \in Nat |-> iter[1 .. n]]
  OBVIOUS
<1>12. it[0] = <<>>
  <2>1. 1 .. 0 = {}
    OBVIOUS
  <2>2. it[0] = iter[{}]
    BY <1>11, <2>1
  <2> QED BY <1>3, <1>10, <2>2
<1>13. ASSUME NEW n \in 0 .. k - 1 PROVE it[n + 1] = LH!Merge(it[n], bs[n + 1])
  <2>1. n \in Nat /\ n + 1 \in Nat /\ 1 .. n + 1 \in SUBSET (1 .. k) /\ n + 1 \in 1 .. n + 1
    BY <1>2
  <2>2. PICK x : x = LH!Max(1 .. n + 1)
    OBVIOUS
  <2>3. x \in 1 .. n + 1 /\ \A y \in 1 .. n + 1 : y <= x
    <3>1. PICK s : s = 1 .. n + 1
      OBVIOUS
    <3>2. s \in SUBSET (1 .. k) /\ s # {}
      BY <2>1, <3>1
    <3> QED BY <1>2, <2>2, <3>1, <3>2, MaxOfBounded
  <2>4. x = n + 1
    BY <2>1, <2>3
  <2>5. (1 .. n + 1) \ {x} = 1 .. n
    BY <2>1, <2>4
  <2>6. iter[1 .. n + 1] = LH!Merge(iter[(1 .. n + 1) \ {x}], bs[x])
    BY <1>4, <1>10, <2>1, <2>2
  <2>7. iter[1 .. n + 1] = LH!Merge(iter[1 .. n], bs[n + 1])
    BY <2>4, <2>5, <2>6
  <2> QED BY <1>11, <2>1, <2>7
<1>14. LH!merge_list(bs) = it[k]
  BY <1>2, <1>9, <1>11, MergeIsFold
<1>15. QED
  BY <1>1, <1>12, <1>13, <1>14

(* The blocks follow each other without a gap, up to e. *)
Filled(bs, e) ==
  /\ \A i \in 1 .. Len(bs) : End(bs[i]) = IF i = Len(bs) THEN e ELSE bs[i + 1].addr
  /\ \A i, j \in 1 .. Len(bs) : i < j => End(bs[i]) <= bs[j].addr

(* no two vacant blocks are neighbours *)
NoPair(bs) == \A i \in 2 .. Len(bs) : ~(bs[i - 1].vacant /\ bs[i].vacant)

(* m is what merging makes of the first n blocks of bs *)
MergedFrom(m, bs, n) ==
  /\ m \in Seq(ListBlock)
  /\ n = 0 => m = <<>>
  /\ n > 0 => m # <<>> /\ Filled(m, End(bs[n]))
  /\ NoPair(m)
  /\ \A k \in 1 .. n : ~bs[k].vacant => \E i \in 1 .. Len(m) : m[i] = bs[k]
  /\ \A i \in 1 .. Len(m) : \E k \in 1 .. n : bs[k].size <= m[i].size

(* Numbers: the fields and the end of a block. *)
LEMMA ListBlockTyped ==
  ASSUME NEW b \in ListBlock
  PROVE  /\ b.addr \in Nat /\ b.size \in Nat /\ META_SIZE \in Nat /\ META_SIZE > 0
         /\ LH!Payload(b) = b.addr + META_SIZE
         /\ End(b) = b.addr + META_SIZE + b.size
         /\ End(b) \in Nat /\ b.addr < End(b)
BY DudeAssumption DEF ListBlock, End, LH!Payload

(* used where blocks are far apart *)
LEMMA Through ==
  ASSUME NEW x \in Nat, NEW y \in Nat, NEW z \in Nat, x <= y, y < z
  PROVE  x <= z
OBVIOUS

(* One more block is merged. *)
LEMMA MergeOne ==
  ASSUME NEW bs \in Seq(ListBlock), NEW e, Filled(bs, e), NEW n \in 0 .. Len(bs) - 1,
         NEW m, MergedFrom(m, bs, n), NEW r, r = LH!Merge(m, bs[n + 1])
  PROVE  MergedFrom(r, bs, n + 1)
<1>1. PICK b : b = bs[n + 1]
  OBVIOUS
<1>2. PICK k : k = Len(m)
  OBVIOUS
<1>3. n \in Nat /\ n + 1 \in 1 .. Len(bs) /\ Len(bs) \in Nat /\ k \in Nat /\ m \in Seq(ListBlock)
  BY <1>2 DEF MergedFrom
<1>4. b \in ListBlock /\ \A i \in 1 .. n + 1 : bs[i] \in ListBlock
  BY <1>1, <1>3
<1>5. \A i \in 1 .. k : m[i] \in ListBlock
  BY <1>2, <1>3
<1>a. /\ b.addr \in Nat /\ b.size \in Nat /\ META_SIZE \in Nat
      /\ End(b) = b.addr + META_SIZE + b.size
  BY <1>4, ListBlockTyped
<1>b. \A i \in 1 .. k : /\ m[i].addr \in Nat /\ m[i].size \in Nat
                       /\ End(m[i]) = m[i].addr + META_SIZE + m[i].size
                       /\ End(m[i]) \in Nat /\ m[i].addr < End(m[i])
  BY <1>5, ListBlockTyped
<1>c. r = LH!Merge(m, b)
  BY <1>1
<1>g. MergeShaped(m, b, r)
  BY <1>3, <1>4, <1>c, MergeShape
<1>d. r \in Seq(ListBlock)
  BY <1>g DEF MergeShaped
<1>e. \/ /\ m # <<>> /\ m[Len(m)].vacant /\ b.vacant
         /\ Len(r) = Len(m) /\ r[Len(m)] = LH!Swallow(m[Len(m)], b)
      \/ /\ m = <<>> \/ ~m[Len(m)].vacant \/ ~b.vacant
         /\ Len(r) = Len(m) + 1 /\ r[Len(m) + 1] = b
  BY <1>g, Zenon DEF MergeShaped
<1>f. \A i \in 1 .. Len(r) : i <= Len(m) /\ (i < Len(m) \/ Len(r) = Len(m) + 1) => r[i] = m[i]
  BY <1>g, Zenon DEF MergeShaped
<1>6. n > 0 => /\ k >= 1
               /\ End(m[k]) = b.addr
               /\ \A i \in 1 .. k - 1 : End(m[i]) = m[i + 1].addr
               /\ \A i, j \in 1 .. k : i < j => End(m[i]) <= m[j].addr
  <2> HAVE n > 0
  <2>1. End(bs[n]) = b.addr
    <3>1. n \in 1 .. Len(bs) /\ n # Len(bs)
      BY <1>3
    <3> QED BY <1>1, <3>1 DEF Filled
  <2>2. m # <<>> /\ Filled(m, b.addr)
    BY <2>1 DEF MergedFrom
  <2>3. k >= 1
    BY <1>2, <1>3, <2>2
  <2>4. k \in 1 .. k /\ End(m[k]) = b.addr
    BY <1>2, <1>3, <2>2, <2>3 DEF Filled
  <2>5. ASSUME NEW i \in 1 .. k - 1 PROVE End(m[i]) = m[i + 1].addr
    <3>1. i \in 1 .. Len(m) /\ i # Len(m)
      BY <1>2, <1>3
    <3> QED BY <2>2, <3>1 DEF Filled
  <2>6. \A i, j \in 1 .. k : i < j => End(m[i]) <= m[j].addr
    BY <1>2, <2>2 DEF Filled
  <2> QED BY <2>3, <2>4, <2>5, <2>6
<1>7. ASSUME NEW i \in 1 .. k PROVE End(m[i]) <= b.addr /\ n > 0
  <2>1. n > 0
    BY <1>2, <1>3, <1>7 DEF MergedFrom
  <2>2. m[i] \in ListBlock /\ m[k] \in ListBlock
    BY <1>3, <1>5, <1>7
  <2>3. CASE i = k
    BY <1>6, <1>a, <2>1, <2>3
  <2>4. CASE i < k
    <3>1. End(m[i]) <= m[k].addr /\ End(m[k]) = b.addr
      BY <1>3, <1>6, <2>1, <2>4
    <3>2. i \in 1 .. k /\ k \in 1 .. k
      BY <1>3, <1>7
    <3>3. End(m[i]) \in Nat /\ m[k].addr \in Nat /\ m[k].addr < End(m[k]) /\ End(m[k]) \in Nat
      BY <1>b, <3>2
    <3>4. End(m[i]) <= End(m[k])
      BY <3>1, <3>3, Through
    <3> QED BY <2>1, <3>1, <3>4
  <2> QED BY <1>3, <2>1, <2>3, <2>4
<1>8. CASE m # <<>> /\ m[k].vacant /\ b.vacant /\ Len(r) = k /\ r[k] = LH!Swallow(m[k], b)
           /\ \A i \in 1 .. k : i < k => r[i] = m[i]
  <2>1. k >= 1 /\ n > 0
    BY <1>2, <1>3, <1>8 DEF MergedFrom
  <2>2. m[k] \in ListBlock /\ k \in 1 .. k
    BY <1>3, <1>5, <2>1
  <2>3. /\ r[k].addr = m[k].addr /\ r[k].vacant = m[k].vacant
        /\ r[k].size = m[k].size + b.size + META_SIZE
    <3>1. LH!Swallow(m[k], b).addr = m[k].addr
      BY <1>4, <2>2, Swallowed
    <3>2. LH!Swallow(m[k], b).vacant = m[k].vacant
      BY <1>4, <2>2, Swallowed
    <3>3. LH!Swallow(m[k], b).size = m[k].size + b.size + META_SIZE
      BY <1>4, <2>2, Swallowed
    <3> QED BY <1>8, <3>1, <3>2, <3>3
  <2>4. End(r[k]) = End(b)
    <3>1. End(m[k]) = b.addr
      BY <1>6, <2>1
    <3>2. End(r[k]) = r[k].addr + META_SIZE + r[k].size
      BY DEF End, LH!Payload
    <3>3. m[k].addr + META_SIZE + m[k].size = b.addr /\ m[k].addr \in Nat /\ m[k].size \in Nat
      BY <1>b, <2>2, <3>1
    <3>4. r[k].addr + META_SIZE + r[k].size = b.addr + META_SIZE + b.size
      <4>1. m[k].addr + META_SIZE + (m[k].size + b.size + META_SIZE)
              = b.addr + META_SIZE + b.size
        <5>1. PICK u \in Nat, v \in Nat, c \in Nat, y \in Nat :
                u = m[k].addr /\ v = m[k].size /\ c = b.addr /\ y = b.size
          BY <1>a, <3>3
        <5>2. u + META_SIZE + v = c
          BY <3>3, <5>1
        <5>3. u + META_SIZE + (v + y + META_SIZE) = c + META_SIZE + y
          BY <1>a, <5>2
        <5> QED BY <5>1, <5>3
      <4> QED BY <2>3, <4>1
    <3> QED BY <1>a, <3>2, <3>4
  <2>5. r \in Seq(ListBlock)
    BY <1>d
  <2>6. Filled(r, End(b))
    <3>1. ASSUME NEW i \in 1 .. k PROVE End(r[i]) = IF i = k THEN End(b) ELSE r[i + 1].addr
      <4>1. CASE i = k
        BY <2>4, <4>1
      <4>2. CASE i < k
        <5>1. r[i] = m[i] /\ End(m[i]) = m[i + 1].addr
          BY <1>3, <1>6, <1>8, <2>1, <4>2
        <5>2. r[i + 1].addr = m[i + 1].addr
          BY <1>3, <1>8, <2>3, <4>2
        <5> QED BY <4>2, <5>1, <5>2
      <4> QED BY <1>3, <4>1, <4>2
    <3>2. ASSUME NEW i \in 1 .. k, NEW j \in 1 .. k, i < j PROVE End(r[i]) <= r[j].addr
      <4>1. r[i] = m[i] /\ End(m[i]) <= m[j].addr
        BY <1>3, <1>6, <1>8, <2>1, <3>2
      <4>2. r[j].addr = m[j].addr
        BY <1>3, <1>8, <2>3
      <4> QED BY <4>1, <4>2
    <3> QED BY <1>8, <3>1, <3>2 DEF Filled
  <2>7. NoPair(r)
    <3> SUFFICES ASSUME NEW i \in 2 .. k PROVE ~(r[i - 1].vacant /\ r[i].vacant)
      BY <1>8 DEF NoPair
    <3>1. ~(m[i - 1].vacant /\ m[i].vacant)
      BY <1>2 DEF MergedFrom, NoPair
    <3>2. r[i - 1] = m[i - 1]
      BY <1>3, <1>8
    <3>3. r[i].vacant = m[i].vacant
      <4>1. CASE i = k
        BY <2>3, <4>1
      <4>2. CASE i < k
        BY <1>3, <1>8, <4>2
      <4> QED BY <1>3, <4>1, <4>2
    <3> QED BY <3>1, <3>2, <3>3
  <2>8. ASSUME NEW j \in 1 .. n + 1, ~bs[j].vacant PROVE \E i \in 1 .. k : r[i] = bs[j]
    <3>1. j \in 1 .. n
      BY <1>1, <1>3, <1>8, <2>8
    <3>2. PICK i \in 1 .. k : m[i] = bs[j]
      BY <1>2, <2>8, <3>1 DEF MergedFrom
    <3>3. i < k
      BY <1>3, <1>8, <2>8, <3>2
    <3> QED BY <1>8, <3>2, <3>3
  <2>9. ASSUME NEW i \in 1 .. k PROVE \E j \in 1 .. n + 1 : bs[j].size <= r[i].size
    <3>1. PICK j \in 1 .. n : bs[j].size <= m[i].size
      BY <1>2, <2>9 DEF MergedFrom
    <3>2. m[i].size <= r[i].size
      <4>1. m[i] \in ListBlock
        BY <1>5
      <4>2. CASE i = k
        <5>1. m[k].size \in Nat /\ b.size \in Nat /\ META_SIZE \in Nat
          BY <1>a, <1>b, <2>2
        <5>2. m[k].size <= r[k].size
          BY <2>3, <5>1
        <5> QED BY <4>2, <5>2
      <4>3. CASE i < k
        BY <1>8, <1>b, <4>3
      <4> QED BY <1>3, <4>2, <4>3
    <3>3. bs[j].size \in Nat /\ m[i].size \in Nat /\ r[i].size \in Nat /\ j \in 1 .. n + 1
      <4>1. r[i] \in ListBlock
        BY <1>8, <2>5, <1>3
      <4> QED BY <1>3, <1>4, <1>5, <4>1, ListBlockTyped
    <3> QED BY <3>1, <3>2, <3>3
  <2>10. r # <<>>
    BY <1>8, <2>1
  <2> QED BY <1>1, <1>3, <1>8, <2>5, <2>6, <2>7, <2>8, <2>9, <2>10 DEF MergedFrom
<1>9. CASE (m = <<>> \/ ~m[k].vacant \/ ~b.vacant) /\ Len(r) = k + 1 /\ r[k + 1] = b
           /\ \A i \in 1 .. k : r[i] = m[i]
  <2>1. r \in Seq(ListBlock)
    BY <1>d
  <2>2. Filled(r, End(b))
    <3>1. ASSUME NEW i \in 1 .. k + 1 PROVE End(r[i]) = IF i = k + 1 THEN End(b) ELSE r[i + 1].addr
      <4>1. CASE i = k + 1
        BY <1>9, <4>1
      <4>2. CASE i = k
        <5>1. k \in 1 .. k
          BY <1>3, <3>1, <4>2
        <5>2. n > 0
          BY <1>7, <5>1
        <5>3. End(m[k]) = b.addr
          BY <1>6, <5>2
        <5> QED BY <1>3, <1>9, <4>2, <5>1, <5>3
      <4>3. CASE i < k
        <5>1. i \in 1 .. k /\ i \in 1 .. k - 1 /\ i + 1 \in 1 .. k
          BY <1>3, <4>3
        <5>2. n > 0
          BY <1>7, <5>1
        <5>3. End(m[i]) = m[i + 1].addr
          BY <1>6, <5>1, <5>2
        <5> QED BY <1>3, <1>9, <4>3, <5>1, <5>3
      <4> QED BY <1>3, <4>1, <4>2, <4>3
    <3>2. ASSUME NEW i \in 1 .. k + 1, NEW j \in 1 .. k + 1, i < j PROVE End(r[i]) <= r[j].addr
      <4>1. i \in 1 .. k /\ r[i] = m[i]
        BY <1>3, <1>9, <3>2
      <4>2. CASE j = k + 1
        BY <1>7, <1>9, <4>1, <4>2
      <4>3. CASE j < k + 1
        <5>1. j \in 1 .. k /\ r[j] = m[j]
          BY <1>3, <1>9, <4>3
        <5>2. n > 0
          BY <1>7, <5>1
        <5> QED BY <1>6, <3>2, <4>1, <5>1, <5>2
      <4> QED BY <1>3, <4>2, <4>3
    <3> QED BY <1>9, <3>1, <3>2 DEF Filled
  <2>3. NoPair(r)
    <3> SUFFICES ASSUME NEW i \in 2 .. k + 1 PROVE ~(r[i - 1].vacant /\ r[i].vacant)
      BY <1>9 DEF NoPair
    <3>1. CASE i = k + 1
      <4>1. k >= 1 /\ i - 1 = k /\ k \in 1 .. k
        BY <1>3, <3>1
      <4>2. m # <<>>
        BY <1>2, <4>1
      <4> QED BY <1>9, <3>1, <4>1, <4>2
    <3>2. CASE i < k + 1
      <4>1. i \in 2 .. k /\ i - 1 \in 1 .. k /\ i \in 1 .. k
        BY <1>3, <3>2
      <4>2. ~(m[i - 1].vacant /\ m[i].vacant)
        BY <1>2, <4>1 DEF MergedFrom, NoPair
      <4> QED BY <1>9, <4>1, <4>2
    <3> QED BY <1>3, <3>1, <3>2
  <2>4. ASSUME NEW j \in 1 .. n + 1, ~bs[j].vacant PROVE \E i \in 1 .. k + 1 : r[i] = bs[j]
    <3>1. CASE j = n + 1
      BY <1>1, <1>3, <1>9, <3>1
    <3>2. CASE j \in 1 .. n
      <4>1. PICK i \in 1 .. k : m[i] = bs[j]
        BY <1>2, <2>4, <3>2 DEF MergedFrom
      <4> QED BY <1>3, <1>9, <4>1
    <3> QED BY <1>3, <3>1, <3>2
  <2>5. ASSUME NEW i \in 1 .. k + 1 PROVE \E j \in 1 .. n + 1 : bs[j].size <= r[i].size
    <3>1. CASE i = k + 1
      BY <1>1, <1>3, <1>4, <1>9, <3>1, ListBlockTyped
    <3>2. CASE i \in 1 .. k
      <4>1. PICK j \in 1 .. n : bs[j].size <= m[i].size
        BY <1>2, <3>2 DEF MergedFrom
      <4> QED BY <1>3, <1>9, <3>2, <4>1
    <3> QED BY <1>3, <3>1, <3>2
  <2>6. r # <<>>
    BY <1>3, <1>9
  <2>7. n + 1 # 0
    BY <1>3
  <2>8. \A j \in 1 .. n + 1 : ~bs[j].vacant => \E i \in 1 .. Len(r) : r[i] = bs[j]
    BY <1>9, <2>4
  <2>9. \A i \in 1 .. Len(r) : \E j \in 1 .. n + 1 : bs[j].size <= r[i].size
    BY <1>9, <2>5
  <2> QED BY <1>1, <2>1, <2>2, <2>3, <2>6, <2>7, <2>8, <2>9, Zenon DEF MergedFrom
<1>10. QED
  <2>1. CASE Len(r) = k
    BY <1>2, <1>3, <1>8, <1>e, <1>f, <2>1
  <2>2. CASE Len(r) = k + 1
    BY <1>2, <1>3, <1>9, <1>e, <1>f, <2>2
  <2> QED BY <1>2, <1>e, <2>1, <2>2

(* All blocks are merged, by induction on their number. *)
LEMMA MergeAll ==
  ASSUME NEW bs \in Seq(ListBlock), NEW e, Filled(bs, e)
  PROVE  MergedFrom(LH!merge_list(bs), bs, Len(bs))
<1>1. PICK it : /\ it[0] = <<>>
                /\ \A n \in 0 .. Len(bs) - 1 : it[n + 1] = LH!Merge(it[n], bs[n + 1])
                /\ LH!merge_list(bs) = it[Len(bs)]
  BY MergeUnrolled
<1>2. PICK k : k = Len(bs)
  OBVIOUS
<1>3. k \in Nat
  BY <1>2
<1> DEFINE Wrong == {n \in Nat : n <= k /\ ~MergedFrom(it[n], bs, n)}
<1>4. Wrong = {}
  <2> SUFFICES ASSUME Wrong # {} PROVE FALSE
    OBVIOUS
  <2>1. PICK n \in Wrong : \A j \in Wrong : <<j, n>> \notin OpToRel(<, Nat)
    BY NatLessThanWellFounded, WFMin
  <2>2. n \in Nat /\ n <= k /\ ~MergedFrom(it[n], bs, n)
    BY <2>1
  <2>3. n # 0
    <3>1. <<>> \in Seq(ListBlock) /\ Len(<<>>) = 0
      OBVIOUS
    <3>2. MergedFrom(<<>>, bs, 0)
      BY <3>1 DEF MergedFrom, NoPair
    <3> QED BY <1>1, <2>2, <3>2
  <2>4. PICK p : p = n - 1
    OBVIOUS
  <2>5. p \in Nat /\ p < n /\ p <= k /\ p + 1 = n /\ p \in 0 .. k - 1
    BY <1>3, <2>2, <2>3, <2>4
  <2>6. <<p, n>> \in OpToRel(<, Nat)
    BY <2>2, <2>5 DEF OpToRel
  <2>7. p \notin Wrong
    <3> HIDE DEF Wrong
    <3> QED BY <2>1, <2>6
  <2>8. MergedFrom(it[p], bs, p)
    BY <2>5, <2>7
  <2>9. it[p + 1] = LH!Merge(it[p], bs[p + 1])
    BY <1>1, <1>2, <2>5
  <2>10. MergedFrom(it[p + 1], bs, p + 1)
    BY <1>2, <2>5, <2>8, <2>9, MergeOne
  <2> QED BY <2>2, <2>5, <2>10
<1>5. MergedFrom(it[k], bs, k)
  <2>1. k \notin Wrong
    BY <1>4
  <2> QED BY <1>3, <2>1
<1>6. QED
  BY <1>1, <1>2, <1>5

(* What the program holds are used blocks that are large enough. *)
Kept(bs, h) ==
  /\ \A b \in h : \E i \in 1 .. Len(bs) :
       LH!Payload(bs[i]) = b.addr /\ b.size <= bs[i].size /\ ~bs[i].vacant
  /\ \A b, c \in h : b.addr = c.addr => b = c

(* What free of b makes of the list bs, of which the program holds h. *)
Relisted(r, bs, e, h, b) ==
  /\ r \in Seq(ListBlock) /\ Filled(r, e) /\ NoPair(r)
  /\ Kept(r, h \ {b})
  /\ \A i \in 1 .. Len(r) : \E k \in 1 .. Len(bs) : bs[k].size <= r[i].size
  /\ library = "memory" => r = bs

LEMMA FreedShape ==
  ASSUME NEW bs \in Seq(ListBlock), NEW e, Filled(bs, e), NoPair(bs),
         NEW h, Kept(bs, h), NEW b \in h
  PROVE  Relisted(LH!Freed(bs, b.addr), bs, e, h, b)
<1>0. PICK r : r = LH!Freed(bs, b.addr)
  OBVIOUS
<1>1. CASE library = "memory"
  <2>1. r = bs
    BY <1>0, <1>1 DEF LH!Freed
  <2>2. Kept(bs, h \ {b})
    BY DEF Kept
  <2>3. \A i \in 1 .. Len(bs) : bs[i].size \in Nat /\ bs[i].size <= bs[i].size
    <3>1. \A i \in 1 .. Len(bs) : bs[i] \in ListBlock
      OBVIOUS
    <3> QED BY <3>1, ListBlockTyped
  <2> QED BY <1>0, <2>1, <2>2, <2>3 DEF Relisted
<1>2. CASE library # "memory"
  <2> DEFINE Mark(c) == IF LH!Payload(c) = b.addr THEN [c EXCEPT !.vacant = TRUE] ELSE c
  <2>1. PICK k : k = Len(bs)
    OBVIOUS
  <2>2. k \in Nat /\ DOMAIN bs = 1 .. k /\ \A i \in 1 .. k : bs[i] \in ListBlock
    BY <2>1
  <2>3. \A c \in ListBlock : /\ Mark(c) \in ListBlock
                             /\ Mark(c).addr = c.addr /\ Mark(c).size = c.size
                             /\ ~Mark(c).vacant => Mark(c) = c
                             /\ LH!Payload(c) # b.addr => Mark(c) = c
    BY DEF ListBlock
  <2> HIDE DEF Mark
  <2>4. PICK m : m = [i \in DOMAIN bs |-> Mark(bs[i])]
    OBVIOUS
  <2>5. m \in Seq(ListBlock) /\ Len(m) = k
    <3>1. m \in [1 .. k -> ListBlock]
      BY <2>2, <2>3, <2>4
    <3> QED BY <2>2, <3>1
  <2>6. \A i \in 1 .. k : m[i] = Mark(bs[i]) /\ m[i].addr = bs[i].addr /\ m[i].size = bs[i].size
                          /\ End(m[i]) = End(bs[i])
    BY <2>2, <2>3, <2>4 DEF End, LH!Payload
  <2>7. Filled(m, e)
    <3>1. ASSUME NEW i \in 1 .. k PROVE End(m[i]) = IF i = k THEN e ELSE m[i + 1].addr
      <4>1. End(bs[i]) = IF i = k THEN e ELSE bs[i + 1].addr
        BY <2>1 DEF Filled
      <4>2. i # k => i + 1 \in 1 .. k
        BY <2>2
      <4> QED BY <2>6, <4>1, <4>2
    <3>2. ASSUME NEW i \in 1 .. k, NEW j \in 1 .. k, i < j PROVE End(m[i]) <= m[j].addr
      BY <2>1, <2>6, <3>2 DEF Filled
    <3> QED BY <2>5, <3>1, <3>2 DEF Filled
  <2>8. r = LH!merge_list(m)
    BY <1>0, <1>2, <2>4 DEF LH!Freed, Mark
  <2>9. MergedFrom(r, m, k)
    BY <2>5, <2>7, <2>8, MergeAll
  <2>10. r \in Seq(ListBlock) /\ NoPair(r)
    BY <2>9 DEF MergedFrom
  <2>11. Filled(r, e)
    <3>1. CASE k = 0
      <4>1. r = <<>>
        BY <2>9, <3>1 DEF MergedFrom
      <4> QED BY <4>1 DEF Filled
    <3>2. CASE k > 0
      <4>1. Filled(r, End(m[k]))
        BY <2>9, <3>2 DEF MergedFrom
      <4>2. End(m[k]) = e
        BY <2>2, <2>5, <2>7, <3>2 DEF Filled
      <4> QED BY <4>1, <4>2
    <3> QED BY <2>2, <3>1, <3>2
  <2>12. ASSUME NEW c \in h \ {b}
         PROVE  \E i \in 1 .. Len(r) :
                  LH!Payload(r[i]) = c.addr /\ c.size <= r[i].size /\ ~r[i].vacant
    <3>1. PICK i \in 1 .. k : LH!Payload(bs[i]) = c.addr /\ c.size <= bs[i].size /\ ~bs[i].vacant
      BY <2>1 DEF Kept
    <3>2. c.addr # b.addr
      BY DEF Kept
    <3>3. m[i] = bs[i]
      BY <2>2, <2>3, <2>6, <3>1, <3>2
    <3>4. \E j \in 1 .. Len(r) : r[j] = m[i]
      BY <2>9, <3>1, <3>3 DEF MergedFrom
    <3> QED BY <3>1, <3>3, <3>4
  <2>13. Kept(r, h \ {b})
    BY <2>12 DEF Kept
  <2>14. ASSUME NEW i \in 1 .. Len(r) PROVE \E j \in 1 .. k : bs[j].size <= r[i].size
    BY <2>6, <2>9 DEF MergedFrom
  <2> QED BY <1>0, <1>2, <2>1, <2>10, <2>11, <2>13, <2>14 DEF Relisted
<1>3. QED
  BY <1>1, <1>2

(* A set of numbers has a least one. *)
LEMMA LeastNumber ==
  ASSUME NEW S \in SUBSET Nat, S # {}
  PROVE  \E k \in S : \A j \in S : k <= j
<1>1. PICK k \in S : \A j \in S : <<j, k>> \notin OpToRel(<, Nat)
  BY NatLessThanWellFounded, WFMin
<1>2. \A j \in S : ~(j < k)
  BY <1>1 DEF OpToRel
<1>3. QED
  BY <1>2

(* first_free_block finds a vacant block if there is one. *)
LEMMA VacantFound ==
  ASSUME NEW bs \in Seq(ListBlock), NEW v, v = LH!Vacant(bs)
  PROVE  \/ v \in 1 .. Len(bs) /\ bs[v].vacant
         \/ v = 0 /\ \A i \in 1 .. Len(bs) : ~bs[i].vacant
<1> DEFINE I == {i \in 1 .. Len(bs) : bs[i].vacant}
<1>1. v = IF I # {} THEN LH!Min(I) ELSE 0
  BY Zenon DEF LH!Vacant, LH!SelectInSeq
<1>2. I # {} => LH!Min(I) \in I
  <2> HAVE I # {}
  <2>1. I \subseteq Nat
    OBVIOUS
  <2> HIDE DEF I
  <2>4. \E z \in I : \A y \in I : z <= y
    BY <2>1, LeastNumber
  <2> QED BY <2>4, Zenon DEF LH!Min
<1>3. QED
  BY <1>1, <1>2

(* The inductive invariant.  That merging is right needs only the layout; that
   the program's blocks are apart needs to know which blocks they are, and the
   size of each block some request that it was made for or has outgrown. *)
HeapInv ==
  /\ LH!TypeOK
  /\ Filled(list, top)
  /\ NoPair(list)
  /\ library = "memory" => \A i \in 1 .. Len(list) : ~list[i].vacant
  /\ \A i \in 1 .. Len(list) : \E s \in asked : s <= list[i].size
  /\ ~oversold => Kept(list, held)
  /\ oversold => \E b \in held, s \in asked : s < b.size

(* What malloc makes of the list, and what it gives out. *)
GivenOut(r, size) ==
  /\ r.list \in Seq(ListBlock) /\ r.given \in ListBlock
  /\ Filled(r.list, r.brk) /\ NoPair(r.list)
  /\ \A b \in held : b.addr # LH!Payload(r.given)
  /\ \E i \in 1 .. Len(r.list) :
       /\ LH!Payload(r.list[i]) = LH!Payload(r.given) /\ r.list[i].size = r.given.size
       /\ ~r.list[i].vacant
  /\ Kept(r.list, held)
  /\ library = "memory" => \A i \in 1 .. Len(r.list) : ~r.list[i].vacant
  /\ \A i \in 1 .. Len(r.list) :
       r.list[i].size = size \/ \E k \in 1 .. Len(list) : r.list[i].size = list[k].size
  /\ r.given.size = size \/ \E k \in 1 .. Len(list) : r.given.size = list[k].size

(* It is so whether a vacant block is found or a new one is made. *)
LEMMA MallocGives ==
  ASSUME HeapInv, ~oversold, NEW size \in ListHeapSize
  PROVE  GivenOut(LH!Malloc(size), size)
<1>1. PICK r : r = LH!Malloc(size)
  OBVIOUS
<1>2. PICK v : v = LH!Vacant(list)
  OBVIOUS
<1>3. PICK k : k = Len(list)
  OBVIOUS
<1>4. /\ list \in Seq(ListBlock) /\ k \in Nat
      /\ Filled(list, top) /\ NoPair(list) /\ Kept(list, held)
      /\ top \in Nat /\ size \in Nat
  BY <1>3, ListHeapAssumption DEF HeapInv, LH!TypeOK, ListBlock
<1>5. \A i \in 1 .. k : list[i] \in ListBlock
  BY <1>3, <1>4
<1>b. \A i \in 1 .. k : /\ LH!Payload(list[i]) = list[i].addr + META_SIZE
                        /\ list[i].addr \in Nat /\ META_SIZE \in Nat /\ META_SIZE > 0
                        /\ End(list[i]) \in Nat /\ list[i].addr < End(list[i])
  BY <1>5, ListBlockTyped
<1>6. \/ v \in 1 .. k /\ list[v].vacant
      \/ v = 0 /\ \A i \in 1 .. k : ~list[i].vacant
  BY <1>2, <1>3, <1>4, VacantFound
<1>7. CASE v \in 1 .. k /\ list[v].vacant
  <2>1. PICK l : l = [list EXCEPT ![v].vacant = FALSE]
    OBVIOUS
  <2>2. r = [list |-> l, given |-> list[v], brk |-> top]
    <3>1. v # 0
      BY <1>4, <1>7
    <3> QED BY <1>1, <1>2, <2>1, <3>1, Zenon DEF LH!Malloc
  <2>3. PICK x : x = [list[v] EXCEPT !.vacant = FALSE]
    OBVIOUS
  <2>4. x \in ListBlock /\ x.addr = list[v].addr /\ x.size = list[v].size /\ ~x.vacant
    BY <1>5, <1>7, <2>3 DEF ListBlock
  <2>5. l = [list EXCEPT ![v] = x]
    BY <2>1, <2>3
  <2>6. /\ l \in Seq(ListBlock) /\ Len(l) = k
        /\ \A i \in 1 .. k : l[i] = IF i = v THEN x ELSE list[i]
    BY <1>3, <1>4, <1>7, <2>4, <2>5, ExceptSeq
  <2>7. \A i \in 1 .. k : /\ l[i].addr = list[i].addr /\ l[i].size = list[i].size
                          /\ End(l[i]) = End(list[i]) /\ LH!Payload(l[i]) = LH!Payload(list[i])
                          /\ ~list[i].vacant => ~l[i].vacant
    BY <2>4, <2>6 DEF End, LH!Payload
  <2>8. Filled(l, top)
    <3>1. ASSUME NEW i \in 1 .. k PROVE End(l[i]) = IF i = k THEN top ELSE l[i + 1].addr
      <4>1. End(list[i]) = IF i = k THEN top ELSE list[i + 1].addr
        BY <1>3, <1>4 DEF Filled
      <4>2. i # k => i + 1 \in 1 .. k
        BY <1>4
      <4> QED BY <2>7, <4>1, <4>2
    <3>2. ASSUME NEW i \in 1 .. k, NEW j \in 1 .. k, i < j PROVE End(l[i]) <= l[j].addr
      BY <1>3, <1>4, <2>7, <3>2 DEF Filled
    <3> QED BY <2>6, <3>1, <3>2 DEF Filled
  <2>9. NoPair(l)
    <3> SUFFICES ASSUME NEW i \in 2 .. k PROVE ~(l[i - 1].vacant /\ l[i].vacant)
      BY <2>6 DEF NoPair
    <3>1. i \in 1 .. k /\ i - 1 \in 1 .. k
      BY <1>4
    <3>2. ~list[i - 1].vacant \/ ~list[i].vacant
      BY <1>3, <1>4 DEF NoPair
    <3> QED BY <2>7, <3>1, <3>2
  <2>10. ASSUME NEW b \in held, b.addr = LH!Payload(list[v]) PROVE FALSE
    <3>1. PICK i \in 1 .. k : LH!Payload(list[i]) = b.addr /\ ~list[i].vacant
      BY <1>3, <1>4 DEF Kept
    <3>2. i # v /\ list[i].addr = list[v].addr
      BY <1>7, <1>b, <2>10, <3>1
    <3>3. CASE i < v
      <4>1. End(list[i]) <= list[v].addr
        BY <1>3, <1>4, <1>7, <3>3 DEF Filled
      <4> QED BY <1>7, <1>b, <3>2, <4>1
    <3>4. CASE v < i
      <4>1. End(list[v]) <= list[i].addr
        BY <1>3, <1>4, <1>7, <3>4 DEF Filled
      <4> QED BY <1>7, <1>b, <3>2, <4>1
    <3> QED BY <1>4, <1>7, <3>2, <3>3, <3>4
  <2>11. Kept(l, held)
    BY <1>3, <1>4, <2>6, <2>7 DEF Kept
  <2>12. library # "memory"
    BY <1>3, <1>7 DEF HeapInv
  <2>13. r.list = l /\ r.given = list[v] /\ r.brk = top
    BY <2>2
  <2>14. \A i \in 1 .. k : l[i].size = size \/ \E j \in 1 .. k : l[i].size = list[j].size
    BY <2>7
  <2>15. LH!Payload(l[v]) = LH!Payload(list[v]) /\ l[v].size = list[v].size /\ ~l[v].vacant
    BY <1>7, <2>4, <2>6, <2>7
  <2>16. list[v] \in ListBlock
    BY <1>5, <1>7
  <2> QED BY <1>1, <1>3, <1>7, <2>6, <2>8, <2>9, <2>10, <2>11, <2>12, <2>13, <2>14, <2>15, <2>16
          DEF GivenOut
<1>8. CASE v = 0 /\ \A i \in 1 .. k : ~list[i].vacant
  <2>1. PICK x : x = [addr |-> top, size |-> size, vacant |-> FALSE]
    OBVIOUS
  <2>2. PICK l : l = Append(list, x)
    OBVIOUS
  <2>3. r = [list |-> l, given |-> x, brk |-> top + META_SIZE + size]
    BY <1>1, <1>2, <1>8, <2>1, <2>2, Zenon DEF LH!Malloc
  <2>4. /\ x \in ListBlock /\ x.addr = top /\ x.size = size /\ ~x.vacant
        /\ End(x) = top + META_SIZE + size
    BY <1>4, <2>1 DEF ListBlock, End, LH!Payload
  <2>5. /\ l \in Seq(ListBlock) /\ Len(l) = k + 1 /\ l[k + 1] = x
        /\ \A i \in 1 .. k : l[i] = list[i]
    BY <1>3, <1>4, <2>2, <2>4
  <2>6. \A i \in 1 .. k : End(list[i]) <= top
    <3> SUFFICES ASSUME NEW i \in 1 .. k PROVE End(list[i]) <= top
      OBVIOUS
    <3>1. k \in 1 .. k /\ End(list[k]) = top
      BY <1>3, <1>4 DEF Filled
    <3>2. CASE i = k
      BY <1>4, <3>1, <3>2
    <3>3. CASE i < k
      <4>1. End(list[i]) <= list[k].addr
        BY <1>3, <1>4, <3>1, <3>3 DEF Filled
      <4>2. /\ End(list[i]) \in Nat /\ list[k].addr \in Nat /\ End(list[k]) \in Nat
            /\ list[k].addr < End(list[k])
        BY <1>b, <3>1
      <4>3. End(list[i]) <= End(list[k])
        BY <4>1, <4>2, Through
      <4> QED BY <3>1, <4>3
    <3> QED BY <1>4, <3>2, <3>3
  <2>7. Filled(l, top + META_SIZE + size)
    <3>1. ASSUME NEW i \in 1 .. k + 1
          PROVE  End(l[i]) = IF i = k + 1 THEN top + META_SIZE + size ELSE l[i + 1].addr
      <4>1. CASE i = k + 1
        BY <2>4, <2>5, <4>1
      <4>2. CASE i = k
        <5>1. k \in 1 .. k /\ End(list[k]) = top
          BY <1>3, <1>4, <3>1, <4>2 DEF Filled
        <5> QED BY <1>4, <2>4, <2>5, <4>2, <5>1
      <4>3. CASE i < k
        <5>1. i \in 1 .. k /\ i + 1 \in 1 .. k /\ i # k
          BY <1>4, <4>3
        <5>2. End(list[i]) = list[i + 1].addr
          BY <1>3, <1>4, <5>1 DEF Filled
        <5> QED BY <1>4, <2>5, <4>3, <5>1, <5>2
      <4> QED BY <1>4, <4>1, <4>2, <4>3
    <3>2. ASSUME NEW i \in 1 .. k + 1, NEW j \in 1 .. k + 1, i < j PROVE End(l[i]) <= l[j].addr
      <4>1. i \in 1 .. k /\ l[i] = list[i]
        BY <1>4, <2>5, <3>2
      <4>2. CASE j = k + 1
        BY <2>4, <2>5, <2>6, <4>1, <4>2
      <4>3. CASE j < k + 1
        <5>1. j \in 1 .. k /\ l[j] = list[j]
          BY <1>4, <2>5, <4>3
        <5> QED BY <1>3, <1>4, <3>2, <4>1, <5>1 DEF Filled
      <4> QED BY <1>4, <4>2, <4>3
    <3> QED BY <2>5, <3>1, <3>2 DEF Filled
  <2>8. \A i \in 1 .. k + 1 : ~l[i].vacant
    BY <1>4, <1>8, <2>4, <2>5
  <2>9. NoPair(l)
    BY <2>5, <2>8 DEF NoPair
  <2>10. ASSUME NEW b \in held, b.addr = LH!Payload(x) PROVE FALSE
    <3>1. PICK i \in 1 .. k : LH!Payload(list[i]) = b.addr
      BY <1>3, <1>4 DEF Kept
    <3>2. list[i].addr + META_SIZE = top + META_SIZE
      BY <1>b, <2>4, <2>10, <3>1 DEF LH!Payload
    <3>3. list[i].addr = top
      BY <1>4, <1>b, <3>2
    <3> QED BY <1>b, <2>6, <3>3
  <2>11. Kept(l, held)
    <3>1. ASSUME NEW b \in held
          PROVE  \E i \in 1 .. k + 1 :
                   LH!Payload(l[i]) = b.addr /\ b.size <= l[i].size /\ ~l[i].vacant
      <4>1. PICK i \in 1 .. k :
              LH!Payload(list[i]) = b.addr /\ b.size <= list[i].size /\ ~list[i].vacant
        BY <1>3, <1>4 DEF Kept
      <4>2. i \in 1 .. k + 1 /\ l[i] = list[i]
        BY <1>4, <2>5
      <4> QED BY <4>1, <4>2
    <3> QED BY <1>4, <2>5, <3>1 DEF Kept
  <2>12. \A i \in 1 .. k + 1 : l[i].size = size \/ \E j \in 1 .. k : l[i].size = list[j].size
    BY <1>4, <2>4, <2>5
  <2>13. r.list = l /\ r.given = x /\ r.brk = top + META_SIZE + size
    BY <2>3
  <2>14. k + 1 \in 1 .. k + 1
    BY <1>4
  <2> QED BY <1>1, <1>3, <2>4, <2>5, <2>7, <2>8, <2>9, <2>10, <2>11, <2>12, <2>13, <2>14
          DEF GivenOut
<1>9. QED
  BY <1>6, <1>7, <1>8

-------------------------------------------------------------------------------
(* The invariant of ListHeap is inductive. *)

LEMMA HeapInvInit == LH!Init => HeapInv
<1> SUFFICES ASSUME LH!Init PROVE HeapInv
  OBVIOUS
<1>1. list = <<>> /\ Len(list) = 0 /\ list \in Seq(ListBlock)
  BY DEF LH!Init
<1>2. LH!TypeOK
  <2>1. list \in Seq([addr : Nat, size : Nat, vacant : BOOLEAN])
    BY <1>1 DEF ListBlock
  <2>2. top \in 0 .. ListHeapLimit
    BY ListHeapAssumption DEF LH!Init
  <2> QED BY <2>1, <2>2 DEF LH!Init, LH!TypeOK
<1>3. Filled(list, top) /\ NoPair(list)
  BY <1>1 DEF Filled, NoPair
<1>4. QED
  BY <1>1, <1>2, <1>3 DEF LH!Init, HeapInv, Kept

(* A block is given out: the new list, what the program holds and what it has
   asked for keep the sizes; if the block is large enough, it is kept too. *)
LEMMA Gives ==
  ASSUME HeapInv, ~oversold, NEW size \in ListHeapSize, NEW r, r = LH!Malloc(size),
         NEW g, g = LH!Given(size)
  PROVE  /\ g \in [addr : Nat, size : Nat] /\ g.size = size
         /\ \A b \in held : b.addr # g.addr
         /\ \A i \in 1 .. Len(r.list) : \E s \in asked \cup {size} : s <= r.list[i].size
         /\ r.given.size < size => \E s \in asked \cup {size} : s < g.size
         /\ ~(r.given.size < size) => Kept(r.list, held \cup {g})
<1>1. GivenOut(r, size)
  BY MallocGives
<1>2. r.given \in ListBlock /\ r.list \in Seq(ListBlock)
  BY <1>1 DEF GivenOut
<1>3. /\ r.given.size \in Nat /\ LH!Payload(r.given) = r.given.addr + META_SIZE
      /\ r.given.addr \in Nat /\ META_SIZE \in Nat
  BY <1>2, ListBlockTyped
<1>4. g = [addr |-> LH!Payload(r.given), size |-> size] /\ size \in Nat
  BY ListHeapAssumption DEF LH!Given
<1>5. g \in [addr : Nat, size : Nat] /\ g.size = size /\ g.addr = LH!Payload(r.given)
  BY <1>3, <1>4
<1>6. \A b \in held : b.addr # g.addr
  BY <1>1, <1>5 DEF GivenOut
<1>7. \A i \in 1 .. Len(list) : \E s \in asked : s <= list[i].size
  BY DEF HeapInv
<1>8. ASSUME NEW i \in 1 .. Len(r.list)
      PROVE  \E s \in asked \cup {size} : s <= r.list[i].size
  <2>1. CASE r.list[i].size = size
    <3>1. size \in asked \cup {size} /\ size <= size
      BY <1>4
    <3> QED BY <2>1, <3>1
  <2>2. CASE \E k \in 1 .. Len(list) : r.list[i].size = list[k].size
    BY <1>7, <2>2
  <2> QED BY <1>1, <2>1, <2>2 DEF GivenOut
<1>9. ASSUME r.given.size < size
      PROVE  \E s \in asked \cup {size} : s < g.size
  <2>1. PICK k \in 1 .. Len(list) : r.given.size = list[k].size
    BY <1>1, <1>3, <1>4, <1>9 DEF GivenOut
  <2>2. PICK s \in asked : s <= r.given.size
    BY <1>7, <2>1
  <2>3. s \in Nat
    BY ListHeapAssumption DEF HeapInv, LH!TypeOK
  <2> QED BY <1>3, <1>4, <1>5, <1>9, <2>2, <2>3
<1>10. ASSUME ~(r.given.size < size)
       PROVE  Kept(r.list, held \cup {g})
  <2>1. PICK i \in 1 .. Len(r.list) :
          /\ LH!Payload(r.list[i]) = LH!Payload(r.given) /\ r.list[i].size = r.given.size
          /\ ~r.list[i].vacant
    BY <1>1 DEF GivenOut
  <2>2. g.size <= r.list[i].size
    BY <1>3, <1>4, <1>5, <1>10, <2>1
  <2>3. Kept(r.list, held)
    BY <1>1 DEF GivenOut
  <2>4. ASSUME NEW b \in held \cup {g}
        PROVE  \E j \in 1 .. Len(r.list) :
                 LH!Payload(r.list[j]) = b.addr /\ b.size <= r.list[j].size /\ ~r.list[j].vacant
    <3>1. CASE b = g
      BY <1>5, <2>1, <2>2, <3>1
    <3>2. CASE b \in held
      BY <2>3, <3>2 DEF Kept
    <3> QED BY <3>1, <3>2
  <2>5. ASSUME NEW b \in held \cup {g}, NEW c \in held \cup {g}, b.addr = c.addr
        PROVE  b = c
    BY <1>6, <2>3, <2>5 DEF Kept
  <2> QED BY <2>4, <2>5 DEF Kept
<1>11. QED
  BY <1>5, <1>6, <1>8, <1>9, <1>10

(* One action each. *)
LEMMA AllocateKeeps ==
  ASSUME HeapInv, NEW size \in ListHeapSize, LH!Allocate(size)
  PROVE  HeapInv'
<1>1. PICK r : r = LH!Malloc(size)
  OBVIOUS
<1>2. PICK g : g = LH!Given(size)
  OBVIOUS
<1>3. /\ ~oversold /\ r.brk <= ListHeapLimit /\ list' = r.list /\ top' = r.brk
      /\ held' = held \cup {g} /\ asked' = asked \cup {size}
      /\ oversold' = (r.given.size < size) /\ library' = library /\ crashed' = crashed
  BY <1>1, <1>2 DEF LH!Allocate, LH!Following
<1>4. GivenOut(r, size)
  BY <1>1, <1>3, MallocGives
<1>5. /\ g \in [addr : Nat, size : Nat] /\ g.size = size
      /\ \A i \in 1 .. Len(r.list) : \E s \in asked \cup {size} : s <= r.list[i].size
      /\ r.given.size < size => \E s \in asked \cup {size} : s < g.size
      /\ ~(r.given.size < size) => Kept(r.list, held \cup {g})
  BY <1>1, <1>2, <1>3, Gives
<1>6. top' \in 0 .. ListHeapLimit
  <2>1. r.brk \in Nat
    BY <1>1, ListHeapAssumption, DudeAssumption DEF HeapInv, LH!TypeOK, LH!Malloc
  <2> QED BY <1>3, <2>1, ListHeapAssumption
<1>7. (LH!TypeOK)'
  <2>1. list' \in Seq([addr : Nat, size : Nat, vacant : BOOLEAN])
    BY <1>3, <1>4 DEF GivenOut, ListBlock
  <2>2. held' \subseteq [addr : Nat, size : Nat] /\ asked' \subseteq ListHeapSize
    BY <1>3, <1>5 DEF HeapInv, LH!TypeOK
  <2>3. oversold' \in BOOLEAN /\ library' \in {"mem_luke", "memory"} /\ crashed' \in BOOLEAN
    BY <1>3 DEF HeapInv, LH!TypeOK
  <2> QED BY <1>6, <2>1, <2>2, <2>3 DEF LH!TypeOK
<1>8. Filled(list', top') /\ NoPair(list')
  BY <1>3, <1>4 DEF GivenOut
<1>9. library' = "memory" => \A i \in 1 .. Len(list') : ~list'[i].vacant
  BY <1>3, <1>4 DEF GivenOut
<1>10. \A i \in 1 .. Len(list') : \E s \in asked' : s <= list'[i].size
  BY <1>3, <1>5
<1>11. ~oversold' => Kept(list', held')
  BY <1>3, <1>5
<1>12. oversold' => \E b \in held', s \in asked' : s < b.size
  BY <1>3, <1>5
<1>13. QED
  BY <1>7, <1>8, <1>9, <1>10, <1>11, <1>12 DEF HeapInv

LEMMA FreeKeeps ==
  ASSUME HeapInv, NEW b \in held, LH!Free(b)
  PROVE  HeapInv'
<1>1. PICK r : r = LH!Freed(list, b.addr)
  OBVIOUS
<1>2. /\ ~oversold /\ list' = r /\ held' = held \ {b} /\ library' = library /\ top' = top
      /\ asked' = asked /\ oversold' = oversold /\ crashed' = crashed
  BY <1>1 DEF LH!Free, LH!Following
<1>3. list \in Seq(ListBlock) /\ Filled(list, top) /\ NoPair(list) /\ Kept(list, held)
  BY <1>2 DEF HeapInv, LH!TypeOK, ListBlock
<1>4. /\ r \in Seq(ListBlock) /\ Filled(r, top) /\ NoPair(r)
      /\ Kept(r, held \ {b})
      /\ \A i \in 1 .. Len(r) : \E k \in 1 .. Len(list) : list[k].size <= r[i].size
      /\ library = "memory" => r = list
  <2>1. Relisted(r, list, top, held, b)
    BY <1>1, <1>3, FreedShape
  <2> QED BY <2>1 DEF Relisted
<1>5. (LH!TypeOK)'
  BY <1>2, <1>4 DEF HeapInv, LH!TypeOK, ListBlock
<1>6. ASSUME NEW i \in 1 .. Len(r) PROVE \E s \in asked : s <= r[i].size
  <2>1. PICK k \in 1 .. Len(list) : list[k].size <= r[i].size
    BY <1>4
  <2>2. PICK s \in asked : s <= list[k].size
    BY DEF HeapInv
  <2>3. list[k] \in ListBlock /\ r[i] \in ListBlock
    BY <1>3, <1>4
  <2>4. list[k].size \in Nat /\ r[i].size \in Nat /\ s \in Nat
    BY <2>3, ListBlockTyped, ListHeapAssumption DEF HeapInv, LH!TypeOK
  <2> QED BY <2>1, <2>2, <2>4
<1>7. QED
  BY <1>2, <1>4, <1>5, <1>6 DEF HeapInv

LEMMA ReallocKeeps ==
  ASSUME HeapInv, NEW b \in held, NEW size \in ListHeapSize, LH!Realloc(b, size)
  PROVE  HeapInv'
<1>1. PICK r : r = LH!Malloc(size)
  OBVIOUS
<1>2. PICK g : g = LH!Given(size)
  OBVIOUS
<1>3. PICK f : f = LH!Freed(r.list, b.addr)
  OBVIOUS
<1>4. /\ ~oversold /\ r.brk <= ListHeapLimit /\ top' = r.brk
      /\ list' = (IF oversold' THEN r.list ELSE f)
      /\ held' = (held \ {b}) \cup {g} /\ asked' = asked \cup {size}
      /\ oversold' = (r.given.size < size) /\ library' = library /\ crashed' = crashed
  BY <1>1, <1>2, <1>3 DEF LH!Realloc, LH!Following
<1>5. GivenOut(r, size)
  BY <1>1, <1>4, MallocGives
<1>6. /\ g \in [addr : Nat, size : Nat] /\ g.size = size
      /\ \A c \in held : c.addr # g.addr
      /\ \A i \in 1 .. Len(r.list) : \E s \in asked \cup {size} : s <= r.list[i].size
      /\ r.given.size < size => \E s \in asked \cup {size} : s < g.size
      /\ ~(r.given.size < size) => Kept(r.list, held \cup {g})
  BY <1>1, <1>2, <1>4, Gives
<1>7. top' \in 0 .. ListHeapLimit
  <2>1. r.brk \in Nat
    BY <1>1, ListHeapAssumption, DudeAssumption DEF HeapInv, LH!TypeOK, LH!Malloc
  <2> QED BY <1>4, <2>1, ListHeapAssumption
<1>8. r.list \in Seq(ListBlock) /\ Filled(r.list, r.brk) /\ NoPair(r.list)
  BY <1>5 DEF GivenOut
<1>9. CASE oversold'
  <2>1. list' = r.list /\ r.given.size < size
    BY <1>4, <1>9
  <2>2. (LH!TypeOK)'
    BY <1>4, <1>6, <1>7, <1>8, <2>1 DEF HeapInv, LH!TypeOK, ListBlock
  <2>3. library' = "memory" => \A i \in 1 .. Len(list') : ~list'[i].vacant
    BY <1>4, <1>5, <2>1 DEF GivenOut
  <2>4. \E c \in held', s \in asked' : s < c.size
    BY <1>4, <1>6, <2>1
  <2> QED BY <1>4, <1>6, <1>8, <1>9, <2>1, <2>2, <2>3, <2>4 DEF HeapInv
<1>10. CASE ~oversold'
  <2>1. list' = f /\ ~(r.given.size < size)
    BY <1>4, <1>10
  <2>2. PICK h : h = held \cup {g}
    OBVIOUS
  <2>3. Kept(r.list, h) /\ b \in h
    BY <1>6, <2>1, <2>2
  <2>4. /\ f \in Seq(ListBlock) /\ Filled(f, r.brk) /\ NoPair(f)
        /\ Kept(f, h \ {b})
        /\ \A i \in 1 .. Len(f) : \E k \in 1 .. Len(r.list) : r.list[k].size <= f[i].size
        /\ library = "memory" => f = r.list
    <3>1. Relisted(f, r.list, r.brk, h, b)
      BY <1>3, <1>8, <2>3, FreedShape
    <3> QED BY <3>1 DEF Relisted
  <2>5. b # g
    BY <1>6
  <2>6. h \ {b} = held'
    BY <1>4, <2>2, <2>5
  <2>7. (LH!TypeOK)'
    BY <1>4, <1>6, <1>7, <2>1, <2>4 DEF HeapInv, LH!TypeOK, ListBlock
  <2>8. library' = "memory" => \A i \in 1 .. Len(list') : ~list'[i].vacant
    BY <1>4, <1>5, <2>1, <2>4 DEF GivenOut
  <2>9. ASSUME NEW i \in 1 .. Len(f) PROVE \E s \in asked' : s <= f[i].size
    <3>1. PICK k \in 1 .. Len(r.list) : r.list[k].size <= f[i].size
      BY <2>4
    <3>2. PICK s \in asked \cup {size} : s <= r.list[k].size
      BY <1>6
    <3>3. r.list[k] \in ListBlock /\ f[i] \in ListBlock
      BY <1>8, <2>4
    <3>4. r.list[k].size \in Nat /\ f[i].size \in Nat /\ s \in Nat
      BY <3>3, ListBlockTyped, ListHeapAssumption DEF HeapInv, LH!TypeOK
    <3> QED BY <1>4, <3>1, <3>2, <3>4
  <2> QED BY <1>4, <1>10, <2>1, <2>4, <2>6, <2>7, <2>8, <2>9 DEF HeapInv
<1>11. QED
  BY <1>9, <1>10

(* the variables of ListHeap *)
heap == <<library, list, top, held, asked, oversold, crashed>>

LEMMA HeapStep == HeapInv /\ [LH!Next]_heap => HeapInv'
<1> SUFFICES ASSUME HeapInv, [LH!Next]_heap PROVE HeapInv'
  OBVIOUS
<1>1. CASE UNCHANGED heap
  BY <1>1 DEF HeapInv, LH!TypeOK, heap
<1>2. ASSUME NEW size \in ListHeapSize, LH!HeapFull(size) PROVE HeapInv'
  BY <1>2 DEF HeapInv, LH!TypeOK, LH!HeapFull
<1>3. QED
  BY <1>1, <1>2, AllocateKeeps, FreeKeeps, ReallocKeeps DEF LH!Next

(* What the runs check. *)
LEMMA HeapInvImplies == HeapInv => HeapMerged /\ ApartUnlessLarger
<1> SUFFICES ASSUME HeapInv PROVE HeapMerged /\ ApartUnlessLarger
  OBVIOUS
<1>1. /\ list \in Seq(ListBlock) /\ Filled(list, top) /\ NoPair(list)
      /\ held \subseteq [addr : Nat, size : Nat]
  BY DEF HeapInv, LH!TypeOK, ListBlock
<1>2. PICK k : k = Len(list)
  OBVIOUS
<1>3. k \in Nat /\ DOMAIN list = 1 .. k /\ \A i \in 1 .. k : list[i] \in ListBlock
  BY <1>1, <1>2
<1>4. HeapMerged
  <2>1. \A i \in DOMAIN list :
          LH!Payload(list[i]) + list[i].size = IF i = Len(list) THEN top ELSE list[i + 1].addr
    BY <1>1, <1>2, <1>3 DEF Filled, End
  <2>2. \A i \in 2 .. Len(list) : ~(list[i - 1].vacant /\ list[i].vacant)
    BY <1>1 DEF NoPair
  <2> QED BY <2>1, <2>2, Zenon DEF HeapMerged, LH!HeapMerged, LH!HeapFilled, LH!FullyMerged
<1>5. ASSUME ~oversold, NEW b \in held, NEW c \in held, b.addr < c.addr
      PROVE  b.addr + b.size <= c.addr - META_SIZE
  <2>1. Kept(list, held)
    BY <1>5 DEF HeapInv
  <2>2. PICK i \in 1 .. k : LH!Payload(list[i]) = b.addr /\ b.size <= list[i].size
    BY <1>2, <2>1 DEF Kept
  <2>3. PICK j \in 1 .. k : LH!Payload(list[j]) = c.addr /\ c.size <= list[j].size
    BY <1>2, <2>1 DEF Kept
  <2>4. PICK p \in Nat, q \in Nat, x \in Nat, y \in Nat, h \in Nat :
          /\ p = list[i].addr /\ q = list[j].addr /\ x = list[i].size /\ y = list[j].size
          /\ h = META_SIZE
    <3>1. list[i] \in ListBlock /\ list[j] \in ListBlock
      BY <1>3
    <3> QED BY <3>1, ListBlockTyped
  <2>5. /\ b.addr = p + h /\ c.addr = q + h /\ End(list[i]) = p + h + x /\ End(list[j]) = q + h + y
    BY <2>2, <2>3, <2>4 DEF End, LH!Payload
  <2>6. p < q
    BY <1>5, <2>5
  <2>7. i < j
    <3>1. i # j
      BY <2>4, <2>6
    <3>2. ASSUME j < i PROVE FALSE
      <4>1. End(list[j]) <= list[i].addr
        BY <1>1, <1>2, <3>2 DEF Filled
      <4>2. q + h + y <= p
        BY <2>4, <2>5, <4>1
      <4> QED BY <2>6, <4>2
    <3> QED BY <3>1, <3>2
  <2>8. End(list[i]) <= list[j].addr
    BY <1>1, <1>2, <2>7 DEF Filled
  <2>9. p + h + x <= q
    BY <2>4, <2>5, <2>8
  <2>10. b.size \in Nat /\ b.size <= x
    BY <1>1, <2>2, <2>4
  <2>11. p + h + b.size <= q
    BY <2>9, <2>10
  <2>12. p + h + b.size <= (q + h) - h
    BY <2>10, <2>11
  <2> QED BY <2>4, <2>5, <2>12
<1>6. ApartUnlessLarger
  <2>1. CASE oversold
    BY <2>1 DEF HeapInv, ApartUnlessLarger, LH!ApartUnlessLarger
  <2>2. CASE ~oversold
    BY <1>5, <2>2 DEF ApartUnlessLarger, LH!ApartUnlessLarger
  <2> QED BY <2>1, <2>2
<1>7. QED
  BY <1>4, <1>6

LEMMA HeapInvariant == AllSpec => []HeapInv
<1>1. AllInit => HeapInv
  BY HeapInvInit DEF AllInit
<1>2. HeapInv /\ [AllNext]_<<linked, vars, Other>> => HeapInv'
  <2> SUFFICES ASSUME HeapInv, [AllNext]_<<linked, vars, Other>> PROVE HeapInv'
    OBVIOUS
  <2>1. [LH!Next]_heap
    BY DEF AllNext, Other, heap
  <2> QED BY <2>1, HeapStep
<1>3. QED
  BY <1>1, <1>2, PTL DEF AllSpec

(* The list is what the heap is, after every merge: no bytes are lost or counted
   twice, and no two vacant blocks are left apart (mem_luke.c:30-46). *)
THEOREM HeapAlwaysMerged == AllSpec => []HeapMerged
<1>1. HeapInv => HeapMerged
  BY HeapInvImplies
<1>2. QED
  BY <1>1, HeapInvariant, PTL

(* The program's blocks and their headers are apart, unless one was given out
   for a request larger than an earlier one (mem_luke.c:48-55). *)
THEOREM HeapApartUnlessLarger == AllSpec => []ApartUnlessLarger
<1>1. HeapInv => ApartUnlessLarger
  BY HeapInvImplies
<1>2. QED
  BY <1>1, HeapInvariant, PTL
================================================================================
