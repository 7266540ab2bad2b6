-------------------------------- MODULE Paging --------------------------------
(***************************************************************************)
(* The demand-paged memory of lab2/machine.c: RAM_PAGES physical pages in  *)
(* front of SWAP_PAGES pages of swap, a page table with one entry for each *)
(* virtual page, a core map with one entry for each physical page, and two *)
(* replacement algorithms.  One action per memory operation of the         *)
(* processor, each with everything translate() does: the page fault, the   *)
(* choice of a victim, its write-back and the page-in.                     *)
(***************************************************************************)
EXTENDS Integers, FiniteSets

CONSTANTS
  VPage,         \* indices of page_table, 0 .. NPAGES-1 in the code
  RAM_PAGES,     \* number of physical pages
  SWAP_PAGES,    \* number of swap pages
  PAGESIZE,      \* words in a page
  Word,          \* values of a machine word
  Zero,          \* the word static storage starts with
  NULL,          \* the owner of a physical page that was never used
  Replace,       \* which function *replace points to
  MaxFaults,     \* bound: page faults in a behaviour
  MaxStores      \* bound: calls of write_memory in a behaviour

ASSUME SizeAssumption ==
  /\ RAM_PAGES \in Nat \ {0}
  /\ SWAP_PAGES \in Nat
  /\ PAGESIZE \in Nat \ {0}
  /\ MaxFaults \in Nat
  /\ MaxStores \in Nat

ASSUME ReplaceAssumption == Replace \in {"fifo", "second_chance"}

ASSUME FiniteAssumption == IsFiniteSet(VPage)

Frame == 0 .. RAM_PAGES - 1
SwapPage == 0 .. SWAP_PAGES - 1
Offset == 0 .. PAGESIZE - 1
PageContents == [Offset -> Word]

ASSUME ValueAssumption == Zero \in Word /\ NULL \notin VPage \cup PageContents

VARIABLES
  page_table,       \* page_table[v]: page, inmemory, ondisk, modified, referenced
  coremap,          \* coremap[f]: owner and its swap page
  memory,           \* memory[f]: words of physical page f
  swap,             \* swap[s]: words of swap page s
  count,            \* next unused swap page (static in new_swap_page)
  hand,             \* physical page chosen last (static in the replacement)
  data,             \* what the last read_memory returned
  num_pagefault,    \* statistics, as in the code
  num_page_writes,
  num_page_reads,
  num_disc_writes,
  aborted           \* the assertion of new_swap_page failed

stats == <<num_pagefault, num_page_writes, num_page_reads, num_disc_writes>>
vars == <<page_table, coremap, memory, swap, count, hand, data, stats, aborted>>

Entry == [page : Nat, inmemory : BOOLEAN, ondisk : BOOLEAN,
          modified : BOOLEAN, referenced : BOOLEAN]

TypeOK ==
  /\ page_table \in [VPage -> Entry]
  /\ coremap \in [Frame -> [owner : VPage \cup {NULL}, page : Nat]]
  /\ memory \in [Frame -> PageContents]
  /\ swap \in [SwapPage -> PageContents]
  /\ count \in 0 .. SWAP_PAGES
  /\ hand \in Frame
  /\ data \in Word
  /\ num_pagefault \in 0 .. MaxFaults
  /\ num_disc_writes \in 0 .. MaxStores
  /\ num_page_writes \in Nat
  /\ num_page_reads \in Nat
  /\ aborted \in BOOLEAN

(* Static storage: every word, flag, index and counter starts at zero. *)
Init ==
  /\ page_table = [v \in VPage |-> [page |-> 0, inmemory |-> FALSE, ondisk |-> FALSE,
                                    modified |-> FALSE, referenced |-> FALSE]]
  /\ coremap = [f \in Frame |-> [owner |-> NULL, page |-> 0]]
  /\ memory = [f \in Frame |-> [o \in Offset |-> Zero]]
  /\ swap = [s \in SwapPage |-> [o \in Offset |-> Zero]]
  /\ count = 0
  /\ hand = 0
  /\ data = Zero
  /\ num_pagefault = 0
  /\ num_page_writes = 0
  /\ num_page_reads = 0
  /\ num_disc_writes = 0
  /\ aborted = FALSE

-------------------------------------------------------------------------------
(* Replacement. *)

(* the physical page n places after the hand, around the circular list *)
Ahead(n) == (hand + n) % RAM_PAGES

(* the loop of second_chance_replace passes over f and clears its bit *)
PassedOver(f) ==
  coremap[f].owner # NULL /\ page_table[coremap[f].owner].referenced

(* the places, counted from the hand, that the loop passes over: all before
   the first page that is free or unreferenced; when there is none, every
   place, and the loop ends where it started, whose bit it has cleared *)
Sweep == {n \in Frame : \A m \in 0 .. n : PassedOver(Ahead(m))}

(* the page *replace returns *)
VictimFrame_SkipsReferenced == Ahead(Cardinality(Sweep))
VictimFrame == IF Replace = "fifo" THEN Ahead(1) ELSE Ahead(Cardinality(Sweep))

(* owners whose referenced bit the replacement clears *)
Reprieved ==
  IF Replace = "fifo" THEN {} ELSE {coremap[Ahead(n)].owner : n \in Sweep}

-------------------------------------------------------------------------------
(* take_phys_page: evict the owner of the victim, if it has one. *)

Victim == coremap[VictimFrame].owner
Evicting == Victim # NULL
FirstEviction_Always == Evicting
FirstEviction == Evicting /\ ~page_table[Victim].ondisk

(* new_swap_page fails its assertion *)
SwapFull == FirstEviction /\ count >= SWAP_PAGES

(* the swap page the victim goes to: a new one, or the one in the core map *)
VictimSlot_FromPageTable == IF FirstEviction THEN count ELSE page_table[Victim].page
VictimSlot == IF FirstEviction THEN count ELSE coremap[VictimFrame].page

(* a page that is already on disk is written back only if it was modified *)
WritesBack_OnlyOnce == FirstEviction
WritesBack == Evicting /\ (page_table[Victim].ondisk => page_table[Victim].modified)

SwapAfterEviction ==
  IF WritesBack THEN [swap EXCEPT ![VictimSlot] = memory[VictimFrame]] ELSE swap

EvictedEntry_StaysResident(e) ==
  [e EXCEPT !.page = VictimSlot, !.ondisk = TRUE, !.modified = FALSE]
EvictedEntry_NotOnDisk(e) ==
  [e EXCEPT !.page = VictimSlot, !.modified = FALSE, !.inmemory = FALSE]
EvictedEntry(e) ==
  [e EXCEPT !.page = VictimSlot, !.ondisk = TRUE,
            !.modified = FALSE, !.inmemory = FALSE]

(* page_table when take_phys_page returns *)
AfterEviction ==
  [v \in VPage |->
     LET e == [page_table[v] EXCEPT !.referenced = @ /\ v \notin Reprieved]
     IN  IF v = Victim THEN EvictedEntry(e) ELSE e]

-------------------------------------------------------------------------------
(* pagefault and translate. *)

(* what the physical page holds once the page-in is done: the swap copy, or
   for a page that has none whatever the last owner left there *)
PagedIn(v) ==
  IF AfterEviction[v].ondisk THEN SwapAfterEviction[AfterEviction[v].page]
  ELSE memory[VictimFrame]

(* translate sets the bits after the fault has been served *)
Touched_Clean(e, write) == [e EXCEPT !.referenced = TRUE]
Touched_Unreferenced(e, write) == [e EXCEPT !.modified = @ \/ write]
Touched(e, write) == [e EXCEPT !.referenced = TRUE, !.modified = @ \/ write]

LoadedEntry(e, f) == [e EXCEPT !.inmemory = TRUE, !.page = f]

Hit(v, write) ==
  /\ page_table[v].inmemory
  /\ page_table' = [page_table EXCEPT ![v] = Touched(@, write)]
  /\ UNCHANGED <<coremap, swap, count, hand, num_pagefault, num_page_writes, num_page_reads>>

PageFault(v, write) ==
  /\ ~page_table[v].inmemory
  /\ num_pagefault < MaxFaults
  /\ ~SwapFull
  /\ page_table' =
       [AfterEviction EXCEPT ![v] = Touched(LoadedEntry(@, VictimFrame), write)]
  /\ coremap' =
       [coremap EXCEPT ![VictimFrame] =
          [owner |-> v,
           page |-> IF AfterEviction[v].ondisk THEN AfterEviction[v].page ELSE @.page]]
  /\ swap' = SwapAfterEviction
  /\ count' = IF FirstEviction THEN count + 1 ELSE count
  /\ hand' = VictimFrame
  /\ num_pagefault' = num_pagefault + 1
  /\ num_page_writes' = IF WritesBack THEN num_page_writes + 1 ELSE num_page_writes
  /\ num_page_reads' = IF AfterEviction[v].ondisk THEN num_page_reads + 1 ELSE num_page_reads

(* where translate finds page v, and what is there *)
FrameOf(v) == IF page_table[v].inmemory THEN page_table[v].page ELSE VictimFrame
Contents(v) == IF page_table[v].inmemory THEN memory[page_table[v].page] ELSE PagedIn(v)

Translate(v, write) == Hit(v, write) \/ PageFault(v, write)

ReadMemory(v, o) ==
  /\ ~aborted
  /\ Translate(v, FALSE)
  /\ memory' = [memory EXCEPT ![FrameOf(v)] = Contents(v)]
  /\ data' = Contents(v)[o]
  /\ UNCHANGED <<num_disc_writes, aborted>>

WriteMemory(v, o, d) ==
  /\ ~aborted
  /\ num_disc_writes < MaxStores
  /\ Translate(v, TRUE)
  /\ memory' = [memory EXCEPT ![FrameOf(v)] = [Contents(v) EXCEPT ![o] = d]]
  /\ num_disc_writes' = num_disc_writes + 1
  /\ UNCHANGED <<data, aborted>>

(* An access needs a swap page and none is left: the assertion ends the
   process, so nothing else of its state matters any more. *)
SwapExhausted(v) ==
  /\ ~aborted
  /\ ~page_table[v].inmemory
  /\ SwapFull
  /\ aborted' = TRUE
  /\ UNCHANGED <<page_table, coremap, memory, swap, count, hand, data, stats>>

Next ==
  \/ \E v \in VPage, o \in Offset : ReadMemory(v, o)
  \/ \E v \in VPage, o \in Offset, d \in Word : WriteMemory(v, o, d)
  \/ \E v \in VPage : SwapExhausted(v)

Spec == Init /\ [][Next]_vars
-------------------------------------------------------------------------------
(* Properties. *)

Resident == {v \in VPage : page_table[v].inmemory}
OnDisk == {v \in VPage : page_table[v].ondisk}

(* the swap page of v: page_table[v].page names it while v is out of memory,
   the core map entry of its physical page while v is in memory *)
SlotOf(v) ==
  IF page_table[v].inmemory THEN coremap[page_table[v].page].page
  ELSE page_table[v].page

(* The page table and the core map agree: a physical page is owned by a page
   that is in memory there, and a page in memory owns the physical page its
   entry names.  take_phys_page and pagefault (machine.c:150-206) update the
   two in different places. *)
OwnersAgree ==
  /\ \A f \in Frame : LET v == coremap[f].owner IN
       v # NULL => v \in Resident /\ page_table[v].page = f
  /\ \A v \in Resident : page_table[v].page \in Frame /\ coremap[page_table[v].page].owner = v

(* Each page on disk has a swap page of its own among the ones that
   new_swap_page handed out, although the field that names it is reused for
   the physical page while the page is in memory (machine.c:159-168,199). *)
SlotsOwned ==
  /\ \A v \in OnDisk : SlotOf(v) \in 0 .. count - 1
  /\ \A v, w \in OnDisk : SlotOf(v) = SlotOf(w) => v = w
  /\ Cardinality(OnDisk) = count

(* A page in memory that has a swap copy and is not marked modified equals
   that copy, so evicting it without a write-back (machine.c:160) loses
   nothing. *)
CleanCopy ==
  \A v \in Resident \cap OnDisk :
    ~page_table[v].modified => swap[SlotOf(v)] = memory[page_table[v].page]

(* The statistics add up: each fault is the first touch of a page or reads
   the page from disk; each disk write is an eviction; each swap page was
   written (machine.c:98-108,194). *)
StatisticsAddUp ==
  /\ num_pagefault = num_page_reads + Cardinality(Resident \cup OnDisk)
  /\ num_page_writes + Cardinality(Resident) <= num_pagefault
  /\ count <= num_page_writes

(* The assertion of new_swap_page (machine.c:112) fails only for a program
   that uses more pages than there are swap pages. *)
AbortMeansSwapExceeded ==
  aborted => Cardinality(Resident \cup OnDisk) > SWAP_PAGES

(* Second chance (machine.c:133-145): the page evicted was not referenced
   since the hand last passed it, and it is not the page loaded last; only
   when every page in RAM has been referenced is it the page loaded last,
   where the hand still stands. *)
SecondChance ==
  [][\A v \in Resident : ~page_table'[v].inmemory =>
       IF \A f \in Frame : PassedOver(f) THEN page_table[v].page = hand
       ELSE ~page_table[v].referenced /\ page_table[v].page # hand]_vars

(* The words of page v: in RAM, on disk, or nowhere yet *)
StoreOf(v) ==
  IF page_table[v].inmemory THEN memory[page_table[v].page]
  ELSE IF page_table[v].ondisk THEN swap[page_table[v].page]
  ELSE NULL

Flat ==
  INSTANCE FlatMemory WITH store <- [v \in VPage |-> StoreOf(v)], Untouched <- NULL

(* The paged memory behaves as a flat one: a load returns what the last
   store to that address left, across every eviction, write-back and page-in
   (read_memory and write_memory, machine.c:224-237). *)
PagesAreMemory == Flat!Spec
================================================================================
