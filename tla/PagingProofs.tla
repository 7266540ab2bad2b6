----------------------------- MODULE PagingProofs -----------------------------
(***************************************************************************)
(* Proofs about Paging, for every number of virtual, physical and swap     *)
(* pages, every page size and both replacement functions.                  *)
(***************************************************************************)
EXTENDS MCPagingFifo, FiniteSetTheorems, WellFoundedInduction, TLAPS

-------------------------------------------------------------------------------
(* Lemmas about the operators. *)

(* A place on the circular list is a physical page. *)
LEMMA AheadIsFrame ==
  ASSUME hand \in Frame, NEW n \in Nat
  PROVE  Ahead(n) \in Frame
  BY SizeAssumption DEF Ahead, Frame

(* The replacement returns a physical page: the assertion page < RAM_PAGES
   (machine.c:127,136) never fails. *)
LEMMA VictimIsFrame ==
  ASSUME hand \in Frame
  PROVE  VictimFrame \in Frame
<1>1. IsFiniteSet(Frame)
  BY FS_Interval, SizeAssumption DEF Frame
<1>2. IsFiniteSet(Sweep)
  BY <1>1, FS_Subset DEF Sweep
<1>3. Cardinality(Sweep) \in Nat
  BY <1>2, FS_CardinalityType
<1>4. QED
  BY <1>3, AheadIsFrame DEF VictimFrame

-------------------------------------------------------------------------------
(* The inductive invariant. *)

(* OwnersAgree, SlotsOwned and CleanCopy need each other: the write-back is
   skipped for a clean page because its copy is current, the copy is found
   through the core map, and the core map entry is the one of the page
   being evicted because owners and page table agree. *)
IInv == TypeOK /\ OwnersAgree /\ SlotsOwned /\ CleanCopy

(* An eviction concerns a page that is in memory, and sends it to an
   allocated swap page, its own if it has one. *)
LEMMA EvictionTarget ==
  ASSUME IInv, ~SwapFull, Evicting
  PROVE  /\ VictimFrame \in Frame
         /\ Victim \in Resident
         /\ page_table[Victim].page = VictimFrame
         /\ VictimSlot \in SwapPage
         /\ FirstEviction => VictimSlot = count
         /\ ~FirstEviction => VictimSlot = SlotOf(Victim) /\ VictimSlot < count
<1> USE DEF IInv
<1>1. VictimFrame \in Frame
  BY VictimIsFrame DEF TypeOK
<1>2. Victim \in Resident /\ page_table[Victim].page = VictimFrame
  BY <1>1 DEF OwnersAgree, Victim, Evicting
<1>3. ASSUME FirstEviction
      PROVE  VictimSlot = count /\ VictimSlot \in SwapPage
  BY <1>3, SizeAssumption DEF VictimSlot, SwapFull, SwapPage, TypeOK
<1>4. ASSUME ~FirstEviction
      PROVE  VictimSlot = SlotOf(Victim) /\ VictimSlot < count /\ VictimSlot \in SwapPage
  <2>1. Victim \in OnDisk
    BY <1>2, <1>4 DEF FirstEviction, OnDisk, Resident
  <2>2. VictimSlot = SlotOf(Victim)
    BY <1>2, <1>4 DEF VictimSlot, SlotOf, Resident
  <2>3. SlotOf(Victim) \in 0 .. count - 1
    BY <2>1 DEF SlotsOwned
  <2>4. QED
    BY <2>2, <2>3, SizeAssumption DEF TypeOK, SwapPage
<1>5. QED
  BY <1>1, <1>2, <1>3, <1>4

(* After take_phys_page the swap page of the victim holds its words, whether
   they were written back now or had been before; the others are as before. *)
LEMMA SwapHoldsVictim ==
  ASSUME IInv, ~SwapFull
  PROVE  /\ SwapAfterEviction \in [SwapPage -> PageContents]
         /\ Evicting => SwapAfterEviction[VictimSlot] = memory[VictimFrame]
         /\ \A s \in SwapPage :
              ~Evicting \/ s # VictimSlot => SwapAfterEviction[s] = swap[s]
<1> USE DEF IInv
<1>1. CASE WritesBack
  <2>1. Evicting
    BY <1>1 DEF WritesBack
  <2>2. VictimSlot \in SwapPage /\ VictimFrame \in Frame
    BY <2>1, EvictionTarget
  <2>3. SwapAfterEviction = [swap EXCEPT ![VictimSlot] = memory[VictimFrame]]
    BY <1>1 DEF SwapAfterEviction
  <2>4. swap \in [SwapPage -> PageContents] /\ memory[VictimFrame] \in PageContents
    BY <2>2 DEF TypeOK
  <2>5. QED
    BY <2>1, <2>2, <2>3, <2>4
<1>2. CASE ~WritesBack
  <2>1. SwapAfterEviction = swap
    BY <1>2 DEF SwapAfterEviction
  <2>2. ASSUME Evicting
        PROVE  swap[VictimSlot] = memory[VictimFrame]
    <3>1. Victim \in Resident /\ page_table[Victim].page = VictimFrame
      BY <2>2, EvictionTarget
    <3>2. Victim \in OnDisk /\ ~page_table[Victim].modified
      BY <1>2, <2>2, <3>1 DEF WritesBack, OnDisk, Resident
    <3>3. VictimSlot = SlotOf(Victim)
      BY <2>2, <3>2, EvictionTarget DEF FirstEviction, OnDisk
    <3>4. QED
      BY <3>1, <3>2, <3>3 DEF CleanCopy
  <2>3. QED
    BY <2>1, <2>2 DEF TypeOK
<1>3. QED
  BY <1>1, <1>2

(* What take_phys_page leaves in the page table: the victim is on disk, and
   for every other page at most the referenced bit has changed. *)
LEMMA PageTableAfterEviction ==
  ASSUME IInv, ~SwapFull
  PROVE  /\ AfterEviction \in [VPage -> Entry]
         /\ \A w \in VPage : w = Victim =>
              /\ AfterEviction[w].page = VictimSlot
              /\ ~AfterEviction[w].inmemory
              /\ AfterEviction[w].ondisk
              /\ ~AfterEviction[w].modified
         /\ \A w \in VPage : w # Victim =>
              /\ AfterEviction[w].page = page_table[w].page
              /\ AfterEviction[w].inmemory = page_table[w].inmemory
              /\ AfterEviction[w].ondisk = page_table[w].ondisk
              /\ AfterEviction[w].modified = page_table[w].modified
<1> USE DEF IInv
<1> DEFINE Cleared(w) ==
      [page_table[w] EXCEPT !.referenced = @ /\ w \notin Reprieved]
<1>1. ASSUME NEW w \in VPage
      PROVE  /\ Cleared(w) \in Entry
             /\ Cleared(w).page = page_table[w].page
             /\ Cleared(w).inmemory = page_table[w].inmemory
             /\ Cleared(w).ondisk = page_table[w].ondisk
             /\ Cleared(w).modified = page_table[w].modified
  BY DEF TypeOK, Entry
<1>2. AfterEviction =
        [w \in VPage |-> IF w = Victim THEN EvictedEntry(Cleared(w)) ELSE Cleared(w)]
  BY DEF AfterEviction
<1>3. ASSUME Victim \in VPage
      PROVE  VictimSlot \in Nat
  <2>1. Evicting
    BY <1>3, ValueAssumption DEF Evicting
  <2>2. QED
    BY <2>1, EvictionTarget DEF SwapPage
<1>4. ASSUME NEW w \in VPage, w = Victim
      PROVE  /\ EvictedEntry(Cleared(w)) \in Entry
             /\ EvictedEntry(Cleared(w)).page = VictimSlot
             /\ ~EvictedEntry(Cleared(w)).inmemory
             /\ EvictedEntry(Cleared(w)).ondisk
             /\ ~EvictedEntry(Cleared(w)).modified
  <2> HIDE DEF Cleared
  <2>1. VictimSlot \in Nat
    BY <1>3, <1>4
  <2>2. QED
    BY <1>1, <2>1 DEF EvictedEntry, Entry
<1> HIDE DEF Cleared
<1>5. QED
  BY <1>1, <1>2, <1>4

-------------------------------------------------------------------------------
(* Preservation. *)

(* The page being loaded is not the one being evicted, and its swap copy is
   not overwritten by the eviction that makes room for it. *)
LEMMA PageInIsUndisturbed ==
  ASSUME IInv, ~SwapFull, NEW v \in VPage, ~page_table[v].inmemory
  PROVE  /\ v # Victim
         /\ page_table[v].ondisk =>
              /\ page_table[v].page \in SwapPage
              /\ Evicting => page_table[v].page # VictimSlot
         /\ PagedIn(v) = IF page_table[v].ondisk THEN swap[page_table[v].page]
                         ELSE memory[VictimFrame]
         /\ PagedIn(v) \in PageContents
<1> USE DEF IInv
<1>1. v # Victim
  <2>1. CASE Evicting
    BY <2>1, EvictionTarget DEF Resident
  <2>2. CASE ~Evicting
    BY <2>2, ValueAssumption DEF Evicting
  <2>3. QED
    BY <2>1, <2>2
<1>2. AfterEviction[v].ondisk = page_table[v].ondisk /\ AfterEviction[v].page = page_table[v].page
  BY <1>1, PageTableAfterEviction
<1>3. ASSUME page_table[v].ondisk
      PROVE  /\ page_table[v].page \in SwapPage
             /\ Evicting => page_table[v].page # VictimSlot
  <2>1. v \in OnDisk /\ SlotOf(v) = page_table[v].page
    BY <1>3 DEF OnDisk, SlotOf
  <2>2. page_table[v].page \in 0 .. count - 1
    BY <2>1 DEF SlotsOwned
  <2>3. page_table[v].page \in SwapPage
    BY <2>2, SizeAssumption DEF TypeOK, SwapPage
  <2>4. ASSUME Evicting
        PROVE  page_table[v].page # VictimSlot
    <3>1. CASE FirstEviction
      BY <2>2, <2>4, <3>1, EvictionTarget DEF TypeOK
    <3>2. CASE ~FirstEviction
      <4>1. VictimSlot = SlotOf(Victim) /\ Victim \in OnDisk
        BY <2>4, <3>2, EvictionTarget DEF FirstEviction, OnDisk, Resident
      <4>2. QED
        BY <1>1, <2>1, <4>1 DEF SlotsOwned
    <3>3. QED
      BY <3>1, <3>2
  <2>5. QED
    BY <2>3, <2>4
<1>4. PagedIn(v) = IF page_table[v].ondisk THEN swap[page_table[v].page]
                   ELSE memory[VictimFrame]
  BY <1>2, <1>3, SwapHoldsVictim DEF PagedIn
<1>5. VictimFrame \in Frame
  BY VictimIsFrame DEF TypeOK
<1>6. QED
  BY <1>1, <1>3, <1>4, <1>5 DEF TypeOK

(* What an access does to an entry: it marks it, and nothing else. *)
LEMMA TouchedEntry ==
  ASSUME NEW e \in Entry, NEW write \in BOOLEAN
  PROVE  /\ Touched(e, write) \in Entry
         /\ Touched(e, write).page = e.page
         /\ Touched(e, write).inmemory = e.inmemory
         /\ Touched(e, write).ondisk = e.ondisk
         /\ Touched(e, write).modified = (e.modified \/ write)
<1> DEFINE m == e.modified \/ write
<1>1. m \in BOOLEAN
  BY DEF Entry
<1>2. Touched(e, write) = [e EXCEPT !.referenced = TRUE, !.modified = m]
  BY Zenon DEF Touched
<1> HIDE DEF m
<1>3. /\ Touched(e, write) \in Entry
      /\ Touched(e, write).page = e.page
      /\ Touched(e, write).inmemory = e.inmemory
      /\ Touched(e, write).ondisk = e.ondisk
      /\ Touched(e, write).modified = m
  BY <1>1, <1>2 DEF Entry
<1>4. QED
  BY <1>3 DEF m

(* What pagefault does to the entry it loads. *)
LEMMA LoadedIsResident ==
  ASSUME NEW e \in Entry, NEW f \in Frame
  PROVE  /\ LoadedEntry(e, f) \in Entry
         /\ LoadedEntry(e, f).page = f
         /\ LoadedEntry(e, f).inmemory
         /\ LoadedEntry(e, f).ondisk = e.ondisk
         /\ LoadedEntry(e, f).modified = e.modified
<1>1. f \in Nat
  BY SizeAssumption DEF Frame
<1>2. QED
  BY <1>1 DEF LoadedEntry, Entry

(* The page table and core map after a page fault, field by field. *)
LEMMA FaultEffect ==
  ASSUME IInv, NEW v \in VPage, NEW write \in BOOLEAN, PageFault(v, write)
  PROVE  /\ VictimFrame \in Frame
         /\ page_table' \in [VPage -> Entry]
         /\ coremap' \in [Frame -> [owner : VPage \cup {NULL}, page : Nat]]
         /\ page_table'[v].page = VictimFrame
         /\ page_table'[v].inmemory
         /\ page_table'[v].ondisk = page_table[v].ondisk
         /\ page_table'[v].modified = (page_table[v].modified \/ write)
         /\ \A w \in VPage \ {v} : page_table'[w] = AfterEviction[w]
         /\ coremap'[VictimFrame].owner = v
         /\ page_table[v].ondisk => coremap'[VictimFrame].page = page_table[v].page
         /\ \A f \in Frame \ {VictimFrame} : coremap'[f] = coremap[f]
<1> USE DEF IInv
<1>1. ~SwapFull /\ ~page_table[v].inmemory
  BY DEF PageFault
<1>2. VictimFrame \in Frame
  BY VictimIsFrame DEF TypeOK
<1>3. v # Victim
  BY <1>1, PageInIsUndisturbed
<1>4. /\ AfterEviction \in [VPage -> Entry]
      /\ AfterEviction[v].page = page_table[v].page
      /\ AfterEviction[v].ondisk = page_table[v].ondisk
      /\ AfterEviction[v].modified = page_table[v].modified
  BY <1>1, <1>3, PageTableAfterEviction
<1> DEFINE e == Touched(LoadedEntry(AfterEviction[v], VictimFrame), write)
           c == [owner |-> v,
                 page |-> IF AfterEviction[v].ondisk THEN AfterEviction[v].page
                          ELSE coremap[VictimFrame].page]
<1>5. /\ e \in Entry
      /\ e.page = VictimFrame
      /\ e.inmemory
      /\ e.ondisk = page_table[v].ondisk
      /\ e.modified = (page_table[v].modified \/ write)
  BY <1>2, <1>4, LoadedIsResident, TouchedEntry
<1>6. /\ c \in [owner : VPage \cup {NULL}, page : Nat]
      /\ c.owner = v
      /\ page_table[v].ondisk => c.page = page_table[v].page
  BY <1>2, <1>4 DEF TypeOK, Entry
<1>7. /\ page_table' = [AfterEviction EXCEPT ![v] = e]
      /\ coremap' = [coremap EXCEPT ![VictimFrame] = c]
  BY DEF PageFault
<1> HIDE DEF e, c
<1>8. coremap \in [Frame -> [owner : VPage \cup {NULL}, page : Nat]]
  BY DEF TypeOK
<1>9. /\ page_table' \in [VPage -> Entry]
      /\ page_table'[v] = e
      /\ \A w \in VPage \ {v} : page_table'[w] = AfterEviction[w]
  BY <1>4, <1>5, <1>7
<1>10. /\ coremap' \in [Frame -> [owner : VPage \cup {NULL}, page : Nat]]
       /\ coremap'[VictimFrame] = c
       /\ \A f \in Frame \ {VictimFrame} : coremap'[f] = coremap[f]
  BY <1>2, <1>6, <1>7, <1>8
<1>11. QED
  BY <1>2, <1>5, <1>6, <1>9, <1>10

(* A page that stays in memory during a page fault is not in the frame the
   fault takes. *)
LEMMA OthersStay ==
  ASSUME IInv, NEW v \in VPage, NEW write \in BOOLEAN, PageFault(v, write),
         NEW w \in VPage, w # v
  PROVE  /\ w = Victim =>
              /\ Evicting
              /\ ~page_table'[w].inmemory
              /\ page_table'[w].ondisk
              /\ page_table'[w].page = VictimSlot
         /\ w # Victim =>
              /\ page_table'[w].page = page_table[w].page
              /\ page_table'[w].inmemory = page_table[w].inmemory
              /\ page_table'[w].ondisk = page_table[w].ondisk
              /\ page_table'[w].modified = page_table[w].modified
              /\ w \in Resident => /\ page_table[w].page \in Frame \ {VictimFrame}
                                   /\ coremap'[page_table[w].page] = coremap[page_table[w].page]
<1>1. page_table'[w] = AfterEviction[w]
  BY FaultEffect
<1>2. IInv /\ ~SwapFull
  BY DEF PageFault
<1>3. ASSUME w = Victim
      PROVE  Evicting
  BY <1>3, ValueAssumption DEF Evicting
<1>4. ASSUME w # Victim, w \in Resident
      PROVE  /\ page_table[w].page \in Frame \ {VictimFrame}
             /\ coremap'[page_table[w].page] = coremap[page_table[w].page]
  <2>1. page_table[w].page \in Frame /\ coremap[page_table[w].page].owner = w
    BY <1>2, <1>4 DEF IInv, OwnersAgree
  <2>2. page_table[w].page # VictimFrame
    BY <1>4, <2>1 DEF Victim
  <2>3. QED
    BY <2>1, <2>2, FaultEffect
<1>5. QED
  BY <1>1, <1>2, <1>3, <1>4, PageTableAfterEviction

(* A page fault keeps the swap page of every page on disk, and an eviction
   for the first time hands out the next one. *)
LEMMA FaultSlots ==
  ASSUME IInv, NEW v \in VPage, NEW write \in BOOLEAN, PageFault(v, write)
  PROVE  /\ \A w \in OnDisk : SlotOf(w)' = SlotOf(w)
         /\ FirstEviction => /\ OnDisk' = OnDisk \cup {Victim}
                             /\ Victim \notin OnDisk
                             /\ \A w \in VPage : w = Victim => SlotOf(w)' = count
         /\ ~FirstEviction => OnDisk' = OnDisk
<1>1. IInv /\ ~SwapFull /\ ~page_table[v].inmemory
  BY DEF PageFault
<1>2. v # Victim
  BY <1>1, PageInIsUndisturbed
<1>3. ASSUME NEW w \in OnDisk
      PROVE  SlotOf(w)' = SlotOf(w)
  <2>1. w \in VPage /\ page_table[w].ondisk
    BY DEF OnDisk
  <2>2. CASE w = v
    <3>1. SlotOf(v)' = coremap'[VictimFrame].page
      BY FaultEffect DEF SlotOf
    <3>2. SlotOf(v) = page_table[v].page
      BY <1>1 DEF SlotOf
    <3>3. QED
      BY <2>1, <2>2, <3>1, <3>2, FaultEffect
  <2>3. CASE w # v /\ w = Victim
    <3>1. Evicting /\ SlotOf(w)' = VictimSlot
      BY <2>1, <2>3, OthersStay DEF SlotOf
    <3>2. ~FirstEviction
      BY <2>1, <2>3 DEF FirstEviction
    <3>3. QED
      BY <1>1, <2>3, <3>1, <3>2, EvictionTarget
  <2>4. CASE w # v /\ w # Victim
    BY <2>1, <2>4, OthersStay DEF SlotOf, Resident
  <2>5. QED
    BY <2>2, <2>3, <2>4
<1>4. \A w \in VPage : w # Victim => page_table'[w].ondisk = page_table[w].ondisk
  BY FaultEffect, OthersStay
<1>5. ASSUME FirstEviction
      PROVE  /\ OnDisk' = OnDisk \cup {Victim}
             /\ Victim \notin OnDisk
             /\ \A w \in VPage : w = Victim => SlotOf(w)' = count
  <2>1. Evicting /\ Victim \notin OnDisk
    BY <1>5 DEF FirstEviction, OnDisk
  <2>2. Victim \in VPage
    BY <1>1, <2>1, EvictionTarget DEF Resident
  <2>3. \A w \in VPage : w = Victim => page_table'[w].ondisk /\ SlotOf(w)' = VictimSlot
    BY <1>2, <2>2, OthersStay DEF SlotOf
  <2>4. OnDisk' = OnDisk \cup {Victim}
    BY <1>4, <2>2, <2>3 DEF OnDisk
  <2>5. QED
    BY <1>1, <1>5, <2>1, <2>3, <2>4, EvictionTarget
<1>6. ASSUME ~FirstEviction
      PROVE  OnDisk' = OnDisk
  <2>1. ASSUME Victim \in VPage
        PROVE  page_table'[Victim].ondisk = page_table[Victim].ondisk
    <3>1. Evicting /\ page_table'[Victim].ondisk
      BY <1>2, <2>1, OthersStay
    <3>2. page_table[Victim].ondisk
      BY <1>6, <3>1 DEF FirstEviction
    <3>3. QED
      BY <1>1, <2>1, <3>1, <3>2, FaultEffect DEF IInv, TypeOK, Entry
  <2>2. QED
    BY <1>4, <2>1 DEF OnDisk
<1>7. QED
  BY <1>3, <1>5, <1>6

(* A page fault preserves the invariant, whatever the access then stores in
   the page it brought in.  c is what the physical page holds at the end. *)
LEMMA FaultPreserves ==
  ASSUME IInv, NEW v \in VPage, NEW write \in BOOLEAN, NEW c \in PageContents,
         PageFault(v, write),
         memory' = [memory EXCEPT ![VictimFrame] = c],
         write \/ c = PagedIn(v)
  PROVE  OwnersAgree' /\ SlotsOwned' /\ CleanCopy'
<1>1. IInv /\ ~SwapFull /\ ~page_table[v].inmemory /\ v \notin Resident
  BY DEF PageFault, Resident
<1>2. v # Victim
  BY <1>1, PageInIsUndisturbed
<1>3. VictimFrame \in Frame
  BY FaultEffect
<1>4. OwnersAgree'
  <2>1. ASSUME NEW f \in Frame, coremap'[f].owner # NULL
        PROVE  coremap'[f].owner \in Resident' /\ page_table'[coremap'[f].owner].page = f
    <3>1. CASE f = VictimFrame
      BY <3>1, FaultEffect DEF Resident
    <3>2. CASE f # VictimFrame
      <4> DEFINE w == coremap[f].owner
      <4>1. coremap'[f] = coremap[f]
        BY <3>2, FaultEffect
      <4>2. w \in Resident /\ page_table[w].page = f
        BY <1>1, <2>1, <4>1 DEF IInv, OwnersAgree
      <4>3. w \in VPage /\ w # v
        BY <1>1, <4>2 DEF Resident
      <4>4. w # Victim
        BY <1>1, <3>2, <4>2, <4>3, EvictionTarget, OthersStay
      <4>5. page_table'[w].inmemory /\ page_table'[w].page = f
        BY <4>2, <4>3, <4>4, OthersStay DEF Resident
      <4>6. QED
        BY <4>1, <4>3, <4>5 DEF Resident
    <3>3. QED
      BY <3>1, <3>2
  <2>2. ASSUME NEW w \in Resident'
        PROVE  page_table'[w].page \in Frame /\ coremap'[page_table'[w].page].owner = w
    <3>1. w \in VPage /\ page_table'[w].inmemory
      BY <2>2 DEF Resident
    <3>2. CASE w = v
      BY <3>2, FaultEffect
    <3>3. CASE w # v
      <4>1. w # Victim
        BY <3>1, <3>3, OthersStay
      <4>2. w \in Resident /\ page_table'[w].page = page_table[w].page
        BY <3>1, <3>3, <4>1, OthersStay DEF Resident
      <4>3. coremap[page_table[w].page].owner = w
        BY <1>1, <4>2 DEF IInv, OwnersAgree
      <4>4. QED
        BY <3>1, <3>3, <4>1, <4>2, <4>3, OthersStay
    <3>4. QED
      BY <3>2, <3>3
  <2>3. QED
    BY <2>1, <2>2 DEF OwnersAgree
<1>5. SlotsOwned'
  <2>1. /\ \A w \in OnDisk : SlotOf(w) \in 0 .. count - 1
        /\ \A w, x \in OnDisk : SlotOf(w) = SlotOf(x) => w = x
        /\ Cardinality(OnDisk) = count
        /\ count \in Nat
    BY <1>1 DEF IInv, SlotsOwned, TypeOK
  <2>2. CASE FirstEviction
    <3>1. /\ count' = count + 1
          /\ OnDisk' = OnDisk \cup {Victim}
          /\ Victim \notin OnDisk
          /\ \A w \in OnDisk : SlotOf(w)' = SlotOf(w)
          /\ \A w \in VPage : w = Victim => SlotOf(w)' = count
      BY <2>2, FaultSlots DEF PageFault
    <3>2. Victim \in VPage /\ OnDisk \subseteq VPage
      BY <1>1, <2>2, EvictionTarget DEF FirstEviction, Resident, OnDisk
    <3>3. \A w \in OnDisk' : SlotOf(w)' = IF w = Victim THEN count ELSE SlotOf(w)
      BY <3>1, <3>2
    <3>4. \A w \in OnDisk' : SlotOf(w)' \in 0 .. count' - 1
      BY <2>1, <3>1, <3>3
    <3>5. \A w, x \in OnDisk' : SlotOf(w)' = SlotOf(x)' => w = x
      BY <2>1, <3>1, <3>3
    <3>6. IsFiniteSet(OnDisk)
      BY FiniteAssumption, FS_Subset DEF OnDisk
    <3>7. Cardinality(OnDisk') = count'
      BY <2>1, <3>1, <3>6, FS_AddElement
    <3>8. QED
      BY <3>4, <3>5, <3>7 DEF SlotsOwned
  <2>3. CASE ~FirstEviction
    <3>1. /\ count' = count
          /\ OnDisk' = OnDisk
          /\ \A w \in OnDisk : SlotOf(w)' = SlotOf(w)
      BY <2>3, FaultSlots DEF PageFault
    <3>2. QED
      BY <2>1, <3>1 DEF SlotsOwned
  <2>4. QED
    BY <2>2, <2>3
<1>6. CleanCopy'
  <2> SUFFICES ASSUME NEW w \in Resident' \cap OnDisk', ~page_table'[w].modified
               PROVE  swap'[SlotOf(w)'] = memory'[page_table'[w].page]
    BY DEF CleanCopy
  <2>1. w \in VPage /\ page_table'[w].inmemory /\ page_table'[w].ondisk
    BY DEF Resident, OnDisk
  <2>2. swap' = SwapAfterEviction
    BY DEF PageFault
  <2>3. CASE w = v
    <3>1. page_table[v].ondisk /\ ~write /\ page_table'[v].page = VictimFrame
      BY <2>1, <2>3, FaultEffect
    <3>2. SlotOf(v)' = page_table[v].page
      BY <3>1, FaultEffect DEF SlotOf
    <3>3. c = swap[page_table[v].page]
      BY <1>1, <3>1, PageInIsUndisturbed
    <3>4. swap'[page_table[v].page] = swap[page_table[v].page]
      BY <1>1, <2>2, <3>1, PageInIsUndisturbed, SwapHoldsVictim
    <3>5. memory'[VictimFrame] = c
      BY <1>1, <1>3 DEF IInv, TypeOK
    <3>6. QED
      BY <2>3, <3>1, <3>2, <3>3, <3>4, <3>5
  <2>4. CASE w # v
    <3>1. w # Victim
      BY <2>1, <2>4, OthersStay
    <3>2. w \in Resident /\ w \in OnDisk /\ ~page_table[w].modified
      BY <2>1, <2>4, <3>1, OthersStay DEF Resident, OnDisk
    <3>3. page_table'[w].page = page_table[w].page /\ page_table[w].page \in Frame \ {VictimFrame}
      BY <2>1, <2>4, <3>1, <3>2, OthersStay
    <3>4. swap[SlotOf(w)] = memory[page_table[w].page]
      BY <1>1, <3>2 DEF IInv, CleanCopy
    <3>5. memory'[page_table[w].page] = memory[page_table[w].page]
      BY <1>1, <3>3 DEF IInv, TypeOK
    <3>6. SlotOf(w)' = SlotOf(w)
      BY <3>2, FaultSlots
    <3>7. SlotOf(w) \in 0 .. count - 1 /\ SlotOf(w) \in SwapPage
      BY <1>1, <3>2, SizeAssumption DEF IInv, SlotsOwned, TypeOK, SwapPage
    <3>8. ASSUME Evicting
          PROVE  SlotOf(w) # VictimSlot
      <4>1. CASE FirstEviction
        BY <1>1, <3>7, <3>8, <4>1, EvictionTarget DEF IInv, TypeOK
      <4>2. CASE ~FirstEviction
        <5>1. Victim \in OnDisk /\ VictimSlot = SlotOf(Victim)
          BY <1>1, <3>8, <4>2, EvictionTarget DEF FirstEviction, OnDisk, Resident
        <5>2. QED
          BY <1>1, <3>1, <3>2, <5>1 DEF IInv, SlotsOwned
      <4>3. QED
        BY <4>1, <4>2
    <3>9. swap'[SlotOf(w)] = swap[SlotOf(w)]
      BY <1>1, <2>2, <3>7, <3>8, SwapHoldsVictim
    <3>10. QED
      BY <3>3, <3>4, <3>5, <3>6, <3>9
  <2>5. QED
    BY <2>3, <2>4
<1>7. QED
  BY <1>4, <1>5, <1>6

(* An access to a page in memory preserves the invariant: it changes the
   words of that page only, and marks the page when they may differ. *)
LEMMA HitPreserves ==
  ASSUME IInv, NEW v \in VPage, NEW write \in BOOLEAN, NEW c \in PageContents,
         Hit(v, write),
         memory' = [memory EXCEPT ![page_table[v].page] = c],
         write \/ c = memory[page_table[v].page]
  PROVE  OwnersAgree' /\ SlotsOwned' /\ CleanCopy'
<1>1. /\ page_table \in [VPage -> Entry]
      /\ page_table[v] \in Entry
      /\ memory \in [Frame -> PageContents]
  BY DEF IInv, TypeOK
<1>2. /\ page_table' = [page_table EXCEPT ![v] = Touched(page_table[v], write)]
      /\ page_table[v].inmemory
      /\ coremap' = coremap
      /\ swap' = swap
      /\ count' = count
  BY DEF Hit
<1>3. /\ \A w \in VPage : /\ page_table'[w].page = page_table[w].page
                          /\ page_table'[w].inmemory = page_table[w].inmemory
                          /\ page_table'[w].ondisk = page_table[w].ondisk
      /\ page_table'[v].modified = (page_table[v].modified \/ write)
      /\ \A w \in VPage \ {v} : page_table'[w].modified = page_table[w].modified
  <2> DEFINE e == Touched(page_table[v], write)
  <2>1. /\ e.page = page_table[v].page
        /\ e.inmemory = page_table[v].inmemory
        /\ e.ondisk = page_table[v].ondisk
        /\ e.modified = (page_table[v].modified \/ write)
    BY <1>1, TouchedEntry
  <2> HIDE DEF e
  <2>2. page_table'[v] = e /\ \A w \in VPage \ {v} : page_table'[w] = page_table[w]
    BY <1>1, <1>2 DEF e
  <2>3. QED
    BY <2>1, <2>2
<1>4. Resident' = Resident /\ OnDisk' = OnDisk
  BY <1>3 DEF Resident, OnDisk
<1>5. \A w \in VPage : SlotOf(w)' = SlotOf(w)
  BY <1>2, <1>3 DEF SlotOf
<1>6. Resident \subseteq VPage /\ OnDisk \subseteq VPage
  BY DEF Resident, OnDisk
<1>7. OwnersAgree'
  BY <1>2, <1>3, <1>4, <1>6 DEF IInv, OwnersAgree
<1>8. SlotsOwned'
  BY <1>2, <1>4, <1>5, <1>6 DEF IInv, SlotsOwned
<1>9. CleanCopy'
  <2> SUFFICES ASSUME NEW w \in Resident \cap OnDisk, ~page_table'[w].modified
               PROVE  swap[SlotOf(w)] = memory'[page_table[w].page]
    BY <1>2, <1>3, <1>4, <1>5, <1>6 DEF CleanCopy
  <2>1. ~page_table[w].modified /\ w \in VPage
    BY <1>1, <1>3, <1>6 DEF Entry
  <2>2. swap[SlotOf(w)] = memory[page_table[w].page]
    BY <2>1 DEF IInv, CleanCopy
  <2>3. page_table[v].page \in Frame /\ page_table[w].page \in Frame
    BY <1>2 DEF IInv, OwnersAgree, Resident
  <2>4. CASE w = v
    BY <1>1, <1>3, <2>2, <2>3, <2>4
  <2>5. CASE w # v
    <3>1. page_table[w].page # page_table[v].page
      BY <1>2, <2>5 DEF IInv, OwnersAgree, Resident
    <3>2. QED
      BY <1>1, <2>2, <2>3, <3>1
  <2>6. QED
    BY <2>4, <2>5
<1>10. QED
  BY <1>7, <1>8, <1>9

(* The page table keeps its type in an access, and so does the swap. *)
LEMMA TranslateTyped ==
  ASSUME IInv, NEW v \in VPage, NEW write \in BOOLEAN, Translate(v, write)
  PROVE  /\ page_table' \in [VPage -> Entry]
         /\ coremap' \in [Frame -> [owner : VPage \cup {NULL}, page : Nat]]
         /\ swap' \in [SwapPage -> PageContents]
         /\ count' \in 0 .. SWAP_PAGES
         /\ hand' \in Frame
         /\ num_pagefault' \in 0 .. MaxFaults
         /\ num_page_writes' \in Nat
         /\ num_page_reads' \in Nat
         /\ FrameOf(v) \in Frame
         /\ Contents(v) \in PageContents
<1>1. TypeOK
  BY DEF IInv
<1>2. CASE Hit(v, write)
  <2>1. page_table[v] \in Entry /\ page_table[v].inmemory
    BY <1>1, <1>2 DEF TypeOK, Hit
  <2>2. page_table' \in [VPage -> Entry]
    BY <1>1, <1>2, <2>1, TouchedEntry DEF TypeOK, Hit
  <2>3. FrameOf(v) \in Frame
    BY <2>1 DEF IInv, OwnersAgree, Resident, FrameOf
  <2>4. Contents(v) \in PageContents
    BY <1>1, <2>1, <2>3 DEF TypeOK, FrameOf, Contents
  <2>5. QED
    BY <1>1, <1>2, <2>2, <2>3, <2>4 DEF TypeOK, Hit
<1>3. CASE PageFault(v, write)
  <2>1. ~SwapFull /\ ~page_table[v].inmemory /\ num_pagefault < MaxFaults
    BY <1>3 DEF PageFault
  <2>2. /\ swap' = SwapAfterEviction
        /\ count' = IF FirstEviction THEN count + 1 ELSE count
        /\ hand' = VictimFrame
        /\ num_pagefault' = num_pagefault + 1
        /\ num_page_writes' = IF WritesBack THEN num_page_writes + 1 ELSE num_page_writes
        /\ num_page_reads' =
             IF AfterEviction[v].ondisk THEN num_page_reads + 1 ELSE num_page_reads
    BY <1>3 DEF PageFault
  <2>3. swap' \in [SwapPage -> PageContents]
    BY <2>1, <2>2, SwapHoldsVictim
  <2>4. count' \in 0 .. SWAP_PAGES
    BY <1>1, <2>1, <2>2, SizeAssumption DEF TypeOK, SwapFull
  <2>5. hand' \in Frame /\ FrameOf(v) \in Frame
    BY <1>3, <2>1, <2>2, FaultEffect DEF FrameOf
  <2>6. Contents(v) \in PageContents
    BY <2>1, PageInIsUndisturbed DEF Contents
  <2>7. num_pagefault' \in 0 .. MaxFaults
    BY <1>1, <2>1, <2>2, SizeAssumption DEF TypeOK
  <2>8. num_page_writes' \in Nat /\ num_page_reads' \in Nat
    BY <1>1, <2>2 DEF TypeOK
  <2>9. QED
    BY <1>3, <2>3, <2>4, <2>5, <2>6, <2>7, <2>8, FaultEffect
<1>4. QED
  BY <1>2, <1>3 DEF Translate

(* Both kinds of access preserve the invariant. *)
LEMMA AccessPreserves ==
  ASSUME IInv, NEW v \in VPage, NEW write \in BOOLEAN, NEW c \in PageContents,
         Translate(v, write),
         memory' = [memory EXCEPT ![FrameOf(v)] = c],
         write \/ c = Contents(v)
  PROVE  OwnersAgree' /\ SlotsOwned' /\ CleanCopy'
<1>1. CASE Hit(v, write)
  BY <1>1, HitPreserves DEF Hit, FrameOf, Contents
<1>2. CASE PageFault(v, write)
  BY <1>2, FaultPreserves DEF PageFault, FrameOf, Contents
<1>3. QED
  BY <1>1, <1>2 DEF Translate

(* A store replaces one word of a page. *)
LEMMA StoredContents ==
  ASSUME NEW c \in PageContents, NEW o \in Offset, NEW d \in Word
  PROVE  [c EXCEPT ![o] = d] \in PageContents
  BY DEF PageContents

-------------------------------------------------------------------------------
(* The invariant is inductive. *)

LEMMA InitInvariant == Init => IInv
<1> SUFFICES ASSUME Init
             PROVE  IInv
  OBVIOUS
<1>1. TypeOK
  <2>1. [o \in Offset |-> Zero] \in PageContents
    BY ValueAssumption DEF PageContents
  <2>2. 0 \in Frame /\ 0 \in 0 .. SWAP_PAGES /\ 0 \in 0 .. MaxFaults /\ 0 \in 0 .. MaxStores
    BY SizeAssumption DEF Frame
  <2>3. page_table \in [VPage -> Entry]
    BY DEF Init, Entry
  <2>4. coremap \in [Frame -> [owner : VPage \cup {NULL}, page : Nat]]
    BY DEF Init
  <2>5. QED
    BY <2>1, <2>2, <2>3, <2>4, ValueAssumption DEF Init, TypeOK
<1>2. Resident = {} /\ OnDisk = {} /\ count = 0
  BY DEF Init, Resident, OnDisk
<1>3. OwnersAgree
  BY <1>2 DEF Init, OwnersAgree
<1>4. SlotsOwned
  BY <1>2, FS_EmptySet DEF SlotsOwned
<1>5. CleanCopy
  BY <1>2 DEF CleanCopy
<1>6. QED
  BY <1>1, <1>3, <1>4, <1>5 DEF IInv

LEMMA StepInvariant == IInv /\ [Next]_vars => IInv'
<1> SUFFICES ASSUME IInv, [Next]_vars
             PROVE  IInv'
  OBVIOUS
<1>1. ASSUME NEW v \in VPage, NEW o \in Offset, ReadMemory(v, o)
      PROVE  IInv'
  <2>1. Translate(v, FALSE) /\ memory' = [memory EXCEPT ![FrameOf(v)] = Contents(v)]
    BY <1>1 DEF ReadMemory
  <2>2. Contents(v) \in PageContents
    BY <2>1, TranslateTyped
  <2>3. OwnersAgree' /\ SlotsOwned' /\ CleanCopy'
    BY <2>1, <2>2, AccessPreserves
  <2>4. data' \in Word /\ num_disc_writes' = num_disc_writes /\ aborted' = aborted
    BY <1>1, <2>2 DEF ReadMemory, PageContents
  <2>5. memory' \in [Frame -> PageContents]
    BY <2>1, <2>2 DEF IInv, TypeOK
  <2>6. TypeOK'
    BY <2>1, <2>4, <2>5, TranslateTyped DEF IInv, TypeOK
  <2>7. QED
    BY <2>3, <2>6 DEF IInv
<1>2. ASSUME NEW v \in VPage, NEW o \in Offset, NEW d \in Word, WriteMemory(v, o, d)
      PROVE  IInv'
  <2> DEFINE c == [Contents(v) EXCEPT ![o] = d]
  <2>1. Translate(v, TRUE) /\ memory' = [memory EXCEPT ![FrameOf(v)] = c]
    BY <1>2 DEF WriteMemory
  <2>2. c \in PageContents
    BY <2>1, TranslateTyped, StoredContents
  <2> HIDE DEF c
  <2>3. OwnersAgree' /\ SlotsOwned' /\ CleanCopy'
    BY <2>1, <2>2, AccessPreserves
  <2>4. data' = data /\ aborted' = aborted
    BY <1>2 DEF WriteMemory
  <2>5. num_disc_writes' \in 0 .. MaxStores
    BY <1>2, SizeAssumption DEF WriteMemory, IInv, TypeOK
  <2>6. memory' \in [Frame -> PageContents]
    BY <2>1, <2>2 DEF IInv, TypeOK
  <2>7. TypeOK'
    BY <2>1, <2>4, <2>5, <2>6, TranslateTyped DEF IInv, TypeOK
  <2>8. QED
    BY <2>3, <2>7 DEF IInv
<1>3. ASSUME NEW v \in VPage, SwapExhausted(v)
      PROVE  IInv'
  BY <1>3 DEF SwapExhausted, stats, IInv, TypeOK, OwnersAgree, SlotsOwned, CleanCopy,
              Resident, OnDisk, SlotOf
<1>4. CASE UNCHANGED vars
  BY <1>4 DEF vars, stats, IInv, TypeOK, OwnersAgree, SlotsOwned, CleanCopy,
              Resident, OnDisk, SlotOf
<1>5. QED
  BY <1>1, <1>2, <1>3, <1>4 DEF Next

(* Every state of the paged machine satisfies the inductive invariant. *)
THEOREM PagingInvariant == Spec => []IInv
  BY InitInvariant, StepInvariant, PTL DEF Spec

(* Type correctness: among others, the hand and every physical page the
   replacement returns is below RAM_PAGES, and count never exceeds
   SWAP_PAGES (the assertions at machine.c:112,127,136). *)
THEOREM TypeCorrect == Spec => []TypeOK
<1>1. IInv => TypeOK
  BY DEF IInv
<1>2. QED
  BY <1>1, PagingInvariant, PTL

(* The page table and the core map describe the same residence. *)
THEOREM OwnersAlwaysAgree == Spec => []OwnersAgree
<1>1. IInv => OwnersAgree
  BY DEF IInv
<1>2. QED
  BY <1>1, PagingInvariant, PTL

(* No two pages share a swap page, and none that was handed out is lost. *)
THEOREM SlotsAlwaysOwned == Spec => []SlotsOwned
<1>1. IInv => SlotsOwned
  BY DEF IInv
<1>2. QED
  BY <1>1, PagingInvariant, PTL

(* A page that is not written back on eviction has a current swap copy. *)
THEOREM CopiesStayClean == Spec => []CleanCopy
<1>1. IInv => CleanCopy
  BY DEF IInv
<1>2. QED
  BY <1>1, PagingInvariant, PTL

-------------------------------------------------------------------------------
(* The paged memory implements the flat one. *)

(* What an access does to the words of every page: the page accessed holds c,
   and every other page, the evicted one included, holds what it held. *)
LEMMA AccessIsLocal ==
  ASSUME IInv, NEW v \in VPage, NEW write \in BOOLEAN, NEW c \in PageContents,
         Translate(v, write),
         memory' = [memory EXCEPT ![FrameOf(v)] = c]
  PROVE  /\ StoreOf(v) \in {NULL, Contents(v)}
         /\ StoreOf(v)' = c
         /\ \A w \in VPage \ {v} : StoreOf(w)' = StoreOf(w)
<1>1. memory \in [Frame -> PageContents] /\ FrameOf(v) \in Frame
  BY TranslateTyped DEF IInv, TypeOK
<1>2. memory'[FrameOf(v)] = c /\ \A f \in Frame \ {FrameOf(v)} : memory'[f] = memory[f]
  BY <1>1
<1>3. CASE Hit(v, write)
  <2>1. page_table[v].inmemory /\ swap' = swap
    BY <1>3 DEF Hit
  <2>2. \A w \in VPage : /\ page_table'[w].page = page_table[w].page
                         /\ page_table'[w].inmemory = page_table[w].inmemory
                         /\ page_table'[w].ondisk = page_table[w].ondisk
    BY <1>3, TouchedEntry DEF Hit, IInv, TypeOK
  <2>3. ASSUME NEW w \in VPage \ {v}, page_table[w].inmemory
        PROVE  page_table[w].page \in Frame \ {FrameOf(v)}
    BY <2>1, <2>3 DEF IInv, OwnersAgree, Resident, FrameOf
  <2>4. QED
    BY <1>2, <2>1, <2>2, <2>3 DEF StoreOf, FrameOf, Contents
<1>4. CASE PageFault(v, write)
  <2>1. ~page_table[v].inmemory /\ ~SwapFull /\ swap' = SwapAfterEviction
    BY <1>4 DEF PageFault
  <2>2. FrameOf(v) = VictimFrame /\ Contents(v) = PagedIn(v)
    BY <2>1 DEF FrameOf, Contents
  <2>3. StoreOf(v) \in {NULL, Contents(v)}
    BY <2>1, <2>2, PageInIsUndisturbed DEF StoreOf
  <2>4. StoreOf(v)' = c
    BY <1>2, <1>4, <2>2, FaultEffect DEF StoreOf
  <2>5. ASSUME NEW w \in VPage \ {v}
        PROVE  StoreOf(w)' = StoreOf(w)
    <3>1. CASE w = Victim
      <4>1. Evicting /\ ~page_table'[w].inmemory /\ page_table'[w].ondisk
            /\ page_table'[w].page = VictimSlot
        BY <1>4, <2>5, <3>1, OthersStay
      <4>2. StoreOf(w)' = memory[VictimFrame]
        BY <2>1, <4>1, SwapHoldsVictim DEF StoreOf
      <4>3. page_table[w].inmemory /\ page_table[w].page = VictimFrame
        BY <2>1, <3>1, <4>1, EvictionTarget DEF Resident
      <4>4. QED
        BY <4>2, <4>3 DEF StoreOf
    <3>2. CASE w # Victim /\ page_table[w].inmemory
      BY <1>2, <1>4, <2>2, <3>2, OthersStay DEF StoreOf, Resident
    <3>3. CASE w # Victim /\ ~page_table[w].inmemory
      <4>1. page_table'[w].page = page_table[w].page
            /\ page_table'[w].inmemory = page_table[w].inmemory
            /\ page_table'[w].ondisk = page_table[w].ondisk
        BY <1>4, <2>5, <3>3, OthersStay
      <4>2. ASSUME page_table[w].ondisk
            PROVE  SwapAfterEviction[page_table[w].page] = swap[page_table[w].page]
        BY <2>1, <3>3, <4>2, PageInIsUndisturbed, SwapHoldsVictim
      <4>3. QED
        BY <2>1, <3>3, <4>1, <4>2 DEF StoreOf
    <3>4. QED
      BY <3>1, <3>2, <3>3
  <2>6. QED
    BY <2>3, <2>4, <2>5
<1>5. QED
  BY <1>3, <1>4 DEF Translate

(* The store the flat memory sees, written as an update of the old one. *)
LEMMA AccessUpdatesStore ==
  ASSUME IInv, NEW v \in VPage, NEW write \in BOOLEAN, NEW c \in PageContents,
         Translate(v, write),
         memory' = [memory EXCEPT ![FrameOf(v)] = c]
  PROVE  [w \in VPage |-> StoreOf(w)]' =
           [[w \in VPage |-> StoreOf(w)] EXCEPT ![v] = c]
<1>1. [w \in VPage |-> StoreOf(w)]' = [w \in VPage |-> StoreOf(w)']
  OBVIOUS
<1>2. \A w \in VPage : StoreOf(w)' = IF w = v THEN c ELSE StoreOf(w)
  BY AccessIsLocal
<1>3. QED
  BY <1>1, <1>2

(* Every run of the paged memory is a run of the flat memory. *)
THEOREM PagedIsFlat == Spec => PagesAreMemory
<1>1. Init => Flat!Init
  <2> SUFFICES ASSUME Init
               PROVE  Flat!Init
    OBVIOUS
  <2>1. \A v \in VPage : StoreOf(v) = NULL
    BY DEF Init, StoreOf
  <2>2. QED
    BY <2>1, ValueAssumption DEF Init, Flat!Init
<1>2. IInv /\ [Next]_vars => [Flat!Next]_Flat!vars
  <2> SUFFICES ASSUME IInv, [Next]_vars
               PROVE  [Flat!Next]_Flat!vars
    OBVIOUS
  <2> DEFINE store == [w \in VPage |-> StoreOf(w)]
  <2>0. Flat!PageContents = PageContents
    BY DEF Flat!PageContents, PageContents
  <2>1. ASSUME NEW v \in VPage, NEW o \in Offset, ReadMemory(v, o)
        PROVE  Flat!Load(v, o)
    <3>1. /\ Translate(v, FALSE)
          /\ memory' = [memory EXCEPT ![FrameOf(v)] = Contents(v)]
          /\ data' = Contents(v)[o]
          /\ ~aborted /\ aborted' = aborted
      BY <2>1 DEF ReadMemory
    <3>2. Contents(v) \in PageContents
      BY <3>1, TranslateTyped
    <3>3. store' = [store EXCEPT ![v] = Contents(v)]
      BY <3>1, <3>2, AccessUpdatesStore
    <3>4. store[v] \in {NULL, Contents(v)}
      BY <3>1, <3>2, AccessIsLocal
    <3>5. QED
      BY <2>0, <3>1, <3>2, <3>3, <3>4 DEF Flat!Load, Flat!Holds
  <2>2. ASSUME NEW v \in VPage, NEW o \in Offset, NEW d \in Word, WriteMemory(v, o, d)
        PROVE  Flat!Store(v, o, d)
    <3> DEFINE c == [Contents(v) EXCEPT ![o] = d]
    <3>1. /\ Translate(v, TRUE)
          /\ memory' = [memory EXCEPT ![FrameOf(v)] = c]
          /\ ~aborted /\ aborted' = aborted /\ data' = data
      BY <2>2 DEF WriteMemory
    <3>2. Contents(v) \in PageContents /\ c \in PageContents
      BY <3>1, TranslateTyped, StoredContents
    <3>3. store' = [store EXCEPT ![v] = c]
      <4> HIDE DEF c
      <4>1. QED
        BY <3>1, <3>2, AccessUpdatesStore
    <3>4. store[v] \in {NULL, Contents(v)}
      <4> HIDE DEF c
      <4>1. QED
        BY <3>1, <3>2, AccessIsLocal
    <3>5. QED
      BY <2>0, <3>1, <3>2, <3>3, <3>4 DEF Flat!Store, Flat!Holds
  <2>3. ASSUME NEW v \in VPage, SwapExhausted(v)
        PROVE  Flat!Abort
    BY <2>3 DEF SwapExhausted, Flat!Abort, StoreOf
  <2>4. CASE UNCHANGED vars
    BY <2>4 DEF vars, Flat!vars, StoreOf
  <2>5. QED
    BY <2>1, <2>2, <2>3, <2>4 DEF Next, Flat!Next
<1>3. QED
  BY <1>1, <1>2, PagingInvariant, PTL DEF Spec, PagesAreMemory, Flat!Spec

-------------------------------------------------------------------------------
(* The statistics. *)

LEMMA PageSetsFinite ==
  /\ IsFiniteSet(Resident) /\ IsFiniteSet(OnDisk) /\ IsFiniteSet(Resident \cup OnDisk)
  /\ Cardinality(Resident) \in Nat /\ Cardinality(OnDisk) \in Nat
  /\ Cardinality(Resident \cup OnDisk) \in Nat
<1>1. /\ IsFiniteSet(Resident) /\ IsFiniteSet(OnDisk) /\ IsFiniteSet(Resident \cup OnDisk)
  BY FiniteAssumption, FS_Subset DEF Resident, OnDisk
<1>2. QED
  BY <1>1, FS_CardinalityType

(* A fault brings one page in and sends at most one out. *)
LEMMA FaultPages ==
  ASSUME IInv, NEW v \in VPage, NEW write \in BOOLEAN, PageFault(v, write)
  PROVE  /\ v \notin Resident
         /\ Evicting => Victim \in Resident /\ v # Victim
         /\ Resident' = (Resident \ {Victim}) \cup {v}
         /\ Resident' \cup OnDisk' = Resident \cup OnDisk \cup {v}
         /\ AfterEviction[v].ondisk <=> v \in OnDisk
<1>1. ~SwapFull /\ ~page_table[v].inmemory /\ v # Victim
  BY PageInIsUndisturbed DEF PageFault
<1>2. v \notin Resident
  BY <1>1 DEF Resident
<1>3. Evicting => Victim \in Resident
  BY <1>1, EvictionTarget
<1>4. AfterEviction[v].ondisk = page_table[v].ondisk
  BY <1>1, PageTableAfterEviction
<1>5. ASSUME NEW w \in VPage
      PROVE  page_table'[w].inmemory = (w = v \/ (w # Victim /\ page_table[w].inmemory))
  <2>1. CASE w = v
    BY <2>1, FaultEffect
  <2>2. CASE w # v
    <3>1. page_table'[w] = AfterEviction[w]
      BY <2>2, FaultEffect
    <3>2. QED
      BY <1>1, <2>2, <3>1, PageTableAfterEviction DEF IInv, TypeOK, Entry
  <2>3. QED
    BY <2>1, <2>2
<1>6. Resident' = (Resident \ {Victim}) \cup {v}
  BY <1>1, <1>5 DEF Resident
<1>7. OnDisk' = IF FirstEviction THEN OnDisk \cup {Victim} ELSE OnDisk
  BY FaultSlots
<1>8. Resident' \cup OnDisk' = Resident \cup OnDisk \cup {v}
  <2>1. CASE FirstEviction
    BY <1>3, <1>6, <1>7, <2>1 DEF FirstEviction
  <2>2. CASE ~FirstEviction /\ Evicting
    <3>1. Victim \in OnDisk
      BY <1>3, <2>2 DEF FirstEviction, OnDisk, Resident
    <3>2. QED
      BY <1>6, <1>7, <2>2, <3>1
  <2>3. CASE ~Evicting
    <3>1. Victim \notin VPage /\ ~FirstEviction
      BY <2>3, ValueAssumption DEF Evicting, FirstEviction
    <3>2. Victim \notin Resident
      BY <3>1 DEF Resident
    <3>3. QED
      BY <1>6, <1>7, <3>1, <3>2
  <2>4. QED
    BY <2>1, <2>2, <2>3
<1>9. QED
  BY <1>1, <1>2, <1>3, <1>4, <1>6, <1>8 DEF OnDisk

LEMMA FaultAddsUp ==
  ASSUME IInv, StatisticsAddUp, NEW v \in VPage, NEW write \in BOOLEAN, PageFault(v, write)
  PROVE  StatisticsAddUp'
<1> DEFINE touched == Resident \cup OnDisk
           residents == Cardinality(Resident)  pages == Cardinality(touched)
           residents1 == Cardinality(Resident')
           pages1 == Cardinality(Resident' \cup OnDisk')
<1>1. /\ num_pagefault' = num_pagefault + 1
      /\ num_page_writes' = IF WritesBack THEN num_page_writes + 1 ELSE num_page_writes
      /\ num_page_reads' = IF AfterEviction[v].ondisk THEN num_page_reads + 1 ELSE num_page_reads
      /\ count' = IF FirstEviction THEN count + 1 ELSE count
  BY DEF PageFault
<1>2. /\ num_pagefault \in Nat /\ num_page_writes \in Nat /\ num_page_reads \in Nat
      /\ count \in Nat
  BY SizeAssumption DEF IInv, TypeOK
<1>3. /\ residents \in Nat /\ pages \in Nat /\ IsFiniteSet(touched) /\ IsFiniteSet(Resident)
  BY PageSetsFinite
<1>4. (WritesBack => Evicting) /\ (FirstEviction => WritesBack)
  BY DEF WritesBack, FirstEviction
<1>5. residents1 = IF Evicting THEN residents ELSE residents + 1
  <2>1. CASE Evicting
    <3>1. /\ Victim \in Resident /\ v \notin Resident \ {Victim}
          /\ Resident' = (Resident \ {Victim}) \cup {v}
      BY <2>1, FaultPages
    <3>2. Cardinality(Resident \ {Victim}) = residents - 1 /\ IsFiniteSet(Resident \ {Victim})
      BY <1>3, <3>1, FS_RemoveElement
    <3>3. Cardinality((Resident \ {Victim}) \cup {v}) = Cardinality(Resident \ {Victim}) + 1
      BY <3>1, <3>2, FS_AddElement
    <3> HIDE DEF residents
    <3>4. QED
      BY <1>3, <2>1, <3>1, <3>2, <3>3
  <2>2. CASE ~Evicting
    <3>1. Victim \notin Resident
      BY <2>2, ValueAssumption DEF Evicting, Resident
    <3>2. Resident' = Resident \cup {v} /\ v \notin Resident
      BY <3>1, FaultPages
    <3>3. QED
      BY <1>3, <2>2, <3>2, FS_AddElement
  <2>3. QED
    BY <2>1, <2>2
<1>6. pages1 = IF v \in OnDisk THEN pages ELSE pages + 1
  <2>1. Resident' \cup OnDisk' = touched \cup {v} /\ v \notin Resident
    BY FaultPages
  <2>2. CASE v \in OnDisk
    BY <2>1, <2>2
  <2>3. CASE v \notin OnDisk
    BY <1>3, <2>1, <2>3, FS_AddElement
  <2>4. QED
    BY <2>2, <2>3
<1>7. AfterEviction[v].ondisk <=> v \in OnDisk
  BY FaultPages
<1>8. /\ num_pagefault = num_page_reads + pages
      /\ num_page_writes + residents <= num_pagefault
      /\ count <= num_page_writes
  BY DEF StatisticsAddUp
<1> HIDE DEF touched, residents, pages, residents1, pages1
<1>9. num_pagefault' = num_page_reads' + pages1
  BY <1>1, <1>2, <1>3, <1>6, <1>7, <1>8
<1>10. num_page_writes' + residents1 <= num_pagefault'
  BY <1>1, <1>2, <1>3, <1>4, <1>5, <1>8
<1>11. count' <= num_page_writes'
  BY <1>1, <1>2, <1>4, <1>8
<1>12. QED
  BY <1>9, <1>10, <1>11 DEF StatisticsAddUp, residents1, pages1

LEMMA HitKeepsPages ==
  ASSUME IInv, NEW v \in VPage, NEW write \in BOOLEAN, Hit(v, write)
  PROVE  Resident' = Resident /\ OnDisk' = OnDisk
<1>1. page_table \in [VPage -> Entry] /\ page_table[v] \in Entry
  BY DEF IInv, TypeOK
<1>2. page_table' = [page_table EXCEPT ![v] = Touched(page_table[v], write)]
  BY DEF Hit
<1>3. \A w \in VPage : /\ page_table'[w].inmemory = page_table[w].inmemory
                       /\ page_table'[w].ondisk = page_table[w].ondisk
  BY <1>1, <1>2, TouchedEntry
<1>4. QED
  BY <1>3 DEF Resident, OnDisk

LEMMA StatisticsStep == IInv /\ StatisticsAddUp /\ [Next]_vars => StatisticsAddUp'
<1> SUFFICES ASSUME IInv, StatisticsAddUp, [Next]_vars
             PROVE  StatisticsAddUp'
  OBVIOUS
<1>1. ASSUME NEW v \in VPage, NEW write \in BOOLEAN, Translate(v, write)
      PROVE  StatisticsAddUp'
  <2>1. CASE Hit(v, write)
    BY <2>1, HitKeepsPages DEF Hit, StatisticsAddUp
  <2>2. QED
    BY <1>1, <2>1, FaultAddsUp DEF Translate
<1>2. ASSUME NEW v \in VPage, SwapExhausted(v)
      PROVE  StatisticsAddUp'
  BY <1>2 DEF SwapExhausted, stats, StatisticsAddUp, Resident, OnDisk
<1>3. CASE UNCHANGED vars
  BY <1>3 DEF vars, stats, StatisticsAddUp, Resident, OnDisk
<1>4. QED
  BY <1>1, <1>2, <1>3 DEF Next, ReadMemory, WriteMemory

(* The statistics main prints add up. *)
THEOREM StatisticsAlwaysAddUp == Spec => []StatisticsAddUp
<1>1. Init => StatisticsAddUp
  <2> SUFFICES ASSUME Init
               PROVE  StatisticsAddUp
    OBVIOUS
  <2>1. Resident = {} /\ Resident \cup OnDisk = {}
    BY DEF Init, Resident, OnDisk
  <2>2. Cardinality(Resident) = 0 /\ Cardinality(Resident \cup OnDisk) = 0
    BY <2>1, FS_EmptySet
  <2>3. QED
    BY <2>2 DEF Init, StatisticsAddUp
<1>2. QED
  BY <1>1, StatisticsStep, PagingInvariant, PTL DEF Spec

LEMMA AbortStep == IInv /\ AbortMeansSwapExceeded /\ [Next]_vars => AbortMeansSwapExceeded'
<1> SUFFICES ASSUME IInv, AbortMeansSwapExceeded, [Next]_vars
             PROVE  AbortMeansSwapExceeded'
  OBVIOUS
<1>1. ASSUME NEW v \in VPage, SwapExhausted(v)
      PROVE  AbortMeansSwapExceeded'
  <2>1. /\ Evicting /\ ~page_table[Victim].ondisk /\ count >= SWAP_PAGES
        /\ page_table' = page_table
    BY <1>1 DEF SwapExhausted, SwapFull, FirstEviction
  <2>2. VictimFrame \in Frame
    BY VictimIsFrame DEF IInv, TypeOK
  <2>3. Victim \in Resident /\ Victim \notin OnDisk
    BY <2>1, <2>2 DEF IInv, OwnersAgree, Victim, Evicting, OnDisk
  <2>4. Cardinality(OnDisk) = count /\ count \in Nat
    BY SizeAssumption DEF IInv, SlotsOwned, TypeOK
  <2>5. Cardinality(OnDisk \cup {Victim}) = count + 1 /\ IsFiniteSet(OnDisk \cup {Victim})
    BY <2>3, <2>4, PageSetsFinite, FS_AddElement
  <2>6. OnDisk \cup {Victim} \subseteq Resident \cup OnDisk
    BY <2>3
  <2>7. Cardinality(OnDisk \cup {Victim}) <= Cardinality(Resident \cup OnDisk)
    BY <2>6, PageSetsFinite, FS_Subset
  <2> DEFINE pages == Cardinality(Resident \cup OnDisk)
  <2>8. pages \in Nat
    BY PageSetsFinite
  <2> HIDE DEF pages
  <2>9. pages > SWAP_PAGES
    BY <2>1, <2>4, <2>5, <2>7, <2>8, SizeAssumption DEF pages
  <2>10. Resident' = Resident /\ OnDisk' = OnDisk
    BY <2>1 DEF Resident, OnDisk
  <2>11. QED
    BY <2>9, <2>10 DEF AbortMeansSwapExceeded, pages
<1>2. ASSUME NEW v \in VPage, NEW o \in Offset, ReadMemory(v, o)
      PROVE  AbortMeansSwapExceeded'
  BY <1>2 DEF ReadMemory, AbortMeansSwapExceeded
<1>3. ASSUME NEW v \in VPage, NEW o \in Offset, NEW d \in Word, WriteMemory(v, o, d)
      PROVE  AbortMeansSwapExceeded'
  BY <1>3 DEF WriteMemory, AbortMeansSwapExceeded
<1>4. CASE UNCHANGED vars
  BY <1>4 DEF vars, AbortMeansSwapExceeded, Resident, OnDisk
<1>5. QED
  BY <1>1, <1>2, <1>3, <1>4 DEF Next

(* Only a program with more pages than the swap has runs into the assertion. *)
THEOREM AbortsOnlyWhenExceeded == Spec => []AbortMeansSwapExceeded
<1>1. Init => AbortMeansSwapExceeded
  BY DEF Init, AbortMeansSwapExceeded
<1>2. QED
  BY <1>1, AbortStep, PagingInvariant, PTL DEF Spec

-------------------------------------------------------------------------------
(* The replacement functions. *)

(* Once around the list. *)
LEMMA Around ==
  ASSUME NEW h \in Frame, NEW n \in 0 .. RAM_PAGES
  PROVE  (h + n) % RAM_PAGES = IF h + n < RAM_PAGES THEN h + n ELSE h + n - RAM_PAGES
<1>1. RAM_PAGES \in Nat \ {0} /\ h \in Nat /\ h < RAM_PAGES /\ n \in Nat /\ n <= RAM_PAGES
  BY SizeAssumption DEF Frame
<1>2. ASSUME h + n < RAM_PAGES
      PROVE  (h + n) % RAM_PAGES = h + n
  BY <1>1, <1>2
<1>3. ASSUME ~(h + n < RAM_PAGES)
      PROVE  (h + n) % RAM_PAGES = h + n - RAM_PAGES
  BY <1>1, <1>3
<1>4. QED
  BY <1>2, <1>3

LEMMA AheadUnfolded ==
  ASSUME hand \in Frame, NEW n \in 0 .. RAM_PAGES
  PROVE  Ahead(n) = IF hand + n < RAM_PAGES THEN hand + n ELSE hand + n - RAM_PAGES
  BY Around DEF Ahead

LEMMA AheadReachesAll ==
  ASSUME hand \in Frame, NEW f \in Frame
  PROVE  \E n \in 1 .. RAM_PAGES : f = Ahead(n)
<1>1. RAM_PAGES \in Nat \ {0} /\ hand \in Nat /\ hand < RAM_PAGES /\ f \in Nat /\ f < RAM_PAGES
  BY SizeAssumption DEF Frame
<1>2. CASE f > hand
  <2>1. f - hand \in 1 .. RAM_PAGES /\ f - hand \in 0 .. RAM_PAGES /\ hand + (f - hand) < RAM_PAGES
    BY <1>1, <1>2
  <2>2. Ahead(f - hand) = hand + (f - hand)
    BY <2>1, AheadUnfolded
  <2>3. QED
    BY <1>1, <2>1, <2>2
<1>3. CASE f <= hand
  <2> DEFINE n == f - hand + RAM_PAGES
  <2>1. n \in 1 .. RAM_PAGES /\ n \in 0 .. RAM_PAGES /\ ~(hand + n < RAM_PAGES)
        /\ hand + n - RAM_PAGES = f
    BY <1>1, <1>3
  <2> HIDE DEF n
  <2>2. Ahead(n) = hand + n - RAM_PAGES
    BY <2>1, AheadUnfolded
  <2>3. QED
    BY <2>1, <2>2
<1>4. QED
  BY <1>1, <1>2, <1>3

LEMMA AheadTellsPlaces ==
  ASSUME hand \in Frame, NEW m \in 1 .. RAM_PAGES, NEW n \in 1 .. RAM_PAGES,
         Ahead(m) = Ahead(n)
  PROVE  m = n
<1>1. RAM_PAGES \in Nat \ {0} /\ hand \in Nat /\ hand < RAM_PAGES
      /\ m \in 0 .. RAM_PAGES /\ n \in 0 .. RAM_PAGES
  BY SizeAssumption DEF Frame
<1>2. QED
  BY <1>1, AheadUnfolded

(* The second chance passes over the places before the victim's, and the
   victim's only when it has gone all the way around. *)
LEMMA SweepEndsAtVictim ==
  ASSUME hand \in Frame
  PROVE  LET k == Cardinality(Sweep) IN
         /\ k \in 0 .. RAM_PAGES
         /\ Sweep = 0 .. k - 1
         /\ k < RAM_PAGES => ~PassedOver(Ahead(k))
<1> DEFINE Ends == {n \in 0 .. RAM_PAGES : n \notin Sweep}
<1>1. RAM_PAGES \in Nat \ {0}
  BY SizeAssumption
<1>2. RAM_PAGES \in Ends /\ Ends \subseteq Nat
  BY <1>1 DEF Sweep, Frame
<1>3. PICK k \in Ends : \A n \in Ends : <<n, k>> \notin OpToRel(<, Nat)
  BY <1>2, NatLessThanWellFounded, WFMin
<1>4. k \in 0 .. RAM_PAGES /\ k \notin Sweep
  OBVIOUS
<1>5. \A n \in Ends : ~(n < k)
  BY <1>2, <1>3 DEF OpToRel
<1>6. \A n \in 0 .. k - 1 : n \in Sweep
  BY <1>1, <1>4, <1>5
<1>7. ASSUME NEW n \in Sweep
      PROVE  n \in 0 .. k - 1
  <2>1. n \in 0 .. RAM_PAGES - 1 /\ \A m \in 0 .. n : PassedOver(Ahead(m))
    BY DEF Sweep, Frame
  <2>2. CASE k <= n
    <3>1. k \in Frame /\ \A m \in 0 .. k : PassedOver(Ahead(m))
      BY <1>1, <1>4, <2>1, <2>2 DEF Frame
    <3>2. QED
      BY <1>4, <3>1 DEF Sweep
  <2>3. QED
    BY <1>1, <1>4, <2>1, <2>2
<1>8. Sweep = 0 .. k - 1
  BY <1>6, <1>7
<1>9. Cardinality(Sweep) = k
  BY <1>1, <1>4, <1>8, FS_Interval
<1>10. ASSUME k < RAM_PAGES
       PROVE  ~PassedOver(Ahead(k))
  <2>1. k \in Frame /\ \A m \in 0 .. k - 1 : PassedOver(Ahead(m))
    BY <1>1, <1>4, <1>6, <1>10 DEF Sweep, Frame
  <2>2. PICK m \in 0 .. k : ~PassedOver(Ahead(m))
    BY <1>4, <2>1 DEF Sweep
  <2>3. m = k
    BY <1>4, <2>1, <2>2
  <2>4. QED
    BY <2>2, <2>3
<1>11. QED
  BY <1>4, <1>8, <1>9, <1>10

(* Only a page fault takes a page out of memory, and it takes the victim. *)
LEMMA OnlyVictimLeaves ==
  ASSUME IInv, [Next]_vars, NEW v \in Resident, ~page_table'[v].inmemory
  PROVE  /\ \E u \in VPage, write \in BOOLEAN : PageFault(u, write)
         /\ v = Victim /\ page_table[v].page = VictimFrame /\ VictimFrame \in Frame
<1>1. v \in VPage /\ page_table[v].inmemory
  BY DEF Resident
<1>2. ASSUME NEW u \in VPage, NEW write \in BOOLEAN, Translate(u, write)
      PROVE  /\ PageFault(u, write)
             /\ v = Victim /\ page_table[v].page = VictimFrame /\ VictimFrame \in Frame
  <2>1. ~Hit(u, write)
    BY <1>1, HitKeepsPages DEF Resident
  <2>2. PageFault(u, write) /\ ~SwapFull
    BY <1>2, <2>1 DEF Translate, PageFault
  <2>3. v # u
    BY <1>1, <2>2 DEF PageFault
  <2>4. v = Victim
    BY <1>1, <2>2, <2>3, OthersStay
  <2>5. Evicting
    BY <1>1, <2>4, ValueAssumption DEF Evicting
  <2>6. QED
    BY <2>2, <2>4, <2>5, EvictionTarget
<1>3. ASSUME NEW u \in VPage, SwapExhausted(u)
      PROVE  FALSE
  BY <1>1, <1>3 DEF SwapExhausted
<1>4. CASE UNCHANGED vars
  BY <1>1, <1>4 DEF vars
<1>5. QED
  BY <1>2, <1>3, <1>4 DEF Next, ReadMemory, WriteMemory

(* The page the hand points to has been referenced: it was loaded last, and
   only the replacement clears a bit, and then moves the hand. *)
HandReferenced ==
  coremap[hand].owner # NULL => page_table[coremap[hand].owner].referenced

LEMMA HandStaysReferenced == IInv /\ HandReferenced /\ [Next]_vars => HandReferenced'
<1> SUFFICES ASSUME IInv, HandReferenced, [Next]_vars
             PROVE  HandReferenced'
  OBVIOUS
<1>1. page_table \in [VPage -> Entry]
  BY DEF IInv, TypeOK
<1>2. ASSUME NEW v \in VPage, NEW write \in BOOLEAN, Hit(v, write)
      PROVE  HandReferenced'
  <2>1. /\ page_table' = [page_table EXCEPT ![v] = Touched(page_table[v], write)]
        /\ coremap' = coremap /\ hand' = hand
    BY <1>2 DEF Hit
  <2>2. Touched(page_table[v], write).referenced
    BY <1>1 DEF Touched, Entry
  <2>3. \A w \in VPage : page_table[w].referenced => page_table'[w].referenced
    BY <1>1, <2>1, <2>2
  <2>4. hand \in Frame /\ coremap[hand].owner # NULL => coremap[hand].owner \in VPage
    BY DEF IInv, TypeOK
  <2>5. QED
    BY <2>1, <2>3, <2>4 DEF HandReferenced
<1>3. ASSUME NEW v \in VPage, NEW write \in BOOLEAN, PageFault(v, write)
      PROVE  HandReferenced'
  <2>1. /\ page_table' =
             [AfterEviction EXCEPT ![v] = Touched(LoadedEntry(AfterEviction[v], VictimFrame), write)]
        /\ hand' = VictimFrame /\ coremap'[VictimFrame].owner = v
    BY <1>3, FaultEffect DEF PageFault
  <2>2. AfterEviction \in [VPage -> Entry] /\ VictimFrame \in Frame
    BY <1>3, PageTableAfterEviction, FaultEffect DEF PageFault
  <2>3. LoadedEntry(AfterEviction[v], VictimFrame) \in Entry
    BY <2>2, LoadedIsResident
  <2>4. Touched(LoadedEntry(AfterEviction[v], VictimFrame), write).referenced
    BY <2>3 DEF Touched, Entry
  <2>5. page_table'[v].referenced
    BY <2>1, <2>2, <2>4
  <2>6. QED
    BY <2>1, <2>5 DEF HandReferenced
<1>4. ASSUME NEW v \in VPage, SwapExhausted(v)
      PROVE  HandReferenced'
  BY <1>4 DEF SwapExhausted, HandReferenced
<1>5. CASE UNCHANGED vars
  BY <1>5 DEF vars, HandReferenced
<1>6. QED
  BY <1>2, <1>3, <1>4, <1>5 DEF Next, ReadMemory, WriteMemory, Translate

(* The victim of a second chance is the first page not referenced, or where
   the hand stands when there is none. *)
LEMMA SecondChanceVictim ==
  ASSUME hand \in Frame, Replace # "fifo"
  PROVE  IF \A f \in Frame : PassedOver(f) THEN VictimFrame = hand
         ELSE ~PassedOver(VictimFrame)
<1> DEFINE k == Cardinality(Sweep)
<1>1. k \in 0 .. RAM_PAGES /\ Sweep = 0 .. k - 1 /\ (k < RAM_PAGES => ~PassedOver(Ahead(k)))
  BY SweepEndsAtVictim
<1>2. VictimFrame = Ahead(k)
  BY DEF VictimFrame
<1> HIDE DEF k
<1>3. RAM_PAGES \in Nat \ {0} /\ hand \in Nat /\ hand < RAM_PAGES
  BY SizeAssumption DEF Frame
<1>4. CASE k < RAM_PAGES
  <2>1. k \in Nat /\ ~PassedOver(Ahead(k))
    BY <1>1, <1>4
  <2>2. Ahead(k) \in Frame
    BY <2>1, AheadIsFrame
  <2>3. QED
    BY <1>2, <2>1, <2>2
<1>5. CASE k = RAM_PAGES
  <2>1. RAM_PAGES \in 0 .. RAM_PAGES /\ ~(hand + RAM_PAGES < RAM_PAGES)
        /\ hand + RAM_PAGES - RAM_PAGES = hand
    BY <1>3
  <2>2. VictimFrame = hand
    BY <1>2, <1>5, <2>1, AheadUnfolded
  <2>3. ASSUME NEW f \in Frame
        PROVE  PassedOver(f)
    <3>1. PICK n \in 1 .. RAM_PAGES : f = Ahead(n)
      BY AheadReachesAll
    <3>2. RAM_PAGES - 1 \in Sweep
      BY <1>1, <1>3, <1>5
    <3>3. \A m \in 0 .. RAM_PAGES - 1 : PassedOver(Ahead(m))
      BY <3>2 DEF Sweep
    <3>4. CASE n < RAM_PAGES
      BY <1>3, <3>1, <3>3, <3>4
    <3>5. CASE n = RAM_PAGES
      <4>1. 0 \in 0 .. RAM_PAGES /\ hand + 0 < RAM_PAGES /\ hand + 0 = hand
            /\ 0 \in 0 .. RAM_PAGES - 1
        BY <1>3
      <4>2. Ahead(0) = hand
        BY <4>1, AheadUnfolded
      <4>3. f = hand
        BY <1>2, <1>5, <2>2, <3>1, <3>5
      <4>4. QED
        BY <3>3, <4>1, <4>2, <4>3
    <3>6. QED
      BY <1>3, <3>4, <3>5
  <2>4. QED
    BY <2>2, <2>3
<1>6. QED
  BY <1>1, <1>3, <1>4, <1>5

(* Every referenced page gets its second chance. *)
THEOREM SecondChanceHolds ==
  ASSUME Replace # "fifo"
  PROVE  Spec => SecondChance
<1>1. Init => HandReferenced
  BY SizeAssumption DEF Init, HandReferenced, Frame
<1>2. ASSUME IInv, HandReferenced, [Next]_vars
      PROVE  \A v \in Resident : ~page_table'[v].inmemory =>
               IF \A f \in Frame : PassedOver(f) THEN page_table[v].page = hand
               ELSE ~page_table[v].referenced /\ page_table[v].page # hand
  <2> SUFFICES ASSUME NEW v \in Resident, ~page_table'[v].inmemory
               PROVE  IF \A f \in Frame : PassedOver(f) THEN page_table[v].page = hand
                      ELSE ~page_table[v].referenced /\ page_table[v].page # hand
    OBVIOUS
  <2>1. v = Victim /\ page_table[v].page = VictimFrame /\ VictimFrame \in Frame
    BY <1>2, OnlyVictimLeaves
  <2>2. coremap[VictimFrame].owner = v /\ v # NULL /\ hand \in Frame
    BY <1>2, <2>1, ValueAssumption DEF Victim, Resident, IInv, TypeOK
  <2>3. PassedOver(VictimFrame) <=> page_table[v].referenced
    BY <2>2 DEF PassedOver
  <2>4. VictimFrame = hand => PassedOver(VictimFrame)
    BY <1>2, <2>2 DEF HandReferenced, PassedOver
  <2>5. QED
    BY <2>1, <2>2, <2>3, <2>4, SecondChanceVictim
<1>3. IInv /\ HandReferenced /\ [Next]_vars =>
        [\A v \in Resident : ~page_table'[v].inmemory =>
           IF \A f \in Frame : PassedOver(f) THEN page_table[v].page = hand
           ELSE ~page_table[v].referenced /\ page_table[v].page # hand]_vars
  BY <1>2
<1>4. QED
  BY <1>1, <1>3, HandStaysReferenced, PagingInvariant, PTL DEF Spec, SecondChance

-------------------------------------------------------------------------------
(* First in, first out. *)

(* the owner of the physical page n places after the hand *)
OwnerAhead(n) == coremap[Ahead(n)].owner

(* Counted from the hand the pages stand in the order they were loaded in,
   and the oldest is the one next to it. *)
LoadOrder ==
  /\ loadedAt \in [VPage -> Nat]
  /\ \A v \in VPage : loadedAt[v] <= num_pagefault
  /\ \A m, n \in 1 .. RAM_PAGES :
       m < n /\ OwnerAhead(m) # NULL /\ OwnerAhead(n) # NULL =>
         loadedAt[OwnerAhead(m)] < loadedAt[OwnerAhead(n)]

(* The list starts one place further when the hand moves to the next page. *)
LEMMA NextPlaces ==
  ASSUME hand \in Frame, hand' = Ahead(1), NEW n \in 1 .. RAM_PAGES
  PROVE  Ahead(n)' = IF n < RAM_PAGES THEN Ahead(n + 1) ELSE Ahead(1)
<1>1. /\ RAM_PAGES \in Nat \ {0} /\ hand \in Nat /\ hand < RAM_PAGES
      /\ n \in 0 .. RAM_PAGES /\ n \in Nat /\ 1 \in 0 .. RAM_PAGES /\ 1 \in Nat
  BY SizeAssumption DEF Frame
<1>2. hand' \in Frame /\ hand' = IF hand + 1 < RAM_PAGES THEN hand + 1 ELSE hand + 1 - RAM_PAGES
  BY <1>1, AheadUnfolded, AheadIsFrame
<1>3. Ahead(n)' = IF hand' + n < RAM_PAGES THEN hand' + n ELSE hand' + n - RAM_PAGES
  BY <1>1, <1>2, Around DEF Ahead
<1>4. CASE n < RAM_PAGES
  <2>1. n + 1 \in 0 .. RAM_PAGES
    BY <1>1, <1>4
  <2>2. Ahead(n + 1) = IF hand + (n + 1) < RAM_PAGES THEN hand + (n + 1)
                       ELSE hand + (n + 1) - RAM_PAGES
    BY <2>1, AheadUnfolded
  <2>3. QED
    BY <1>1, <1>2, <1>3, <1>4, <2>2
<1>5. CASE n = RAM_PAGES
  BY <1>1, <1>2, <1>3, <1>5
<1>6. QED
  BY <1>1, <1>4, <1>5

LEMMA FifoInit_LoadOrder == FifoInit => LoadOrder
<1> SUFFICES ASSUME FifoInit
             PROVE  LoadOrder
  OBVIOUS
<1>1. /\ loadedAt = [v \in VPage |-> 0] /\ num_pagefault = 0 /\ hand = 0
      /\ coremap = [f \in Frame |-> [owner |-> NULL, page |-> 0]]
  BY DEF FifoInit, Init, NeverLoaded
<1>2. hand \in Frame
  BY <1>1, SizeAssumption DEF Frame
<1>3. ASSUME NEW n \in 1 .. RAM_PAGES
      PROVE  OwnerAhead(n) = NULL
  <2>1. Ahead(n) \in Frame
    BY <1>2, AheadIsFrame
  <2>2. QED
    BY <1>1, <2>1 DEF OwnerAhead
<1>4. QED
  BY <1>1, <1>3 DEF LoadOrder

(* The page that is loaded takes the place of the oldest, and is the youngest. *)
LEMMA FaultKeepsLoadOrder ==
  ASSUME IInv, LoadOrder, Replace = "fifo",
         NEW v \in VPage, NEW write \in BOOLEAN, PageFault(v, write),
         loadedAt' = [u \in VPage |->
           IF ~page_table[u].inmemory /\ page_table'[u].inmemory THEN num_pagefault'
           ELSE loadedAt[u]]
  PROVE  LoadOrder'
<1>1. /\ hand \in Frame /\ RAM_PAGES \in Nat \ {0} /\ num_pagefault \in Nat
      /\ hand' = Ahead(1) /\ VictimFrame = Ahead(1)
      /\ num_pagefault' = num_pagefault + 1 /\ ~page_table[v].inmemory
      /\ loadedAt \in [VPage -> Nat] /\ \A u \in VPage : loadedAt[u] <= num_pagefault
  BY SizeAssumption DEF IInv, TypeOK, LoadOrder, PageFault, VictimFrame
<1>2. page_table'[v].inmemory /\ coremap'[Ahead(1)].owner = v
  BY <1>1, FaultEffect
<1>3. loadedAt'[v] = num_pagefault + 1
  BY <1>1, <1>2
<1>4. /\ loadedAt' \in [VPage -> Nat]
      /\ \A u \in VPage : loadedAt'[u] <= num_pagefault'
  BY <1>1
<1>5. ASSUME NEW u \in Resident
      PROVE  u \in VPage /\ loadedAt'[u] = loadedAt[u]
  BY DEF Resident
<1>6. ASSUME NEW n \in 1 .. RAM_PAGES, n < RAM_PAGES
      PROVE  /\ n + 1 \in 1 .. RAM_PAGES
             /\ OwnerAhead(n)' = OwnerAhead(n + 1)
             /\ OwnerAhead(n + 1) # NULL => OwnerAhead(n + 1) \in Resident
  <2>1. n + 1 \in 1 .. RAM_PAGES /\ 1 \in 1 .. RAM_PAGES /\ n + 1 # 1 /\ n + 1 \in Nat
    BY <1>1, <1>6
  <2>2. Ahead(n)' = Ahead(n + 1)
    BY <1>1, <1>6, NextPlaces
  <2>3. Ahead(n + 1) \in Frame /\ Ahead(n + 1) # Ahead(1)
    BY <1>1, <2>1, AheadIsFrame, AheadTellsPlaces
  <2>4. coremap'[Ahead(n + 1)] = coremap[Ahead(n + 1)]
    BY <1>1, <2>3, FaultEffect
  <2>5. OwnerAhead(n)' = OwnerAhead(n + 1)
    BY <2>2, <2>4 DEF OwnerAhead
  <2>6. OwnerAhead(n + 1) # NULL => OwnerAhead(n + 1) \in Resident
    BY <2>3 DEF OwnerAhead, IInv, OwnersAgree
  <2>7. QED
    BY <2>1, <2>5, <2>6
<1>7. OwnerAhead(RAM_PAGES)' = v
  <2>1. RAM_PAGES \in 1 .. RAM_PAGES
    BY <1>1
  <2>2. Ahead(RAM_PAGES)' = Ahead(1)
    BY <1>1, <2>1, NextPlaces
  <2>3. QED
    BY <1>2, <2>2 DEF OwnerAhead
<1>8. ASSUME NEW m \in 1 .. RAM_PAGES, NEW n \in 1 .. RAM_PAGES, m < n,
             OwnerAhead(m)' # NULL, OwnerAhead(n)' # NULL
      PROVE  loadedAt'[OwnerAhead(m)'] < loadedAt'[OwnerAhead(n)']
  <2>1. m < RAM_PAGES
    BY <1>1, <1>8
  <2>2. /\ OwnerAhead(m)' = OwnerAhead(m + 1) /\ m + 1 \in 1 .. RAM_PAGES
        /\ OwnerAhead(m + 1) \in Resident
    BY <1>6, <1>8, <2>1
  <2>3. loadedAt'[OwnerAhead(m)'] = loadedAt[OwnerAhead(m + 1)]
    BY <1>5, <2>2
  <2>4. CASE n < RAM_PAGES
    <3>1. /\ OwnerAhead(n)' = OwnerAhead(n + 1) /\ n + 1 \in 1 .. RAM_PAGES
          /\ OwnerAhead(n + 1) \in Resident
      BY <1>6, <1>8, <2>4
    <3>2. loadedAt'[OwnerAhead(n)'] = loadedAt[OwnerAhead(n + 1)]
      BY <1>5, <3>1
    <3>3. m + 1 < n + 1 /\ OwnerAhead(m + 1) # NULL /\ OwnerAhead(n + 1) # NULL
      BY <1>8, <2>2, <3>1
    <3>4. loadedAt[OwnerAhead(m + 1)] < loadedAt[OwnerAhead(n + 1)]
      BY <2>2, <3>1, <3>3 DEF LoadOrder
    <3>5. QED
      BY <2>3, <3>2, <3>4
  <2>5. CASE n = RAM_PAGES
    <3>1. OwnerAhead(m + 1) \in VPage
      BY <1>5, <2>2
    <3>2. loadedAt[OwnerAhead(m + 1)] <= num_pagefault /\ loadedAt[OwnerAhead(m + 1)] \in Nat
      BY <1>1, <3>1
    <3>3. loadedAt'[OwnerAhead(n)'] = num_pagefault + 1
      BY <1>3, <1>7, <2>5
    <3>4. QED
      BY <1>1, <2>3, <3>2, <3>3
  <2>6. QED
    BY <1>1, <2>4, <2>5
<1>9. QED
  BY <1>4, <1>8 DEF LoadOrder

LEMMA LoadOrderKept ==
  ASSUME Replace = "fifo", IInv, LoadOrder, [FifoNext]_<<vars, loadedAt>>
  PROVE  LoadOrder'
<1>1. ASSUME UNCHANGED <<coremap, hand, num_pagefault, loadedAt>>
      PROVE  LoadOrder'
  BY <1>1 DEF LoadOrder, OwnerAhead, Ahead
<1>2. loadedAt \in [VPage -> Nat]
  BY DEF LoadOrder
<1>3. ASSUME FifoNext, \A u \in VPage : page_table'[u].inmemory = page_table[u].inmemory
      PROVE  loadedAt' = loadedAt
  BY <1>2, <1>3 DEF FifoNext
<1>4. ASSUME FifoNext, NEW v \in VPage, NEW write \in BOOLEAN, Hit(v, write)
      PROVE  LoadOrder'
  <2>1. \A u \in VPage : page_table'[u].inmemory = page_table[u].inmemory
    BY <1>4, TouchedEntry DEF Hit, IInv, TypeOK
  <2>2. QED
    BY <1>1, <1>3, <1>4, <2>1 DEF Hit
<1>5. ASSUME FifoNext, NEW v \in VPage, NEW write \in BOOLEAN, PageFault(v, write)
      PROVE  LoadOrder'
  BY <1>5, FaultKeepsLoadOrder DEF FifoNext
<1>6. ASSUME FifoNext, NEW v \in VPage, SwapExhausted(v)
      PROVE  LoadOrder'
  <2>1. page_table' = page_table /\ UNCHANGED <<coremap, hand, num_pagefault>>
    BY <1>6 DEF SwapExhausted, stats
  <2>2. QED
    BY <1>1, <1>3, <1>6, <2>1
<1>7. CASE UNCHANGED <<vars, loadedAt>>
  BY <1>1, <1>7 DEF vars, stats
<1>8. CASE FifoNext
  BY <1>4, <1>5, <1>6, <1>8 DEF FifoNext, Next, ReadMemory, WriteMemory, Translate
<1>9. QED
  BY <1>7, <1>8

(* The page the fifo replacement evicts was loaded before all that stay. *)
THEOREM EvictsOldestHolds ==
  ASSUME Replace = "fifo"
  PROVE  FifoSpec => EvictsOldest
<1>1. FifoSpec => Spec
  <2>1. FifoInit => Init
    BY DEF FifoInit
  <2>2. [FifoNext]_<<vars, loadedAt>> => [Next]_vars
    BY DEF FifoNext
  <2>3. QED
    BY <2>1, <2>2, PTL DEF FifoSpec, Spec
<1>2. IInv /\ LoadOrder /\ [FifoNext]_<<vars, loadedAt>> => LoadOrder'
  BY LoadOrderKept
<1>3. ASSUME IInv, LoadOrder, [FifoNext]_<<vars, loadedAt>>,
             NEW v \in Resident, NEW w \in Resident,
             ~page_table'[v].inmemory, page_table'[w].inmemory
      PROVE  loadedAt[v] < loadedAt[w]
  <2>1. [Next]_vars
    BY <1>3 DEF FifoNext
  <2>2. v = Victim /\ page_table[v].page = VictimFrame
    BY <1>3, <2>1, OnlyVictimLeaves
  <2>3. v # NULL /\ w # NULL /\ v # w /\ hand \in Frame
    BY <1>3, ValueAssumption DEF Resident, IInv, TypeOK
  <2>4. OwnerAhead(1) = v /\ page_table[v].page = Ahead(1)
    BY <2>2 DEF OwnerAhead, Victim, VictimFrame
  <2>5. page_table[w].page \in Frame /\ coremap[page_table[w].page].owner = w
    BY <1>3 DEF IInv, OwnersAgree
  <2>6. PICK n \in 1 .. RAM_PAGES : page_table[w].page = Ahead(n)
    BY <2>3, <2>5, AheadReachesAll
  <2>7. OwnerAhead(n) = w /\ n # 1
    BY <2>3, <2>4, <2>5, <2>6 DEF OwnerAhead
  <2>8. 1 \in 1 .. RAM_PAGES /\ 1 < n
    BY <2>7, SizeAssumption
  <2>9. QED
    BY <1>3, <2>3, <2>4, <2>7, <2>8 DEF LoadOrder
<1>4. IInv /\ LoadOrder /\ [FifoNext]_<<vars, loadedAt>> =>
        [\A v, w \in Resident :
           ~page_table'[v].inmemory /\ page_table'[w].inmemory => loadedAt[v] < loadedAt[w]
        ]_<<vars, loadedAt>>
  BY <1>3
<1>5. QED
  BY <1>1, <1>2, <1>4, FifoInit_LoadOrder, PagingInvariant, PTL DEF FifoSpec, EvictsOldest

================================================================================
