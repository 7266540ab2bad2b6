--------------------------- MODULE InstrTableProofs ---------------------------
(***************************************************************************)
(* Proofs about InstrTable, for every set of addresses, every initial size *)
(* and any number of growths.                                              *)
(***************************************************************************)
EXTENDS InstrTable, FiniteSetTheorems, WellFoundedInduction, TLAPS

-------------------------------------------------------------------------------
(* Lemmas about probing. *)

(* The first of a nonempty set of steps exists. *)
LEMMA FirstIsLeast ==
  ASSUME NEW steps \in SUBSET Nat, steps # {}
  PROVE  First(steps) \in steps /\ \A j \in steps : First(steps) <= j
<1> DEFINE Less == {ss \in Nat \X Nat : ss[1] < ss[2]}
<1>1. IsWellFoundedOn(Less, Nat)
  BY NatLessThanWellFounded DEF OpToRel
<1>2. PICK k \in steps : \A j \in steps : <<j, k>> \notin Less
  <2> HIDE DEF Less
  <2> QED BY <1>1, WFMin
<1>3. \A j \in steps : k <= j
  <2> TAKE j \in steps
  <2>1. j \in Nat /\ k \in Nat
    OBVIOUS
  <2>2. ~(j < k)
    BY <1>2, <2>1
  <2> QED BY <2>1, <2>2
<1>4. QED
  BY <1>3 DEF First

(* A probe stays within the array, *)
LEMMA ProbeInRange ==
  ASSUME NEW addr \in Nat, NEW k \in Nat, NEW sz \in Nat \ {0}
  PROVE  Probe(addr, k, sz) \in 0 .. sz - 1
<1>1. addr \div 4 + k \in Nat
  OBVIOUS
<1>2. QED
  BY <1>1 DEF Probe

(* and visits different slots in its first sz steps. *)
LEMMA ProbeInjective ==
  ASSUME NEW addr \in Nat, NEW sz \in Nat \ {0},
         NEW j \in 0 .. sz - 1, NEW k \in 0 .. sz - 1,
         Probe(addr, j, sz) = Probe(addr, k, sz)
  PROVE  j = k
<1> DEFINE h == addr \div 4
           p == (h + j) \div sz
           q == (h + k) \div sz
<1>1. h \in Nat /\ p \in Int /\ q \in Int
  OBVIOUS
<1>2. h + j = (sz * p) + ((h + j) % sz) /\ h + k = (sz * q) + ((h + k) % sz)
  <2> HIDE DEF h
  <2> QED BY <1>1, SMT
<1>3. (h + j) % sz = (h + k) % sz
  BY DEF Probe
<1> HIDE DEF h, p, q
<1>4. (sz * p) + (k - j) = sz * q
  BY <1>1, <1>2, <1>3
<1>5. p = q
  <2>1. CASE p < q
    <3>1. sz * q >= (sz * p) + sz
      BY <1>1, <2>1, SMT
    <3>2. QED
      BY <1>1, <1>4, <3>1
  <2>2. CASE p > q
    <3>1. sz * p >= (sz * q) + sz
      BY <1>1, <2>2, SMT
    <3>2. QED
      BY <1>1, <1>4, <3>1
  <2>3. QED
    BY <1>1, <2>1, <2>2
<1>6. QED
  BY <1>1, <1>4, <1>5

-------------------------------------------------------------------------------
(* Lemmas about arrays. *)

Array(sz) == [0 .. sz - 1 -> Slot]

(* An array with fewer addresses than slots has a free slot on every probe. *)
LEMMA FreeSlotExists ==
  ASSUME NEW sz \in Nat \ {0}, NEW arr \in Array(sz), PathsUnbroken(arr, sz),
         IsFiniteSet(Addresses(arr)), Cardinality(Addresses(arr)) < sz,
         NEW addr \in Addr
  PROVE  FreeSteps(arr, sz, addr) # {}
<1> DEFINE f == [k \in 0 .. sz - 1 |-> arr[Probe(addr, k, sz)].addr]
<1>0. addr \in Nat
  BY AddrAssumption
<1>1. SUFFICES ASSUME FreeSteps(arr, sz, addr) = {} PROVE FALSE
  OBVIOUS
<1>2. ASSUME NEW k \in 0 .. sz - 1
      PROVE  Probe(addr, k, sz) \in Used(arr)
  <2>1. k \in Nat
    OBVIOUS
  <2>2. Probe(addr, k, sz) \in 0 .. sz - 1
    BY <1>0, <2>1, ProbeInRange
  <2>3. arr[Probe(addr, k, sz)].addr # 0
    BY <1>1 DEF FreeSteps
  <2>4. QED
    BY <2>2, <2>3 DEF Array, Used
<1>3. f \in [0 .. sz - 1 -> Addresses(arr)]
  BY <1>2 DEF Addresses
<1>4. IsFiniteSet(0 .. sz - 1) /\ Cardinality(0 .. sz - 1) = sz
  BY FS_Interval
<1>5. PICK j \in 0 .. sz - 1, k \in 0 .. sz - 1 : j # k /\ f[j] = f[k]
  <2> HIDE DEF f
  <2> QED BY <1>3, <1>4, FS_PigeonHole
<1>6. Probe(addr, j, sz) = Probe(addr, k, sz)
  BY <1>2, <1>5 DEF PathsUnbroken
<1>7. QED
  BY <1>0, <1>5, <1>6, ProbeInjective

(* The slot install takes is free, and all before it on the probe are used. *)
LEMMA FreeSlotTaken ==
  ASSUME NEW sz \in Nat \ {0}, NEW arr \in Array(sz), NEW addr \in Addr,
         FreeSteps(arr, sz, addr) # {}
  PROVE  LET k == First(FreeSteps(arr, sz, addr)) IN
         /\ k \in 0 .. sz - 1
         /\ Probe(addr, k, sz) \in 0 .. sz - 1
         /\ arr[Probe(addr, k, sz)].addr = 0
         /\ \A j \in 0 .. k - 1 : arr[Probe(addr, j, sz)].addr # 0
<1> DEFINE k == First(FreeSteps(arr, sz, addr))
<1>1. FreeSteps(arr, sz, addr) \subseteq 0 .. sz - 1
  BY DEF FreeSteps
<1>2. k \in FreeSteps(arr, sz, addr) /\ \A j \in FreeSteps(arr, sz, addr) : k <= j
  <2>1. FreeSteps(arr, sz, addr) \in SUBSET Nat
    BY <1>1
  <2>2. QED
    BY <2>1, FirstIsLeast
<1> HIDE DEF k
<1>3. k \in 0 .. sz - 1
  BY <1>1, <1>2
<1>4. arr[Probe(addr, k, sz)].addr = 0
  BY <1>2 DEF FreeSteps
<1>5. \A j \in 0 .. k - 1 : arr[Probe(addr, j, sz)].addr # 0
  BY <1>2, <1>3 DEF FreeSteps
<1>6. Probe(addr, k, sz) \in 0 .. sz - 1
  <2>1. addr \in Nat /\ k \in Nat
    BY <1>3, AddrAssumption
  <2>2. QED
    BY <2>1, ProbeInRange
<1>7. QED
  BY <1>3, <1>4, <1>5, <1>6 DEF k

(* install adds one entry and breaks no path. *)
LEMMA PlacedEffect ==
  ASSUME NEW sz \in Nat \ {0}, NEW arr \in Array(sz), PathsUnbroken(arr, sz),
         NEW addr \in Addr, NEW instr \in Instr, addr \notin Addresses(arr),
         FreeSteps(arr, sz, addr) # {}
  PROVE  LET new == Placed(arr, sz, addr, instr) IN
         /\ new \in Array(sz)
         /\ PathsUnbroken(new, sz)
         /\ Entries(new) = Entries(arr) \cup {[addr |-> addr, instr |-> instr]}
         /\ Addresses(new) = Addresses(arr) \cup {addr}
<1> DEFINE new == Placed(arr, sz, addr, instr)
           k == First(FreeSteps(arr, sz, addr))
           p == Probe(addr, k, sz)
           e == [addr |-> addr, instr |-> instr]
<1>1. /\ k \in 0 .. sz - 1
      /\ p \in 0 .. sz - 1
      /\ arr[p].addr = 0
      /\ \A j \in 0 .. k - 1 : arr[Probe(addr, j, sz)].addr # 0
  BY FreeSlotTaken
<1>2. new = [arr EXCEPT ![p] = e]
  BY DEF Placed
<1>3. e \in Slot /\ e.addr = addr /\ addr # 0
  BY AddrAssumption DEF Slot
<1> HIDE DEF new, k, e
<1>4. new \in Array(sz) /\ new[p] = e /\ \A s \in 0 .. sz - 1 : s # p => new[s] = arr[s]
  <2> HIDE DEF p
  <2> QED BY <1>1, <1>2, <1>3 DEF Array
<1>5. Used(new) = Used(arr) \cup {p} /\ p \notin Used(arr)
  <2> HIDE DEF p
  <2> QED BY <1>1, <1>3, <1>4 DEF Used, Array
<1>6. \A s \in Used(arr) : new[s] = arr[s]
  <2> HIDE DEF p
  <2> QED BY <1>4, <1>5 DEF Used, Array
<1>7. Entries(new) = Entries(arr) \cup {e}
  <2> HIDE DEF p
  <2> QED BY <1>4, <1>5, <1>6 DEF Entries
<1>8. Addresses(new) = Addresses(arr) \cup {addr}
  <2> HIDE DEF p
  <2> QED BY <1>3, <1>4, <1>5, <1>6 DEF Addresses
<1>9. \A s, t \in Used(new) : new[s].addr = new[t].addr => s = t
  <2> HIDE DEF p
  <2>1. \A s \in Used(arr) : new[s].addr # addr
    BY <1>6 DEF Addresses
  <2>2. QED
    BY <2>1, <1>3, <1>4, <1>5, <1>6 DEF PathsUnbroken
<1>10. ASSUME NEW x \in Nat, NEW j \in Nat, arr[Probe(x, j, sz)].addr # 0
       PROVE  new[Probe(x, j, sz)].addr # 0
  <2>1. Probe(x, j, sz) \in 0 .. sz - 1
    BY <1>10, ProbeInRange
  <2>2. QED
    BY <1>3, <1>4, <1>10, <2>1
<1>11. ASSUME NEW s \in Used(new)
       PROVE  \E m \in 0 .. sz - 1 :
                /\ s = Probe(new[s].addr, m, sz)
                /\ \A j \in 0 .. m - 1 : new[Probe(new[s].addr, j, sz)].addr # 0
  <2>1. CASE s \in Used(arr)
    <3>1. PICK m \in 0 .. sz - 1 :
            /\ s = Probe(arr[s].addr, m, sz)
            /\ \A j \in 0 .. m - 1 : arr[Probe(arr[s].addr, j, sz)].addr # 0
      BY <2>1 DEF PathsUnbroken
    <3>2. arr[s].addr \in Nat /\ new[s] = arr[s]
      BY <2>1, <1>6, AddrAssumption DEF Used, Array, Slot
    <3>3. \A j \in 0 .. m - 1 : new[Probe(arr[s].addr, j, sz)].addr # 0
      BY <3>1, <3>2, <1>10
    <3>4. QED
      BY <3>1, <3>2, <3>3
  <2>2. CASE s = p
    <3>1. \A j \in 0 .. k - 1 : new[Probe(addr, j, sz)].addr # 0
      BY <1>1, <1>10, AddrAssumption
    <3>2. QED
      BY <1>1, <1>3, <1>4, <2>2, <3>1
  <2>3. QED
    BY <1>5, <2>1, <2>2
<1>12. PathsUnbroken(new, sz)
  BY <1>9, <1>11 DEF PathsUnbroken
<1>13. QED
  BY <1>4, <1>7, <1>8, <1>12 DEF new, e

-------------------------------------------------------------------------------
(* The inductive invariant. *)

(* n counts the addresses in the table, and is small enough for the array in
   use and for the one it is copied to. *)
Counted ==
  /\ IsFiniteSet(Installed)
  /\ Cardinality(Installed) = n
  /\ n <= size
  /\ status = "ready" => 2 * n <= size

(* Copying starts at the first slot. *)
CopyStarts == status # "growing" => i = 0

IInv == TypeOK /\ Searchable /\ Counted /\ CopyStarts

(* A slot still to be copied holds an address the new array does not. *)
LEMMA NotCopiedYet ==
  ASSUME IInv, i < size, a[i].addr # 0
  PROVE  a[i].addr \in Addr /\ a[i].addr \notin Addresses(b)
<1>1. i \in 0 .. size - 1 /\ i \in Used(a) /\ a[i].addr \in Addr
  BY DEF IInv, TypeOK, Used, Slot
<1>2. ASSUME NEW t \in Used(b), b[t].addr = a[i].addr
      PROVE  FALSE
  <2>1. PICK s \in Used(a) \cap 0 .. i - 1 : a[s] = b[t]
    BY <1>2 DEF IInv, Searchable, Entries
  <2>2. s = i
    BY <1>1, <1>2, <2>1 DEF IInv, Searchable, PathsUnbroken
  <2>3. QED
    BY <1>1, <2>1, <2>2
<1>3. QED
  BY <1>1, <1>2 DEF Addresses

(* What is in the new array is also in the old one. *)
LEMMA CopiedIsInstalled ==
  ASSUME IInv
  PROVE  Addresses(b) \subseteq Installed
  BY DEF IInv, Searchable, Entries, Addresses, Installed

(* The loops end: the first part in every state, the second while copying. *)
LEMMA FreeSlots ==
  ASSUME IInv
  PROVE  LoopsEnd
<1> USE DEF IInv
<1>1. a \in Array(size) /\ b \in Array(2 * size) /\ size \in Nat \ {0} /\ n \in Nat
  BY DEF TypeOK, Array
<1>2. ASSUME status = "ready", NEW addr \in Addr
      PROVE  FreeSteps(a, size, addr) # {}
  <2>1. Cardinality(Addresses(a)) < size
    BY <1>1, <1>2 DEF Counted, Installed
  <2>2. QED
    BY <1>1, <2>1, FreeSlotExists DEF Counted, Installed, Searchable
<1>3. ASSUME NEW addr \in Addr
      PROVE  FreeSteps(b, 2 * size, addr) # {}
  <2>1. IsFiniteSet(Addresses(b)) /\ Cardinality(Addresses(b)) <= Cardinality(Installed)
    BY CopiedIsInstalled, FS_Subset DEF Counted
  <2>2. Cardinality(Addresses(b)) \in Nat
    BY <2>1, FS_CardinalityType
  <2>3. Cardinality(Addresses(b)) < 2 * size
    BY <1>1, <2>1, <2>2 DEF Counted
  <2>4. 2 * size \in Nat \ {0}
    BY <1>1
  <2>5. QED
    BY <1>1, <2>1, <2>3, <2>4, FreeSlotExists DEF Searchable
<1>4. QED
  BY <1>2, <1>3 DEF LoopsEnd

(* A new array has no used slot. *)
LEMMA ClearedIsEmpty ==
  ASSUME NEW sz \in Nat \ {0}
  PROVE  /\ Cleared(sz) \in Array(sz)
         /\ Used(Cleared(sz)) = {}
         /\ PathsUnbroken(Cleared(sz), sz)
<1>1. Cleared(sz) \in Array(sz)
  BY InstrAssumption DEF Cleared, Array, Empty, Slot
<1>2. Used(Cleared(sz)) = {}
  BY DEF Cleared, Used, Empty
<1>3. QED
  BY <1>1, <1>2 DEF PathsUnbroken

LEMMA InitIInv == Init => IInv
<1> SUFFICES ASSUME Init PROVE IInv
  OBVIOUS
<1> USE DEF Init, NoCopy
<1>1. size \in Nat \ {0} /\ 2 * size \in Nat \ {0}
  BY SizeAssumption
<1>2. /\ a \in Array(size) /\ Used(a) = {} /\ PathsUnbroken(a, size)
      /\ b \in Array(2 * size) /\ Used(b) = {} /\ PathsUnbroken(b, 2 * size)
  BY <1>1, ClearedIsEmpty
<1>3. TypeOK
  BY <1>1, <1>2, SizeAssumption, InstrAssumption DEF TypeOK, Array
<1>4. Searchable
  BY <1>2 DEF Searchable, Entries
<1>5. Counted
  <2>1. Installed = {}
    BY <1>2 DEF Installed, Addresses
  <2>2. QED
    BY <1>1, <2>1, FS_EmptySet DEF Counted
<1>6. QED
  BY <1>3, <1>4, <1>5 DEF IInv, CopyStarts

-------------------------------------------------------------------------------
(* Every step preserves the invariant. *)

LEMMA InstallPreserves ==
  ASSUME IInv, NEW addr \in Addr, NEW instr \in Instr, InstallInstr(addr, instr)
  PROVE  IInv'
<1> USE DEF IInv, InstallInstr
<1>1. a \in Array(size) /\ size \in Nat \ {0} /\ n \in Nat /\ addr \notin Addresses(a)
  BY DEF TypeOK, Array, Installed
<1>2. /\ a' \in Array(size)
      /\ PathsUnbroken(a', size)
      /\ Addresses(a') = Addresses(a) \cup {addr}
  BY <1>1, PlacedEffect DEF Searchable
<1>3. TypeOK'
  BY <1>1, <1>2, SizeAssumption DEF TypeOK, Array
<1>4. Searchable'
  <2>1. b' = b /\ size' = size /\ i' = i
    OBVIOUS
  <2>2. i = 0 /\ Entries(b) = {}
    BY DEF TypeOK, Searchable, CopyStarts
  <2>3. QED
    BY <1>2, <2>1, <2>2 DEF Searchable
<1>5. Counted'
  <2>1. /\ IsFiniteSet(Addresses(a'))
        /\ Cardinality(Addresses(a')) = n + 1
    BY <1>1, <1>2, FS_AddElement DEF Counted, Installed
  <2>2. status' = "ready" => 2 * (n + 1) <= size
    BY <1>1 DEF NeedsGrowth
  <2>3. n + 1 <= size
    BY <1>1 DEF Counted
  <2>4. QED
    BY <2>1, <2>2, <2>3 DEF Counted, Installed
<1>6. QED
  BY <1>3, <1>4, <1>5 DEF CopyStarts

LEMMA CopyPreserves ==
  ASSUME IInv, CopySlot
  PROVE  IInv'
<1> USE DEF IInv, CopySlot
<1>1. /\ b \in Array(2 * size) /\ a \in Array(size)
      /\ size \in Nat \ {0} /\ 2 * size \in Nat \ {0} /\ i \in 0 .. size - 1
  BY DEF TypeOK, Array
<1> DEFINE Copied(k) == {a[s] : s \in Used(a) \cap 0 .. k - 1}
<1>2. CASE a[i].addr = 0
  <2>1. b' = b /\ i \notin Used(a)
    BY <1>2 DEF Used
  <2>2. Used(a) \cap 0 .. i = Used(a) \cap 0 .. i - 1
    BY <1>1, <2>1
  <2>3. Entries(b') = Copied(i + 1)
    BY <1>1, <2>1, <2>2 DEF Searchable
  <2>4. TypeOK'
    BY <1>1, <2>1 DEF TypeOK
  <2>5. Searchable'
    BY <2>1, <2>3 DEF Searchable
  <2>6. Counted' /\ CopyStarts'
    BY DEF Counted, CopyStarts, Installed
  <2>7. QED
    BY <2>4, <2>5, <2>6
<1>3. CASE a[i].addr # 0
  <2>1. /\ a[i].addr \in Addr /\ a[i].addr \notin Addresses(b)
        /\ a[i].instr \in Instr /\ i \in Used(a)
        /\ a[i] = [addr |-> a[i].addr, instr |-> a[i].instr]
    BY <1>1, <1>3, NotCopiedYet DEF Array, Slot, Used
  <2>2. b' = Placed(b, 2 * size, a[i].addr, a[i].instr)
    BY <1>3 DEF CopySize
  <2>3. /\ b' \in Array(2 * size)
        /\ PathsUnbroken(b', 2 * size)
        /\ Entries(b') = Entries(b) \cup {a[i]}
    BY <1>1, <1>3, <2>1, <2>2, PlacedEffect DEF Searchable, CopySize
  <2>4. Used(a) \cap 0 .. i = (Used(a) \cap 0 .. i - 1) \cup {i}
    BY <1>1, <2>1
  <2>5. Entries(b') = Copied(i + 1)
    BY <1>1, <2>3, <2>4 DEF Searchable
  <2>6. TypeOK'
    BY <1>1, <2>3 DEF TypeOK, Array
  <2>7. Searchable'
    BY <2>3, <2>5 DEF Searchable
  <2>8. Counted' /\ CopyStarts'
    BY DEF Counted, CopyStarts, Installed
  <2>9. QED
    BY <2>6, <2>7, <2>8
<1>4. QED
  BY <1>2, <1>3

(* Once every slot is copied, both arrays hold the same entries. *)
LEMMA CopyComplete ==
  ASSUME IInv, CopyDone
  PROVE  Entries(b) = Entries(a) /\ Addresses(b) = Addresses(a)
<1>1. Used(a) \cap 0 .. i - 1 = Used(a)
  BY DEF IInv, TypeOK, CopyDone, Used
<1>2. Entries(b) = Entries(a)
  BY <1>1 DEF IInv, Searchable, Entries
<1>3. QED
  BY <1>2 DEF Entries, Addresses

LEMMA SwapPreserves ==
  ASSUME IInv, SwapArrays
  PROVE  IInv'
<1> USE DEF IInv, SwapArrays
<1>1. /\ a' = b /\ size' = 2 * size /\ i' = 0 /\ n' = n /\ found' = found
      /\ b \in Array(2 * size) /\ size \in Nat \ {0} /\ n \in Nat
  BY DEF TypeOK, Array, NewSize
<1>2. b' \in Array(2 * size') /\ Used(b') = {} /\ PathsUnbroken(b', 2 * size')
  BY <1>1, ClearedIsEmpty
<1>3. TypeOK'
  BY <1>1, <1>2 DEF TypeOK, Array
<1>4. Searchable'
  BY <1>1, <1>2 DEF Searchable, Entries
<1>5. Counted'
  <2>1. Installed' = Installed
    BY <1>1, CopyComplete DEF Installed
  <2>2. QED
    BY <1>1, <2>1 DEF Counted
<1>6. QED
  BY <1>1, <1>3, <1>4, <1>5 DEF CopyStarts

LEMMA NextIInv ==
  ASSUME IInv, [Next]_vars
  PROVE  IInv'
<1>1. ASSUME NEW addr \in Addr, NEW instr \in Instr \ {Zero}, InstallInstr(addr, instr)
      PROVE  IInv'
  BY <1>1, InstallPreserves
<1>2. ASSUME NEW addr \in Addr, LookupInstr(addr)
      PROVE  IInv'
  <2>1. StopSlot(addr) \in 0 .. size - 1
    <3>1. First(StopSteps(a, size, addr)) \in Nat
      <4>1. StopSteps(a, size, addr) \in SUBSET Nat
        BY DEF StopSteps
      <4>2. QED
        BY <1>2, <4>1, FirstIsLeast DEF LookupInstr
    <3>2. QED
      BY <3>1, ProbeInRange, AddrAssumption DEF StopSlot, IInv, TypeOK
  <2>2. QED
    BY <1>2, <2>1 DEF LookupInstr, IInv, TypeOK, Slot, Searchable, Counted, CopyStarts, Installed
<1>3. ASSUME NEW addr \in Addr, AddrNotInTable(addr)
      PROVE  IInv'
  BY <1>3 DEF AddrNotInTable, IInv, TypeOK, Searchable, Counted, CopyStarts, Installed
<1>4. ASSUME OutOfMemory
      PROVE  IInv'
  BY <1>4 DEF OutOfMemory, IInv, TypeOK, Searchable, Counted, CopyStarts, Installed
<1>5. ASSUME CopySlot
      PROVE  IInv'
  BY <1>5, CopyPreserves
<1>6. ASSUME SwapArrays
      PROVE  IInv'
  BY <1>6, SwapPreserves
<1>7. ASSUME UNCHANGED vars
      PROVE  IInv'
  BY <1>7 DEF vars, IInv, TypeOK, Searchable, Counted, CopyStarts, Installed
<1>8. QED
  BY <1>1, <1>2, <1>3, <1>4, <1>5, <1>6, <1>7 DEF Next

(* The inductive invariant holds: the basis of the theorems below. *)
THEOREM TableInvariant == Spec => []IInv
<1>1. IInv /\ [Next]_vars => IInv'
  BY NextIInv
<1>2. QED
  BY InitIInv, <1>1, PTL DEF Spec

(* Type correctness: the new array always has twice the slots of the old one,
   and the copying never leaves the old one (instr_table.c:64-75). *)
THEOREM TableTypeCorrect == Spec => []TypeOK
<1>1. IInv => TypeOK
  BY DEF IInv
<1>2. QED
  BY <1>1, TableInvariant, PTL

(* Every address can be found, and nothing is lost when the array grows
   (instr_table.c:42-93), for tables of every size. *)
THEOREM AlwaysSearchable == Spec => []Searchable
<1>1. IInv => Searchable
  BY DEF IInv
<1>2. QED
  BY <1>1, TableInvariant, PTL

(* The probing loops of instr_table.c end, since a free slot always exists. *)
THEOREM LoopsAlwaysEnd == Spec => []LoopsEnd
  BY FreeSlots, TableInvariant, PTL

-------------------------------------------------------------------------------
(* The table implements a map. *)

(* A probe for an installed address stops at its slot. *)
LEMMA LookupFinds ==
  ASSUME NEW sz \in Nat \ {0}, NEW arr \in Array(sz), PathsUnbroken(arr, sz),
         NEW s \in Used(arr)
  PROVE  Probe(arr[s].addr, First(StopSteps(arr, sz, arr[s].addr)), sz) = s
<1> DEFINE x == arr[s].addr
           k == First(StopSteps(arr, sz, x))
<1>1. PICK m \in 0 .. sz - 1 :
        /\ s = Probe(x, m, sz)
        /\ \A j \in 0 .. m - 1 : arr[Probe(x, j, sz)].addr # 0
  BY DEF PathsUnbroken
<1>2. x \in Nat /\ x # 0
  BY AddrAssumption DEF Used, Array, Slot
<1> HIDE DEF x
<1>3. m \in StopSteps(arr, sz, x) /\ StopSteps(arr, sz, x) \in SUBSET Nat
  BY <1>1 DEF StopSteps, x
<1>4. k \in StopSteps(arr, sz, x) /\ k <= m
  BY <1>3, FirstIsLeast
<1> HIDE DEF k
<1>5. k \in 0 .. sz - 1 /\ arr[Probe(x, k, sz)].addr \in {0, x}
  BY <1>4 DEF StopSteps
<1>6. CASE k = m
  BY <1>1, <1>6 DEF k, x
<1>7. CASE k < m
  <2>1. arr[Probe(x, k, sz)].addr # 0
    BY <1>1, <1>5, <1>7
  <2>2. Probe(x, k, sz) \in 0 .. sz - 1
    <3>1. k \in Nat
      BY <1>5
    <3>2. QED
      BY <1>2, <3>1, ProbeInRange
  <2>3. Probe(x, k, sz) \in Used(arr) /\ arr[Probe(x, k, sz)].addr = x
    BY <1>5, <2>1, <2>2 DEF Used, Array
  <2>4. Probe(x, k, sz) = s
    BY <2>3 DEF PathsUnbroken, x
  <2>5. QED
    BY <2>4 DEF k, x
<1>8. QED
  BY <1>1, <1>4, <1>5, <1>6, <1>7

(* In a searchable array, the contents at an address are those of its slot, *)
LEMMA ContentsOfSlot ==
  ASSUME NEW arr, NEW sz, PathsUnbroken(arr, sz), NEW s \in Used(arr)
  PROVE  /\ arr[s].addr \in DOMAIN Contents(arr)
         /\ Contents(arr)[arr[s].addr] = arr[s].instr
<1>1. (CHOOSE t \in Used(arr) : arr[t].addr = arr[s].addr) = s
  BY DEF PathsUnbroken
<1>2. arr[s].addr \in Addresses(arr)
  BY DEF Addresses
<1>3. QED
  BY <1>1, <1>2 DEF Contents

(* so arrays with the same entries have the same contents. *)
LEMMA ContentsOfEntries ==
  ASSUME NEW arr, NEW sz, PathsUnbroken(arr, sz),
         NEW brr, NEW tz, PathsUnbroken(brr, tz), Entries(arr) = Entries(brr)
  PROVE  Contents(arr) = Contents(brr)
<1>1. Addresses(arr) = Addresses(brr)
  <2>1. Addresses(arr) = {e.addr : e \in Entries(arr)}
    BY DEF Addresses, Entries
  <2>2. Addresses(brr) = {e.addr : e \in Entries(brr)}
    BY DEF Addresses, Entries
  <2>3. QED
    BY <2>1, <2>2
<1>2. ASSUME NEW x \in Addresses(arr)
      PROVE  Contents(arr)[x] = Contents(brr)[x]
  <2>1. PICK s \in Used(arr) : arr[s].addr = x
    BY DEF Addresses
  <2>2. PICK t \in Used(brr) : brr[t] = arr[s]
    BY DEF Entries
  <2>3. QED
    BY <2>1, <2>2, ContentsOfSlot
<1>3. QED
  BY <1>1, <1>2 DEF Contents

(* Installing an address adds it to the map. *)
LEMMA InstallImplements ==
  ASSUME IInv, NEW addr \in Addr, NEW instr \in Instr, InstallInstr(addr, instr)
  PROVE  Map!Install(addr, instr)
<1>1. /\ a \in Array(size) /\ size \in Nat \ {0} /\ PathsUnbroken(a, size)
      /\ addr \notin Addresses(a)
  BY DEF IInv, TypeOK, Searchable, Array, InstallInstr, Installed
<1>2. /\ PathsUnbroken(a', size)
      /\ Entries(a') = Entries(a) \cup {[addr |-> addr, instr |-> instr]}
      /\ Addresses(a') = Addresses(a) \cup {addr}
  BY <1>1, PlacedEffect DEF InstallInstr
<1>3. ASSUME NEW x \in Addresses(a')
      PROVE  Contents(a')[x] = IF x = addr THEN instr ELSE Contents(a)[x]
  <2>1. PICK s \in Used(a') : a'[s].addr = x
    BY DEF Addresses
  <2>2. Contents(a')[x] = a'[s].instr
    BY <1>2, <2>1, ContentsOfSlot
  <2>3. CASE a'[s] = [addr |-> addr, instr |-> instr]
    BY <2>1, <2>2, <2>3
  <2>4. CASE a'[s] \in Entries(a)
    <3>1. PICK t \in Used(a) : a[t] = a'[s]
      BY <2>4 DEF Entries
    <3>2. Contents(a)[x] = a'[s].instr
      BY <1>1, <2>1, <3>1, ContentsOfSlot
    <3>3. x # addr
      BY <1>1, <2>1, <3>1 DEF Addresses
    <3>4. QED
      BY <2>2, <3>2, <3>3
  <2>5. QED
    BY <1>2, <2>1, <2>3, <2>4 DEF Entries
<1>4. Contents(a') = [x \in DOMAIN Contents(a) \cup {addr} |->
                        IF x = addr THEN instr ELSE Contents(a)[x]]
  <2>1. DOMAIN Contents(a) = Addresses(a) /\ DOMAIN Contents(a') = Addresses(a')
    BY DEF Contents
  <2>2. Contents(a') = [x \in Addresses(a') |-> Contents(a')[x]]
    BY DEF Contents
  <2>3. QED
    BY <1>2, <1>3, <2>1, <2>2
<1>5. addr \notin DOMAIN Contents(a)
  BY <1>1 DEF Contents
<1>6. status = "ready" /\ status' # "exited" /\ found' = found
  BY DEF InstallInstr
<1>7. QED
  BY <1>4, <1>5, <1>6 DEF Map!Install

(* A lookup that ends on the address returns its instruction. *)
LEMMA LookupImplements ==
  ASSUME IInv, NEW addr \in Addr, LookupInstr(addr)
  PROVE  Map!Lookup(addr)
<1>1. /\ a \in Array(size) /\ size \in Nat \ {0} /\ PathsUnbroken(a, size)
  BY DEF IInv, TypeOK, Searchable, Array
<1>2. StopSlot(addr) \in Used(a)
  <2>1. StopSteps(a, size, addr) \in SUBSET Nat
    BY DEF StopSteps
  <2>2. First(StopSteps(a, size, addr)) \in Nat /\ addr \in Nat /\ addr # 0
    BY <2>1, FirstIsLeast, AddrAssumption DEF LookupInstr
  <2>3. StopSlot(addr) \in 0 .. size - 1
    BY <1>1, <2>2, ProbeInRange DEF StopSlot
  <2>4. QED
    BY <1>1, <2>2, <2>3 DEF LookupInstr, Used, Array
<1>3. addr \in DOMAIN Contents(a) /\ Contents(a)[addr] = a[StopSlot(addr)].instr
  BY <1>1, <1>2, ContentsOfSlot DEF LookupInstr
<1>4. QED
  BY <1>3 DEF LookupInstr, Map!Lookup

(* A lookup that ends on a free slot is for an address never installed. *)
LEMMA NotInTableImplements ==
  ASSUME IInv, NEW addr \in Addr, AddrNotInTable(addr)
  PROVE  Map!NotInTable(addr)
<1>1. /\ a \in Array(size) /\ size \in Nat \ {0} /\ PathsUnbroken(a, size)
  BY DEF IInv, TypeOK, Searchable, Array
<1>2. ASSUME NEW s \in Used(a), a[s].addr = addr
      PROVE  FALSE
  <2>1. StopSlot(addr) = s
    BY <1>1, <1>2, LookupFinds DEF StopSlot
  <2>2. QED
    BY <2>1 DEF AddrNotInTable, Used
<1>3. addr \notin DOMAIN Contents(a)
  BY <1>2 DEF Contents, Addresses
<1>4. QED
  BY <1>3 DEF AddrNotInTable, Map!NotInTable

(* The hash table implements the map, across every growth
   (instr_table.c:18-93). *)
THEOREM TableImplementsMap == Spec => TableIsMap
<1>1. Init => Map!Init
  <2>1. SUFFICES ASSUME Init PROVE Map!Init
    OBVIOUS
  <2>2. Used(a) = {}
    <3>1. a = Cleared(InitialSize) /\ InitialSize \in Nat \ {0}
      BY <2>1, SizeAssumption DEF Init
    <3>2. QED
      BY <3>1, ClearedIsEmpty
  <2>3. Contents(a) = [x \in {} |-> x]
    BY <2>2 DEF Contents, Addresses
  <2>4. QED
    BY <2>1, <2>3, InstrAssumption DEF Init, Map!Init
<1>2. IInv /\ [Next]_vars => [Map!Next]_Map!vars
  <2> SUFFICES ASSUME IInv, [Next]_vars
               PROVE  [Map!Next]_Map!vars
    OBVIOUS
  <2>1. ASSUME NEW addr \in Addr, NEW instr \in Instr \ {Zero}, InstallInstr(addr, instr)
        PROVE  Map!Next
    BY <2>1, InstallImplements DEF Map!Next
  <2>2. ASSUME NEW addr \in Addr, LookupInstr(addr)
        PROVE  Map!Next
    BY <2>2, LookupImplements DEF Map!Next
  <2>3. ASSUME NEW addr \in Addr, AddrNotInTable(addr)
        PROVE  Map!Next
    BY <2>3, NotInTableImplements DEF Map!Next
  <2>4. ASSUME OutOfMemory
        PROVE  Map!OutOfMemory
    BY <2>4 DEF OutOfMemory, Map!OutOfMemory
  <2>5. ASSUME CopySlot
        PROVE  UNCHANGED Map!vars
    BY <2>5 DEF CopySlot, Map!vars
  <2>6. ASSUME SwapArrays
        PROVE  UNCHANGED Map!vars
    <3>1. Entries(b) = Entries(a) /\ a' = b
      BY <2>6, CopyComplete DEF SwapArrays
    <3>2. Contents(a') = Contents(a)
      BY <3>1, ContentsOfEntries DEF IInv, Searchable
    <3>3. QED
      BY <2>6, <3>2 DEF SwapArrays, Map!vars
  <2>7. ASSUME UNCHANGED vars
        PROVE  UNCHANGED Map!vars
    BY <2>7 DEF vars, Map!vars
  <2>8. QED
    BY <2>1, <2>2, <2>3, <2>4, <2>5, <2>6, <2>7 DEF Next, Map!Next
<1>3. QED
  BY <1>1, <1>2, TableInvariant, PTL DEF Spec, TableIsMap, Map!Spec
================================================================================
