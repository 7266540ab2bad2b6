------------------------------ MODULE InstrTable ------------------------------
(***************************************************************************)
(* lab4/instr_table.c: an open addressing hash table with linear probing,  *)
(* whose array is doubled when more than half of it is used.  Entries are  *)
(* never removed.  A call of install_instr or lookup_instr is one action,  *)
(* except that the copying into a larger array takes one step per slot.    *)
(***************************************************************************)
EXTENDS Integers, FiniteSets

CONSTANTS
  Addr,          \* addresses of instructions
  Instr,         \* instruction words, the empty one included
  Zero,          \* the word calloc leaves in a slot
  InitialSize,   \* slots of a new table, 8 in the code
  MaxInstr       \* bound: installed instructions

ASSUME AddrAssumption == Addr \subseteq Nat \ {0}
ASSUME InstrAssumption == Zero \in Instr
ASSUME SizeAssumption == InitialSize \in Nat \ {0} /\ MaxInstr \in Nat

VARIABLES
  n,          \* slots used
  size,       \* slots allocated
  a,          \* the slots
  b,          \* the array being filled in install_instr
  i,          \* next slot of a to be copied to b
  status,     \* where the process is
  found       \* what the last lookup returned

vars == <<n, size, a, b, i, status, found>>

Empty == [addr |-> 0, instr |-> Zero]
Slot == [addr : Addr \cup {0}, instr : Instr]

(* calloc *)
Cleared(sz) == [s \in 0 .. sz - 1 |-> Empty]

Used(arr) == {s \in DOMAIN arr : arr[s].addr # 0}
Addresses(arr) == {arr[s].addr : s \in Used(arr)}
Entries(arr) == {arr[s] : s \in Used(arr)}

TypeOK ==
  /\ n \in 0 .. MaxInstr
  /\ size \in Nat \ {0}
  /\ a \in [0 .. size - 1 -> Slot]
  /\ b \in [0 .. 2 * size - 1 -> Slot]
  /\ i \in 0 .. size
  /\ status \in {"ready", "growing", "exited"}
  /\ found \in Instr

(* b and i mean nothing unless the array is growing *)
NoCopy(sz) == b = Cleared(2 * sz) /\ i = 0

Init ==
  /\ n = 0
  /\ size = InitialSize
  /\ a = Cleared(InitialSize)
  /\ NoCopy(InitialSize)
  /\ status = "ready"
  /\ found = Zero

-------------------------------------------------------------------------------
(* Probing.  Sizes are powers of two in the code, so "& (size-1)" is the
   remainder of a division by the size. *)

(* the slot reached after k steps *)
Probe_FromZero(addr, k, sz) == k
Probe(addr, k, sz) == (addr \div 4 + k) % sz

(* the steps after which the loop of install stands on a free slot, and
   those after which the loop of lookup_instr stands on a free slot or on
   the address it is looking for *)
FreeSteps(arr, sz, addr) ==
  {k \in 0 .. sz - 1 : arr[Probe(addr, k, sz)].addr = 0}
StopSteps(arr, sz, addr) ==
  {k \in 0 .. sz - 1 : arr[Probe(addr, k, sz)].addr \in {0, addr}}

First(steps) == CHOOSE k \in steps : \A j \in steps : k <= j

(* install.  After sz steps its loop is where it started: without a free slot
   it never ends, and the actions below are disabled. *)
Placed(arr, sz, addr, instr) ==
  [arr EXCEPT ![Probe(addr, First(FreeSteps(arr, sz, addr)), sz)] =
     [addr |-> addr, instr |-> instr]]

-------------------------------------------------------------------------------
(* install_instr, called once for an address: rewrite_instr reads a word it
   has already replaced as zero. *)

Installed == Addresses(a)

NeedsGrowth_OneTooLate(m) == m > size
NeedsGrowth(m) == m * 2 > size

InstallInstr(addr, instr) ==
  /\ status = "ready"
  /\ addr \notin Installed
  /\ n < MaxInstr
  /\ FreeSteps(a, size, addr) # {}
  /\ a' = Placed(a, size, addr, instr)
  /\ n' = n + 1
  /\ status' = IF NeedsGrowth(n + 1) THEN "growing" ELSE "ready"
  /\ UNCHANGED <<size, b, i, found>>


(* the test of n comes before the allocation, and error() ends the process *)
OutOfMemory ==
  /\ status = "ready"
  /\ n < MaxInstr
  /\ Installed # Addr
  /\ NeedsGrowth(n + 1)
  /\ status' = "exited"
  /\ UNCHANGED <<n, size, a, b, i, found>>

(* one round of the loop over the slots of the old array *)
CopySize_Old == size
CopySize == 2 * size

CopySlot ==
  /\ status = "growing"
  /\ i < size
  /\ a[i].addr # 0 => FreeSteps(b, CopySize, a[i].addr) # {}
  /\ b' = IF a[i].addr = 0 THEN b ELSE Placed(b, CopySize, a[i].addr, a[i].instr)
  /\ i' = i + 1
  /\ UNCHANGED <<n, size, a, status, found>>


CopyDone_LastSlotLost == i >= size - 1
CopyDone == i = size

NewSize == 2 * size

SwapArrays ==
  /\ status = "growing"
  /\ CopyDone
  /\ size' = NewSize
  /\ a' = b
  /\ b' = Cleared(2 * size')
  /\ i' = 0
  /\ status' = "ready"
  /\ UNCHANGED <<n, found>>

-------------------------------------------------------------------------------
(* lookup_instr *)

StopSlot(addr) == Probe(addr, First(StopSteps(a, size, addr)), size)

LookupInstr(addr) ==
  /\ status = "ready"
  /\ StopSteps(a, size, addr) # {}
  /\ a[StopSlot(addr)].addr = addr
  /\ found' = a[StopSlot(addr)].instr
  /\ UNCHANGED <<n, size, a, b, i, status>>

AddrNotInTable(addr) ==
  /\ status = "ready"
  /\ StopSteps(a, size, addr) # {}
  /\ a[StopSlot(addr)].addr = 0
  /\ status' = "exited"
  /\ UNCHANGED <<n, size, a, b, i, found>>

Next ==
  \/ \E addr \in Addr, instr \in Instr \ {Zero} : InstallInstr(addr, instr)
  \/ \E addr \in Addr : LookupInstr(addr) \/ AddrNotInTable(addr)
  \/ OutOfMemory
  \/ CopySlot
  \/ SwapArrays

Spec == Init /\ [][Next]_vars
-------------------------------------------------------------------------------
(* Properties. *)

(* Each address is in one slot, and the probe for it passes used slots only
   before it gets there (instr_table.c:46-49,82-88).  The address alone says
   where the probe starts, so this is what copying to an array of another
   size could destroy. *)
PathsUnbroken(arr, sz) ==
  /\ \A s \in Used(arr) : \E k \in 0 .. sz - 1 :
       /\ s = Probe(arr[s].addr, k, sz)
       /\ \A j \in 0 .. k - 1 : arr[Probe(arr[s].addr, j, sz)].addr # 0
  /\ \A s, t \in Used(arr) : arr[s].addr = arr[t].addr => s = t

(* Both arrays are searchable at every moment of the copying, and the new one
   holds what the old one holds in the slots copied so far (instr_table.c:64-75). *)
Searchable ==
  /\ PathsUnbroken(a, size)
  /\ PathsUnbroken(b, 2 * size)
  /\ Entries(b) = {a[s] : s \in Used(a) \cap 0 .. i - 1}

(* The loops of install and lookup_instr end, since the table always has a
   free slot when they start: at most half of it is used, and the array being
   filled has room for all of the old one (instr_table.c:48,64,84). *)
LoopsEnd ==
  /\ status = "ready" => \A addr \in Addr : FreeSteps(a, size, addr) # {}
  /\ status = "growing" => \A addr \in Addr : FreeSteps(b, 2 * size, addr) # {}

(* The contents of an array as a map *)
Contents(arr) ==
  [x \in Addresses(arr) |-> arr[CHOOSE s \in Used(arr) : arr[s].addr = x].instr]

Map == INSTANCE InstrMap WITH table <- Contents(a), ended <- status = "exited"

(* install_instr and lookup_instr (instr_table.c:55-93) are the operations of
   a map: an address is found exactly if it was installed, with the
   instruction it was installed with, before and after every growth. *)
TableIsMap == Map!Spec
================================================================================
