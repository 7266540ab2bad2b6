---------------------------- MODULE MCAllocators ----------------------------
(***************************************************************************)
(* The allocators of project/, one instance of each: a program is linked   *)
(* to one of them, and the others stay as they are at its start.           *)
(***************************************************************************)
EXTENDS Dude

CONSTANTS
  ListHeapLimit, ListHeapSize   \* bounds of ListHeap

(* Numbers, as those of Dude. *)
ASSUME ListHeapAssumption == ListHeapLimit \in Nat /\ ListHeapSize \subseteq Nat

VARIABLES linked, library, list, top, held, asked, oversold, crashed

Other == <<library, list, top, held, asked, oversold, crashed>>

LH == INSTANCE ListHeap WITH
  HEADER <- META_SIZE, HeapLimit <- ListHeapLimit, Size <- ListHeapSize,
  blocks <- list, brk <- top, live <- held

AllInit == linked \in {"dude", "list"} /\ Init /\ LH!Init

AllNext ==
  /\ UNCHANGED linked
  /\ \/ linked = "dude" /\ Next /\ UNCHANGED Other
     \/ linked = "list" /\ LH!Next /\ UNCHANGED vars

AllSpec == AllInit /\ [][AllNext]_<<linked, vars, Other>>

(* ListHeap's properties, stated there: mem_luke.c:30-46 and 48-55. *)
HeapMerged == LH!HeapMerged
ApartUnlessLarger == LH!ApartUnlessLarger
=============================================================================
