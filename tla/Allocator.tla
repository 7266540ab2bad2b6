----------------------------- MODULE Allocator ------------------------------
(***************************************************************************)
(* What malloc and free promise a program: the bytes of a block it has     *)
(* been given are not given out again before it frees that block.          *)
(***************************************************************************)
EXTENDS Integers

VARIABLE live   \* the blocks the program holds: address and size asked for

Disjoint(b, c) == b.addr + b.size <= c.addr \/ c.addr + c.size <= b.addr

Init == live = {}

Malloc == \E b \in live' \ live :
  /\ live' = live \cup {b}
  /\ \A c \in live : Disjoint(b, c)

Free == \E b \in live : live' = live \ {b}

Next == Malloc \/ Free

Spec == Init /\ [][Next]_live
=============================================================================
