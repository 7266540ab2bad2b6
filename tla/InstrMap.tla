------------------------------- MODULE InstrMap -------------------------------
(***************************************************************************)
(* What the table of lab4/instr_table.c promises: a map from the addresses *)
(* of replaced instructions to these instructions.  Asking for an address  *)
(* that is not in it, or running out of memory, ends the process.          *)
(***************************************************************************)
CONSTANTS
  Addr,      \* addresses of instructions
  Instr      \* instruction words

VARIABLES
  table,     \* the instruction at each address installed so far
  found,     \* what the last lookup returned
  ended      \* has error() been called?

vars == <<table, found, ended>>

Init ==
  /\ table = [x \in {} |-> x]
  /\ found \in Instr
  /\ ended = FALSE

Install(addr, instr) ==
  /\ ~ended
  /\ addr \notin DOMAIN table
  /\ table' = [x \in DOMAIN table \cup {addr} |-> IF x = addr THEN instr ELSE table[x]]
  /\ UNCHANGED <<found, ended>>

Lookup(addr) ==
  /\ ~ended
  /\ addr \in DOMAIN table
  /\ found' = table[addr]
  /\ UNCHANGED <<table, ended>>

NotInTable(addr) ==
  /\ ~ended
  /\ addr \notin DOMAIN table
  /\ ended' = TRUE
  /\ UNCHANGED <<table, found>>

OutOfMemory ==
  /\ ~ended
  /\ ended' = TRUE
  /\ UNCHANGED <<table, found>>

Next ==
  \/ \E addr \in Addr, instr \in Instr : Install(addr, instr)
  \/ \E addr \in Addr : Lookup(addr) \/ NotInTable(addr)
  \/ OutOfMemory

Spec == Init /\ [][Next]_vars
================================================================================
