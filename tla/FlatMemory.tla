------------------------------ MODULE FlatMemory ------------------------------
(***************************************************************************)
(* What the paged memory of lab2/machine.c promises to the processor that  *)
(* runs on top of it: one word store per virtual page, in which a load     *)
(* returns what the last store left there, whatever was evicted, swapped   *)
(* out and swapped in meanwhile.  A page is Untouched until its first      *)
(* access; at that access its words get arbitrary contents, and from then  *)
(* on they change only by a store.  The machine may also stop for good.    *)
(***************************************************************************)
CONSTANTS
  VPage,      \* virtual pages
  Offset,     \* word offsets within a page
  Word,       \* values of a machine word
  Untouched   \* marks a page no instruction has accessed yet; no PageContents

PageContents == [Offset -> Word]

VARIABLES
  store,      \* contents of every virtual page
  data,       \* the word the last load delivered
  aborted     \* has the machine stopped on a failed assertion?

vars == <<store, data, aborted>>

TypeOK ==
  /\ store \in [VPage -> PageContents \cup {Untouched}]
  /\ data \in Word
  /\ aborted \in BOOLEAN

Init ==
  /\ store = [v \in VPage |-> Untouched]
  /\ data \in Word
  /\ aborted = FALSE

(* c is what page v holds, once it has been touched *)
Holds(v, c) == store[v] \in {Untouched, c}

Load(v, o) ==
  /\ ~aborted
  /\ \E c \in PageContents :
       /\ Holds(v, c)
       /\ store' = [store EXCEPT ![v] = c]
       /\ data' = c[o]
  /\ UNCHANGED aborted

Store(v, o, d) ==
  /\ ~aborted
  /\ \E c \in PageContents :
       /\ Holds(v, c)
       /\ store' = [store EXCEPT ![v] = [c EXCEPT ![o] = d]]
  /\ UNCHANGED <<data, aborted>>

Abort ==
  /\ ~aborted
  /\ aborted' = TRUE
  /\ UNCHANGED <<store, data>>

Next ==
  \/ \E v \in VPage, o \in Offset : Load(v, o)
  \/ \E v \in VPage, o \in Offset, d \in Word : Store(v, o, d)
  \/ Abort

Spec == Init /\ [][Next]_vars
================================================================================
