----------------------------- MODULE MCPagingFifo -----------------------------
(***************************************************************************)
(* Model checking of Paging with the other replacement, fifo_page_replace. *)
(* A history variable records when each page was loaded, so that "first    *)
(* in, first out" can be stated without looking at the hand.               *)
(***************************************************************************)
EXTENDS Paging

VARIABLE loadedAt    \* number of the page fault that loaded each page last

NeverLoaded == 0

FifoInit == Init /\ loadedAt = [v \in VPage |-> NeverLoaded]

FifoNext ==
  /\ Next
  /\ loadedAt' = [v \in VPage |->
       IF ~page_table[v].inmemory /\ page_table'[v].inmemory THEN num_pagefault'
       ELSE loadedAt[v]]

FifoSpec == FifoInit /\ [][FifoNext]_<<vars, loadedAt>>

(* fifo_page_replace is the "Basic FIFO queue" its comment names
   (machine.c:119-129): the page evicted was loaded before every page that
   stays, however often any of them was used. *)
EvictsOldest ==
  [][\A v, w \in Resident :
       ~page_table'[v].inmemory /\ page_table'[w].inmemory => loadedAt[v] < loadedAt[w]
    ]_<<vars, loadedAt>>
================================================================================
