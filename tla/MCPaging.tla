------------------------------- MODULE MCPaging -------------------------------
(***************************************************************************)
(* Model checking of Paging with the replacement main selects.  No action  *)
(* tells one virtual page from another, so their permutations are a        *)
(* symmetry of the specification and of every property checked here.       *)
(***************************************************************************)
EXTENDS Paging, TLC

PageSymmetry == Permutations(VPage)
================================================================================
