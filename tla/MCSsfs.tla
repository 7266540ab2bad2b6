-------------------------------- MODULE MCSsfs --------------------------------
(***************************************************************************)
(* The disk for model checking Ssfs: a freshly formatted one.              *)
(***************************************************************************)
EXTENDS Ssfs

(* an empty directory, and a free list of all data blocks that ends with 0 *)
FormattedDirectory ==
  [i \in Index |-> [name |-> Empty, size_bytes |-> 0, first_block |-> EOF_BLOCK]]
FormattedMap ==
  [x \in Block |-> IF x = BLKMAP_BID THEN 2 ELSE IF x = NBLOCKS - 1 THEN 0 ELSE x + 1]
================================================================================
