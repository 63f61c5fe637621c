---------------------------- MODULE MCIndexedChain ----------------------------
(* IndexedChain over the block tree of MCBlockTree. *)
EXTENDS IndexedChain, MCBlockTree
==============================================================================
