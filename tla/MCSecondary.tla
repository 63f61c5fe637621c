---------------------------- MODULE MCSecondary ----------------------------
(* Secondary over the block tree of MCBlockTree. *)
EXTENDS Secondary, MCBlockTree
==============================================================================
