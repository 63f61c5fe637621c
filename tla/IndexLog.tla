------------------------------ MODULE IndexLog ------------------------------
(***************************************************************************)
(* What the index promises its readers, without rows, requests or faults:  *)
(* there is one chain of header rows on disk; it changes by appending      *)
(* blocks or by dropping its tip, each at once; and what a reader holds is *)
(* the disk's chain of some moment, replaced only by that of a later one.  *)
(***************************************************************************)
EXTENDS Naturals, Sequences

VARIABLES
  disk,  \* the chain of header rows on disk
  view   \* the chain a reader answers from

vars == <<disk, view>>

Init == disk = <<>> /\ view = <<>>

AppendBlocks ==
  /\ Len(disk') > Len(disk)
  /\ SubSeq(disk', 1, Len(disk)) = disk
  /\ UNCHANGED view

DropTip ==
  /\ disk # <<>>
  /\ disk' = SubSeq(disk, 1, Len(disk) - 1)
  /\ UNCHANGED view

Read == view' = disk /\ UNCHANGED disk

Next == AppendBlocks \/ DropTip \/ Read

Spec == Init /\ [][Next]_vars
==============================================================================
