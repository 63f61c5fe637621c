---------------------------- MODULE MerkleProofs ----------------------------
(***************************************************************************)
(* Merkle branches (merkle.rs).  A hash is a leaf or, injectively, the     *)
(* pair it was made of.                                                    *)
(***************************************************************************)
EXTENDS Integers, Sequences

Hash(l, r) == <<l, r>>

\* An odd level repeats its last hash.
Pad(level) ==
  IF Len(level) % 2 = 1 THEN Append(level, level[Len(level)]) ELSE level

\* One turn of the loop over the levels: take the sibling, and go up.
Up(s) ==
  LET level == Pad(s.level)
  IN  IF Len(s.level) <= 1 THEN s
      ELSE [branch |-> Append(s.branch,
                              level[(IF s.index % 2 = 0 THEN s.index + 1 ELSE s.index - 1) + 1]),
            level |-> [i \in 1..(Len(level) \div 2) |-> Hash(level[2 * i - 1], level[2 * i])],
            index |-> s.index \div 2]

\* branch_and_root, for an index from 0: a level each turn, of which there are
\* fewer than leaves.
BranchAndRoot(leaves, index) ==
  LET at[n \in 0..Len(leaves)] ==
        IF n = 0 THEN [branch |-> <<>>, level |-> leaves, index |-> index] ELSE Up(at[n - 1])
      top == at[Len(leaves)]
  IN  [branch |-> top.branch, root |-> top.level[1]]

-----------------------------------------------------------------------------
(* The reference *)

\* The nodes above a level of a tree, as the consensus rules define it: a missing
\* right child is its left brother again.
Parents(level) ==
  IF Len(level) <= 1 THEN level
  ELSE [i \in 1..((Len(level) + 1) \div 2) |->
          Hash(level[2 * i - 1], level[IF 2 * i <= Len(level) THEN 2 * i ELSE 2 * i - 1])]

MerkleRoot(leaves) ==
  LET level[d \in 0..Len(leaves)] == IF d = 0 THEN leaves ELSE Parents(level[d - 1])
  IN  level[Len(leaves)][1]

\* What a client does with one hash of a branch.
Join(s, sibling) ==
  [hash |-> IF s.pos % 2 = 0 THEN Hash(s.hash, sibling) ELSE Hash(sibling, s.hash),
   pos |-> s.pos \div 2]

\* What it computes from a leaf, its position and a branch.
RootFromBranch(leaf, pos, branch) ==
  LET at[n \in 0..Len(branch)] ==
        IF n = 0 THEN [hash |-> leaf, pos |-> pos] ELSE Join(at[n - 1], branch[n])
  IN  at[Len(branch)].hash
==============================================================================
