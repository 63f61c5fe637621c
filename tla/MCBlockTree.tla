----------------------------- MODULE MCBlockTree -----------------------------
(* A block tree for model checking: two branches after genesis.  Competing *)
(* blocks have different numbers of transactions, so that their txnum      *)
(* ranges overlap without being equal; a2 and b2, at the same height, end  *)
(* at the same txnum and so compete for one Bitcoin header key.            *)
EXTENDS Naturals, Sequences

CONSTANTS g, a1, a2, b1, b2, b3, p, q

MCBlocks == {g, a1, a2, b1, b2, b3}

MCPath ==
  [b \in MCBlocks |->
     CASE b = g  -> <<g>>
       [] b = a1 -> <<g, a1>>
       [] b = a2 -> <<g, a1, a2>>
       [] b = b1 -> <<g, b1>>
       [] b = b2 -> <<g, b1, b2>>
       [] b = b3 -> <<g, b1, b2, b3>>]

MCTxs ==
  [b \in MCBlocks |->
     CASE b = g  -> << {p} >>
       [] b = a1 -> << {p}, {p, q}, {q} >>
       [] b = a2 -> << {q} >>
       [] b = b1 -> << {q}, {q} >>
       [] b = b2 -> << {p}, {p, q} >>
       [] b = b3 -> << {p} >>]

\* Liquid blocks of a pruned node may have no transactions.
MCTxsLiquid ==
  [b \in MCBlocks |->
     CASE b = g  -> << {p} >>
       [] b = a1 -> << >>
       [] b = a2 -> << {q}, {p, q} >>
       [] b = b1 -> << >>
       [] b = b2 -> << {p} >>
       [] b = b3 -> << {p}, {q} >>]
==============================================================================
