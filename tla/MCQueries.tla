----------------------------- MODULE MCQueries -----------------------------
(* Queries over two branches: tf pays sa, tc spends that and pays sb, and td *)
(* pays sa.  One branch has them in two blocks, the other in one of five.   *)
EXTENDS Queries

CONSTANTS tf, tc, td, e0, e1, e2, sa, sb, kg, k1, k2, j1

MCTxids == {tf, tc, td, e0, e1, e2}
MCOutputs == [t \in MCTxids |->
  CASE t \in {tf, td} -> {sa} [] t = tc -> {sb} [] OTHER -> {}]
MCInputs == [t \in MCTxids |-> IF t = tc THEN {<<tf, sa>>} ELSE {}]
MCOrder == <<e0, tf, e1, tc, e2, td>>

MCBlocks == {kg, k1, k2, j1}
MCPath == [k \in MCBlocks |->
  CASE k = kg -> <<kg>> [] k = k1 -> <<kg, k1>> [] k = k2 -> <<kg, k1, k2>> [] k = j1 -> <<kg, j1>>]
MCBlockTxs == [k \in MCBlocks |->
  CASE k = kg -> <<e0>> [] k = k1 -> <<tf>> [] k = k2 -> <<td, tc>>
    [] k = j1 -> <<e1, td, tf, tc, e2>>]
==============================================================================
