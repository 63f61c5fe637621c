--------------------------- MODULE MCAddressCache ---------------------------
(* AddressCache over a block b1 and two branches on it, b2 and b3 - b4 - b5.  *)
(* f pays script a; r and c both spend it, r paying a again and c paying b    *)
(* with value zero; d pays a and is mined in both branches, at different      *)
(* heights; y spends c's output to b.  By a collision of prefixes d is        *)
(* indexed under b too.                                                       *)
EXTENDS AddressCache

CONSTANTS f, r, c, d, y, a, b, b1, b2, b3, b4, b5

MCTxids == {f, r, c, d, y}
MCOutputs == [t \in MCTxids |->
  CASE t \in {f, r, d} -> {a} [] t = c -> {b} [] t = y -> {}]
MCInputs == [t \in MCTxids |->
  CASE t \in {r, c} -> {<<f, a>>} [] t = y -> {<<c, b>>} [] t \in {f, d} -> {}]
MCAmount == [o \in MCTxids \X {a, b} |-> IF o = <<c, b>> THEN 0 ELSE 1]

MCBlockTxs == [k \in {b1, b2, b3, b4, b5} |->
  CASE k = b1 -> <<f>> [] k = b2 -> <<r, d>> [] k = b3 -> <<c>>
    [] k = b4 -> <<d>> [] k = b5 -> <<y>>]
MCChain == [k \in {b1, b2, b3, b4, b5} |->
  CASE k = b1 -> <<b1>> [] k = b2 -> <<b1, b2>> [] k = b3 -> <<b1, b3>>
    [] k = b4 -> <<b1, b3, b4>> [] k = b5 -> <<b1, b3, b4, b5>>]
MCCollides == [s \in {a, b} |-> IF s = b THEN {d} ELSE {}]
==============================================================================
