--------------------------- MODULE MCSubscriptions ---------------------------
(* Subscriptions over two transactions (f pays script a; c spends that      *)
(* output, paying b; nothing touches z) and three tips: f is mined in k1,   *)
(* and c in k2, one of the two competing blocks k2 and k3 on top of it.     *)
EXTENDS Subscriptions

CONSTANTS f, c, a, b, z, k1, k2, k3

MCTxids == {f, c}
MCOutputs == [t \in MCTxids |-> IF t = f THEN {a} ELSE {b}]
MCInputs == [t \in MCTxids |-> IF t = f THEN {} ELSE {<<f, a>>}]

MCTips == {k1, k2, k3}

MCHeight == [k \in MCTips \cup {NoTip} |-> [t \in MCTxids |->
  CASE t = f /\ k # NoTip -> 1
    [] t = c /\ k = k2 -> 2
    [] OTHER -> 0]]

\* New blocks, a reorganisation in one refresh, and, as the writer drops stale
\* tips one at a time, a tip rolled back to.
MCFollows == {<<NoTip, k1>>, <<k1, k2>>, <<k1, k3>>, <<k2, k3>>, <<k2, k1>>}
==============================================================================
