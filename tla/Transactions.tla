---------------------------- MODULE Transactions ----------------------------
(***************************************************************************)
(* Transactions as the server's components tell them apart: Outputs[t] is  *)
(* the set of scripts t pays, one output each, and Inputs[t] the outpoints *)
(* it spends.  An outpoint is a transaction and the script its output      *)
(* pays.  Bodies, values, fees and the order of lists are left out.        *)
(***************************************************************************)
EXTENDS Integers, FiniteSets

CONSTANTS
  Txids, NoTx,
  Scripts,
  Outputs,  \* Outputs[t]: the scripts t pays
  Inputs    \* Inputs[t]: the outpoints t spends

Outpoints == Txids \X Scripts

ASSUME TxidsAssumption == NoTx \notin Txids

ASSUME TransactionsAssumption ==
  /\ Outputs \in [Txids -> SUBSET Scripts]
  /\ Inputs \in [Txids -> SUBSET Outpoints]
  /\ \A t \in Txids : \A o \in Inputs[t] : o[1] # t /\ o[2] \in Outputs[o[1]]

\* A set of transactions a node's mempool can hold: no double spends.
ConflictFree(S) ==
  \A t, u \in S : t # u => Inputs[t] \cap Inputs[u] = {}

\* The transactions among S that pay s or spend from it, and the outputs to s
\* that S leaves unspent.
Touching(S, s) ==
  { t \in S : s \in Outputs[t] \/ \E o \in Inputs[t] : o[2] = s }

Unspent(S, s) ==
  { <<t, s>> : t \in { u \in S : s \in Outputs[u]
                         /\ \A v \in S : <<u, s>> \notin Inputs[v] } }
==============================================================================
