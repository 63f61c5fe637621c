---------------------------- MODULE MempoolIndex ----------------------------
(***************************************************************************)
(* MempoolIndex: the unconfirmed transactions a server knows of, indexed   *)
(* by the scripts they pay and by the outputs they spend, and a script's   *)
(* share of them.                                                          *)
(***************************************************************************)
EXTENDS Transactions

\* A script or outpoint that is not in its map is mapped to {} or NoTx.
Index ==
  [txs : SUBSET Txids,
   by_scripthash : [Scripts -> SUBSET Txids],
   spent_prevouts : [Outpoints -> Txids \cup {NoTx}]]

EmptyIndex ==
  [txs |-> {}, by_scripthash |-> [s \in Scripts |-> {}],
   spent_prevouts |-> [o \in Outpoints |-> NoTx]]

Insert(ix, t) ==
  [txs |-> ix.txs \cup {t},
   by_scripthash |-> [s \in Scripts |->
     IF s \in Outputs[t] THEN ix.by_scripthash[s] \cup {t} ELSE ix.by_scripthash[s]],
   spent_prevouts |-> [o \in Outpoints |->
     IF o \in Inputs[t] THEN t ELSE ix.spent_prevouts[o]]]

\* Remove drops whatever spender is recorded for the outputs t spends.
Remove(ix, t) ==
  IF t \notin ix.txs
    THEN ix
    ELSE [txs |-> ix.txs \ {t},
          by_scripthash |-> [s \in Scripts |->
            IF s \in Outputs[t] THEN ix.by_scripthash[s] \ {t} ELSE ix.by_scripthash[s]],
          spent_prevouts |-> [o \in Outpoints |->
            IF o \in Inputs[t] THEN NoTx ELSE ix.spent_prevouts[o]]]

\* The index that holds exactly the transactions S, for S without conflicts.
IndexOf(S) ==
  [txs |-> S,
   by_scripthash |-> [s \in Scripts |-> { t \in S : s \in Outputs[t] }],
   spent_prevouts |-> [o \in Outpoints |->
     IF \E t \in S : o \in Inputs[t]
       THEN CHOOSE t \in S : o \in Inputs[t] ELSE NoTx]]

-----------------------------------------------------------------------------
(* One script's share of the mempool *)

\* (spends of unconfirmed outputs are not looked for)
ScriptTxids_ConfirmedOnly(ix, s, confirmed_outputs) ==
  ix.by_scripthash[s] \cup
  { ix.spent_prevouts[o] : o \in
      { p \in confirmed_outputs : ix.spent_prevouts[p] # NoTx } }

\* script_txids: transactions paying s, and those spending its confirmed
\* unspent outputs or the outputs that the former pay it.
ScriptTxids(ix, s, confirmed_outputs) ==
  LET paying == ix.by_scripthash[s]
      unconfirmed_outputs == { <<t, s>> : t \in paying }
  IN  paying \cup
      { ix.spent_prevouts[o] : o \in
          { p \in confirmed_outputs \cup unconfirmed_outputs :
              ix.spent_prevouts[p] # NoTx } }

\* script_view: entries are <<transaction, height>>, with height -1 when an
\* input is unconfirmed itself; what is in `mined` is confirmed already.
ScriptView(ix, s, confirmed_utxos, mined) ==
  LET txs == ScriptTxids(ix, s, confirmed_utxos) \ mined
      UnconfirmedParent(t) == \E o \in Inputs[t] : o[1] \in ix.txs \ mined
      Spent(o) == ix.spent_prevouts[o] \notin mined \cup {NoTx}
      outputs == { <<t, s>> : t \in { u \in txs : s \in Outputs[u] } }
  IN  [entries |-> { <<t, IF UnconfirmedParent(t) THEN -1 ELSE 0>> : t \in txs },
       utxos |-> { o \in outputs : ~Spent(o) },
       spent_confirmed |-> { o \in confirmed_utxos : Spent(o) }]
==============================================================================
