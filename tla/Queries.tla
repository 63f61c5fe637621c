------------------------------ MODULE Queries ------------------------------
(***************************************************************************)
(* The queries of the REST API (rest/handlers.rs, query.rs, address.rs)    *)
(* and of the Electrum protocol: sequences of reads of a chain and of a    *)
(* mempool that the refresh and the mempool task change between any two of *)
(* them, as each read holds its lock for itself.  Queries write nothing    *)
(* that another one reads, so one at a time is modelled, from its request  *)
(* to its answer; `past` keeps what was served meanwhile.                  *)
(*                                                                         *)
(* A script's history is read as of one moment, which is module            *)
(* ScriptHistory's result.  Blocks and bodies are read from the node by    *)
(* hash, and are what they are.  A block's time and header stand for       *)
(* themselves, as the block.                                               *)
(***************************************************************************)
EXTENDS MempoolIndex, MerkleProofs

Seqs == INSTANCE SequencesExt
Sets == INSTANCE FiniteSetsExt

CONSTANTS
  Blocks, NoBlock,
  Path,           \* Path[k]: the chain that ends in block k, from genesis
  BlockTxs,       \* BlockTxs[k]: the transactions of block k, in order
  Order,          \* the txids in their order, which is also that of arrival
  Unpooled,       \* transactions that are only ever mined, as coinbases
  CONF_FINAL,     \* 10 in the code
  REORG_RETRIES,  \* 3 in the code
  BlockLimit,     \* rest_default_block_limit
  PageLimit,      \* the limit of the paged routes
  UtxosLimit,     \* utxos_limit
  HeadersLimit,   \* 2016 in the code
  Heights,        \* the heights that requests name
  Counts,         \* the counts and checkpoints they name
  MaxMoves        \* bound: refreshes and polls during a request

ASSUME QueriesAssumption ==
  /\ NoBlock \notin Blocks
  /\ Path \in [Blocks -> Seq(Blocks)] /\ BlockTxs \in [Blocks -> Seq(Txids)]
  /\ \A k \in Blocks : Path[k][Len(Path[k])] = k /\ Len(BlockTxs[k]) > 0
  /\ Order \in Seq(Txids) /\ Seqs!ToSet(Order) = Txids /\ Len(Order) = Cardinality(Txids)
  /\ BlockLimit \in Nat \ {0} /\ PageLimit \in Nat \ {0}
  /\ REORG_RETRIES \in Nat \ {0} /\ CONF_FINAL \in Nat
  /\ HeadersLimit \in Nat /\ MaxMoves \in Nat

\* A negative parameter is refused, or cast to a usize.
ASSUME ArgumentsAssumption == Heights \subseteq Nat /\ Counts \subseteq Nat

VARIABLES
  tip,      \* the tip of the chain that is served
  pool,     \* the transactions of the mempool index
  job,      \* the request in hand: its arguments, where it is, and its locals
  past,     \* history: the <<tip, pool>> served since the request came
  reorged,  \* history: one of the refreshes since dropped a block
  moves

vars == <<tip, pool, job, past, reorged, moves>>

-----------------------------------------------------------------------------
(* What one read returns *)

Height(k) == Len(Path[k]) - 1
HashAt(k, h) == IF h \in 0..Height(k) THEN Path[k][h + 1] ELSE NoBlock

\* Where a transaction is: TransactionStatus and position.
Nowhere == [tx |-> NoTx, place |-> "none", block |-> NoBlock, height |-> -1,
            pos |-> 0, time |-> NoBlock]
InPool(t) == [Nowhere EXCEPT !.tx = t, !.place = "pool"]
InBlock(b, i) ==
  [tx |-> BlockTxs[b][i], place |-> "chain", block |-> b, height |-> Height(b),
   pos |-> i - 1, time |-> NoBlock]

Locations(k) ==
  UNION { { InBlock(b, i) : i \in DOMAIN BlockTxs[b] } : b \in Seqs!ToSet(Path[k]) }

Mined(k) == { l.tx : l \in Locations(k) }

\* The mempools a node can have, on whatever tip: one that the server has not
\* read yet, or has left already.
Pools ==
  { S \in SUBSET (Txids \ Unpooled) :
      /\ ConflictFree(S)
      /\ \E k \in Blocks :
           /\ S \cap Mined(k) = {}
           /\ \A t \in S : \A o \in Inputs[t] :
                o[1] \in Mined(k) \cup S /\ \A u \in Mined(k) : o \notin Inputs[u] }

Before(l, m) == l.height < m.height \/ (l.height = m.height /\ l.pos < m.pos)

\* A block stands on the one before it.  A chain has each transaction once (since
\* BIP 34), no double spend, and a transaction behind those it spends from.
ASSUME ChainAssumption ==
  \A k \in Blocks :
    /\ Path[k] # <<>>
    /\ \A i \in DOMAIN Path[k] : Path[Path[k][i]] = SubSeq(Path[k], 1, i)
    /\ \A l, m \in Locations(k) : l.tx = m.tx => l = m
    /\ ConflictFree(Mined(k))
    /\ \A l \in Locations(k) : \A o \in Inputs[l.tx] :
         \E m \in Locations(k) : m.tx = o[1] /\ Before(m, l)

\* script_history: the rows of a script, what of it is unspent, and the most
\* that ever was.
Rows(k, s) == { l \in Locations(k) : l.tx \in Touching(Mined(k), s) }
Utxos(k, s) ==
  { <<l, s>> : l \in { m \in Rows(k, s) : <<m.tx, s>> \in Unspent(Mined(k), s) } }
Peak(k, s) ==
  Sets!Max({0} \cup { Cardinality(Unspent({ m.tx : m \in { n \in Rows(k, s) : ~Before(l, n) } }, s))
                      : l \in Rows(k, s) })

-----------------------------------------------------------------------------
(* Requests *)

Idle ==
  [route |-> "none", at |-> "idle", scripts |-> <<>>, outpoint |-> <<NoTx, NoTx>>,
   block |-> NoBlock, height |-> -1, todo |-> <<>>, keys |-> <<>>, found |-> Nowhere,
   inputs |-> {}, tries |-> 0, tip |-> NoBlock, spender |-> Nowhere, rows |-> {},
   utxos |-> {}, shown |-> {}, cursor |-> NoTx, from |-> 0, list |-> <<>>,
   blocks |-> <<>>, header |-> NoBlock, count |-> 0, cp |-> 0, pos |-> 0, branch |-> <<>>,
   answer |-> "none", ttl |-> "none"]

Lists == {"txs", "txs chain", "txs mempool", "mempool txs"}
Walks == {"txs chain", "mempool page"}

\* What a request is about.
Plain(r, at) == [Idle EXCEPT !.route = r, !.at = at]
OfTx(r, at, t) == [Idle EXCEPT !.route = r, !.at = at, !.todo = <<t>>]
OfOutpoint(o) ==
  [Idle EXCEPT !.route = "outspend", !.at = "locate", !.todo = <<o[1]>>, !.outpoint = o]
OfScripts(r, keys, c) ==
  [Idle EXCEPT !.route = r, !.at = "history", !.scripts = keys, !.keys = keys, !.cursor = c]
OfBlock(r, k) == [Idle EXCEPT !.route = r, !.at = "best", !.block = k]
OfHeight(h) == [Idle EXCEPT !.route = "block height", !.at = "at height", !.height = h]
OfTxAt(t, h) ==
  [Idle EXCEPT !.route = "get merkle", !.at = "get merkle", !.todo = <<t>>, !.height = h]
OfHeaders(h, n, cp) ==
  [Idle EXCEPT !.route = "headers", !.at = "headers", !.height = h, !.count = n, !.cp = cp]

TxRoutes == {"tx", "status", "merkle", "merkleblock"}
ScriptRoutes == {"utxo", "listunspent", "txs chain", "txs mempool"}
PageRoutes == {"mempool page", "mempool txs"}
TipRoutes == {"blocks", "tip hash"}
BlockRoutes == {"block status", "block txs"}

OneScript == { <<s>> : s \in Scripts }
TwoScripts == { <<r, s>> : r, s \in Scripts }

Requests ==
  { OfTx(r, "locate", t) : r \in TxRoutes, t \in Txids \ Unpooled }
  \cup { OfTx("get", "get", t) : t \in Txids \ Unpooled }
  \cup { OfOutpoint(o) : o \in Outpoints }
  \cup { OfScripts(r, keys, NoTx) : r \in ScriptRoutes, keys \in OneScript }
  \cup { OfScripts("txs", keys, c)
           : keys \in OneScript \cup TwoScripts, c \in {NoTx} \cup (Txids \ Unpooled) }
  \cup { Plain(r, "page") : r \in PageRoutes }
  \cup { Plain(r, "first") : r \in TipRoutes }
  \cup { OfHeight(h) : h \in Heights }
  \cup { OfBlock(r, k) : r \in BlockRoutes, k \in Blocks }
  \cup { OfTxAt(t, h) : t \in Txids, h \in Heights }
  \cup { OfHeaders(h, n, cp) : h \in Heights, n \in Counts, cp \in Counts }

Done(j, answer) == [j EXCEPT !.at = "done", !.answer = answer]

\* The answer is known, but for its lifetime, which depends on the tip.
AtTip(j, answer, h) == [j EXCEPT !.at = "tip", !.answer = answer, !.height = h]

TtlByDepth(h, t) == IF h >= 0 /\ t - h >= CONF_FINAL THEN "long" ELSE "short"

-----------------------------------------------------------------------------
(* Lists and pages *)

\* A page is over; a client that walks asks on from its last entry, until a page
\* is empty.
PageDone(j) ==
  IF j.route \notin Walks \/ Len(j.list) = j.from
    THEN Done(j, "ok")
    ELSE [j EXCEPT !.at = "more", !.cursor = j.list[Len(j.list)].tx, !.from = Len(j.list)]

NextValue(j) ==
  IF Len(j.todo) <= 1
    THEN PageDone([j EXCEPT !.todo = <<>>])
    ELSE [j EXCEPT !.todo = Tail(@), !.at = "locate"]

Take(j, txids) ==
  IF txids = <<>>
    THEN PageDone(j)
    ELSE [j EXCEPT !.todo = SubSeq(txids, 1, Sets!Min({Len(txids), PageLimit})),
                   !.at = "locate"]

\* The values of q that are in S, in their order.
Only(q, S) ==
  LET upTo[n \in 0..Len(q)] ==
        IF n = 0 THEN <<>>
        ELSE IF q[n] \in S THEN Append(upTo[n - 1], q[n]) ELSE upTo[n - 1]
  IN  upTo[Len(q)]

After(txids, t) ==
  LET i == CHOOSE n \in DOMAIN txids : txids[n] = t
  IN  SubSeq(txids, i + 1, Len(txids))

\* rows_desc: newest first, each transaction once.
RowsDesc(rows) ==
  LET sorted == CHOOSE q \in [1..Cardinality(rows) -> rows] :
                  \A i, n \in DOMAIN q : i < n => q[i] # q[n] /\ ~Before(q[i], q[n])
  IN  [i \in DOMAIN sorted |-> sorted[i].tx]

Outpoint(u) == <<u[1].tx, u[2]>>

\* mempool_txids: the mempool transactions of the scripts, newest first.
MempoolTxids(j) ==
  LET utxos == { Outpoint(u) : u \in j.utxos }
      touching == UNION { ScriptTxids(IndexOf(pool), s, { o \in utxos : o[2] = s })
                          : s \in Seqs!ToSet(j.scripts) }
  IN  Only(Seqs!Reverse(Order), touching)

\* txs, txs_chain and txs_mempool: where the cursor is decides what follows.
Select(j, mempool) ==
  LET chain == RowsDesc(j.rows)
      c == j.cursor
  IN  CASE j.route = "txs mempool" -> Take(j, mempool)
        [] j.route = "txs chain" ->
             Take(j, IF c = NoTx THEN chain
                     ELSE IF c \in Seqs!ToSet(chain) THEN After(chain, c) ELSE <<>>)
        [] j.route = "txs" /\ c = NoTx -> Take(j, mempool \o chain)
        [] j.route = "txs" /\ c \in Seqs!ToSet(mempool) -> Take(j, After(mempool, c) \o chain)
        [] j.route = "txs" /\ c \in Seqs!ToSet(chain) \ Seqs!ToSet(mempool) ->
             Take(j, After(chain, c))
        [] OTHER -> Done(j, "422")

\* (a cursor that is gone is taken for one that is there)
PagedTxids_Skips(j) ==
  LET sorted == Only(Order, pool)
      later == IF j.cursor = NoTx THEN sorted
               ELSE Only(sorted, Seqs!ToSet(After(Order, j.cursor)))
      first == IF j.cursor \in pool \cup {NoTx} THEN 1 ELSE 2
  IN  SubSeq(later, first, Sets!Min({first + PageLimit - 1, Len(later)}))

\* paged_txids: the mempool in the order of txids, after the cursor, which need
\* not be in it any more.
PagedTxids(j) ==
  LET sorted == Only(Order, pool)
      later == IF j.cursor = NoTx THEN sorted
               ELSE Only(sorted, Seqs!ToSet(After(Order, j.cursor)))
  IN  SubSeq(later, 1, Sets!Min({PageLimit, Len(later)}))

-----------------------------------------------------------------------------
(* Finding a transaction *)

Resolve(j) ==
  CASE j.inputs # {} -> [j EXCEPT !.at = "prevout"]
    [] j.inputs = {} /\ j.route = "tx" -> AtTip(j, "ok", j.found.height)
    [] OTHER -> NextValue([j EXCEPT !.list = Append(@, j.found)])

\* What follows find_tx; a list leaves out what is not found.
Found(j, l) ==
  LET k == [j EXCEPT !.found = l, !.inputs = IF l.tx = NoTx THEN {} ELSE Inputs[l.tx]]
      none == l.place = "none"
  IN  CASE j.route \in Lists -> IF none THEN NextValue(k) ELSE Resolve(k)
        [] j.route = "tx" -> IF none THEN Done(k, "404") ELSE Resolve(k)
        [] j.route = "status" -> IF none THEN Done(k, "404") ELSE AtTip(k, "ok", l.height)
        [] j.route = "get" -> Done(k, IF none THEN "404" ELSE "ok")
        [] j.route \in {"merkle", "merkleblock"} ->
             IF l.place # "chain" THEN Done(k, "404") ELSE [k EXCEPT !.at = "hash"]
        [] j.route = "outspend" ->
             IF none \/ j.outpoint[2] \notin Outputs[l.tx]
               THEN AtTip(k, "unspent", -1) ELSE [k EXCEPT !.at = "spender"]

\* A prevout that is nowhere: an error, or an entry less.
Missing(j) == IF j.route = "tx" THEN Done(j, "missing") ELSE NextValue(j)

\* One step of the request, during which chain and mempool stand still.
Step(j) == job' = j /\ UNCHANGED <<tip, pool, past, reorged, moves>>

\* located_transaction_by_txid
Locate ==
  /\ job.at = "locate"
  /\ \/ \E l \in Locations(tip) :
          l.tx = Head(job.todo) /\ Step([job EXCEPT !.found = l, !.at = "time"])
     \/ Head(job.todo) \notin Mined(tip) /\ Step([job EXCEPT !.at = "pool"])

\* (a `from` that was meant to exclude the block)
BlockTime_Next(k, h) == HashAt(k, h + 1)

BlockTime(k, h) == HashAt(k, h)

FindTime ==
  /\ job.at = "time"
  /\ LET b == BlockTime(tip, job.found.height)
     IN  IF b = NoBlock THEN Step(Done(job, "404"))
         ELSE Step(Found(job, [job.found EXCEPT !.time = b]))

FindInPool ==
  /\ job.at = "pool"
  /\ LET t == Head(job.todo)
     IN  Step(Found(job, IF t \in pool THEN InPool(t) ELSE Nowhere))

\* transaction_get looks in the mempool first, and then in the chain.
GetFromPool ==
  /\ job.at = "get"
  /\ LET t == Head(job.todo)
     IN  Step(IF t \in pool THEN Found(job, InPool(t)) ELSE [job EXCEPT !.at = "get chain"])

GetFromChain ==
  /\ job.at = "get chain"
  /\ \/ \E l \in Locations(tip) : l.tx = Head(job.todo) /\ Step(Found(job, l))
     \/ Head(job.todo) \notin Mined(tip) /\ Step(Found(job, Nowhere))

\* prevout: from the mempool, and if it is not there, from the chain.
Input == CHOOSE o \in job.inputs : TRUE

PrevoutInPool ==
  /\ job.at = "prevout"
  /\ IF Input[1] \in pool
       THEN Step(Resolve([job EXCEPT !.inputs = @ \ {Input}]))
       ELSE Step([job EXCEPT !.at = "funding"])

PrevoutInChain ==
  /\ job.at = "funding"
  /\ IF Input[1] \in Mined(tip)
       THEN Step(Resolve([job EXCEPT !.inputs = @ \ {Input}]))
       ELSE Step(Missing(job))

-----------------------------------------------------------------------------
(* Merkle proofs *)

\* (the position is taken on trust)
Position_Unchecked(l, txids) == l.pos

\* The position found before, unless the block at that height is another one.
Position(l, txids) ==
  IF l.pos < Len(txids) /\ txids[l.pos + 1] = l.tx
    THEN l.pos
    ELSE IF l.tx \in Seqs!ToSet(txids)
      THEN (CHOOSE i \in DOMAIN txids : txids[i] = l.tx) - 1
      ELSE -1

\* confirmed_block_position, and tx_merkle_proof.
BlockPosition ==
  /\ job.at = "hash"
  /\ LET b == HashAt(tip, job.found.height)
         pos == Position(job.found, BlockTxs[b])
     IN  Step(CASE b = NoBlock -> Done(job, "404")
                [] b # NoBlock /\ pos < 0 -> Done(job, "500")
                [] OTHER ->
                     LET j == [job EXCEPT !.block = b, !.pos = pos,
                                          !.branch = BranchAndRoot(BlockTxs[b], pos).branch]
                     IN  IF job.route = "merkleblock" THEN [j EXCEPT !.at = "header"]
                         ELSE AtTip(j, "ok", job.found.height))

MerkleblockHeader ==
  /\ job.at = "header"
  /\ LET b == HashAt(tip, job.found.height)
     IN  Step(IF b = NoBlock THEN Done(job, "404")
              ELSE AtTip([job EXCEPT !.header = b], "ok", job.found.height))

\* transaction_get_merkle and transaction_id_from_pos read the block's txids at
\* once.
GetMerkle ==
  /\ job.at = "get merkle"
  /\ LET b == HashAt(tip, job.height)
         found == [InBlock(b, 1) EXCEPT !.tx = Head(job.todo)]
         pos == Position(found, BlockTxs[b])
     IN  Step(IF b = NoBlock THEN Done(job, "error")
              ELSE IF pos < 0 THEN Done(job, "error")
              ELSE Done([job EXCEPT !.block = b, !.found = found, !.pos = pos,
                           !.branch = BranchAndRoot(BlockTxs[b], pos).branch], "ok"))

\* block_headers: as many as there are, and the proof of the first of them in
\* the tree of all headers up to the checkpoint.
BlockHeaders ==
  /\ job.at = "headers"
  /\ LET count == Sets!Min({job.count, HeadersLimit, Height(tip) - job.height + 1})
         hashes == SubSeq(Path[tip], 1, Sets!Min({job.cp, Height(tip)}) + 1)
         pos == Sets!Min({job.height, Len(hashes) - 1})
     IN  Step(IF job.height > Height(tip) THEN Done(job, "ok")
              ELSE Done([job EXCEPT
                     !.blocks = SubSeq(Path[tip], job.height + 1, job.height + count),
                     !.branch = IF job.cp > 0 THEN BranchAndRoot(hashes, pos).branch ELSE <<>>],
                   "ok"))

-----------------------------------------------------------------------------
(* Who spends an output *)

SpenderInPool ==
  /\ job.at = "spender"
  /\ LET spenders == { t \in pool : job.outpoint \in Inputs[t] }
     IN  Step(IF spenders # {}
                THEN AtTip([job EXCEPT !.spender = InPool(CHOOSE t \in spenders : TRUE)],
                           "spent", -1)
              ELSE IF job.found.place = "pool" THEN AtTip(job, "unspent", -1)
              ELSE [job EXCEPT !.at = "refs"])

\* (rows after the funding block, instead of from it on)
FromHeight_After(k, h) == IF h > 0 /\ HashAt(k, h - 1) # NoBlock THEN h + 1 ELSE 0

\* script_refs starts behind the header below, and at genesis if there is none.
FromHeight(k, h) == IF h > 0 /\ HashAt(k, h - 1) # NoBlock THEN h ELSE 0

\* find_spender: the script's rows in chain order, to the first that spends.
ScanRefs ==
  /\ job.at = "refs"
  /\ LET spends == { l \in Rows(tip, job.outpoint[2]) :
                       /\ l.height >= FromHeight(tip, job.found.height)
                       /\ l.tx # job.outpoint[1] /\ job.outpoint \in Inputs[l.tx] }
     IN  Step([job EXCEPT !.at = "check", !.tip = tip,
                 !.spender = IF spends = {} THEN Nowhere
                             ELSE CHOOSE l \in spends : \A m \in spends : ~Before(m, l)])

LastTry(n) == n + 1 >= REORG_RETRIES

\* The chain moved under the scan: it is made again, a few times.
CheckTip ==
  /\ job.at = "check"
  /\ Step(CASE tip # job.tip /\ LastTry(job.tries) -> Done(job, "reorg")
            [] tip # job.tip /\ ~LastTry(job.tries) ->
                 [job EXCEPT !.at = "refs", !.tries = @ + 1]
            [] tip = job.tip /\ job.spender = Nowhere -> AtTip(job, "unspent", -1)
            [] OTHER -> [job EXCEPT !.at = "spent time"])

SpenderTime ==
  /\ job.at = "spent time"
  /\ LET b == BlockTime(tip, job.spender.height)
     IN  Step(IF b = NoBlock THEN Done(job, "404")
              ELSE AtTip([job EXCEPT !.spender.time = b], "spent", job.spender.height))

-----------------------------------------------------------------------------
(* Scripts *)

\* script_history gave up, because the chain moved with every try.
HistoryFails == job.at = "history" /\ Step(Done(job, "reorg"))

\* Histories::load, a script at a time and each script once; a transaction of
\* two scripts has the row of the first.
History ==
  /\ job.at = "history"
  /\ LET s == Head(job.keys)
         j == [job EXCEPT !.keys = Only(@, Scripts \ {s}),
                 !.rows = @ \cup { l \in Rows(tip, s) : \A m \in @ : m.tx # l.tx },
                 !.utxos = @ \cup Utxos(tip, s)]
     IN  Step(CASE j.keys # <<>> -> j
                [] j.keys = <<>> /\ j.route = "txs chain" -> Select(j, <<>>)
                [] j.keys = <<>> /\ j.route = "utxo" /\ Peak(tip, s) > UtxosLimit -> Done(j, "400")
                [] OTHER -> [j EXCEPT !.at = "mempool"])

SpentInPool(o) == \E t \in pool : o \in Inputs[t]

\* (what a mempool transaction pays and another one spends is listed)
Unconfirmed_AllOutputs(s) ==
  { <<InPool(t), s>> : t \in { u \in pool : s \in Outputs[u] } }

Unconfirmed(s) ==
  { <<InPool(t), s>> : t \in { u \in pool : s \in Outputs[u] /\ ~SpentInPool(<<u, s>>) } }

\* The mempool's part: of the lists, of utxo and of listunspent.
Mempool ==
  /\ job.at = "mempool"
  /\ LET s == job.scripts[1]
         view == ScriptView(IndexOf(pool), s, { Outpoint(u) : u \in job.utxos },
                            { l.tx : l \in job.rows })
     IN  Step(CASE job.route \in Lists -> Select(job, MempoolTxids(job))
                [] job.route = "utxo" ->
                     [job EXCEPT !.utxos = { u \in @ : ~SpentInPool(Outpoint(u)) },
                                 !.shown = Unconfirmed(s), !.at = "utxo block"]
                [] job.route = "listunspent" ->
                     Done([job EXCEPT !.shown =
                             { u \in job.utxos : Outpoint(u) \notin view.spent_confirmed }
                             \cup { <<InPool(o[1]), s>> : o \in view.utxos }], "ok"))

\* The block of each height of a confirmed output, and its time, are read now.
Lowest == Sets!Min({ u[1].height : u \in job.utxos })

UtxoBlock ==
  /\ job.at = "utxo block"
  /\ Step(IF job.utxos = {} THEN Done(job, "ok")
          ELSE IF HashAt(tip, Lowest) = NoBlock THEN Done(job, "500")
          ELSE [job EXCEPT !.at = "utxo time", !.header = HashAt(tip, Lowest)])

UtxoTime ==
  /\ job.at = "utxo time"
  /\ LET now == { u \in job.utxos : u[1].height = Lowest }
         b == BlockTime(tip, Lowest)
     IN  Step(IF b = NoBlock THEN Done(job, "404")
              ELSE [job EXCEPT !.at = "utxo block", !.utxos = @ \ now,
                      !.shown = @ \cup { <<[u[1] EXCEPT !.block = job.header, !.time = b], u[2]>>
                                         : u \in now }])

\* One page of the mempool, as txids or as transactions.
Page ==
  /\ job.at = "page"
  /\ LET page == PagedTxids(job)
     IN  Step(IF job.route = "mempool txs" THEN Take(job, page)
              ELSE PageDone([job EXCEPT !.list = @ \o [i \in DOMAIN page |-> InPool(page[i])]]))

More ==
  /\ job.at = "more"
  /\ Step([job EXCEPT !.at = IF job.route = "mempool page" THEN "page" ELSE "history",
                      !.keys = job.scripts, !.rows = {}, !.utxos = {}])

\* check_deadline, before a value or a batch of bodies.
Deadline ==
  /\ job.at \in {"locate", "refs"} /\ job.route \in Lists \cup {"outspend"}
  /\ Step(Done(job, "504"))

-----------------------------------------------------------------------------
(* Blocks *)

FirstTip ==
  /\ job.at = "first"
  /\ Step([job EXCEPT !.at = "listing", !.height = Height(tip)])

\* blocks, from the tip downwards, and blocks_tip_hash, which wants only one.
ListBlock ==
  /\ job.at = "listing"
  /\ LET b == HashAt(tip, job.height)
         j == [job EXCEPT !.blocks = Append(@, b), !.height = @ - 1]
         limit == IF job.route = "blocks" THEN BlockLimit ELSE 1
     IN  Step(CASE b = NoBlock -> Done(job, IF job.blocks = <<>> THEN "404" ELSE "ok")
                [] b # NoBlock /\ (job.height = 0 \/ Len(j.blocks) = limit) -> Done(j, "ok")
                [] OTHER -> j)

BlockAtHeight ==
  /\ job.at = "at height"
  /\ LET b == HashAt(tip, job.height)
     IN  Step(IF b = NoBlock THEN Done(job, "404")
              ELSE AtTip([job EXCEPT !.blocks = <<b>>], "ok", job.height))

\* block_status and block_context.
InBestChain ==
  /\ job.at = "best"
  /\ LET h == Height(job.block)
     IN  Step(CASE HashAt(tip, h) # job.block -> AtTip(job, "stale", -1)
                [] HashAt(tip, h) = job.block /\ job.route = "block txs" -> AtTip(job, "best", h)
                [] OTHER -> [job EXCEPT !.at = "next"])

NextBest ==
  /\ job.at = "next"
  /\ LET h == Height(job.block)
     IN  Step(AtTip([job EXCEPT !.blocks = <<HashAt(tip, h + 1)>>], "best", h))

\* The last read of many routes.
ReadTip ==
  /\ job.at = "tip"
  /\ Step([Done(job, job.answer) EXCEPT !.ttl = TtlByDepth(job.height, Height(tip))])

-----------------------------------------------------------------------------

Init ==
  /\ tip \in Blocks /\ pool \in Pools
  /\ job = Idle /\ past = {} /\ reorged = FALSE /\ moves = 0

Begin ==
  /\ job.at = "idle"
  /\ job' \in Requests /\ past' = {<<tip, pool>>}
  /\ UNCHANGED <<tip, pool, reorged, moves>>

Answered ==
  /\ job.at = "done"
  /\ job' = Idle /\ past' = {} /\ reorged' = FALSE /\ moves' = 0
  /\ UNCHANGED <<tip, pool>>

InHand == job.at \notin {"idle", "done"} /\ moves < MaxMoves

Refresh ==
  /\ InHand
  /\ \E k \in Blocks \ {tip} :
       /\ tip' = k /\ past' = past \cup {<<k, pool>>}
       /\ reorged' = (reorged \/ tip \notin Seqs!ToSet(Path[k]))
  /\ moves' = moves + 1
  /\ UNCHANGED <<pool, job>>

Poll ==
  /\ InHand
  /\ \E S \in Pools \ {pool} : pool' = S /\ past' = past \cup {<<tip, S>>}
  /\ moves' = moves + 1
  /\ UNCHANGED <<tip, job, reorged>>

Next ==
  \/ Begin \/ Answered \/ Refresh \/ Poll
  \/ Locate \/ FindTime \/ FindInPool \/ GetFromPool \/ GetFromChain
  \/ PrevoutInPool \/ PrevoutInChain
  \/ BlockPosition \/ MerkleblockHeader \/ GetMerkle \/ BlockHeaders
  \/ SpenderInPool \/ ScanRefs \/ CheckTip \/ SpenderTime
  \/ History \/ HistoryFails \/ Mempool \/ UtxoBlock \/ UtxoTime
  \/ Page \/ More \/ Deadline
  \/ FirstTip \/ ListBlock \/ BlockAtHeight \/ InBestChain \/ NextBest
  \/ ReadTip

Spec == Init /\ [][Next]_vars

-----------------------------------------------------------------------------
(* Properties *)

Places == [tx : Txids \cup {NoTx}, place : {"none", "pool", "chain"},
           block : Blocks \cup {NoBlock}, height : Int, pos : Nat,
           time : Blocks \cup {NoBlock}]

TypeOK ==
  /\ tip \in Blocks /\ pool \in Pools /\ reorged \in BOOLEAN /\ moves \in 0..MaxMoves
  /\ past \subseteq Blocks \X Pools
  /\ job.at \notin {"idle"} => <<tip, pool>> \in past
  /\ job.found \in Places /\ job.spender \in Places
  /\ job.rows \subseteq Places /\ job.tries \in 0..(REORG_RETRIES - 1)
  /\ \A u \in job.utxos \cup job.shown : u[1] \in Places /\ u[2] \in Scripts
  /\ \A i \in DOMAIN job.list : job.list[i] \in Places
  /\ \A i \in DOMAIN job.blocks : job.blocks[i] \in Blocks \cup {NoBlock}
  /\ job.ttl \in {"none", "short", "long"}

Answers(route, answer) == job.at = "done" /\ job.route = route /\ job.answer = answer

\* Where a transaction was, at one moment of the request.
Was(l) ==
  \E view \in past :
    \/ l.place = "pool" /\ l.tx \in view[2]
    \/ /\ l.place = "chain" /\ HashAt(view[1], l.height) = l.block
       /\ BlockTxs[l.block][l.pos + 1] = l.tx

\* Whatever happens to the chain meanwhile, what an answer says of a transaction
\* was so during the request: in the mempool, or in a block of the chain with
\* that hash, height and position; the spender named spends the output; and a
\* Merkle proof leads from the transaction to the root of a block that was at
\* that height ("merkle branch must reconstruct the block header merkle root").
\* So does that of a header, to the root over all headers up to the checkpoint,
\* if the first header asked for is one of them.
AnswersGenuine ==
  /\ TypeOK
  /\ \A i \in DOMAIN job.list : Was(job.list[i])
  /\ job.at = "done" /\ job.answer = "ok" /\ job.route \in {"tx", "status", "get"} => Was(job.found)
  /\ Answers("outspend", "spent") =>
       Was(job.spender) /\ job.outpoint \in Inputs[job.spender.tx]
  /\ job.answer = "ok" /\ job.route \in {"merkle", "merkleblock", "get merkle"} =>
       /\ \E view \in past : HashAt(view[1], job.height) = job.block
       /\ RootFromBranch(job.found.tx, job.pos, job.branch) = MerkleRoot(BlockTxs[job.block])
  /\ Answers("headers", "ok") /\ job.blocks # <<>> =>
       \E view \in past :
         LET hashes == SubSeq(Path[view[1]], 1, Sets!Min({job.cp, Height(view[1])}) + 1)
         IN  /\ \A i \in DOMAIN job.blocks : job.blocks[i] = HashAt(view[1], job.height + i - 1)
             /\ job.height < Len(hashes) /\ job.cp > 0 =>
                  RootFromBranch(job.blocks[1], job.height, job.branch) = MerkleRoot(hashes)

\* What an answer's lifetime depends on.
AboutBlock ==
  CASE job.route \in {"tx", "status"} -> job.found.block
    [] job.route = "outspend" -> job.spender.block
    [] job.route = "block height" -> job.blocks[1]
    [] OTHER -> job.block

\* As long as the chain only grows, the separate reads of a request fit
\* together: times and headers are those of the block named, a list of blocks is
\* a piece of one chain, a block and its successor are from the same one, and an
\* answer that may be cached for years is about a block with CONF_FINAL blocks on
\* top of it.
ReadsCoherent ==
  job.at = "done" /\ ~reorged =>
    /\ \A l \in {job.found, job.spender} \cup { u[1] : u \in job.shown } :
         l.time \in {l.block, NoBlock}
    /\ \A u \in job.shown : u[1].place = "chain" => Was(u[1])
    /\ job.header # NoBlock /\ job.route = "merkleblock" => job.header = job.block
    /\ job.blocks # <<>> /\ job.route # "headers" =>
         \E view \in past : \A i \in DOMAIN job.blocks :
           CASE job.route = "tip hash" -> job.blocks[i] = view[1]
             [] job.route = "blocks" -> job.blocks[i] = HashAt(view[1], Height(job.blocks[1]) + 1 - i)
             [] job.route = "block height" -> job.blocks[i] = HashAt(view[1], job.height)
             [] OTHER -> /\ HashAt(view[1], job.height) = job.block
                         /\ job.blocks[i] = HashAt(view[1], job.height + 1)
    /\ job.ttl = "long" =>
         /\ HashAt(tip, job.height) = AboutBlock
         /\ Height(tip) >= Height(AboutBlock) + CONF_FINAL

Served(t, view) == t \in view[2] \cup Mined(view[1])

\* t was mined by a block that came during the request.
Arrived(t) == \E v, w \in past : t \in Mined(v[1]) /\ t \notin Mined(w[1])

\* A transaction that was served all the time is found.  For transaction.get and
\* for prevouts, which are looked for in the mempool first, it may even be mined
\* meanwhile; find_tx, which looks in the chain first, can then miss it in both.
\* An output that was served all the time is reported as unspent only if there
\* was a moment without a spender, if the funding transaction was not mined
\* meanwhile.  All this as long as the chain only grew.
NothingOverlooked ==
  ~reorged =>
    /\ Answers("get", "404") => \E view \in past : ~Served(Head(job.todo), view)
    /\ job.route \in {"tx", "status"} /\ job.answer = "404" /\ ~Arrived(Head(job.todo))
         => \E view \in past : ~Served(Head(job.todo), view)
    /\ Answers("tx", "missing") =>
         \E view \in past : \E o \in Inputs[job.found.tx] : ~Served(o[1], view)
    /\ Answers("outspend", "unspent") /\ ~Arrived(job.outpoint[1]) =>
         \E view \in past : \/ ~Served(job.outpoint[1], view)
                            \/ \A t \in Txids : job.outpoint \in Inputs[t] => ~Served(t, view)

\* If no transaction of a script moved, and none was both mined and still in the
\* mempool index, utxo lists exactly what is unspent, once; listunspent does so
\* even between the refresh and the poll.
UtxosExact ==
  LET s == job.scripts[1]
      all == Touching(Txids, s)
      steady == \A v, w \in past : /\ all \cap Mined(v[1]) = all \cap Mined(w[1])
                                   /\ all \cap v[2] = all \cap w[2]
      both == all \cap Mined(tip) \cap pool
      exact == /\ { Outpoint(u) : u \in job.shown } = Unspent(Mined(tip) \cup pool, s)
               /\ \A u, v \in job.shown : Outpoint(u) = Outpoint(v) => u = v
  IN  /\ Answers("utxo", "ok") /\ ~reorged /\ steady /\ both = {} => exact
      /\ Answers("listunspent", "ok") /\ ~reorged /\ steady => exact

Listed == { job.list[i].tx : i \in DOMAIN job.list }

\* A client that walks through the pages of the mempool, or of a script's
\* confirmed transactions while the chain only grows, sees everything that was
\* there all the time, and nothing twice.
WalksComplete ==
  /\ job.route \in Walks /\ ~reorged => Cardinality(Listed) = Len(job.list)
  /\ Answers("mempool page", "ok") =>
       { t \in Txids : \A view \in past : t \in view[2] } \subseteq Listed
  /\ Answers("txs chain", "ok") /\ ~reorged =>
       { t \in Touching(Txids, job.scripts[1]) : \A view \in past : t \in Mined(view[1]) }
         \subseteq Listed
==============================================================================
