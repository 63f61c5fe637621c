----------------------------- MODULE QueriesInv -----------------------------
(***************************************************************************)
(* What a request knows at every station of its way, and the invariants    *)
(* that say so of the job: the strengthenings by which the properties of   *)
(* Queries are proved.  P is the set of views served since it began.       *)
(***************************************************************************)
EXTENDS Queries

-----------------------------------------------------------------------------
(* Chains and requests *)

\* The chain ending in k has grown from that ending in j.
Grown(j, k) == j \in Seqs!ToSet(Path[k])

Fields ==
  {"route", "at", "scripts", "outpoint", "block", "height", "todo", "keys", "found",
   "inputs", "tries", "tip", "spender", "rows", "utxos", "shown", "cursor", "from",
   "list", "blocks", "header", "count", "cp", "pos", "branch", "answer", "ttl"}

\* Where a request of a route may be.
Stations(j) ==
  /\ j.at = "idle" => j.route = "none"
  /\ j.at \in {"locate", "time", "pool"} =>
       j.route \in Lists \cup {"tx", "status", "merkle", "merkleblock", "outspend"}
  /\ j.at \in {"get", "get chain"} => j.route = "get"
  /\ j.at \in {"prevout", "funding"} => j.route \in Lists \cup {"tx"}
  /\ j.at = "hash" => j.route \in {"merkle", "merkleblock"}
  /\ j.at = "header" => j.route = "merkleblock"
  /\ j.at = "get merkle" => j.route = "get merkle"
  /\ j.at = "headers" => j.route = "headers"
  /\ j.at \in {"spender", "refs", "check", "spent time"} => j.route = "outspend"
  /\ j.at = "history" => j.route \in {"utxo", "listunspent", "txs", "txs chain", "txs mempool"}
  /\ j.at = "mempool" => j.route \in {"utxo", "listunspent", "txs", "txs mempool"}
  /\ j.at \in {"utxo block", "utxo time"} => j.route = "utxo"
  /\ j.at = "page" => j.route \in {"mempool page", "mempool txs"}
  /\ j.at = "more" => j.route \in Walks
  /\ j.at \in {"first", "listing"} => j.route \in {"blocks", "tip hash"}
  /\ j.at = "at height" => j.route = "block height"
  /\ j.at \in {"best", "next"} => j.route \in {"block status", "block txs"}

IsJob(j) == DOMAIN j = Fields /\ Stations(j)

Single == {"get", "tx", "status", "outspend"}

-----------------------------------------------------------------------------
(* What was not there, at one moment of a request or another *)

\* Among the views P, one has t not in its mempool, one has it not in its chain,
\* and one has it in neither.
Unseen(P, t) == \E v \in P : t \notin v[2]
Unmined(P, t) == \E v \in P : t \notin Mined(v[1])
Unserved(P, t) == \E v \in P : ~Served(t, v)

\* One has nothing in its mempool, or nothing at all, that spends o.
Unclaimed(P, o) == \E v \in P : \A t \in v[2] : o \notin Inputs[t]
Open(P, o) == \E v \in P : \A t \in Txids : o \in Inputs[t] => ~Served(t, v)

ArrivedIn(P, t) == \E v, w \in P : t \in Mined(v[1]) /\ t \notin Mined(w[1])

\* l is of a transaction that one of the chains has at that height.
Placed(P, l) ==
  /\ l.place = "chain"
  /\ \E v \in P : \E m \in Locations(v[1]) : m.tx = l.tx /\ m.height = l.height

\* k and S are served now, and the chain of k has grown from all the others.
Current(P, k, S) == k \in Blocks /\ <<k, S>> \in P /\ \A v \in P : Grown(v[1], k)

\* What find_spender may find in the chain of k, from height h on.
Spends(k, o, h) ==
  { l \in Rows(k, o[2]) :
      l.height >= FromHeight(k, h) /\ l.tx # o[1] /\ o \in Inputs[l.tx] }

-----------------------------------------------------------------------------
(* What a request knows on its way *)

GetSound(P, j) ==
  /\ j.at = "get chain" => Unseen(P, Head(j.todo))
  /\ j.at \in {"tip", "done"} /\ j.answer = "404" => Unserved(P, Head(j.todo))

TxSound(P, j) ==
  /\ j.at \notin {"tip", "done"} => j.answer = "none"
  /\ j.at = "pool" => Unmined(P, Head(j.todo))
  /\ j.at = "time" => Placed(P, j.found)
  /\ j.at \in {"prevout", "funding"} => j.inputs # {} /\ j.inputs \subseteq Inputs[j.found.tx]
  /\ j.at = "funding" => \E o \in j.inputs : o = (CHOOSE i \in j.inputs : TRUE) /\ Unseen(P, o[1])
  /\ j.answer = "404" /\ ~ArrivedIn(P, Head(j.todo)) => Unserved(P, Head(j.todo))
  /\ j.answer = "missing" => \E o \in Inputs[j.found.tx] : Unserved(P, o[1])

Funded(j) == j.outpoint \in Outpoints /\ Head(j.todo) = j.outpoint[1]

OutSound(P, j) ==
  /\ Funded(j)
  /\ j.at = "pool" => Unmined(P, j.outpoint[1])
  /\ j.at \in {"time", "spender", "refs", "check"} => j.found.tx = j.outpoint[1]
  /\ j.at \in {"time", "refs", "check"} => Placed(P, j.found)
  /\ j.at = "spender" =>
       (j.found.place = "pool" /\ Unmined(P, j.outpoint[1])) \/ Placed(P, j.found)
  /\ j.at \in {"refs", "check"} => Unclaimed(P, j.outpoint)
  /\ j.at = "check" =>
       /\ j.tip \in Blocks
       /\ j.spender = Nowhere => \A t \in Mined(j.tip) : j.outpoint \notin Inputs[t]
  /\ j.at \in {"tip", "done"} /\ j.answer = "unspent" /\ ~ArrivedIn(P, j.outpoint[1]) =>
       Unserved(P, j.outpoint[1]) \/ Open(P, j.outpoint)

Sound(P, j) ==
  /\ j.route = "get" => GetSound(P, j)
  /\ j.route \in {"tx", "status"} => TxSound(P, j)
  /\ j.route = "outspend" => OutSound(P, j)

\* Between requests there is nothing to know; during one, as long as the chain
\* only grew, it has grown from all that was served since, and the request knows
\* what it has seen.
KnowsInv ==
  /\ IsJob(job) /\ tip \in Blocks /\ reorged \in BOOLEAN
  /\ job.at # "idle" /\ ~reorged => Current(past, tip, pool) /\ Sound(past, job)

-----------------------------------------------------------------------------
(* What fits together *)

\* Block b was at height h; l says where a transaction was mined; and if l has a
\* time, it is that of its block.
Anchored(P, h, b) == b \in Blocks /\ \E v \in P : HashAt(v[1], h) = b

Spot(P, l) ==
  /\ DOMAIN l = {"tx", "place", "block", "height", "pos", "time"}
  /\ l.place = "chain" /\ Anchored(P, l.height, l.block)
  /\ BlockTxs[l.block][l.pos + 1] = l.tx

Timed(l) == l.time \in {l.block, NoBlock}

Shown(P, l) == Timed(l) /\ (l.place = "chain" => Spot(P, l))

\* What the lifetime of the answer to j depends on.
Subject(j) ==
  CASE j.route \in {"tx", "status"} -> j.found.block
    [] j.route = "outspend" -> j.spender.block
    [] j.route = "block height" -> j.blocks[1]
    [] OTHER -> j.block

LowestOf(j) == Sets!Min({ u[1].height : u \in j.utxos })

TimesFit(P, j) ==
  /\ Timed(j.found) /\ Timed(j.spender)
  /\ j.at = "time" => Spot(P, j.found)
  /\ j.at \in {"prevout", "funding"} => j.found.height = -1 \/ Spot(P, j.found)
  /\ j.at = "check" => j.spender = Nowhere \/ Spot(P, j.spender)
  /\ j.at = "spent time" => Spot(P, j.spender)

OutputsFit(P, j) ==
  /\ \A u \in j.utxos : Timed(u[1]) /\ Spot(P, u[1])
  /\ \A u \in j.shown : Shown(P, u[1])

HeaderFits(P, j) ==
  /\ j.at = "utxo time" => Anchored(P, LowestOf(j), j.header)
  /\ j.route = "merkleblock" =>
       /\ j.header \in {NoBlock, j.block}
       /\ j.at \notin {"tip", "done"} => j.header = NoBlock
       /\ j.at = "header" => Anchored(P, j.found.height, j.block)

Blockless(r) ==
  r \notin {"blocks", "tip hash", "block height", "block status", "block txs", "headers"}

\* The list of blocks goes down from the tip of one view.
Listing(P, j) ==
  \E v \in P :
    /\ j.blocks \in Seq(Blocks) /\ Len(j.blocks) \in 0..Height(v[1])
    /\ j.height = Height(v[1]) - Len(j.blocks)
    /\ \A i \in 1..Len(j.blocks) : j.blocks[i] = HashAt(v[1], Height(v[1]) + 1 - i)

\* The blocks of the answer to a request for block b or height h are a piece of
\* one chain.
PieceFor(P, route, blocks, h, b) ==
  \E view \in P : \A i \in DOMAIN blocks :
    CASE route = "tip hash" -> blocks[i] = view[1]
      [] route = "blocks" -> blocks[i] = HashAt(view[1], Height(blocks[1]) + 1 - i)
      [] route = "block height" -> blocks[i] = HashAt(view[1], h)
      [] OTHER -> HashAt(view[1], h) = b /\ blocks[i] = HashAt(view[1], h + 1)

Piece(P, j) == PieceFor(P, j.route, j.blocks, j.height, j.block)

BlocksFit(P, j) ==
  /\ Blockless(j.route) \/ j.at \in {"first", "at height", "best", "next"} => j.blocks = <<>>
  /\ j.at = "listing" => Listing(P, j) /\ (j.route = "tip hash" => j.blocks = <<>>)
  /\ j.at = "best" => j.block \in Blocks
  /\ j.at = "next" => Anchored(P, Height(j.block), j.block)
  /\ j.at \in {"tip", "done"} /\ j.blocks # <<>> /\ j.route # "headers" => Piece(P, j)

LifetimeFits(P, k, j) ==
  /\ j.at # "done" => j.ttl = "none"
  /\ j.at = "tip" => j.height = -1 \/ Anchored(P, j.height, Subject(j))
  /\ j.at = "done" /\ j.ttl = "long" =>
       HashAt(k, j.height) = Subject(j) /\ Height(k) >= Height(Subject(j)) + CONF_FINAL

Fits(P, k, j) ==
  TimesFit(P, j) /\ OutputsFit(P, j) /\ HeaderFits(P, j) /\ BlocksFit(P, j) /\ LifetimeFits(P, k, j)

\* What a request without blocks has on its way.
Kept(P, j) ==
  /\ Timed(j.found) /\ Timed(j.spender) /\ OutputsFit(P, j)
  /\ j.route = "merkleblock" => j.header = NoBlock
  /\ Blockless(j.route) /\ j.blocks = <<>> /\ j.ttl = "none"

\* As long as the chain only grew, the reads of a request fit together.
FitsInv == KnowsInv /\ (job.at # "idle" /\ ~reorged => Fits(past, tip, job))

-----------------------------------------------------------------------------
(* What was so *)

\* What an entry says was so in one of the views P.
WasIn(P, l) ==
  \E view \in P :
    \/ l.place = "pool" /\ l.tx \in view[2]
    \/ /\ l.place = "chain" /\ HashAt(view[1], l.height) = l.block
       /\ BlockTxs[l.block][l.pos + 1] = l.tx

\* The block b was at height h.
StoodAt(P, h, b) == \E view \in P : HashAt(view[1], h) = b

\* l was somewhere, and spends o.
Names(P, o, l) == WasIn(P, l) /\ o \in Inputs[l.tx]

\* The branch leads from the transaction to the root of its block.
Proves(j) == RootFromBranch(j.found.tx, j.pos, j.branch) = MerkleRoot(BlockTxs[j.block])

ProvesHeaders(P, blocks, h, cp, branch) ==
  \E view \in P :
    LET hashes == SubSeq(Path[view[1]], 1, Sets!Min({cp, Height(view[1])}) + 1)
    IN  /\ \A i \in DOMAIN blocks : blocks[i] = HashAt(view[1], h + i - 1)
        /\ h < Len(hashes) /\ cp > 0 => RootFromBranch(blocks[1], h, branch) = MerkleRoot(hashes)

-----------------------------------------------------------------------------
(* What a request has, and what its answer claims *)

ByScript == {"utxo", "listunspent", "txs", "txs chain", "txs mempool"}

\* What it has wherever it is: what was listed so far was so.
Solid(P, j) ==
  /\ j.list \in Seq(Places) /\ \A i \in 1..Len(j.list) : WasIn(P, j.list[i])
  /\ j.found \in Places /\ j.spender \in Places /\ j.rows \subseteq Places
  /\ j.tries \in 0..(REORG_RETRIES - 1)
  /\ \A u \in j.utxos : u[1] \in Places /\ u[1].tx \in Txids /\ u[2] \in Scripts
  /\ \A u \in j.shown : u[1] \in Places /\ u[2] \in Scripts
  /\ j.blocks \in Seq(Blocks \cup {NoBlock}) /\ j.header \in Blocks \cup {NoBlock}
  /\ j.ttl \in {"none", "short", "long"}
  /\ j.route \in ByScript => j.scripts \in Seq(Scripts) /\ j.scripts # <<>>

MerkleArgs(j) == Head(j.todo) \in Txids
HeadersArgs(j) == j.height \in Nat /\ j.count \in Nat /\ j.cp \in Nat /\ j.blocks = <<>>
KeysArgs(j) == j.keys \in Seq(Scripts) /\ j.keys # <<>>

\* What it knows at its stations.
OnTheWay(P, j) ==
  /\ j.at \notin {"tip", "done"} => j.answer = "none"
  /\ j.at \in {"time", "prevout", "funding"} => WasIn(P, j.found)
  /\ j.at = "check" => j.spender = Nowhere \/ Names(P, j.outpoint, j.spender)
  /\ j.at = "spent time" => Names(P, j.outpoint, j.spender)
  /\ j.at = "header" => StoodAt(P, j.found.height, j.block) /\ Proves(j)
  /\ j.at = "get merkle" => MerkleArgs(j)
  /\ j.at = "headers" => HeadersArgs(j)
  /\ j.at = "history" => KeysArgs(j)
  /\ j.at = "tip" => j.route # "headers"

TxClaims == {"tx", "status", "get"}
ProofClaims == {"merkle", "merkleblock", "get merkle"}

\* What it says when it is answered.
Claims(P, j) ==
  /\ j.answer = "ok" /\ j.route \in TxClaims => WasIn(P, j.found)
  /\ j.answer = "spent" => Names(P, j.outpoint, j.spender)
  /\ j.answer = "ok" /\ j.route \in ProofClaims => StoodAt(P, j.height, j.block) /\ Proves(j)
  /\ j.answer = "ok" /\ j.route = "headers" /\ j.blocks # <<>> =>
       ProvesHeaders(P, j.blocks, j.height, j.cp, j.branch)

Genuine(P, j) == Solid(P, j) /\ OnTheWay(P, j) /\ Claims(P, j)

\* What is served, and that it is among what was.
World ==
  /\ tip \in Blocks /\ pool \in Pools /\ reorged \in BOOLEAN /\ moves \in 0..MaxMoves
  /\ past \subseteq Blocks \X Pools
  /\ job.at # "idle" => <<tip, pool>> \in past

\* Whatever happens to the chain, what a request has got was so.
GenuineInv == IsJob(job) /\ World /\ Genuine(past, job)

-----------------------------------------------------------------------------
(* What is unspent *)

UtxoRoutes == {"utxo", "listunspent"}

\* A transaction of the script is in the chain that ends in k and in the pool p.
Twice(k, p, s) == Touching(Txids, s) \cap Mined(k) \cap p # {}

EachOnce(us, x) ==
  us \cap x = {} /\ \A u, v \in us \cup x : Outpoint(u) = Outpoint(v) => u = v

\* The outputs us that are still to be shown and those shown, x, are what chain
\* and pool leave unspent, each once.
Exactly(k, p, s, us, x) ==
  { Outpoint(u) : u \in us \cup x } = Unspent(Mined(k) \cup p, s) /\ EachOnce(us, x)

Settled(P, s, us, x) ==
  \E v, w \in P : Twice(v[1], w[2], s) \/ Exactly(v[1], w[2], s, us, x)

SettledOnce(P, s, x) == \E v, w \in P : Exactly(v[1], w[2], s, {}, x)

HasRows(P, j, s) == \E v \in P : j.rows = Rows(v[1], s) /\ j.utxos = Utxos(v[1], s)

\* What a request for outputs of the script s has at its stations.
Tallied(P, j, s) ==
  /\ j.scripts = <<s>> /\ j.at # "tip"
  /\ j.at = "history" => j.keys = <<s>> /\ j.rows = {} /\ j.utxos = {}
  /\ j.at = "mempool" => HasRows(P, j, s)
  /\ j.at \in {"utxo block", "utxo time"} => Settled(P, s, j.utxos, j.shown)
  /\ j.at = "done" /\ j.answer = "ok" =>
       IF j.route = "utxo" THEN Settled(P, s, {}, j.shown) ELSE SettledOnce(P, s, j.shown)

Tallies(P, j) == j.route \in UtxoRoutes => \E s \in Scripts : Tallied(P, j, s)

\* What a request for a script's outputs has got is what is unspent.
TalliesInv == GenuineInv /\ Tallies(past, job)

-----------------------------------------------------------------------------
(* Walks through pages *)

\* What comes before what: an order is the set of its pairs.
Arrivals == { p \in Txids \X Txids : \E i, n \in DOMAIN Order : i < n /\ p = <<Order[i], Order[n]>> }
Newer(k, s) == { p \in Txids \X Txids : \E l, m \in Rows(k, s) : Before(m, l) /\ p = <<l.tx, m.tx>> }

InTurn(R, q) == \A i, n \in DOMAIN q : i < n => <<q[i], q[n]>> \in R

\* t comes behind all of q.
Behind(R, q, t) == q # <<>> => <<q[Len(q)], t>> \in R

\* q has what is in A, but for what comes behind it.
Reaches(R, A, q) == \A t \in A : t \in Seqs!ToSet(q) \/ Behind(R, q, t)

Txs(list) == [i \in DOMAIN list |-> list[i].tx]

\* What was there in all the views.
AlwaysPooled(P) == { t \in Txids : \A v \in P : t \in v[2] }
AlwaysMined(P, s) == { t \in Touching(Txids, s) : \A v \in P : t \in Mined(v[1]) }

\* Between two pages.
Turning(R, A, j) ==
  /\ j.from = Len(j.list) /\ Reaches(R, A, Txs(j.list))
  /\ j.cursor = IF j.list = <<>> THEN NoTx ELSE j.list[Len(j.list)].tx

\* A walk through the mempool.
PoolWalk(P, j) ==
  /\ j.at \in {"page", "more", "done"}
  /\ Txs(j.list) \in Seq(Txids) /\ InTurn(Arrivals, Txs(j.list))
  /\ j.at \in {"page", "more"} => Turning(Arrivals, AlwaysPooled(P), j)
  /\ j.at = "done" /\ j.answer = "ok" => AlwaysPooled(P) \subseteq Seqs!ToSet(Txs(j.list))

\* The values that a page still has to resolve.
Resolving == {"locate", "time", "prevout", "funding"}

\* What is listed of the confirmed transactions of s, and what is to be listed
\* yet, are one piece of its rows.
RowTxids(k, s) == { l.tx : l \in Rows(k, s) }
Rowed(k, s, list, todo) ==
  /\ todo \in Seq(Txids) /\ Txs(list) \in Seq(Txids)
  /\ InTurn(Newer(k, s), Txs(list) \o todo)
  /\ Seqs!ToSet(Txs(list) \o todo) \subseteq RowTxids(k, s)

\* In the middle of a page.
UnderWay(P, k, s, j) ==
  /\ j.todo # <<>> /\ j.from \in Nat /\ j.from <= Len(j.list)
  /\ Reaches(Newer(k, s), AlwaysMined(P, s), Txs(j.list) \o j.todo)

FoundNext(j) == j.found.tx = Head(j.todo) /\ j.found.place = "chain"

\* A walk through the confirmed transactions of s.
ChainWalk(P, k, j, s) ==
  /\ j.at \in {"history", "more", "done"} \cup Resolving
  /\ j.scripts = <<s>> /\ Rowed(k, s, j.list, j.todo)
  /\ j.at \in {"history", "more"} => j.todo = <<>> /\ Turning(Newer(k, s), AlwaysMined(P, s), j)
  /\ j.at = "history" => j.keys = <<s>> /\ j.rows = {}
  /\ j.at \in Resolving => UnderWay(P, k, s, j)
  /\ j.at \in {"time", "prevout", "funding"} => FoundNext(j)
  /\ j.at \in {"prevout", "funding"} => j.inputs \subseteq Inputs[j.found.tx] /\ j.inputs # {}
  /\ j.at = "done" /\ j.answer = "ok" => AlwaysMined(P, s) \subseteq Seqs!ToSet(Txs(j.list))

PoolWalks(P, j) == j.route = "mempool page" => PoolWalk(P, j)
ChainWalks(P, k, j) == j.route = "txs chain" => \E s \in Scripts : ChainWalk(P, k, j, s)

\* A walk through the mempool, and one through the chain as long as that only
\* grows, have listed a piece of what there is, from its beginning, and go on
\* behind it.
WalksInv ==
  /\ GenuineInv /\ PoolWalks(past, job)
  /\ ~reorged => ChainWalks(past, tip, job)
==============================================================================
