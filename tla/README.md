# A TLA+ model of bindex

bindex keeps an index of a Bitcoin or Liquid chain (which transactions touch a
script, where a transaction is in the chain) and serves wallets and block
explorers from it.  This directory models the parts of it in which something
can go wrong over time: the writer of the index, its readers, the mempool
index, script histories and their cache, the queries of the REST and Electrum
APIs, sessions, subscriptions, connections and limits, the submission of
transactions, the web server's threads, and the command line tool's address
cache.  TLC checks the models on small instances;
TLAPS proves, for every instance, the safety properties of the writer, its
reader, the mempool poll, script histories and their cache, subscriptions, the
address cache, REST connections, Electrum sessions with their submissions and
monitor, and the web server.

`PROJECT.json` lists, for every definition that models code, the lines it
models; the hazards of the code and the properties that would catch them; and
the runs, mutants and theorems.

## 1. Inventory

| component | state | operations | talks to |
|---|---|---|---|
| index writer, `bindex-lib/chain.rs`, `headers.rs` | in-memory header chain, rows in RocksDB | `open`, `sync` (= `fetch_new_headers`, `drop_tip`, `index`, `write`, `add`), lookups | the node over REST; RocksDB |
| store and rows, `db.rs`, `index/*.rs` | column families, four of them in use (headers, txpos, txid, script_hash) | `write`, `delete` (one atomic batch each), `headers`, `headers_from`, scans | RocksDB |
| writer processes, `bindex-sync`, `bindex-web`, `bindex-cli` | - | loops around `sync`; what happens after an error | writer, ZMQ |
| reader, `refresh_secondary`, `ChainAdapter` | a RocksDB secondary and its own header chain | `open_secondary`, `refresh` | the writer's store |
| mempool index, `bindex-electrum/mempool.rs` | transactions, spenders by outpoint, transactions by script, recent queue | `poll_once`, `insert`, `remove`, `script_txids`, `script_view` | the node |
| script histories, `bindex-electrum/chain.rs` | LRU cache of folded histories | `script_history`, `find_spender`, `ScriptCache::get`, `put` | reader, node |
| subscriptions, `server.rs`, `session.rs` | a watch channel; per session the subscribed scripts, their copies of history and the status last sent | subscribe, unsubscribe, `notifications`, `publish_tip` | reader, mempool index, clients |
| address cache, `bindex-lib/cache`, `bindex-cli` | four SQLite tables | `open`, `add`, `sync` (= `drop_stale_blocks`, `sync_history`, `add_*`) | writer, SQLite |
| REST queries, `rest/handlers.rs`, `query.rs`, `address.rs` | none of their own | several reads of chain, mempool and node per request; pages, lifetimes | reader, mempool index, node |
| REST connections, `rest/mod.rs`, `http.rs`, `deadline.rs` | permits for connections and for expensive queries | accept, frame, queue, answer, keep or close; timeouts | clients |
| Electrum sessions, `server.rs`, `protocol.rs`, `session.rs` | the negotiated version, the line in hand | lines, batches, dispatch | clients, monitor, broadcast |
| broadcast, `torpush.rs`, `bitcoind.rs` | a counter for credentials | `broadcast`, `broadcast_package`, `txs_test`, `txs_package` | SOCKS5 proxy, onion endpoint, node |
| monitor, `monitor.rs` | counters behind a mutex, a snapshot file | session begin and end, request, reset | sessions |
| `bindex-web` | chain behind a read-write lock, sync figures | sync loop, four workers | writer, Electrum server |
| wake-ups, `zmq.rs` | a notify flag per task | wake the refresh and the poll task early | the node |
| merkle proofs, `merkle.rs` | - | a pure function | - |
| formats, `rest/types.rs`, `liquid_types.rs`, `format.rs`, `assets.rs` | - | pure conversions to JSON | - |
| configuration, TLS | - | start-up | - |

What is hard here, and to which component it belongs:

* *Reorgs against state that is derived.*  The writer must find exactly the
  rows of a block that is stale by now; a reader must notice that the rows
  beyond its tip belong to another branch; cached folds and cached address
  histories must not survive the branch they were folded on.
* *Partial failure.*  `drop_tip` changes memory, then asks the node, then
  changes the disk.  `refresh_secondary` lets the store move before the header
  chain does.  A poll misses some bodies.  One script's lookup fails in a round
  of notifications.
* *Kills.*  Between any two steps of the writer; in the middle of the address
  cache's database transaction.
* *Interleaving.*  Chain, mempool and announcements are separate, each behind
  its own lock, and a session looks at all three one after the other; queries
  fetch bodies holding no lock at all and share one cache.  A REST query is a
  chain of such reads: where a transaction is, the time of that block, its
  prevouts, its spender.
* *Limits and silent peers.*  Slots and permits must come back whatever ends a
  connection; a peer, a proxy or an endpoint that says nothing must not hold
  them, and a request whose end is in doubt must not be followed by another.
* *Privacy.*  With broadcast over Tor no route may reach the local node, and no
  two submissions may share a circuit.
* *Boundaries.*  TxNum is 32 bits wide; `find_by_txnum` is a binary search over
  blocks that may be empty; txpos rows hold chunks of 64 transactions; a limit
  of one header must still make progress.
* *Liveness.*  After deep reorgs and failures writer, reader, mempool index and
  subscriptions must all arrive at the node's state.

## 2. Modules

| module | models | state and actions |
|---|---|---|
| `Headers` | header rows, the rows of a block in each column family, reading them back, lookups | pure operators |
| `IndexedChain` | the writer next to a node that moves | one action per step of `sync` between two calls that leave the process |
| `Secondary` | `IndexedChain` and a reader | `OpenSecondary`, `RefreshSecondary`, `RefreshReadFails` |
| `IndexLog` | what the index promises a reader | abstract specification: append, drop the tip, read |
| `Transactions` | transactions, outpoints, what touches a script | pure operators, used by the four modules below |
| `MempoolIndex` | the index's maps, `insert`, `remove`, `script_txids`, `script_view` | pure operators |
| `Mempool` | `poll_once` next to the node's mempool and chain | one action per body, removal and insertion |
| `ScriptHistory` | `script_history`: folds, cache, retries | one action per locked section of a query |
| `Subscriptions` | both tasks, the channel, and a session | one action per lookup |
| `AddressCache` | the SQLite cache and `bindex-cli`'s loop | one action per step of `Cache::sync` |
| `MerkleProofs` | `branch_and_root`, and the tree it should agree with | pure operators |
| `Queries` | REST and Electrum queries over a moving chain and mempool | one action per read of a request |
| `RestServer` | REST connections: slots, framing, permits, timeouts | one action per step of a connection's task |
| `Broadcast` | submission to the node or over Tor | one action per exchange |
| `Monitor` | the request monitor and its file | operators for each change, and the write |
| `ElectrumServer` | sessions, composed with `Broadcast` and `Monitor` | one action per step of a session's task |
| `WebServer` | `bindex-web`: syncer, workers, lock, sync figures | one action per step of a thread |
| `Secondary_proofs` (also of `IndexedChain`), `Mempool_proofs`, `ScriptHistory_proofs`, `Subscriptions_proofs`, `RestServer_proofs`, `ElectrumServer_proofs`, `Queries_proofs`, `Programs_proofs` (of `AddressCache` and `WebServer`) | | theorems (section 5) |
| `QueriesInv` | | the invariants by which `Queries_proofs` proves its theorems |
| `MC*` | | instances for TLC |

`Secondary` extends `IndexedChain`, which extends `Headers`; `Mempool` and
`Subscriptions` extend `MempoolIndex`, which, like `ScriptHistory` and
`AddressCache`, extends `Transactions`.  `Queries` extends `MempoolIndex` and
`MerkleProofs`; `ElectrumServer` extends `Broadcast` and `Monitor`.  Where a
module takes the result of another for granted it says so: `Queries` and
`Subscriptions` read a script's history as of one moment (`HistoryExact`), and
the mempool index as a function of its transactions (`IndexConsistent`).

### The writer (`Headers`, `IndexedChain`)

A block is a model value; `Path` gives the chain that ends in it and `Txs` its
transactions, each as the set of prefixes (of its txid and its scripts) it is
indexed under.  A column family is a set of rows with a key.  `BatchRows(hs)`
is what indexing the header chain `hs` writes; `DbHeaders` reads header rows
back in key order, which in the Bitcoin format is the order of txnums and in
the Liquid format (`Liquid = TRUE`) that of heights.  `FindByTxnum` and
`GetTxBlockPos` are the lookups, with the boundary cases of the source.

`IndexedChain` splits `sync` at every request to the node and every write:
`GetHeaders` or `RollBack`, then `IndexBlock` for each block, `WriteBatches`,
`AddHeaders`; or `DropTip`, which fetches the stale block, indexes it again and
deletes the rows.  In between the node may move (`NodeMoves`), the process may
be killed (`Crash`) or a request may fail (`SyncError`, `FlushFails`); then
`bindex-sync` and `bindex-cli` exit and `bindex-web` tries again with the same
in-memory chain (`RetryInProcess`).  RocksDB batches are atomic and survive a
kill of the process.  What a machine that loses power may lose of the last
batches before a flush is not modelled.

### The reader (`Secondary`, `IndexLog`)

A refresh catches up with the writer's store, reads the rows from its own
tip's key on, appends them if they extend that tip and otherwise reloads the
whole chain.  RocksDB's secondary sees whole batches in order; a reader that
lags behind the writer is one that caught up at an earlier moment.  `IndexLog`
says what all of this amounts to: one chain that changes only at its end, and
readers that hold a chain that was on disk at some moment and then only later
ones.

### The mempool (`MempoolIndex`, `Mempool`)

`Outputs[t]` is the set of scripts a transaction pays (one output each),
`Inputs[t]` the outpoints it spends.  The node accepts, replaces, evicts and
mines transactions at any moment, in the middle of a poll too; bodies that
cannot be fetched are skipped.  Fees, sizes and times, of which the REST
statistics are made, are left out; so are reorgs that return transactions to
the mempool.

### Script histories (`ScriptHistory`)

A query lists the references of a script under the chain's lock, looks into
the cache under the cache's lock, fetches bodies under none, reads the tip
again, and folds and stores, or starts again.  `Refresh` moves the chain to any
other tip at any moment.  The cache is a sequence, least recently used entry
first, with the count of references that the code keeps beside it.  A chain
has each transaction once and behind those it spends from (`ChainAssumption`):
the fold knows an input only by the output it has seen before it.

### Subscriptions (`Subscriptions`)

The refresh task and the poll task change the server's state and announce it in
a second step; the watch channel keeps one value and a flag per receiver.  A
session reads the confirmed history and then the mempool, in two steps, both
when it answers a subscribe request and in a round of notifications.  Sessions
do not write anything that another one reads, so there is one.  A status is the
pair of what the code hashes.  `had`, the tips there were, and `rolled_back`,
whether the index returned to one of them, are history variables.

### The address cache (`AddressCache`)

Tables are sets of rows.  `db` is what the open database transaction sees,
`saved` what is committed; `Exit`, a kill or an error, returns to `saved`.
Scripts to watch are added at each start.  `Cache::sync` asserts that a spent
amount is positive: `AddHistoryPanics` is that assertion failing, which a spend
of an output of value zero brings about, at every start again; the cache on
disk stays intact.  A block stands on the one before it, and a transaction comes
after those it spends from (`ChainAssumption`).

### Queries (`Queries`, `MerkleProofs`)

One request at a time, from its arrival to its answer, as queries write nothing
that others read.  `job` holds its route, its arguments and its locals; each
action is one read under one lock: `Locate`, `FindTime`, `FindInPool`,
`PrevoutInPool`, `ScanRefs`, `UtxoBlock` and so on.  Between any two of them
`Refresh` moves the chain (forward, or to another branch) and `Poll` the
mempool.  `past` keeps every chain and mempool that was served during the
request and `reorged` whether a block was dropped; they exist for the properties
only.  A lookup of a block's time or header yields the block itself, so that a
time of the wrong block can be told apart.  `MerkleProofs` goes up a level
at a time as `branch_and_root` does, and states the tree by its definition, and
what a client makes of a branch, for comparison; a hash is a pair.

### REST connections (`RestServer`)

Framing is reduced to what decides where a request ends (`Content-Length` in all
its repetitions, `Transfer-Encoding`, malformed or too many headers) and whether
the connection is kept.  `synced` is a history variable: the reader stands where
the client begins a request.  `slots` and `permits` are the two semaphores, and
`queue` the order in which tokio's serves.  Any timeout may fire at any moment,
peers may stop at any moment, and a handler may panic.

### Sessions, submissions, monitor (`ElectrumServer`, `Broadcast`, `Monitor`)

A session reads a line, serves its requests one after the other and writes the
answers; each request is recorded with the monitor, whose snapshot is written in
a step of its own, since the lock is taken twice.  A submission runs in its
caller's task: over RPC, or over the proxy in three stages, each of which may
fail, be answered in any way or time out.  The result for a package is the JSON of
`submitpackage`, handed on as it is: a package may be refused inside it, which
`success` keeps, and `SaysTaken` is what a caller learns from an answer.  `posted`,
`node` and `accepted` record what left the process and what was taken.  REST requests submit at the same time
as sessions do.  `Clock` is the set of readings the clock may give; the run lets
it stand still, so that only the counter tells credentials apart.

### The web server (`WebServer`)

The index is a number of changes, the node's chain the number there are to make:
what matters is which of them a request saw.  The syncer holds the write lock
over a whole catch-up, may fail, and may panic, which poisons the lock; workers
answer under the read lock and may panic too.  The node may fall silent for good
(`NodeSilent`); the client has no timeout, so whoever waits for it then keeps the
lock he has.

## 3. Runs

Passing runs:

| run | instance | distinct states | shows |
|---|---|---|---|
| `index` | six blocks in two branches after genesis; batches of two; three moves of the node, two faults; Bitcoin format | 50 378 | lookups exact; the reader in sync after each complete refresh; refinement of `IndexLog`; both catch up |
| `writer_liquid` | the same tree with empty blocks, header rows keyed by height, one block per round, and a TxNum limit that one branch exceeds | 4 372 | store, disk, lookups and batches of the writer alone, and the overflow |
| `mempool` | four transactions, a chain of three and a replacement; five moves of the node, one failed body | 27 944 | index, views and liveness of the poll |
| `subscriptions` | tips that go forward or roll back between announcements, one change of the mempool, one failing lookup or announcement, three scripts and two subscriptions | 1 235 828 | headers, mempool part and statuses are current, and become so |
| `script_history` | two clients, two branches, a cache of two references, two tries, a prefix collision | 10 212 | exact histories, cache bound, termination |
| `address_cache` | five blocks in two branches, one transaction mined in both at different heights, scripts added at any start, a kill at any step, a spend of value zero | 972 | exact histories, snapshots, no stale block |
| `queries` | four blocks in two branches, a payment and its spend, every route and argument, heights up to 2 and counts up to 3, two moves of chain or mempool per request | 474 139 | what answers say was so; when they are complete |
| `rest_server` | three peers, two slots, one permit (configured as zero), requests framed in every way | 3 332 | accounting, framing, every wait ends, cheap requests are answered |
| `electrum` | a session on each listener, a REST submission, two sessions and two lines in all, every case of a line, both ways to broadcast | 513 212 | answers and their verdicts, versions, monitor, privacy, pushes end |
| `web` | two workers, two requests, two changes of the chain, one failed sync, panics, a node that may fall silent | 497 762 | coherent answers, none after a panic of the syncer, all are answered while the node answers |

Runs that refute what a comment says (section 6): `writer_retry`,
`subscriptions_skip`.

The bounds are chosen so that the interesting cases happen.  The block tree has
two competing blocks whose header keys are equal and others whose txnum ranges
overlap without being equal; three moves let the node leave a branch, return and
leave again; two faults let a restart fail once more.  `CHUNK_SIZE = 2` puts
block and chunk boundaries in every position to each other.  In the mempool, a
replacement with a descendant of what it replaces is the smallest case in which
the order of removals and insertions matters, and five moves are enough to
build, replace, mine and evict it.  A cache of two references holds neither
script's longest history together with another.  In `queries` two moves are a
block that comes and the poll after it, a reorg there and back, or the mining of
a parent and its child; one branch has a block of five transactions, so that
proofs meet an odd level that is not the last, and the other has the same
transactions at other heights and positions; `CONF_FINAL = 1` and limits of one
put every boundary within three blocks.  In `electrum` two lines are enough for a
request that overlaps another session's reset, end or submission, and two pushes
may overlap in any order; three would repeat these pairs.  Its lines have a
package in a batch (a REST request submits one on its own), and negotiations, good
and bad, that may follow one another in a session.  In `web` two readers
and a writer are all the kinds of contention the lock knows.  `rest_server` has
one connection more than slots and two more than permits.  Every property has a
mutant in `PROJECT.json`, a plausible mistake in the code it speaks of, that TLC
catches within these bounds.

Fairness.  The writer's loop never ends and its supervisor restarts it
(`WF` of `WriterStep`); refresh and poll tasks run on timers, whether or not a
ZMQ wake-up arrives (`WF` of `RefreshSecondary`, `PollStep`, `TaskStep`); a
session and a query that can go on are scheduled by the runtime (`WF`).  A
session waits in a `select!` whose branches are polled in random order, so that
a ready change is not passed over for ever: `SF` of `Changed`.  In `RestServer`
timers fire, a free permit is handed over, and a handler that needs only memory
returns; the other handlers may never return.  In `ElectrumServer` `PUSH_TIMEOUT`
fires and the task that waited goes on.  In `WebServer` threads run, and a worker
that wants the read lock gets it in one of the syncer's pauses: the lock is free
again and again for two seconds, which is `SF` of `ReadLock`.

Of the node more is assumed than the code can enforce: neither its REST nor its
RPC client has a timeout, so `SecondaryCatchesUp`, `IndexFollows`, `QueriesEnd`
and `StatusSettles` rest on requests to it that return, with an answer or an
error.  `TakenAnswered` does not: there the node may fall silent at any moment,
steps that wait for it are no longer enabled, and the property says what is left.
`WaitsEnd`, `CheapAnswered` and `PushesEnd` concern no request to the node.
Nothing is assumed of the proxy, the endpoint and clients.  Where a liveness
property needs moves and faults to stop, a bound in the model stops them.

The runs of `ElectrumServer` and `WebServer` have `CHECK_DEADLOCK FALSE`, because
the system may stop: when all clients have left; when the syncer has panicked and
every request was answered, or the node is silent and everyone waits for it.

## 4. Properties

The type invariant of a module is a run's own invariant for the writer and the
mempool, for which it is also a theorem; in the other modules it is the first
conjunct of the invariant named first below.

* Writer: `StoreInSync` (the store holds exactly the in-memory chain's rows),
  `DiskIsAChain` (at every moment the disk is one linked chain and its rows),
  `LookupsResolve` (every row leads to its transaction and every transaction is
  found), `BatchLinks` (the assertions of `Builder::build` and `Headers::add`).
* Reader: `SecondaryInSync` (after a complete refresh its chain is that of the
  rows it reads, and it always links), `ImplementsIndexLog`,
  `SecondaryCatchesUp`.
* Mempool: `IndexConsistent`, `NoDoubleSpends`, `ViewsExact` (a script's view,
  next to any chain that may confirm part of the index, lists nothing twice and
  misses nothing), `IndexFollows`.
* Subscriptions: `HeaderCurrent`, `MempoolCurrent`, `StatusCurrent`,
  `StatusSettles`.
* Histories: `HistoryExact`, `CacheBounded`, `QueriesEnd`.
* Address cache: `CacheExact`, `SavedIsSnapshot`.
* Queries: `AnswersGenuine` (whatever an answer says was so at a moment of the
  request, reorgs or not), `ReadsCoherent` (without a reorg the reads of one
  request fit together, lifetimes included), `NothingOverlooked` (what was there
  all the time is found; a spent output is not called unspent), `UtxosExact`,
  `WalksComplete`.
* REST connections: `Accounting`, `FramingSafe`, `WaitsEnd`, `CheapAnswered`.
* Electrum: `AnswersMatch` (each answer is its own request's, and transactions
  that it says were taken, by being a result or, for a package, by the verdict
  in it, were), `VersionAgreed` (the version lies in both ranges; the document
  wants more, see section 6), `MonitorExact` (clients, figures
  and file), `PushesPrivate`, `PushesEnd`.
* Web: `AnswersCoherent`, `PoisonedAnswersNothing`, `TakenAnswered` (a request
  that was taken is answered, or lost with its worker, unless the node falls
  silent, and one that has no more need of it or of the lock even then).

## 5. Proofs

The theorems hold for every value of the constants that satisfies the modules'
assumptions: every block tree, set of transactions, number of sessions,
connections or workers, limit, and number of moves and faults.  Each rests on an
inductive invariant, shown to hold initially, to be preserved by each action,
and to imply the property.

**Writer** (`Secondary_proofs`, first part).  A writer which restarts after an error
(`~RetryInProcess`; the other case is refuted by `writer_retry`) has `TypeOK`,
`StoreInSync`, `DiskIsAChain`, `BatchLinks` and `LookupsResolve` for ever.

`StoreInSync` says nothing about the moments in which memory and disk differ,
so it is not inductive.  The invariant `IInv` says what the disk is at each
place of `sync`: the rows of some chain when the process is down; of `headers`
when it is idle or collecting blocks; of `headers \o batch` after the write; of
`headers` and the block to be dropped during `drop_tip`.  `Chain(s)` is what a
header chain must satisfy for that to determine the rows: heights, links, and
txnums that add up.  The argument rests on three lemmas: `PartsDisjoint`, the
rows of different blocks of a chain have different keys (their txnum ranges do
not overlap); hence `WriteAppends` and `DeleteRemoves`, writing or deleting one
block's rows takes `BatchRows` of one chain to that of the longer or shorter
one; and `ReadBack`, header rows read in key order are the chain they were
written from, which is what a restart relies on.  `LookupsResolve` follows from
`StoreInSync` and what `FindByTxnum` and `GetTxBlockPos` return for each
transaction of a chain (`Finds` and the lemmas after it): the blocks that end at
or before a txnum are exactly those below its own, and the first txpos row at or
after it is that of its chunk.  Assumptions: the block tree is a tree
(`PathAssumption`), Bitcoin blocks have a transaction (`TxsAssumption`), and the
limits and the chunk size are positive.

**Reader** (`Secondary_proofs`, second part, under the same condition).  `SecondaryInSync`, from `SInv`: the reader holds a chain, and
after a complete refresh its store is the rows of it.  A block hash determines
the chain up to that block (`SharedPrefix`), so a row with the tip's hash can
only be that of the tip, at its height; header keys grow along a chain, so the
rows from its key on are the rest of the disk's chain.  And `ImplementsIndexLog`:
each step of writer and reader is one of `IndexLog` or changes nothing it shows.

**Mempool** (`Mempool_proofs`).  `TypeOK`, `IndexConsistent`, `NoDoubleSpends`
and `ViewsExact`.  `PollInv` adds that what the index will hold after the poll
(`Target`) is free of conflicts, which is where the snapshot comes in: removals
and arrivals come from one snapshot, in which the node had no conflicts, and
skipping bodies only makes the set smaller; and that the maps are exact for each
outpoint and script (`Exact`) in the middle of the changes too, since removals
come first and what is inserted conflicts with nothing that is left.
`ViewsExact` then needs no further invariant: it is what `script_txids` and
`script_view` return on exact maps.

**Script histories** (`ScriptHistory_proofs`).  `HistoryExact` and
`CacheBounded`.  Neither is inductive: an answer is right because of what the
cache held two steps earlier, put there by another client at another tip.
`IInv` says what every entry and every query is: an entry's fold is that of its
references, whichever tip they came from, scripts occur once, and the count is
that of the entries (`CacheInv`); a query's references are those of the tip it
names, its fold that of the first `start` of them and later of all (`Knows`).
No entry has to belong to the present chain, since a query folds on only from
references that are the first of its own, and folding in two parts is folding at
once (`FoldOnJoin`).  That leaves what a fold of a whole chain computes
(`FoldIsReference`): after each reference, the rows are those of the script's
transactions, `funded` all outputs it was paid, `live` the unspent ones and
`peak` the most there ever were (`Good`).  Passing over a transaction that is not
indexed, or applying one that merely shares the prefix, changes none of that;
the inputs of the script are exactly those that spend from `funded`, which rests
on `ChainAssumption`.  For the cache, `Evicted` is shown to exist and to leave
the longest run of recent entries within the bound (`EvictedFacts`), and removing
an entry to lower the count by its references (`RefsInRemoved`).

**Subscriptions** (`Subscriptions_proofs`).  `HeaderCurrent`, `MempoolCurrent`
and `StatusCurrent`.  Without failures a refresh is announced before the next
one, so the tip is the announced one or the one about to be; the session's tip
is the announced one unless a change is pending; and its copy of a history was
read at the session's tip or at the current one, unless the announced tip is
another one, and then the next round reads it again (`HistoryFollows`).  Only a
tip that comes back could make the last two agree without a round in between,
which is the case that `subscriptions_skip` shows.

**Address cache** (`Programs_proofs`, first part).  `CacheExact` and `SavedIsSnapshot`.
`CacheInv` follows the foreign keys: an entry has a transaction and a
transaction a header, in the committed tables as in those of the open database
transaction (`OnChain`).  So a row that `drop_stale_blocks` spares lies below an
active header, where both chains agree, and of each script the history up to
some height is left (`DroppedIsPrefix`); all that is missing is above it, and
what `locations_by_scripthash` returns (`CollectedIsRest`); and when the earliest
of the missing locations is next, what it spends has its entry and its
transaction (`SpendingExact`).  Assumptions: chains that share a block share
what is below it, a transaction comes after those it spends from
(`ChainAssumption`), and txids are unique in a chain.

**REST connections** (`RestServer_proofs`).  `Accounting`, by counting, for each
action, the connections that hold a slot, a permit or a place in the queue; and
`FramingSafe`, from `Framed`: a connection that has lost its place is not kept,
which rests on `content_length` agreeing with whatever can be taken for the
length (`MessagesAssumption` says what the fields of a request mean).

**Sessions and submissions** (`ElectrumServer_proofs`).  `PushesPrivate`: the
counter of every push under way or POSTed is below `seq` and none is used twice,
whatever the clock reads.  `AnswersMatch`: the answers given are those of the
requests before `next` (`Matched`), and a session that waits has its own push,
of its own request, out (`Awaits`); what a finished push says was taken was
(`SuccessIsAccepted`), the verdict inside a package's result included.  `VersionAgreed`: `Below` is a strict weak
order on versions with any number of components, what `FromStr` drops makes no
difference to it, and `Negotiate` picks a version within both ranges.
`MonitorExact`: that the totals agree with the sums over methods and over
clients needs what a sum over a finite set does when one summand changes
(`SumMoves`), which is proved from the definition of the fold; the list of
clients and the file follow from what each session and each change of the
figures leaves.  Assumption: the methods are finitely many.

**Web server** (`Programs_proofs`, second part).  `AnswersCoherent` and the action property
`PoisonedAnswersNothing`.  Nobody reads while the syncer holds the write lock, or
after it died holding it, so what a reader has read is the chain as it is; what
any request has read is no newer than the chain, nor than the tip of a last sync
that did not fail.

**Queries** (`Queries_proofs`; the invariants are in `QueriesInv`).
`NothingOverlooked`, `ReadsCoherent`, `AnswersGenuine`, `UtxosExact` and
`WalksComplete`.  They speak of the answer, so none is
inductive: the invariants say what a request knows after each of its reads, in
terms of the views (`past`) served since it came.  As long as the chain only
grew, the tip has grown from all of them (`Current`), which only the first two
need.

`KnowsInv` is about what was *not* found.  `transaction.get` on its way from the
mempool to the chain knows a view in which the transaction was not in the pool;
if the chain, which has grown from that one, does not have it either, it was in
neither then (`GetSound`).  `find_tx`, which looks the other way round, knows a
view whose chain does not have it, and needs that it was not mined meanwhile
(`TxSound`).  `outspend` knows where the output was, then a view in which no
mempool transaction spent it, then that the chain's references up to a tip have
no spender, from the height of the funding transaction on, below which none can
be (`OutSound`, `SpendsAll`).

`FitsInv` is about what *was* found: an entry whose time is still to be read is
at its height in the chain of some view, and so in every later one (`Spot`,
`Anchored`); a list of blocks under way goes down from the tip of one view
(`Listing`), and `LifetimeFits` says that the height a lifetime is computed from
is that of the block the answer is about.

`GenuineInv` holds through reorgs too.  What is listed was so (`Solid`); a
transaction found, or a spender, that the request still has to add something to
was there and is what was looked for (`OnTheWay`); an answer claims no more
(`Claims`).  Views are only added to `past`, so none of this is lost
(`GenuineGrows`).  It contains `TypeOK`.  For the merkle proofs it needs that the
position is checked against the block that is at that height now
(`PositionFacts`), and `BranchLeadsToRoot`, a theorem of its own about
`branch_and_root`: the levels it goes through are those of the tree
(`RootClimbed`), and a client that has followed the branch so far stands at the
node that its loop stood at (`JoinFollows`), until the level has one node, which
takes fewer turns than there are leaves (`Reached`).

`TalliesInv` is about the outputs of a script.  The rows that `utxo` and
`listunspent` start from are the outputs that the chain of one view leaves
unspent; once the mempool has been read, what is shown and what still waits for
its block and time are together what that chain and the mempool of another view
leave (`Exactly`), each output once, or a transaction of the script was in both
(`Twice`), which only `utxo` lists twice.  `BothLeft` puts the two halves
together, `ViewSettles` does it for the view of the mempool that `listunspent`
goes through, and `ExactlyMoves` says that an output that gets its block and time
stays the same one.  If nothing of the script moved, the two views leave what
there is now (`SteadyExact`).

`WalksInv` is about pages.  An order is the set of its pairs: `Arrivals`, in
which the mempool lists its transactions, and `Newer`, in which the rows of a
script are listed.  What a walk has listed, with what its page has still to
resolve, stands in that order and is of the rows (`Rowed`, `InTurn`), and what
was there all the time is in it or comes behind it (`Reaches`); between two
pages the cursor is the last one listed (`Turning`).  So nothing is listed twice
and, once a page has nothing behind it, nothing is left out.  `LaterFacts` and
`RestLeaves` say what a cursor leaves for the next page, `PageTurned` that a page
takes the first part of it.  The cursor of the mempool need not be there any
more, since its place in the order is known; that of the chain is, as long as
the chain only grows, and growth keeps the order of the rows there are
(`RowsGrow`).  `RowsDesc` says
which sequence the sorted rows are (a `CHOOSE`), and `Sortable` that there is
one.

`FitsInv`, `GenuineInv`, `TalliesInv` and `WalksInv` were checked with TLC on the instance of
`queries` before they were proved.

Assumptions (`ChainAssumption`): a block stands on the chain of the one before
it, a transaction is in a chain once, comes after those it spends from, and no
two of a chain spend the same output.  The heights and counts a request may ask
for are any natural numbers (`ArgumentsAssumption`).

### Only model-checked

Liveness, under fairness, is out of the prover's reach.

The library's induction theorems take an operator as a parameter, which the
provers cannot instantiate.  What a recursive function computes is therefore
proved by looking at a least counterexample (`Least`, `LeastNumber`), once for
each definition: header chains, versions, heights, folds, selections and counts
of references, sums, the levels of a tree and the hashes of a branch.

## 6. Findings and observations

Refuted by a run:

* `writer_retry`: `drop_tip` pops the tip before the request that may fail.
  `bindex-web` goes on with the shortened chain, and the stale block's rows stay
  in the store.
* `subscriptions_skip`: a subscribe request reads the history at a tip that is not
  announced yet.  That tip is announced, and so is the earlier one once the index
  has gone back to it, but the channel keeps only the last value: a session that
  has read neither finds the tip it has checked already, and the status of the
  other one stays.

What else the models had to allow, and the properties therefore state as
conditions:

* A refresh that fails after the store caught up leaves a reader whose rows are
  ahead of its chain until a later refresh succeeds (`sok` in `Secondary`).
* A script whose lookup fails in a round of notifications is passed over and the
  tip counted as checked (`failures` in `StatusCurrent`).
* A mempool entry whose parent is confirmed, but not part of the script's own
  history and not yet removed from the index, has height -1.
* `find_tx` looks in the chain first and then in the mempool: a transaction that
  is mined and refreshed in between is in neither (`Arrived` in
  `NothingOverlooked`).  `prevout` and `transaction.get` look the other way round
  and do not miss it.  `outspend` inherits this.
* Under a reorg, `outspend` scans from a funding height that may be stale,
  `merkleblock` may carry the header of another block than its transactions, and
  `/blocks` may mix two branches.
* `utxo` lists an output twice between the refresh that mined it and the poll
  that removes it from the mempool index; `listunspent` does not.
* `block_headers` does not reject a range that ends above `cp_height`
  (`docs/electrum-bindex-spec.md:413`).
* Negotiation differs from `docs/electrum-bindex-spec.md` in four respects, which
  `VersionAgreed` therefore does not claim: a later `server.version` on a
  connection is not rejected (`:236`) but agrees on a version again, as in
  `electrum` it does; the call need not be the first message (`:206`); if the
  ranges do not overlap, the session gets an error and goes on with the version it
  had (`:225` closes the connection); a call without a version is taken as any up
  to the server's highest, with which a session also begins (`:211`, `:276` say
  1.4).
* `broadcast_package` is served on every version and returns the result of
  `submitpackage` as it is, whatever `verbose` says; the document has it for 1.6
  only and, without `verbose`, an object with `success` and `errors`
  (`docs/electrum-bindex-spec.md:575-592`).  Either way a refusal may be a result
  (`:900`), which is why `AnswersMatch` speaks of the verdict in it.
* `is_expensive` calls the other routes answerable from memory
  (`rest/handlers.rs:64`); `/block` and `/tx` ask the node all the same.
* The RPC client and the writes of REST and Electrum answers have no timeout:
  only pushes over Tor do.  So `WaitsEnd` and `PushesEnd` leave them out.
* A 2xx from the endpoint counts as success; another txid in its body is only
  logged.
* The monitor keys clients by address, which both listeners may see (`shared` in
  `ActiveExact`).
* In `bindex-web` a worker that panicked is gone for good, a panic of the syncer
  does not show on the monitor page, and the branch of `sync_loop` for a
  poisoned lock cannot be reached.  All workers may wait while the syncer catches
  up, and for ever if the node ceases to answer without closing its connections:
  its requests have no timeout (`client.rs:36-55`, `chain.rs:224-236`) and are made
  under the write lock (`main.rs:272-274`), which the status page also waits for.

## 7. Not modelled

* Formats: `rest/types.rs`, `liquid_types.rs`, `format.rs`, JSON and byte
  encodings, hashing, percent-encoding and query strings.  They are pure
  conversions, compared with expected output by unit tests.  `assets.rs` passes
  requests on to another server.
* REST statistics, summaries and fee estimates: each is one read of a history
  and one of the mempool, and arithmetic on the result.
* Power loss before a flush of RocksDB; two coinbase transactions with one txid
  (before BIP30), for which the address cache's unique `tx_id` has no room;
  reorgs that return transactions to the mempool; the retry counter of a single
  request to the node; credentials of two processes that start in the same
  nanosecond with the same pid.
* Configuration files, TLS, log output.

## 8. Plan

Done, in this order: writer; reader and refinement; mempool; subscriptions;
script histories; address cache; proofs of writer and mempool; queries and
merkle proofs; REST connections; sessions, submissions and monitor; web server;
proofs of the reader, lookups, mempool views, subscriptions, address cache, REST
connections, sessions and submissions, and the web server; proofs of script
histories, their cache, the monitor's figures, merkle branches, and of what the
queries say, how it fits together, what they may not overlook, what they list
as unspent, and what a walk through pages has listed.

All that the runs check of safety is proved, but for what `writer_retry` and
`subscriptions_skip` refute.
