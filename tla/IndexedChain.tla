---------------------------- MODULE IndexedChain ----------------------------
(***************************************************************************)
(* The index writer: IndexedChain::sync as bindex-sync and bindex-web run  *)
(* it, against a node that extends and reorganises its active chain, with  *)
(* failing requests, kills and restarts.                                   *)
(*                                                                         *)
(* sync is split where it talks to the node or to RocksDB, so that the     *)
(* node may move, a request may fail and the process may die in between:   *)
(*                                                                         *)
(*   idle --get_headers--> index --fetch and build, per block--> index     *)
(*     |  <-- nothing new --'        '--store.write--> add --> idle        *)
(*     '--tip rolled back: pop--> drop --fetch, store.delete--> idle       *)
(***************************************************************************)
EXTENDS Headers

CONSTANTS
  Limit,           \* blocks per sync round (--batch)
  MaxTxNum,        \* largest TxNum (2^32 - 1 in the code)
  RetryInProcess,  \* TRUE: a failed sync is retried on the same in-memory
                   \* chain (bindex-web); FALSE: the process exits and a
                   \* restart reads the store again (bindex-sync, bindex-cli)
  MaxMoves,        \* bound: changes of the node's active chain
  MaxFaults        \* bound: failed requests, failed writes and kills

ASSUME WriterAssumption ==
  /\ Limit \in Nat \ {0}
  /\ MaxTxNum \in Nat
  /\ RetryInProcess \in BOOLEAN
  /\ MaxMoves \in Nat
  /\ MaxFaults \in Nat

VARIABLES
  active,   \* the node's best block
  store,    \* the RocksDB column families
  headers,  \* IndexedChain::headers, the in-memory chain
  pc,       \* where the writer is
  chunk,    \* block hashes still to fetch: new ones, or the stale tip
  batch,    \* header rows of the blocks already built in this round
  moves, faults

node   == <<active, moves>>
writer == <<headers, pc, chunk, batch>>
vars   == <<active, store, headers, pc, chunk, batch, moves, faults>>

TypeOK ==
  /\ active \in Blocks
  /\ headers \in Seq(IndexedHeader)
  /\ pc \in {"down", "idle", "index", "add", "drop", "poisoned"}
  /\ chunk \in Seq(Blocks)
  /\ batch \in Seq(IndexedHeader)
  /\ pc = "drop" => Len(chunk) = 1 /\ batch = <<>>
  /\ pc = "add" => chunk = <<>> /\ batch # <<>>
  /\ pc \in {"down", "idle", "poisoned"} => chunk = <<>> /\ batch = <<>>
  /\ moves \in 0..MaxMoves
  /\ faults \in 0..MaxFaults

Init ==
  /\ active \in Blocks
  /\ store = EmptyStore
  /\ headers = <<>> /\ pc = "down" /\ chunk = <<>> /\ batch = <<>>
  /\ moves = 0 /\ faults = 0

-----------------------------------------------------------------------------
(* The node *)

\* A block is on the active chain.  /rest/headers serves headers from it
\* onwards, and an empty answer for a block that is not.
OnActive(b) ==
  /\ Len(Path[b]) <= Len(Path[active])
  /\ Path[active][Len(Path[b])] = b

\* The best block changes: new blocks, a reorg, or invalidateblock.  Blocks
\* that left the active chain are still served by hash.
NodeMoves ==
  /\ moves < MaxMoves
  /\ moves' = moves + 1
  /\ \E b \in Blocks \ {active} : active' = b
  /\ UNCHANGED <<store, writer, faults>>

-----------------------------------------------------------------------------
(* Starting and stopping *)

\* from_config: the header chain is read from the store; Headers::new panics
\* on rows that do not link, and the process does not come up.
Open ==
  /\ pc = "down"
  /\ Linked(DbHeaders(store))
  /\ headers' = DbHeaders(store)
  /\ pc' = "idle"
  /\ UNCHANGED <<active, store, chunk, batch, moves, faults>>

\* What is in memory is lost.
Crash ==
  /\ pc # "down" /\ faults < MaxFaults
  /\ faults' = faults + 1
  /\ pc' = "down" /\ headers' = <<>> /\ chunk' = <<>> /\ batch' = <<>>
  /\ UNCHANGED <<active, store, moves>>

\* sync returns an error, with `hs` the in-memory chain at that point:
\* bindex-web keeps the chain and tries again, bindex-sync exits.
Abort(hs) ==
  /\ faults < MaxFaults
  /\ faults' = faults + 1
  /\ pc' = IF RetryInProcess THEN "idle" ELSE "down"
  /\ headers' = IF RetryInProcess THEN hs ELSE <<>>
  /\ chunk' = <<>> /\ batch' = <<>>

\* A request for headers or for a block fails, or RocksDB refuses the batch.
SyncError ==
  /\ pc \in {"idle", "index", "drop"}
  /\ Abort(headers)
  /\ UNCHANGED <<active, store, moves>>

-----------------------------------------------------------------------------
(* fetch_new_headers and drop_tip *)

\* (the tip is not skipped)
GetHeaders_NoSkip ==
  /\ pc = "idle"
  /\ headers # <<>> => OnActive(TipHash(headers))
  /\ LET known == IF headers = <<>> THEN 0 ELSE Len(Path[TipHash(headers)]) - 1
         asked == Limit + 1
         end == IF known + asked < Len(Path[active])
                  THEN known + asked ELSE Len(Path[active])
     IN  chunk' = SubSeq(Path[active], known + 1, end)
  /\ pc' = "index"
  /\ UNCHANGED <<active, store, headers, batch, moves, faults>>

\* Limit + 1 headers are asked for, from the tip on; the tip itself is
\* skipped, except that an empty chain starts with the genesis block.
GetHeaders ==
  /\ pc = "idle"
  /\ headers # <<>> => OnActive(TipHash(headers))
  /\ LET known == IF headers = <<>> THEN 0 ELSE Len(Path[TipHash(headers)])
         asked == IF headers = <<>> THEN Limit + 1 ELSE Limit
         end == IF known + asked < Len(Path[active])
                  THEN known + asked ELSE Len(Path[active])
     IN  chunk' = SubSeq(Path[active], known + 1, end)
  /\ pc' = "index"
  /\ UNCHANGED <<active, store, headers, batch, moves, faults>>

\* The answer is empty: the tip was rolled back.  drop_tip pops it first ...
RollBack ==
  /\ pc = "idle"
  /\ headers # <<>> /\ ~OnActive(TipHash(headers))
  /\ chunk' = <<TipHash(headers)>>
  /\ headers' = SubSeq(headers, 1, Len(headers) - 1)
  /\ pc' = "drop"
  /\ UNCHANGED <<active, store, batch, moves, faults>>

\* (the popped tip is forgotten, its rows are not deleted)
DropTip_NoDelete ==
  /\ pc = "drop"
  /\ chunk' = <<>> /\ pc' = "idle"
  /\ UNCHANGED <<active, store, headers, batch, moves, faults>>

\* ... and then fetches the stale block, indexes it again on top of what is
\* left, and deletes the rows this yields; the loop asks for headers again.
DropTip ==
  /\ pc = "drop"
  /\ store' = DbDelete(store, BatchRows(<<NewHeader(headers, chunk[1])>>))
  /\ chunk' = <<>> /\ pc' = "idle"
  /\ UNCHANGED <<active, headers, batch, moves, faults>>

-----------------------------------------------------------------------------
(* index and store.write *)

IndexNext == NewHeader(headers \o batch, chunk[1])

\* fetch_data and Builder::build for the next block; build asserts that the
\* block links to the one before it.
IndexBlock ==
  /\ pc = "index" /\ chunk # <<>>
  /\ IndexNext.next_txnum <= MaxTxNum
  /\ IndexNext.prev_blockhash = TipHash(headers \o batch)
  /\ batch' = Append(batch, IndexNext)
  /\ chunk' = Tail(chunk)
  /\ UNCHANGED <<active, store, headers, pc, moves, faults>>

\* TxNum::increment_by panics: bindex-sync dies, bindex-web's syncer leaves
\* the chain lock poisoned and can only report that from then on.
TxNumOverflow ==
  /\ pc = "index" /\ chunk # <<>>
  /\ IndexNext.next_txnum > MaxTxNum
  /\ pc' = IF RetryInProcess THEN "poisoned" ELSE "down"
  /\ headers' = IF RetryInProcess THEN headers ELSE <<>>
  /\ chunk' = <<>> /\ batch' = <<>>
  /\ UNCHANGED <<active, store, moves, faults>>

\* All blocks of the round go to the store in one atomic WriteBatch.
WriteBatches ==
  /\ pc = "index" /\ chunk = <<>> /\ batch # <<>>
  /\ store' = DbWrite(store, BatchRows(batch))
  /\ pc' = "add"
  /\ UNCHANGED <<active, headers, chunk, batch, moves, faults>>

\* (the batches added to the chain are kept for the next round)
AddHeaders_KeepsBatch ==
  /\ pc = "add"
  /\ headers' = headers \o batch
  /\ pc' = "idle"
  /\ UNCHANGED <<active, store, chunk, batch, moves, faults>>

\* The in-memory chain follows, and the column families are flushed.
AddHeaders ==
  /\ pc = "add"
  /\ headers' = headers \o batch
  /\ batch' = <<>> /\ pc' = "idle"
  /\ UNCHANGED <<active, store, chunk, moves, faults>>

FlushFails ==
  /\ pc = "add"
  /\ Abort(headers \o batch)
  /\ UNCHANGED <<active, store, moves>>

\* No new block: nothing is written, compactions are started, and the writer
\* waits for the next poll or announcement.
NothingNew ==
  /\ pc = "index" /\ chunk = <<>> /\ batch = <<>>
  /\ pc' = "idle"
  /\ UNCHANGED <<active, store, headers, chunk, batch, moves, faults>>

-----------------------------------------------------------------------------

WriterStep ==
  \/ Open \/ GetHeaders \/ RollBack \/ DropTip
  \/ IndexBlock \/ WriteBatches \/ AddHeaders \/ NothingNew

Next ==
  \/ NodeMoves \/ WriterStep
  \/ TxNumOverflow \/ SyncError \/ FlushFails \/ Crash

Spec == Init /\ [][Next]_vars

-----------------------------------------------------------------------------
(* Properties *)

\* Whenever the writer is between rounds or collecting blocks, the store holds
\* exactly the rows of the in-memory chain: no row of a rolled back block is
\* left behind and none of an indexed block is missing ("chain and store must
\* be in sync", locations_by_scripthash).
StoreInSync == pc \in {"idle", "index"} => store = BatchRows(headers)

\* At every moment, in the middle of a reorg included, the header rows on disk
\* form a chain that Headers::new accepts, so that a restart, or a reader that
\* reloads, never panics; and the other column families belong to that chain.
DiskIsAChain ==
  /\ Linked(DbHeaders(store))
  /\ store = BatchRows(DbHeaders(store))

\* Between rounds, every script or txid row resolves through find_by_txnum and
\* get_tx_block_pos to a transaction indexed under that prefix, and every
\* transaction of the chain is found under each of its prefixes.
LookupsResolve ==
  pc = "idle" => RowsResolve(headers, store) /\ TxsFound(headers, store)

\* The assertions of Builder::build and Headers::add: a block about to be
\* indexed always links to the chain built so far, though the node may have
\* reorganised since its header was fetched.
BatchLinks ==
  pc = "index" /\ chunk # <<>> =>
    PrevBlockhash(chunk[1]) = TipHash(headers \o batch)
==============================================================================
