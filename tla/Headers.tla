------------------------------- MODULE Headers -------------------------------
(***************************************************************************)
(* The rows of the index: what bindex-lib stores for a block, how the      *)
(* in-memory header chain is read back from those rows, and how a          *)
(* transaction number is resolved to a block and a place in it.            *)
(*                                                                         *)
(* Blocks are abstract.  Path[b] is the chain of blocks from genesis to b, *)
(* which a block hash determines; Txs[b] is the list of b's transactions,  *)
(* each reduced to the set of key prefixes it is indexed under (its txid   *)
(* prefix and the prefixes of the scripts it funds or spends).             *)
(***************************************************************************)
EXTENDS Naturals, Sequences, FiniteSets

CONSTANTS
  Blocks,      \* block hashes
  NoBlock,     \* the all-zeros hash
  Path,        \* Path[b]: the blocks from genesis to b
  Prefixes,    \* prefixes of txids and script hashes
  Txs,         \* Txs[b]: the prefixes each transaction of b is indexed under
  Liquid,      \* whether the crate is built with the "liquid" feature
  CHUNK_SIZE   \* transactions per txpos row (64 in the code)

ASSUME BlocksAssumption == NoBlock \notin Blocks

ASSUME PathAssumption ==
  /\ Path \in [Blocks -> Seq(Blocks)]
  /\ \A b \in Blocks :
       /\ Len(Path[b]) > 0
       /\ Path[b][Len(Path[b])] = b
       /\ \A i \in 1..Len(Path[b]) : Path[Path[b][i]] = SubSeq(Path[b], 1, i)
       /\ \A c \in Blocks : Path[b][1] = Path[c][1]

ASSUME LiquidAssumption == Liquid \in BOOLEAN

\* Every Bitcoin block has a coinbase; a Liquid block of a pruned node is empty.
ASSUME TxsAssumption ==
  /\ Txs \in [Blocks -> Seq(SUBSET Prefixes)]
  /\ ~Liquid => \A b \in Blocks : Len(Txs[b]) > 0

ASSUME ChunkAssumption == CHUNK_SIZE \in Nat \ {0}

TxsCount(b) == Len(Txs[b])

-----------------------------------------------------------------------------
(* Header rows and the chain they form *)

IndexedHeader ==
  [height : Nat, next_txnum : Nat, hash : Blocks,
   prev_blockhash : Blocks \cup {NoBlock}]

\* The previous block hash, as the block's own header carries it.
PrevBlockhash(b) ==
  IF Len(Path[b]) = 1 THEN NoBlock ELSE Path[b][Len(Path[b]) - 1]

TipHash(s) == IF s = <<>> THEN NoBlock ELSE s[Len(s)].hash

NextTxnum(s) == IF s = <<>> THEN 0 ELSE s[Len(s)].next_txnum

NextHeight(s) == IF s = <<>> THEN 0 ELSE s[Len(s)].height + 1

\* (each block takes one transaction number)
NewHeader_NoAdvance(s, b) ==
  [height |-> NextHeight(s), next_txnum |-> NextTxnum(s) + 1,
   hash |-> b, prev_blockhash |-> PrevBlockhash(b)]

\* The header row the Builder gives to block b on top of the chain s.
NewHeader(s, b) ==
  [height |-> NextHeight(s), next_txnum |-> NextTxnum(s) + TxsCount(b),
   hash |-> b, prev_blockhash |-> PrevBlockhash(b)]

\* What Headers::new and Headers::add assert of a chain of header rows.
Linked(s) ==
  \A i \in DOMAIN s :
    /\ s[i].prev_blockhash = IF i = 1 THEN NoBlock ELSE s[i - 1].hash
    /\ s[i].height = i - 1

-----------------------------------------------------------------------------
(* The rows of one block.  A row is a key and a value; a column family is a *)
(* set of rows with distinct keys.                                          *)

FirstTxnum(h) == h.next_txnum - TxsCount(h.hash)

\* script_hash and txid column families: key = prefix || txnum, no value.
HashRows(h) ==
  UNION { { [key |-> <<p, FirstTxnum(h) + i - 1>>, val |-> ""] :
              p \in Txs[h.hash][i] } : i \in 1..TxsCount(h.hash) }

\* txpos column family: one row per chunk of transactions, keyed by the txnum
\* of the last one.  Its byte offsets are the places of transactions
\* last - len + 1 .. last of the block.
TxposRows(h) ==
  { [key |-> FirstTxnum(h) + e - 1,
     val |-> [block |-> h.hash, last |-> e,
              len |-> IF e % CHUNK_SIZE = 0 THEN CHUNK_SIZE ELSE e % CHUNK_SIZE]] :
      e \in { i \in 1..TxsCount(h.hash) :
                i % CHUNK_SIZE = 0 \/ i = TxsCount(h.hash) } }

HeaderKey(h) == IF Liquid THEN h.height ELSE h.next_txnum

\* headers column family: a Bitcoin value has no txnum, its key is the txnum.
HeaderRow(h) ==
  [key |-> HeaderKey(h),
   val |-> [hash |-> h.hash, prev_blockhash |-> h.prev_blockhash,
            txnum |-> IF Liquid THEN h.next_txnum ELSE 0]]

\* The rows of the blocks of a chain s.
BatchRows(s) ==
  [hashes  |-> UNION { HashRows(s[i]) : i \in DOMAIN s },
   txpos   |-> UNION { TxposRows(s[i]) : i \in DOMAIN s },
   headers |-> { HeaderRow(s[i]) : i \in DOMAIN s }]

EmptyStore == [hashes |-> {}, txpos |-> {}, headers |-> {}]

\* Deleting keys from a column family, and putting rows over equal keys.
DeleteCf(cf, rows) == { r \in cf : \A q \in rows : q.key # r.key }
PutCf(cf, rows) == DeleteCf(cf, rows) \cup rows

DbWrite(st, rows) ==
  [hashes  |-> PutCf(st.hashes, rows.hashes),
   txpos   |-> PutCf(st.txpos, rows.txpos),
   headers |-> PutCf(st.headers, rows.headers)]

\* (script and txid rows stay)
DbDelete_KeepsHashes(st, rows) ==
  [hashes  |-> st.hashes,
   txpos   |-> DeleteCf(st.txpos, rows.txpos),
   headers |-> DeleteCf(st.headers, rows.headers)]

DbDelete(st, rows) ==
  [hashes  |-> DeleteCf(st.hashes, rows.hashes),
   txpos   |-> DeleteCf(st.txpos, rows.txpos),
   headers |-> DeleteCf(st.headers, rows.headers)]

-----------------------------------------------------------------------------
(* Reading the header chain back *)

\* The row at a position (from 0) of the key order the iterator follows.
RowAt(cf, position) ==
  CHOOSE r \in cf : Cardinality({ q \in cf : q.key < r.key }) = position

Deserialize(row, position) ==
  [height |-> IF Liquid THEN row.key ELSE position,
   next_txnum |-> IF Liquid THEN row.val.txnum ELSE row.key,
   hash |-> row.val.hash, prev_blockhash |-> row.val.prev_blockhash]

\* DB::headers
DbHeaders(st) ==
  [i \in 1..Cardinality(st.headers) |->
     Deserialize(RowAt(st.headers, i - 1), i - 1)]

\* DB::headers_from: the rows with a key of at least `key`; the first is
\* given the height first_height.
DbHeadersFrom(st, key, first_height) ==
  LET cf == { r \in st.headers : r.key >= key }
  IN  [i \in 1..Cardinality(cf) |->
         Deserialize(RowAt(cf, i - 1), first_height + i - 1)]

-----------------------------------------------------------------------------
(* Lookups *)

NoLocation == [hash |-> NoBlock, height |-> 0, offset |-> 0]

\* (a transaction number equal to next_txnum counts as before it)
FindByTxnum_OffByOne(s, n) ==
  LET height == Cardinality({ i \in DOMAIN s : s[i].next_txnum < n })
  IN  IF height = Len(s)
        THEN NoLocation
        ELSE [hash |-> s[height + 1].hash, height |-> height,
              offset |-> n - (IF height = 0 THEN 0 ELSE s[height].next_txnum)]

\* Headers::find_by_txnum: partition_point counts the headers whose
\* next_txnum is at most n.  NoLocation is the panic "missing height".  For
\* the genesis block the code's `block_height - 1` wraps, and the lookup at
\* the wrapped index yields the default txnum 0 (release build).
FindByTxnum(s, n) ==
  LET height == Cardinality({ i \in DOMAIN s : s[i].next_txnum <= n })
  IN  IF height = Len(s)
        THEN NoLocation
        ELSE [hash |-> s[height + 1].hash, height |-> height,
              offset |-> n - (IF height = 0 THEN 0 ELSE s[height].next_txnum)]

NoPos == [block |-> NoBlock, tx |-> 0]

\* DB::get_tx_block_pos: the first txpos row at or after n, and the
\* transaction counted back from the end of its chunk; NoPos is a panic.
GetTxBlockPos(st, n) ==
  LET after == { r \in st.txpos : r.key >= n }
  IN  IF after = {}
        THEN NoPos
        ELSE LET row == CHOOSE r \in after : \A q \in after : r.key <= q.key
                 delta == row.key - n
             IN  IF delta >= row.val.len
                   THEN NoPos
                   ELSE [block |-> row.val.block, tx |-> row.val.last - delta]

\* Every row of the hash column families resolves, through the header chain
\* and the txpos rows, to a transaction that is indexed under its prefix ...
RowsResolve(s, st) ==
  \A r \in st.hashes :
    LET loc == FindByTxnum(s, r.key[2])
    IN  /\ loc # NoLocation
        /\ loc.offset < TxsCount(loc.hash)
        /\ r.key[1] \in Txs[loc.hash][loc.offset + 1]
        /\ GetTxBlockPos(st, r.key[2]) = [block |-> loc.hash, tx |-> loc.offset + 1]

\* ... and every transaction of the chain is found under each of its prefixes.
TxsFound(s, st) ==
  \A i \in DOMAIN s :
    \A j \in 1..TxsCount(s[i].hash) :
      \A p \in Txs[s[i].hash][j] :
        \E r \in st.hashes :
          /\ r.key[1] = p
          /\ FindByTxnum(s, r.key[2]) =
               [hash |-> s[i].hash, height |-> i - 1, offset |-> j - 1]
==============================================================================
