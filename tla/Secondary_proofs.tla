-------------------------- MODULE Secondary_proofs --------------------------
(***************************************************************************)
(* Proofs about the index: its writer (IndexedChain) and its reader        *)
(* (Secondary), for every block tree, every contents of the blocks,        *)
(* Bitcoin and Liquid alike, and any number of node moves and faults, when *)
(* a failed sync ends the writer's process (bindex-sync, bindex-cli).      *)
(*                                                                         *)
(* The writer.  The store is described through a chain of header rows: the *)
(* in-memory chain between rounds, that chain with the stale tip still on  *)
(* it while a tip is dropped, and with the new blocks on it once they are  *)
(* written.                                                                *)
(*                                                                         *)
(* The reader.  Following the appended rows from its own tip on, a reader  *)
(* ends with the chain a full reload would give it, whatever happened to   *)
(* the writer in between; and writer and reader together implement         *)
(* IndexLog.  A block hash determines the chain up to that block, so a row *)
(* with the tip's hash can only be the row of the tip, at its height;      *)
(* header keys grow along a chain, so the rows from its key on are the     *)
(* rest of the disk's chain.                                               *)
(***************************************************************************)
EXTENDS Secondary, FiniteSetTheorems, WellFoundedInduction, TLAPS

-----------------------------------------------------------------------------
(* The inductive invariant *)

\* A chain of header rows as sync builds it: it links, and the txnum ranges
\* of its blocks are adjacent and in order.
Chain(s) ==
  /\ s \in Seq(IndexedHeader)
  /\ \A i \in 1..Len(s) :
       /\ s[i].height = i - 1
       /\ s[i].prev_blockhash = IF i = 1 THEN NoBlock ELSE s[i - 1].hash
       /\ s[i].prev_blockhash = PrevBlockhash(s[i].hash)
       /\ s[i].next_txnum =
            (IF i = 1 THEN 0 ELSE s[i - 1].next_txnum) + TxsCount(s[i].hash)
       /\ \A j \in 1..i : s[j].next_txnum <= s[i].next_txnum
       /\ \A j \in 1..(i - 1) : s[j].next_txnum <= FirstTxnum(s[i])

\* The blocks still to fetch continue the chain built so far.
ChunkLinks ==
  /\ chunk # <<>> => PrevBlockhash(chunk[1]) = TipHash(headers \o batch)
  /\ \A i \in 2..Len(chunk) : PrevBlockhash(chunk[i]) = chunk[i - 1]

\* The chain on disk, by where the writer is.
DiskInv ==
  /\ pc = "down" => \E s : Chain(s) /\ store = BatchRows(s)
  /\ pc \in {"idle", "index"} =>
       /\ Chain(headers)
       /\ Chain(headers \o batch)
       /\ store = BatchRows(headers)
       /\ pc = "index" => ChunkLinks
  /\ pc = "drop" =>
       LET s == Append(headers, NewHeader(headers, chunk[1]))
       IN  Chain(s) /\ store = BatchRows(s)
  /\ pc = "add" =>
       Chain(headers \o batch) /\ store = BatchRows(headers \o batch)
  /\ pc # "poisoned"

IInv == TypeOK /\ DiskInv

-----------------------------------------------------------------------------
(* Rows and their keys *)

USE DEF TxsCount

LEMMA CountType == \A b \in Blocks : Len(Txs[b]) \in Nat
BY TxsAssumption

\* The keys of a block's rows lie in its txnum range.
LEMMA HashKeys ==
  ASSUME NEW h, NEW r \in HashRows(h)
  PROVE  \E p, i : i \in 1..TxsCount(h.hash) /\ r.key = <<p, FirstTxnum(h) + i - 1>>
<1>1. PICK i \in 1..TxsCount(h.hash) :
        r \in { [key |-> <<p, FirstTxnum(h) + i - 1>>, val |-> ""] : p \in Txs[h.hash][i] }
  BY DEF HashRows
<1>2. PICK p \in Txs[h.hash][i] : r = [key |-> <<p, FirstTxnum(h) + i - 1>>, val |-> ""]
  BY <1>1
<1>3. QED
  BY <1>2

LEMMA TxposKeys ==
  ASSUME NEW h, NEW r \in TxposRows(h)
  PROVE  \E i \in 1..TxsCount(h.hash) : r.key = FirstTxnum(h) + i - 1
BY DEF TxposRows

\* A chain's blocks have their own txnum ranges, and their header keys grow.
LEMMA Ranges ==
  ASSUME NEW s, Chain(s), NEW i \in 1..Len(s)
  PROVE  /\ s[i] \in IndexedHeader
         /\ TxsCount(s[i].hash) \in Nat
         /\ FirstTxnum(s[i]) \in Nat
         /\ s[i].next_txnum = FirstTxnum(s[i]) + TxsCount(s[i].hash)
         /\ \A j \in 1..Len(s) : i < j => s[i].next_txnum <= FirstTxnum(s[j])
<1>1. s[i] \in IndexedHeader
  BY DEF Chain
<1>2. TxsCount(s[i].hash) \in Nat /\ s[i].next_txnum \in Nat
  BY <1>1, CountType DEF IndexedHeader
<1>3. s[i].next_txnum = (IF i = 1 THEN 0 ELSE s[i - 1].next_txnum) + TxsCount(s[i].hash)
  BY DEF Chain
<1>4. (IF i = 1 THEN 0 ELSE s[i - 1].next_txnum) \in Nat
  <2>1. CASE i = 1
    BY <2>1
  <2>2. CASE i # 1
    <3>1. i - 1 \in 1..Len(s) /\ s \in Seq(IndexedHeader)
      BY <2>2 DEF Chain
    <3>2. s[i - 1] \in IndexedHeader
      BY <3>1
    <3>3. QED
      BY <2>2, <3>2 DEF IndexedHeader
  <2>3. QED
    BY <2>1, <2>2
<1>5. FirstTxnum(s[i]) \in Nat /\ s[i].next_txnum = FirstTxnum(s[i]) + TxsCount(s[i].hash)
  <2>1. FirstTxnum(s[i]) = s[i].next_txnum - TxsCount(s[i].hash)
    BY DEF FirstTxnum
  <2>2. PICK x \in Nat : s[i].next_txnum = x + TxsCount(s[i].hash)
    BY <1>3, <1>4
  <2>3. QED
    BY <1>2, <2>1, <2>2
<1>6. \A j \in 1..Len(s) : i < j => s[i].next_txnum <= FirstTxnum(s[j])
  BY DEF Chain
<1>7. QED
  BY <1>1, <1>2, <1>5, <1>6

LEMMA HeaderKeysGrow ==
  ASSUME NEW s, Chain(s), NEW i \in 1..Len(s), NEW j \in 1..Len(s), i < j
  PROVE  /\ HeaderKey(s[i]) \in Nat /\ HeaderKey(s[j]) \in Nat
         /\ HeaderKey(s[i]) < HeaderKey(s[j])
<1>1. CASE Liquid
  BY <1>1 DEF Chain, HeaderKey, IndexedHeader
<1>2. CASE ~Liquid
  <2>1. s[i] \in IndexedHeader /\ s[j] \in IndexedHeader
    BY Ranges
  <2>2. TxsCount(s[j].hash) \in Nat \ {0}
    BY <1>2, <2>1, TxsAssumption DEF IndexedHeader
  <2>3. /\ FirstTxnum(s[j]) \in Nat
        /\ s[j].next_txnum = FirstTxnum(s[j]) + TxsCount(s[j].hash)
    BY Ranges
  <2>4. s[i].next_txnum <= FirstTxnum(s[j])
    BY Ranges
  <2>5. QED
    BY <1>2, <2>1, <2>2, <2>3, <2>4 DEF HeaderKey, IndexedHeader
<1>3. QED
  BY <1>1, <1>2, LiquidAssumption

\* Two blocks of a chain share no key in any column family.
LEMMA KeysDisjoint ==
  ASSUME NEW s, Chain(s), NEW i \in 1..Len(s), NEW j \in 1..Len(s), i < j
  PROVE  /\ \A r \in HashRows(s[i]), q \in HashRows(s[j]) : r.key # q.key
         /\ \A r \in TxposRows(s[i]), q \in TxposRows(s[j]) : r.key # q.key
         /\ HeaderRow(s[i]).key # HeaderRow(s[j]).key
<1>1. /\ FirstTxnum(s[i]) \in Nat /\ FirstTxnum(s[j]) \in Nat
      /\ TxsCount(s[i].hash) \in Nat /\ TxsCount(s[j].hash) \in Nat
      /\ FirstTxnum(s[i]) + TxsCount(s[i].hash) <= FirstTxnum(s[j])
  BY Ranges
<1>2. ASSUME NEW r \in HashRows(s[i]), NEW q \in HashRows(s[j])
      PROVE  r.key # q.key
  <2>1. PICK pr, ir : ir \in 1..TxsCount(s[i].hash) /\ r.key = <<pr, FirstTxnum(s[i]) + ir - 1>>
    BY HashKeys
  <2>2. PICK pq, iq : iq \in 1..TxsCount(s[j].hash) /\ q.key = <<pq, FirstTxnum(s[j]) + iq - 1>>
    BY HashKeys
  <2>3. FirstTxnum(s[i]) + ir - 1 # FirstTxnum(s[j]) + iq - 1
    BY <1>1, <2>1, <2>2
  <2>4. QED
    BY <2>1, <2>2, <2>3
<1>3. ASSUME NEW r \in TxposRows(s[i]), NEW q \in TxposRows(s[j])
      PROVE  r.key # q.key
  <2>1. PICK ir \in 1..TxsCount(s[i].hash) : r.key = FirstTxnum(s[i]) + ir - 1
    BY TxposKeys
  <2>2. PICK iq \in 1..TxsCount(s[j].hash) : q.key = FirstTxnum(s[j]) + iq - 1
    BY TxposKeys
  <2>3. QED
    BY <1>1, <2>1, <2>2
<1>4. HeaderRow(s[i]).key # HeaderRow(s[j]).key
  BY HeaderKeysGrow DEF HeaderRow
<1>5. QED
  BY <1>2, <1>3, <1>4

-----------------------------------------------------------------------------
(* The rows of a chain in two parts *)

LEMMA Parts ==
  ASSUME NEW s \in Seq(IndexedHeader), NEW t \in Seq(IndexedHeader)
  PROVE  /\ s \o t \in Seq(IndexedHeader)
         /\ Len(s \o t) = Len(s) + Len(t)
         /\ Len(s) \in Nat /\ Len(t) \in Nat
         /\ \A i \in 1..Len(s) : (s \o t)[i] = s[i] /\ i \in 1..Len(s \o t)
         /\ \A i \in 1..Len(t) : /\ (s \o t)[Len(s) + i] = t[i]
                                 /\ Len(s) + i \in 1..Len(s \o t)
         /\ \A i \in 1..Len(s \o t) :
              \/ i \in 1..Len(s)
              \/ i - Len(s) \in 1..Len(t) /\ i = Len(s) + (i - Len(s))
OBVIOUS

LEMMA RowsOfParts ==
  ASSUME NEW s \in Seq(IndexedHeader), NEW t \in Seq(IndexedHeader)
  PROVE  /\ BatchRows(s \o t).hashes = BatchRows(s).hashes \cup BatchRows(t).hashes
         /\ BatchRows(s \o t).txpos = BatchRows(s).txpos \cup BatchRows(t).txpos
         /\ BatchRows(s \o t).headers = BatchRows(s).headers \cup BatchRows(t).headers
<1>1. DOMAIN s = 1..Len(s) /\ DOMAIN t = 1..Len(t) /\ DOMAIN (s \o t) = 1..Len(s \o t)
  BY Parts
<1>2. BatchRows(s \o t).hashes = BatchRows(s).hashes \cup BatchRows(t).hashes
  <2>1. ASSUME NEW r \in BatchRows(s \o t).hashes
        PROVE  r \in BatchRows(s).hashes \cup BatchRows(t).hashes
    <3>1. PICK i \in 1..Len(s \o t) : r \in HashRows((s \o t)[i])
      BY <1>1 DEF BatchRows
    <3>2. QED
      BY <1>1, <3>1, Parts DEF BatchRows
  <2>2. ASSUME NEW r \in BatchRows(s).hashes
        PROVE  r \in BatchRows(s \o t).hashes
    <3>1. PICK i \in 1..Len(s) : r \in HashRows(s[i])
      BY <1>1 DEF BatchRows
    <3>2. QED
      BY <1>1, <3>1, Parts DEF BatchRows
  <2>3. ASSUME NEW r \in BatchRows(t).hashes
        PROVE  r \in BatchRows(s \o t).hashes
    <3>1. PICK i \in 1..Len(t) : r \in HashRows(t[i])
      BY <1>1 DEF BatchRows
    <3>2. QED
      BY <1>1, <3>1, Parts DEF BatchRows
  <2>4. QED
    BY <2>1, <2>2, <2>3
<1>3. BatchRows(s \o t).txpos = BatchRows(s).txpos \cup BatchRows(t).txpos
  <2>1. ASSUME NEW r \in BatchRows(s \o t).txpos
        PROVE  r \in BatchRows(s).txpos \cup BatchRows(t).txpos
    <3>1. PICK i \in 1..Len(s \o t) : r \in TxposRows((s \o t)[i])
      BY <1>1 DEF BatchRows
    <3>2. QED
      BY <1>1, <3>1, Parts DEF BatchRows
  <2>2. ASSUME NEW r \in BatchRows(s).txpos
        PROVE  r \in BatchRows(s \o t).txpos
    <3>1. PICK i \in 1..Len(s) : r \in TxposRows(s[i])
      BY <1>1 DEF BatchRows
    <3>2. QED
      BY <1>1, <3>1, Parts DEF BatchRows
  <2>3. ASSUME NEW r \in BatchRows(t).txpos
        PROVE  r \in BatchRows(s \o t).txpos
    <3>1. PICK i \in 1..Len(t) : r \in TxposRows(t[i])
      BY <1>1 DEF BatchRows
    <3>2. QED
      BY <1>1, <3>1, Parts DEF BatchRows
  <2>4. QED
    BY <2>1, <2>2, <2>3
<1>4. BatchRows(s \o t).headers = BatchRows(s).headers \cup BatchRows(t).headers
  <2>1. ASSUME NEW r \in BatchRows(s \o t).headers
        PROVE  r \in BatchRows(s).headers \cup BatchRows(t).headers
    <3>1. PICK i \in 1..Len(s \o t) : r = HeaderRow((s \o t)[i])
      BY <1>1 DEF BatchRows
    <3>2. QED
      BY <1>1, <3>1, Parts DEF BatchRows
  <2>2. ASSUME NEW r \in BatchRows(s).headers
        PROVE  r \in BatchRows(s \o t).headers
    <3>1. PICK i \in 1..Len(s) : r = HeaderRow(s[i])
      BY <1>1 DEF BatchRows
    <3>2. QED
      BY <1>1, <3>1, Parts DEF BatchRows
  <2>3. ASSUME NEW r \in BatchRows(t).headers
        PROVE  r \in BatchRows(s \o t).headers
    <3>1. PICK i \in 1..Len(t) : r = HeaderRow(t[i])
      BY <1>1 DEF BatchRows
    <3>2. QED
      BY <1>1, <3>1, Parts DEF BatchRows
  <2>4. QED
    BY <2>1, <2>2, <2>3
<1>5. QED
  BY <1>2, <1>3, <1>4

\* The two parts of a chain share no key, so writing the second part over the
\* first adds its rows, and deleting it again leaves the first as it was.
LEMMA PartsDisjoint ==
  ASSUME NEW s \in Seq(IndexedHeader), NEW t \in Seq(IndexedHeader), Chain(s \o t)
  PROVE  /\ \A r \in BatchRows(s).hashes, q \in BatchRows(t).hashes : q.key # r.key
         /\ \A r \in BatchRows(s).txpos, q \in BatchRows(t).txpos : q.key # r.key
         /\ \A r \in BatchRows(s).headers, q \in BatchRows(t).headers : q.key # r.key
<1>1. DOMAIN s = 1..Len(s) /\ DOMAIN t = 1..Len(t)
  OBVIOUS
<1>2. ASSUME NEW i \in 1..Len(s), NEW j \in 1..Len(t)
      PROVE  /\ \A r \in HashRows(s[i]), q \in HashRows(t[j]) : r.key # q.key
             /\ \A r \in TxposRows(s[i]), q \in TxposRows(t[j]) : r.key # q.key
             /\ HeaderRow(s[i]).key # HeaderRow(t[j]).key
  <2>1. /\ i \in 1..Len(s \o t) /\ Len(s) + j \in 1..Len(s \o t) /\ i < Len(s) + j
        /\ (s \o t)[i] = s[i] /\ (s \o t)[Len(s) + j] = t[j]
    BY Parts
  <2> DEFINE u == s \o t
             m == Len(s) + j
  <2>2. Chain(u) /\ i \in 1..Len(u) /\ m \in 1..Len(u) /\ i < m
    BY <2>1
  <2> HIDE DEF u, m
  <2>3. /\ \A r \in HashRows(u[i]), q \in HashRows(u[m]) : r.key # q.key
        /\ \A r \in TxposRows(u[i]), q \in TxposRows(u[m]) : r.key # q.key
        /\ HeaderRow(u[i]).key # HeaderRow(u[m]).key
    BY <2>2, KeysDisjoint
  <2>4. u[i] = s[i] /\ u[m] = t[j]
    BY <2>1 DEF u, m
  <2>5. QED
    BY <2>3, <2>4
<1>3. ASSUME NEW r \in BatchRows(s).hashes, NEW q \in BatchRows(t).hashes
      PROVE  q.key # r.key
  <2>1. PICK i \in 1..Len(s) : r \in HashRows(s[i])
    BY <1>1 DEF BatchRows
  <2>2. PICK j \in 1..Len(t) : q \in HashRows(t[j])
    BY <1>1 DEF BatchRows
  <2>3. QED
    BY <1>2, <2>1, <2>2
<1>4. ASSUME NEW r \in BatchRows(s).txpos, NEW q \in BatchRows(t).txpos
      PROVE  q.key # r.key
  <2>1. PICK i \in 1..Len(s) : r \in TxposRows(s[i])
    BY <1>1 DEF BatchRows
  <2>2. PICK j \in 1..Len(t) : q \in TxposRows(t[j])
    BY <1>1 DEF BatchRows
  <2>3. QED
    BY <1>2, <2>1, <2>2
<1>5. ASSUME NEW r \in BatchRows(s).headers, NEW q \in BatchRows(t).headers
      PROVE  q.key # r.key
  <2>1. PICK i \in 1..Len(s) : r = HeaderRow(s[i])
    BY <1>1 DEF BatchRows
  <2>2. PICK j \in 1..Len(t) : q = HeaderRow(t[j])
    BY <1>1 DEF BatchRows
  <2>3. QED
    BY <1>2, <2>1, <2>2
<1>6. QED
  BY <1>3, <1>4, <1>5

LEMMA DisjointCf ==
  ASSUME NEW A, NEW B, \A r \in A, q \in B : q.key # r.key
  PROVE  /\ PutCf(A, B) = A \cup B
         /\ DeleteCf(A \cup B, B) = A
BY DEF PutCf, DeleteCf

LEMMA BatchRowsFields ==
  ASSUME NEW s
  PROVE  BatchRows(s) = [hashes  |-> BatchRows(s).hashes,
                         txpos   |-> BatchRows(s).txpos,
                         headers |-> BatchRows(s).headers]
BY DEF BatchRows

LEMMA WriteAppends ==
  ASSUME NEW s \in Seq(IndexedHeader), NEW t \in Seq(IndexedHeader), Chain(s \o t)
  PROVE  DbWrite(BatchRows(s), BatchRows(t)) = BatchRows(s \o t)
<1>1. PutCf(BatchRows(s).hashes, BatchRows(t).hashes) = BatchRows(s \o t).hashes
  <2>1. \A r \in BatchRows(s).hashes, q \in BatchRows(t).hashes : q.key # r.key
    BY PartsDisjoint
  <2>2. PutCf(BatchRows(s).hashes, BatchRows(t).hashes) = BatchRows(s).hashes \cup BatchRows(t).hashes
    BY <2>1, DisjointCf
  <2>3. QED
    BY <2>2, RowsOfParts
<1>2. PutCf(BatchRows(s).txpos, BatchRows(t).txpos) = BatchRows(s \o t).txpos
  <2>1. \A r \in BatchRows(s).txpos, q \in BatchRows(t).txpos : q.key # r.key
    BY PartsDisjoint
  <2>2. PutCf(BatchRows(s).txpos, BatchRows(t).txpos) = BatchRows(s).txpos \cup BatchRows(t).txpos
    BY <2>1, DisjointCf
  <2>3. QED
    BY <2>2, RowsOfParts
<1>3. PutCf(BatchRows(s).headers, BatchRows(t).headers) = BatchRows(s \o t).headers
  <2>1. \A r \in BatchRows(s).headers, q \in BatchRows(t).headers : q.key # r.key
    BY PartsDisjoint
  <2>2. PutCf(BatchRows(s).headers, BatchRows(t).headers) = BatchRows(s).headers \cup BatchRows(t).headers
    BY <2>1, DisjointCf
  <2>3. QED
    BY <2>2, RowsOfParts
<1>4. QED
  BY <1>1, <1>2, <1>3, BatchRowsFields DEF DbWrite

LEMMA DeleteRemoves ==
  ASSUME NEW s \in Seq(IndexedHeader), NEW t \in Seq(IndexedHeader), Chain(s \o t)
  PROVE  DbDelete(BatchRows(s \o t), BatchRows(t)) = BatchRows(s)
<1>1. DeleteCf(BatchRows(s \o t).hashes, BatchRows(t).hashes) = BatchRows(s).hashes
  <2>1. \A r \in BatchRows(s).hashes, q \in BatchRows(t).hashes : q.key # r.key
    BY PartsDisjoint
  <2>2. QED
    BY <2>1, DisjointCf, RowsOfParts
<1>2. DeleteCf(BatchRows(s \o t).txpos, BatchRows(t).txpos) = BatchRows(s).txpos
  <2>1. \A r \in BatchRows(s).txpos, q \in BatchRows(t).txpos : q.key # r.key
    BY PartsDisjoint
  <2>2. QED
    BY <2>1, DisjointCf, RowsOfParts
<1>3. DeleteCf(BatchRows(s \o t).headers, BatchRows(t).headers) = BatchRows(s).headers
  <2>1. \A r \in BatchRows(s).headers, q \in BatchRows(t).headers : q.key # r.key
    BY PartsDisjoint
  <2>2. QED
    BY <2>1, DisjointCf, RowsOfParts
<1>4. QED
  BY <1>1, <1>2, <1>3, BatchRowsFields DEF DbDelete

-----------------------------------------------------------------------------
(* Building and shortening chains *)

\* The block the Builder puts on a chain, when it links, makes it a longer one.
LEMMA ChainGrows ==
  ASSUME NEW s, Chain(s), NEW b \in Blocks, PrevBlockhash(b) = TipHash(s)
  PROVE  Chain(Append(s, NewHeader(s, b)))
<1> DEFINE h == NewHeader(s, b)
           t == Append(s, h)
<1>1. s \in Seq(IndexedHeader) /\ Len(s) \in Nat
  BY DEF Chain
<1>2. NextTxnum(s) \in Nat /\ NextHeight(s) = Len(s) /\ TipHash(s) \in Blocks \cup {NoBlock}
  <2>1. CASE s = <<>>
    BY <2>1 DEF NextTxnum, NextHeight, TipHash
  <2>2. CASE s # <<>>
    <3>1. Len(s) \in 1..Len(s) /\ s[Len(s)] \in IndexedHeader
      BY <1>1, <2>2
    <3>2. s[Len(s)].height = Len(s) - 1
      BY <3>1 DEF Chain
    <3>3. QED
      BY <1>1, <2>2, <3>1, <3>2 DEF NextTxnum, NextHeight, TipHash, IndexedHeader
  <2>3. QED
    BY <2>1, <2>2
<1>3. /\ h.height = Len(s) /\ h.next_txnum = NextTxnum(s) + TxsCount(b)
      /\ h.hash = b /\ h.prev_blockhash = TipHash(s) /\ TxsCount(b) \in Nat
  BY <1>2, CountType DEF NewHeader
<1>4. h \in IndexedHeader
  BY <1>1, <1>2, <1>3, CountType DEF NewHeader, IndexedHeader
<1>5. /\ t \in Seq(IndexedHeader) /\ Len(t) = Len(s) + 1
      /\ t[Len(s) + 1] = h /\ \A i \in 1..Len(s) : t[i] = s[i]
  BY <1>1, <1>4
<1>6. FirstTxnum(h) = NextTxnum(s)
  BY <1>2, <1>3 DEF FirstTxnum
<1>7. \A j \in 1..Len(s) : s[j].next_txnum <= NextTxnum(s) /\ s[j].next_txnum \in Nat
  <2> SUFFICES ASSUME NEW j \in 1..Len(s)
               PROVE  s[j].next_txnum <= NextTxnum(s) /\ s[j].next_txnum \in Nat
    OBVIOUS
  <2>1. s # <<>> /\ Len(s) \in 1..Len(s) /\ j \in 1..Len(s)
    BY <1>1
  <2>2. s[j].next_txnum <= s[Len(s)].next_txnum
    BY <2>1 DEF Chain
  <2>3. s[j] \in IndexedHeader
    BY <1>1
  <2>4. QED
    BY <2>1, <2>2, <2>3 DEF NextTxnum, IndexedHeader
<1>8. ASSUME NEW i \in 1..Len(t)
      PROVE  /\ t[i].height = i - 1
             /\ t[i].prev_blockhash = IF i = 1 THEN NoBlock ELSE t[i - 1].hash
             /\ t[i].prev_blockhash = PrevBlockhash(t[i].hash)
             /\ t[i].next_txnum =
                  (IF i = 1 THEN 0 ELSE t[i - 1].next_txnum) + TxsCount(t[i].hash)
             /\ \A j \in 1..i : t[j].next_txnum <= t[i].next_txnum
             /\ \A j \in 1..(i - 1) : t[j].next_txnum <= FirstTxnum(t[i])
  <2>1. CASE i \in 1..Len(s)
    <3>1. t[i] = s[i] /\ (i # 1 => t[i - 1] = s[i - 1]) /\ \A j \in 1..i : t[j] = s[j]
      BY <1>1, <1>5, <2>1
    <3>2. QED
      BY <2>1, <3>1 DEF Chain
  <2>2. CASE i = Len(s) + 1
    <3>1. t[i] = h /\ \A j \in 1..(i - 1) : t[j] = s[j]
      BY <1>1, <1>5, <2>2
    <3>2. t[i].height = i - 1 /\ t[i].prev_blockhash = PrevBlockhash(t[i].hash)
      BY <1>1, <1>3, <2>2, <3>1
    <3>3. /\ i = 1 => TipHash(s) = NoBlock /\ NextTxnum(s) = 0
          /\ i # 1 => TipHash(s) = t[i - 1].hash /\ NextTxnum(s) = t[i - 1].next_txnum
      <4>1. CASE i = 1
        BY <1>1, <2>2, <4>1 DEF TipHash, NextTxnum
      <4>2. CASE i # 1
        <5>1. s # <<>> /\ t[i - 1] = s[Len(s)]
          BY <1>1, <2>2, <3>1, <4>2
        <5>2. QED
          BY <4>2, <5>1 DEF TipHash, NextTxnum
      <4>3. QED
        BY <4>1, <4>2
    <3>4. \A j \in 1..(i - 1) : t[j].next_txnum <= FirstTxnum(t[i])
      BY <1>1, <1>6, <1>7, <2>2, <3>1
    <3>5. \A j \in 1..i : t[j].next_txnum <= t[i].next_txnum
      BY <1>1, <1>2, <1>3, <1>7, <2>2, <3>1
    <3>6. QED
      BY <1>3, <3>1, <3>2, <3>3, <3>4, <3>5
  <2>3. QED
    BY <1>1, <1>5, <2>1, <2>2
<1>9. QED
  BY <1>5, <1>8 DEF Chain

\* A chain without its tip is a chain, and the Builder gives the tip back.
LEMMA ChainShrinks ==
  ASSUME NEW s, Chain(s), s # <<>>
  PROVE  LET f == SubSeq(s, 1, Len(s) - 1)
         IN  /\ Chain(f)
             /\ TipHash(s) \in Blocks
             /\ s = Append(f, NewHeader(f, TipHash(s)))
<1>0. s \in Seq(IndexedHeader)
  BY DEF Chain
<1> DEFINE f == SubSeq(s, 1, Len(s) - 1)
<1>1. PICK n \in Nat \ {0} : n = Len(s)
  BY <1>0
<1>2. /\ f \in Seq(IndexedHeader) /\ Len(f) = n - 1 /\ \A i \in 1..(n - 1) : f[i] = s[i]
      /\ s = Append(f, s[n])
  BY <1>0, <1>1
<1>3. n \in 1..Len(s) /\ s[n] \in IndexedHeader /\ TipHash(s) = s[n].hash /\ s[n].hash \in Blocks
  <2>1. n \in 1..Len(s) /\ s[n] \in IndexedHeader
    BY <1>0, <1>1
  <2>2. TipHash(s) = s[n].hash
    BY <1>1 DEF TipHash
  <2>3. QED
    BY <2>1, <2>2 DEF IndexedHeader
<1> HIDE DEF f
<1>4. Chain(f)
  <2>1. ASSUME NEW i \in 1..(n - 1)
        PROVE  f[i] = s[i] /\ (i # 1 => f[i - 1] = s[i - 1]) /\ i \in 1..Len(s)
               /\ \A j \in 1..i : f[j] = s[j]
    BY <1>1, <1>2
  <2>2. ASSUME NEW i \in 1..(n - 1)
        PROVE  /\ f[i].height = i - 1
               /\ f[i].prev_blockhash = IF i = 1 THEN NoBlock ELSE f[i - 1].hash
               /\ f[i].prev_blockhash = PrevBlockhash(f[i].hash)
               /\ f[i].next_txnum =
                    (IF i = 1 THEN 0 ELSE f[i - 1].next_txnum) + TxsCount(f[i].hash)
               /\ \A j \in 1..i : f[j].next_txnum <= f[i].next_txnum
               /\ \A j \in 1..(i - 1) : f[j].next_txnum <= FirstTxnum(f[i])
    <3>1. /\ f[i] = s[i] /\ (i # 1 => f[i - 1] = s[i - 1]) /\ i \in 1..Len(s)
          /\ \A j \in 1..i : f[j] = s[j]
      BY <2>1
    <3>2. /\ s[i].height = i - 1
          /\ s[i].prev_blockhash = IF i = 1 THEN NoBlock ELSE s[i - 1].hash
          /\ s[i].prev_blockhash = PrevBlockhash(s[i].hash)
          /\ s[i].next_txnum =
               (IF i = 1 THEN 0 ELSE s[i - 1].next_txnum) + TxsCount(s[i].hash)
          /\ \A j \in 1..i : s[j].next_txnum <= s[i].next_txnum
          /\ \A j \in 1..(i - 1) : s[j].next_txnum <= FirstTxnum(s[i])
      BY <3>1 DEF Chain
    <3>3. \A j \in 1..(i - 1) : f[j].next_txnum <= FirstTxnum(f[i])
      BY <1>1, <3>1, <3>2
    <3>4. \A j \in 1..i : f[j].next_txnum <= f[i].next_txnum
      BY <3>1, <3>2
    <3>5. QED
      BY <3>1, <3>2, <3>3, <3>4
  <2>3. QED
    BY <1>1, <1>2, <2>2 DEF Chain
<1>5. s[n] = NewHeader(f, TipHash(s))
  <2>1. /\ s[n].height = n - 1
        /\ s[n].prev_blockhash = PrevBlockhash(s[n].hash)
        /\ s[n].next_txnum = (IF n = 1 THEN 0 ELSE s[n - 1].next_txnum) + TxsCount(s[n].hash)
    BY <1>3 DEF Chain
  <2>2. NextHeight(f) = n - 1 /\ NextTxnum(f) = IF n = 1 THEN 0 ELSE s[n - 1].next_txnum
    <3>1. CASE n = 1
      BY <1>2, <3>1 DEF NextHeight, NextTxnum
    <3>2. CASE n # 1
      <4>1. n - 1 \in 1..Len(s) /\ n - 1 \in 1..(n - 1)
        BY <1>1, <3>2
      <4>2. s[n - 1].height = (n - 1) - 1
        BY <4>1 DEF Chain
      <4>3. f # <<>> /\ f[Len(f)] = s[n - 1]
        BY <1>2, <4>1
      <4>4. QED
        BY <1>1, <3>2, <4>2, <4>3 DEF NextHeight, NextTxnum
    <3>3. QED
      BY <3>1, <3>2
  <2>3. s[n] = [height |-> s[n].height, next_txnum |-> s[n].next_txnum,
                hash |-> s[n].hash, prev_blockhash |-> s[n].prev_blockhash]
    BY <1>3 DEF IndexedHeader
  <2>4. QED
    BY <1>3, <2>1, <2>2, <2>3 DEF NewHeader
<1>6. QED
  BY <1>2, <1>3, <1>4, <1>5 DEF f

-----------------------------------------------------------------------------
(* Reading a chain back from its rows *)

\* In key order, i - 1 of a chain's header rows come before the i-th.
LEMMA RowsBefore ==
  ASSUME NEW s, Chain(s), NEW cf, cf = BatchRows(s).headers, NEW n \in 0..Len(s),
         NEW B, B = { HeaderRow(s[j]) : j \in 1..n }
  PROVE  IsFiniteSet(B) /\ Cardinality(B) = n
<1>1. n \in Nat /\ Len(s) \in Nat
  BY DEF Chain
<1>2. IsFiniteSet(1..n) /\ Cardinality(1..n) = n
  BY <1>1, FS_Interval
<1> DEFINE f == [j \in 1..n |-> HeaderRow(s[j])]
<1>3. \A j, k \in 1..n : f[j] = f[k] => j = k
  <2> SUFFICES ASSUME NEW j \in 1..n, NEW k \in 1..n, f[j] = f[k]
               PROVE  j = k
    OBVIOUS
  <2>1. j \in 1..Len(s) /\ k \in 1..Len(s)
    BY <1>1
  <2>2. HeaderRow(s[j]).key = HeaderRow(s[k]).key
    OBVIOUS
  <2>3. ~(j < k) /\ ~(k < j)
    BY <2>1, <2>2, KeysDisjoint
  <2>4. QED
    BY <2>1, <2>3
<1>4. f \in [1..n -> B] /\ \A b \in B : \E j \in 1..n : f[j] = b
  OBVIOUS
<1>5. f \in Bijection(1..n, B)
  BY <1>3, <1>4 DEF Bijection, Injection, Surjection, IsInjective
<1>6. QED
  BY <1>2, <1>5, FS_Bijection DEF ExistsBijection

LEMMA Positions ==
  ASSUME NEW s, Chain(s), NEW i \in 1..Len(s)
  PROVE  LET cf == BatchRows(s).headers
         IN  Cardinality({ q \in cf : q.key < HeaderRow(s[i]).key }) = i - 1
<1> DEFINE cf == BatchRows(s).headers
           B == { HeaderRow(s[j]) : j \in 1..(i - 1) }
<1>1. DOMAIN s = 1..Len(s) /\ Len(s) \in Nat
  BY DEF Chain
<1>2. { q \in cf : q.key < HeaderRow(s[i]).key } = B
  <2>1. ASSUME NEW q \in cf, q.key < HeaderRow(s[i]).key
        PROVE  q \in B
    <3>1. PICK j \in 1..Len(s) : q = HeaderRow(s[j])
      BY <1>1 DEF BatchRows
    <3>2. HeaderRow(s[j]).key = HeaderKey(s[j]) /\ HeaderRow(s[i]).key = HeaderKey(s[i])
      BY DEF HeaderRow
    <3>3. ~(i < j)
      <4>1. SUFFICES ASSUME i < j PROVE FALSE
        OBVIOUS
      <4>2. /\ HeaderKey(s[i]) \in Nat /\ HeaderKey(s[j]) \in Nat
            /\ HeaderKey(s[i]) < HeaderKey(s[j])
        BY <4>1, HeaderKeysGrow
      <4>3. QED
        BY <2>1, <3>1, <3>2, <4>2
    <3>4. i # j
      <4>1. HeaderKey(s[i]) \in Nat
        BY Ranges DEF HeaderKey, IndexedHeader
      <4>2. QED
        BY <2>1, <3>1, <3>2, <4>1
    <3>5. j \in 1..(i - 1)
      BY <1>1, <3>3, <3>4
    <3>6. QED
      BY <3>1, <3>5
  <2>2. ASSUME NEW j \in 1..(i - 1)
        PROVE  HeaderRow(s[j]) \in cf /\ HeaderRow(s[j]).key < HeaderRow(s[i]).key
    <3>1. j \in 1..Len(s) /\ j < i
      BY <1>1
    <3>2. QED
      BY <1>1, <3>1, HeaderKeysGrow DEF BatchRows, HeaderRow
  <2>3. QED
    BY <2>1, <2>2
<1>3. i - 1 \in 0..Len(s)
  BY <1>1
<1>4. QED
  BY <1>2, <1>3, RowsBefore

LEMMA ReadBack ==
  ASSUME NEW s, Chain(s)
  PROVE  DbHeaders(BatchRows(s)) = s
<1> DEFINE cf == BatchRows(s).headers
<1>1. /\ s \in Seq(IndexedHeader) /\ DOMAIN s = 1..Len(s) /\ Len(s) \in Nat
      /\ s = [i \in 1..Len(s) |-> s[i]]
  BY DEF Chain
<1>2. Cardinality(cf) = Len(s)
  <2>1. cf = { HeaderRow(s[j]) : j \in 1..Len(s) }
    BY <1>1 DEF BatchRows
  <2>2. Len(s) \in 0..Len(s)
    BY <1>1
  <2>3. QED
    BY <2>1, <2>2, RowsBefore
<1>3. ASSUME NEW i \in 1..Len(s)
      PROVE  Deserialize(RowAt(cf, i - 1), i - 1) = s[i]
  <2>1. HeaderRow(s[i]) \in cf
    BY <1>1 DEF BatchRows
  <2>2. Cardinality({ q \in cf : q.key < HeaderRow(s[i]).key }) = i - 1
    BY Positions
  <2>3. ASSUME NEW r \in cf, Cardinality({ q \in cf : q.key < r.key }) = i - 1
        PROVE  r = HeaderRow(s[i])
    <3>1. PICK k \in 1..Len(s) : r = HeaderRow(s[k])
      BY <1>1 DEF BatchRows
    <3>2. Cardinality({ q \in cf : q.key < HeaderRow(s[k]).key }) = k - 1
      BY Positions
    <3>3. k = i
      BY <1>1, <2>3, <3>1, <3>2
    <3>4. QED
      BY <3>1, <3>3
  <2>4. RowAt(cf, i - 1) = HeaderRow(s[i])
    BY <2>1, <2>2, <2>3 DEF RowAt
  <2>5. s[i].height = i - 1 /\ s[i] \in IndexedHeader
    BY <1>1 DEF Chain
  <2>6. s[i] = [height |-> s[i].height, next_txnum |-> s[i].next_txnum,
                hash |-> s[i].hash, prev_blockhash |-> s[i].prev_blockhash]
    BY <2>5 DEF IndexedHeader
  <2>7. QED
    BY <2>4, <2>5, <2>6, LiquidAssumption DEF Deserialize, HeaderRow, HeaderKey
<1>4. DbHeaders(BatchRows(s)) = [i \in 1..Len(s) |-> s[i]]
  BY <1>2, <1>3 DEF DbHeaders
<1>5. QED
  BY <1>1, <1>4

LEMMA ChainLinked ==
  ASSUME NEW s, Chain(s)
  PROVE  Linked(s)
BY DEF Chain, Linked

-----------------------------------------------------------------------------
(* The invariant holds initially and is preserved by every action *)

LEMMA EmptyChain == Chain(<<>>) /\ BatchRows(<<>>) = EmptyStore
<1>1. Chain(<<>>)
  BY DEF Chain
<1>2. BatchRows(<<>>) = EmptyStore
  BY DEF BatchRows, EmptyStore
<1>3. QED
  BY <1>1, <1>2

LEMMA ConcatFacts ==
  ASSUME NEW s \in Seq(IndexedHeader), NEW t \in Seq(IndexedHeader), NEW h \in IndexedHeader
  PROVE  /\ s \o <<>> = s
         /\ Append(s, h) = s \o <<h>>
         /\ s \o Append(t, h) = Append(s \o t, h)
         /\ s \o t \in Seq(IndexedHeader)
OBVIOUS

\* Whenever the writer's memory can be lost, some chain is on disk.
LEMMA DiskHasChain ==
  ASSUME IInv
  PROVE  \E s : Chain(s) /\ store = BatchRows(s)
<1>1. pc \in {"down", "idle", "index", "add", "drop"}
  BY DEF IInv, TypeOK, DiskInv
<1>2. QED
  BY <1>1 DEF IInv, DiskInv

LEMMA InitInv == Init => IInv
<1> SUFFICES ASSUME Init PROVE IInv
  OBVIOUS
<1>1. TypeOK
  BY WriterAssumption DEF Init, TypeOK
<1>2. DiskInv
  BY EmptyChain DEF Init, DiskInv
<1>3. QED
  BY <1>1, <1>2 DEF IInv

\* A step to "down" only needs the store unchanged.
LEMMA StepDown ==
  ASSUME IInv, store' = store, pc' = "down", active' = active, moves' = moves,
         headers' = <<>>, chunk' = <<>>, batch' = <<>>, faults' \in 0..MaxFaults
  PROVE  IInv'
<1>1. TypeOK'
  BY DEF IInv, TypeOK
<1>2. DiskInv'
  BY DiskHasChain DEF DiskInv
<1>3. QED
  BY <1>1, <1>2 DEF IInv

LEMMA NodeMovesInv ==
  ASSUME IInv, NodeMoves
  PROVE  IInv'
<1>1. UNCHANGED <<store, headers, pc, chunk, batch, faults>> /\ active' \in Blocks
      /\ moves' \in 0..MaxMoves
  BY WriterAssumption DEF NodeMoves, writer, IInv, TypeOK
<1>2. TypeOK'
  BY <1>1 DEF IInv, TypeOK
<1>3. DiskInv'
  BY <1>1 DEF IInv, DiskInv, ChunkLinks
<1>4. QED
  BY <1>2, <1>3 DEF IInv

LEMMA OpenInv ==
  ASSUME IInv, Open
  PROVE  IInv'
<1>1. PICK s : Chain(s) /\ store = BatchRows(s)
  BY DiskHasChain
<1>2. headers' = s /\ s \in Seq(IndexedHeader)
  BY <1>1, ReadBack DEF Open, Chain
<1>3. UNCHANGED <<active, store, chunk, batch, moves, faults>> /\ pc' = "idle"
      /\ chunk = <<>> /\ batch = <<>>
  BY DEF Open, IInv, TypeOK
<1>4. TypeOK'
  BY <1>2, <1>3 DEF IInv, TypeOK
<1>5. headers' \o batch' = s
  BY <1>2, <1>3
<1>6. DiskInv'
  BY <1>1, <1>2, <1>3, <1>5 DEF DiskInv
<1>7. QED
  BY <1>4, <1>6 DEF IInv

LEMMA GetHeadersInv ==
  ASSUME IInv, GetHeaders
  PROVE  IInv'
<1> DEFINE pa == Path[active]
<1>1. /\ pa \in Seq(Blocks) /\ Len(pa) \in Nat \ {0} /\ active \in Blocks
      /\ \A i \in 1..Len(pa) : pa[i] \in Blocks
  <2>1. active \in Blocks
    BY DEF IInv, TypeOK
  <2>2. pa \in Seq(Blocks) /\ Len(pa) > 0
    BY <2>1, PathAssumption
  <2>3. QED
    BY <2>1, <2>2
<1>2. /\ UNCHANGED <<active, store, headers, batch, moves, faults>> /\ pc' = "index"
      /\ pc = "idle" /\ batch = <<>>
      /\ headers \in Seq(IndexedHeader) /\ headers \o batch = headers
      /\ Chain(headers) /\ store = BatchRows(headers)
  BY DEF GetHeaders, IInv, TypeOK, DiskInv
<1>3. PICK known \in Nat, end \in Nat :
        /\ chunk' = SubSeq(pa, known + 1, end)
        /\ end <= Len(pa)
        /\ headers = <<>> => known = 0
        /\ headers # <<>> => /\ known = Len(Path[TipHash(headers)])
                             /\ known \in 1..Len(pa)
                             /\ pa[known] = TipHash(headers)
  <2> DEFINE kn == IF headers = <<>> THEN 0 ELSE Len(Path[TipHash(headers)])
             asked == IF headers = <<>> THEN Limit + 1 ELSE Limit
             en == IF kn + asked < Len(pa) THEN kn + asked ELSE Len(pa)
  <2>1. chunk' = SubSeq(pa, kn + 1, en)
    BY DEF GetHeaders
  <2>2. headers # <<>> => TipHash(headers) \in Blocks /\ OnActive(TipHash(headers))
    BY <1>2, ChainShrinks DEF GetHeaders
  <2>3. ASSUME headers # <<>>
        PROVE  kn \in Nat /\ kn \in 1..Len(pa) /\ pa[kn] = TipHash(headers)
    <3>1. TipHash(headers) \in Blocks /\ kn = Len(Path[TipHash(headers)])
      BY <2>2, <2>3
    <3>2. kn \in Nat /\ kn > 0
      BY <3>1, PathAssumption
    <3>3. kn <= Len(pa) /\ pa[kn] = TipHash(headers)
      BY <2>2, <2>3, <3>1 DEF OnActive
    <3>4. QED
      BY <1>1, <3>2, <3>3
  <2>4. kn \in Nat /\ asked \in Nat
    BY <2>3, WriterAssumption
  <2>5. en \in Nat /\ en <= Len(pa)
    BY <1>1, <2>4
  <2>6. QED
    BY <2>1, <2>3, <2>4, <2>5
<1>4. /\ chunk' \in Seq(Blocks)
      /\ \A i \in 1..Len(chunk') : known + i \in 1..Len(pa) /\ chunk'[i] = pa[known + i]
      /\ Len(chunk') \in Nat
      /\ chunk' # <<>> => 1 \in 1..Len(chunk')
  <2>1. CASE known + 1 <= end
    BY <1>1, <1>3, <2>1
  <2>2. CASE ~(known + 1 <= end)
    <3>1. chunk' = <<>>
      BY <1>1, <1>3, <2>2
    <3>2. QED
      BY <3>1
  <2>3. QED
    BY <2>1, <2>2
<1>5. ASSUME NEW k \in 1..Len(pa)
      PROVE  PrevBlockhash(pa[k]) = IF k = 1 THEN NoBlock ELSE pa[k - 1]
  <2>1. Path[pa[k]] = SubSeq(pa, 1, k)
    BY <1>1, PathAssumption
  <2>2. Len(SubSeq(pa, 1, k)) = k /\ (k # 1 => SubSeq(pa, 1, k)[k - 1] = pa[k - 1])
    BY <1>1
  <2>3. QED
    BY <2>1, <2>2 DEF PrevBlockhash
<1>6. TypeOK'
  BY <1>2, <1>4 DEF IInv, TypeOK
<1>7. ChunkLinks'
  <2>1. ASSUME chunk' # <<>>
        PROVE  PrevBlockhash(chunk'[1]) = TipHash(headers)
    <3>1. 1 \in 1..Len(chunk') /\ known + 1 \in 1..Len(pa) /\ chunk'[1] = pa[known + 1]
      BY <1>4, <2>1
    <3>2. CASE headers = <<>>
      BY <1>3, <1>5, <3>1, <3>2 DEF TipHash
    <3>3. CASE headers # <<>>
      <4>1. PrevBlockhash(pa[known + 1]) = pa[(known + 1) - 1] /\ (known + 1) - 1 = known
        BY <1>3, <1>5, <3>1, <3>3
      <4>2. QED
        BY <1>3, <3>1, <3>3, <4>1
    <3>4. QED
      BY <3>2, <3>3
  <2>2. ASSUME NEW i \in 2..Len(chunk')
        PROVE  PrevBlockhash(chunk'[i]) = chunk'[i - 1]
    <3>1. i \in 1..Len(chunk') /\ i - 1 \in 1..Len(chunk')
      BY <1>4
    <3>2. /\ known + i \in 1..Len(pa) /\ chunk'[i] = pa[known + i]
          /\ chunk'[i - 1] = pa[known + (i - 1)] /\ known + i # 1
          /\ known + (i - 1) = (known + i) - 1
      BY <1>3, <1>4, <3>1
    <3>3. QED
      BY <1>5, <3>2
  <2>3. (headers \o batch)' = headers
    BY <1>2
  <2>4. QED
    BY <2>1, <2>2, <2>3 DEF ChunkLinks
<1>8. DiskInv'
  BY <1>2, <1>7 DEF DiskInv
<1>9. QED
  BY <1>6, <1>8 DEF IInv

LEMMA RollBackInv ==
  ASSUME IInv, RollBack
  PROVE  IInv'
<1>1. /\ UNCHANGED <<active, store, batch, moves, faults>> /\ pc' = "drop"
      /\ pc = "idle" /\ headers # <<>>
      /\ chunk' = <<TipHash(headers)>>
      /\ headers' = SubSeq(headers, 1, Len(headers) - 1)
      /\ Chain(headers) /\ store = BatchRows(headers)
  BY DEF RollBack, IInv, DiskInv
<1>2. /\ Chain(headers') /\ TipHash(headers) \in Blocks
      /\ headers = Append(headers', NewHeader(headers', TipHash(headers)))
  BY <1>1, ChainShrinks
<1>3. TypeOK'
  BY <1>1, <1>2 DEF IInv, TypeOK, Chain
<1>4. DiskInv'
  BY <1>1, <1>2 DEF DiskInv
<1>5. QED
  BY <1>3, <1>4 DEF IInv

LEMMA DropTipInv ==
  ASSUME IInv, DropTip
  PROVE  IInv'
<1> DEFINE h == NewHeader(headers, chunk[1])
<1>1. /\ UNCHANGED <<active, headers, batch, moves, faults>> /\ pc' = "idle"
      /\ pc = "drop" /\ chunk' = <<>>
      /\ store' = DbDelete(store, BatchRows(<<h>>))
      /\ Chain(Append(headers, h)) /\ store = BatchRows(Append(headers, h))
      /\ headers \in Seq(IndexedHeader) /\ chunk \in Seq(Blocks) /\ Len(chunk) = 1
  BY DEF DropTip, IInv, DiskInv, TypeOK
<1>2. h \in IndexedHeader /\ batch = <<>> /\ chunk[1] \in Blocks
  <2>1. chunk[1] \in Blocks /\ batch = <<>>
    <3>1. batch = <<>>
      BY <1>1 DEF IInv, TypeOK
    <3>2. chunk \in Seq(Blocks) /\ Len(chunk) = 1
      BY <1>1
    <3>3. \A c \in Seq(Blocks) : Len(c) = 1 => c[1] \in Blocks
      OBVIOUS
    <3>4. QED
      BY <3>1, <3>2, <3>3
  <2>2. Append(headers, h) \in Seq(IndexedHeader) /\ Len(Append(headers, h)) = Len(headers) + 1
    BY <1>1 DEF Chain
  <2>3. Append(headers, h)[Len(headers) + 1] = h /\ Len(headers) \in Nat
    BY <1>1
  <2>4. QED
    BY <2>1, <2>2, <2>3
<1>3. /\ Append(headers, h) # <<>>
      /\ SubSeq(Append(headers, h), 1, Len(Append(headers, h)) - 1) = headers
      /\ headers \o <<h>> = Append(headers, h) /\ headers \o <<>> = headers
  BY <1>1, <1>2
<1>4. Chain(headers)
  BY <1>1, <1>3, ChainShrinks
<1>5. store' = BatchRows(headers)
  <2>1. <<h>> \in Seq(IndexedHeader)
    BY <1>2
  <2>2. QED
    BY <1>1, <1>3, <2>1, DeleteRemoves
<1>6. TypeOK'
  BY <1>1, <1>2 DEF IInv, TypeOK
<1>7. DiskInv'
  BY <1>1, <1>2, <1>3, <1>4, <1>5 DEF DiskInv
<1>8. QED
  BY <1>6, <1>7 DEF IInv

LEMMA IndexBlockInv ==
  ASSUME IInv, IndexBlock
  PROVE  IInv'
<1> DEFINE s == headers \o batch
           h == NewHeader(s, chunk[1])
<1>1. /\ UNCHANGED <<active, store, headers, pc, moves, faults>>
      /\ pc = "index" /\ chunk # <<>> /\ batch' = Append(batch, h) /\ chunk' = Tail(chunk)
      /\ h.prev_blockhash = TipHash(s)
      /\ headers \in Seq(IndexedHeader) /\ batch \in Seq(IndexedHeader)
      /\ chunk \in Seq(Blocks)
      /\ Chain(headers) /\ Chain(s) /\ store = BatchRows(headers) /\ ChunkLinks
  BY DEF IndexBlock, IndexNext, IInv, DiskInv, TypeOK
<1>2. /\ chunk[1] \in Blocks /\ chunk' \in Seq(Blocks) /\ Len(chunk') = Len(chunk) - 1
      /\ Len(chunk) \in Nat
      /\ \A i \in 1..Len(chunk') : chunk'[i] = chunk[i + 1] /\ i + 1 \in 2..Len(chunk)
      /\ chunk' # <<>> => 1 \in 1..Len(chunk')
  BY <1>1
<1>3. PrevBlockhash(chunk[1]) = TipHash(s) /\ h.hash = chunk[1]
  BY <1>1 DEF NewHeader
<1>4. Chain(Append(s, h))
  BY <1>1, <1>2, <1>3, ChainGrows
<1>5. h \in IndexedHeader
  <2>1. Append(s, h) \in Seq(IndexedHeader) /\ s \in Seq(IndexedHeader)
    BY <1>1, <1>4 DEF Chain
  <2>2. Len(s) + 1 \in 1..Len(Append(s, h)) /\ Append(s, h)[Len(s) + 1] = h
    BY <2>1
  <2>3. QED
    BY <2>1, <2>2
<1>6. headers' \o batch' = Append(s, h) /\ TipHash(Append(s, h)) = chunk[1]
  <2>1. headers \o Append(batch, h) = Append(s, h)
    BY <1>1, <1>5, ConcatFacts
  <2>2. TipHash(Append(s, h)) = h.hash
    <3>1. s \in Seq(IndexedHeader)
      BY <1>1, ConcatFacts
    <3>2. Append(s, h) # <<>> /\ Append(s, h)[Len(Append(s, h))] = h
      BY <1>5, <3>1
    <3>3. QED
      BY <3>2 DEF TipHash
  <2>3. QED
    BY <1>1, <1>3, <2>1, <2>2
<1>7. TypeOK'
  BY <1>1, <1>2, <1>5 DEF IInv, TypeOK
<1>8. ChunkLinks'
  <2>1. chunk' # <<>> => PrevBlockhash(chunk'[1]) = chunk[1]
    BY <1>1, <1>2 DEF ChunkLinks
  <2>2. ASSUME NEW i \in 2..Len(chunk')
        PROVE  PrevBlockhash(chunk'[i]) = chunk'[i - 1]
    <3>1. /\ i \in 1..Len(chunk') /\ i - 1 \in 1..Len(chunk') /\ (i - 1) + 1 = i
          /\ (i + 1) - 1 = i
      BY <1>2
    <3>2. chunk'[i] = chunk[i + 1] /\ i + 1 \in 2..Len(chunk) /\ chunk'[i - 1] = chunk[i]
      BY <1>2, <3>1
    <3>3. PrevBlockhash(chunk[i + 1]) = chunk[(i + 1) - 1]
      BY <1>1, <3>2 DEF ChunkLinks
    <3>4. QED
      BY <3>1, <3>2, <3>3
  <2>3. (headers \o batch)' = Append(s, h)
    BY <1>6
  <2>4. QED
    BY <1>6, <2>1, <2>2, <2>3 DEF ChunkLinks
<1>9. DiskInv'
  BY <1>1, <1>4, <1>6, <1>8 DEF DiskInv
<1>10. QED
  BY <1>7, <1>9 DEF IInv

LEMMA WriteBatchesInv ==
  ASSUME IInv, WriteBatches
  PROVE  IInv'
<1>1. /\ UNCHANGED <<active, headers, chunk, batch, moves, faults>> /\ pc' = "add"
      /\ pc = "index" /\ chunk = <<>> /\ batch # <<>>
      /\ store' = DbWrite(store, BatchRows(batch))
      /\ headers \in Seq(IndexedHeader) /\ batch \in Seq(IndexedHeader)
      /\ Chain(headers \o batch) /\ store = BatchRows(headers)
  BY DEF WriteBatches, IInv, DiskInv, TypeOK
<1>2. store' = BatchRows(headers \o batch)
  BY <1>1, WriteAppends
<1>3. TypeOK'
  BY <1>1 DEF IInv, TypeOK
<1>4. DiskInv'
  BY <1>1, <1>2 DEF DiskInv
<1>5. QED
  BY <1>3, <1>4 DEF IInv

LEMMA AddHeadersInv ==
  ASSUME IInv, AddHeaders
  PROVE  IInv'
<1>1. /\ UNCHANGED <<active, store, chunk, moves, faults>> /\ pc' = "idle"
      /\ pc = "add" /\ batch' = <<>> /\ headers' = headers \o batch /\ chunk = <<>>
      /\ headers \in Seq(IndexedHeader) /\ batch \in Seq(IndexedHeader)
      /\ Chain(headers \o batch) /\ store = BatchRows(headers \o batch)
  BY DEF AddHeaders, IInv, DiskInv, TypeOK
<1>2. headers' \in Seq(IndexedHeader) /\ headers' \o batch' = headers'
  BY <1>1
<1>3. TypeOK'
  BY <1>1, <1>2 DEF IInv, TypeOK
<1>4. DiskInv'
  BY <1>1, <1>2 DEF DiskInv
<1>5. QED
  BY <1>3, <1>4 DEF IInv

LEMMA NothingNewInv ==
  ASSUME IInv, NothingNew
  PROVE  IInv'
<1>1. /\ UNCHANGED <<active, store, headers, chunk, batch, moves, faults>> /\ pc' = "idle"
      /\ pc = "index" /\ chunk = <<>> /\ batch = <<>>
  BY DEF NothingNew
<1>2. TypeOK'
  BY <1>1 DEF IInv, TypeOK
<1>3. DiskInv'
  BY <1>1 DEF IInv, DiskInv
<1>4. QED
  BY <1>2, <1>3 DEF IInv

LEMMA StepInv ==
  ASSUME ~RetryInProcess, IInv, [Next]_vars
  PROVE  IInv'
<1>1. CASE Open \/ GetHeaders \/ RollBack \/ DropTip
  BY <1>1, OpenInv, GetHeadersInv, RollBackInv, DropTipInv
<1>2. CASE IndexBlock \/ WriteBatches \/ AddHeaders \/ NothingNew
  BY <1>2, IndexBlockInv, WriteBatchesInv, AddHeadersInv, NothingNewInv
<1>3. CASE NodeMoves
  BY <1>3, NodeMovesInv
<1>4. CASE TxNumOverflow \/ SyncError \/ FlushFails \/ Crash
  <2>1. faults \in 0..MaxFaults /\ MaxFaults \in Nat
    BY WriterAssumption DEF IInv, TypeOK
  <2>2. /\ store' = store /\ pc' = "down" /\ active' = active /\ moves' = moves
        /\ headers' = <<>> /\ chunk' = <<>> /\ batch' = <<>> /\ faults' \in 0..MaxFaults
    BY <1>4, <2>1 DEF TxNumOverflow, SyncError, FlushFails, Crash, Abort
  <2>3. QED
    BY <2>2, StepDown
<1>5. CASE UNCHANGED vars
  <2>1. UNCHANGED <<active, store, headers, pc, chunk, batch, moves, faults>>
    BY <1>5 DEF vars
  <2>2. TypeOK'
    BY <2>1 DEF IInv, TypeOK
  <2>3. DiskInv'
    BY <2>1 DEF IInv, DiskInv, ChunkLinks
  <2>4. QED
    BY <2>2, <2>3 DEF IInv
<1>6. QED
  BY <1>1, <1>2, <1>3, <1>4, <1>5 DEF Next, WriterStep

-----------------------------------------------------------------------------
(* The theorems *)

\* The inductive invariant holds in every state of a writer that exits on a
\* failed sync.
THEOREM Invariance ==
  ASSUME ~RetryInProcess
  PROVE  Spec => []IInv
<1>1. Init => IInv
  BY InitInv
<1>2. IInv /\ [Next]_vars => IInv'
  BY StepInv
<1>3. QED
  BY <1>1, <1>2, PTL DEF Spec

\* Type correctness, with the shape of chunk and batch at each place of sync.
THEOREM TypeCorrect ==
  ASSUME ~RetryInProcess
  PROVE  Spec => []TypeOK
<1>1. IInv => TypeOK
  BY DEF IInv
<1>2. QED
  BY <1>1, Invariance, PTL

\* Between rounds and while blocks are collected the store holds exactly the
\* rows of the in-memory chain, whatever reorgs, failures and kills came before.
THEOREM StoreStaysInSync ==
  ASSUME ~RetryInProcess
  PROVE  Spec => []StoreInSync
<1>1. IInv => StoreInSync
  BY DEF IInv, DiskInv, StoreInSync
<1>2. QED
  BY <1>1, Invariance, PTL

\* At every moment the rows on disk are those of one linked chain: no restart
\* and no reload of a reader meets an assertion of Headers::new.
THEOREM DiskAlwaysAChain ==
  ASSUME ~RetryInProcess
  PROVE  Spec => []DiskIsAChain
<1>1. IInv => DiskIsAChain
  <2> SUFFICES ASSUME IInv PROVE DiskIsAChain
    OBVIOUS
  <2>1. PICK s : Chain(s) /\ store = BatchRows(s)
    BY DiskHasChain
  <2>2. DbHeaders(store) = s
    BY <2>1, ReadBack
  <2>3. QED
    BY <2>1, <2>2, ChainLinked DEF DiskIsAChain
<1>2. QED
  BY <1>1, Invariance, PTL

\* The assertions of Builder::build and Headers::add never fail: a fetched
\* block links to the chain built so far though the node may have moved on.
THEOREM BatchAlwaysLinks ==
  ASSUME ~RetryInProcess
  PROVE  Spec => []BatchLinks
<1>1. IInv => BatchLinks
  BY DEF IInv, DiskInv, BatchLinks, ChunkLinks
<1>2. QED
  BY <1>1, Invariance, PTL

-----------------------------------------------------------------------------
(* Lookups *)

\* A set of naturals that is not empty has a least element.
LEMMA Least ==
  ASSUME NEW T, T \subseteq Nat, T # {}
  PROVE  \E x \in T : \A y \in T : x <= y
<1>1. PICK x \in T : \A y \in T : ~(<<y, x>> \in OpToRel(<, Nat))
  BY WFMin, NatLessThanWellFounded
<1>2. \A y \in T : ~(y < x)
  BY <1>1 DEF OpToRel
<1> QED BY <1>2

\* Remainders, as the chunks of txpos rows need them.
LEMMA Remainders ==
  ASSUME NEW a \in Nat
  PROVE  /\ a % CHUNK_SIZE \in 0..(CHUNK_SIZE - 1)
         /\ a % CHUNK_SIZE <= a
         /\ (a - (a % CHUNK_SIZE)) % CHUNK_SIZE = 0
         /\ a % CHUNK_SIZE = 0 /\ a > 0 =>
              a >= CHUNK_SIZE /\ (a - CHUNK_SIZE) % CHUNK_SIZE = 0
<1>0. CHUNK_SIZE \in Nat \ {0}
  BY ChunkAssumption DEF ChunkAssumption
<1>1. \A q \in Nat : (CHUNK_SIZE * q) % CHUNK_SIZE = 0
  BY <1>0
<1> DEFINE q == a \div CHUNK_SIZE
           r == a % CHUNK_SIZE
<1>2. /\ q \in Nat /\ r \in 0..(CHUNK_SIZE - 1) /\ r <= a
      /\ a = CHUNK_SIZE * q + r
  BY <1>0
<1>3. (a - r) % CHUNK_SIZE = 0
  <2>1. a - r = CHUNK_SIZE * q
    BY <1>0, <1>2
  <2> QED BY <1>1, <1>2, <2>1
<1>4. ASSUME r = 0, a > 0 PROVE a >= CHUNK_SIZE /\ (a - CHUNK_SIZE) % CHUNK_SIZE = 0
  <2>1. q # 0
    BY <1>0, <1>2, <1>4
  <2>2. q - 1 \in Nat /\ a - CHUNK_SIZE = CHUNK_SIZE * (q - 1)
    BY <1>0, <1>2, <1>4, <2>1
  <2>3. a >= CHUNK_SIZE
    BY <1>0, <1>4
  <2> QED BY <1>1, <2>2, <2>3
<1> QED BY <1>2, <1>3, <1>4

\* The txnum of the i-th transaction of the m-th block is found in that block.
LEMMA Finds ==
  ASSUME NEW s, Chain(s), NEW m \in 1..Len(s), NEW i \in 1..TxsCount(s[m].hash)
  PROVE  FindByTxnum(s, FirstTxnum(s[m]) + i - 1) =
           [hash |-> s[m].hash, height |-> m - 1, offset |-> i - 1]
<1> DEFINE F == FirstTxnum(s[m])
           n == F + i - 1
           before == { j \in DOMAIN s : s[j].next_txnum <= n }
<1>0. Len(s) \in Nat /\ DOMAIN s = 1..Len(s)
  BY DEF Chain
<1>1. /\ TxsCount(s[m].hash) \in Nat /\ F \in Nat
      /\ s[m].next_txnum = F + TxsCount(s[m].hash)
      /\ \A j \in 1..Len(s) : s[j].next_txnum \in Nat
  BY Ranges DEF IndexedHeader
<1>2. before = 1..(m - 1)
  <2>1. ASSUME NEW j \in 1..Len(s), j < m PROVE s[j].next_txnum <= n
    <3>1. s[j].next_txnum <= F
      BY <2>1, Ranges
    <3> QED BY <1>1, <3>1
  <2>2. ASSUME NEW j \in 1..Len(s), j >= m PROVE ~(s[j].next_txnum <= n)
    <3>1. s[m].next_txnum <= s[j].next_txnum
      BY <1>0, <2>2 DEF Chain
    <3> QED BY <1>1, <3>1
  <2> HIDE DEF n, F
  <2> QED BY <1>0, <2>1, <2>2
<1>3. Cardinality(before) = m - 1
  <2>1. Cardinality(1..(m - 1)) = IF 1 > m - 1 THEN 0 ELSE (m - 1) - 1 + 1
    BY <1>0, FS_Interval
  <2>2. Cardinality(1..(m - 1)) = m - 1
    BY <1>0, <2>1
  <2> HIDE DEF before
  <2> QED BY <1>2, <2>2
<1>4. m - 1 # Len(s) /\ (m - 1) + 1 = m
  BY <1>0
<1>5. n - (IF m - 1 = 0 THEN 0 ELSE s[m - 1].next_txnum) = i - 1
  <2>1. s[m].next_txnum = (IF m = 1 THEN 0 ELSE s[m - 1].next_txnum) + TxsCount(s[m].hash)
    BY DEF Chain
  <2>2. m # 1 => m - 1 \in 1..Len(s)
    BY <1>0
  <2> DEFINE prev == IF m = 1 THEN 0 ELSE s[m - 1].next_txnum
  <2>3. prev = F
    <3>1. prev \in Nat
      BY <1>1, <2>2
    <3>2. F + TxsCount(s[m].hash) = prev + TxsCount(s[m].hash)
      BY <1>1, <2>1
    <3> HIDE DEF prev, F
    <3> QED BY <1>1, <3>1, <3>2
  <2>4. (IF m - 1 = 0 THEN 0 ELSE s[m - 1].next_txnum) = prev
    BY <1>0
  <2> HIDE DEF prev, F
  <2> QED BY <1>0, <1>1, <2>3, <2>4
<1>6. FindByTxnum(s, n) =
        IF m - 1 = Len(s) THEN NoLocation
        ELSE [hash |-> s[(m - 1) + 1].hash, height |-> m - 1,
              offset |-> n - (IF m - 1 = 0 THEN 0 ELSE s[m - 1].next_txnum)]
  BY <1>3 DEF FindByTxnum
<1> HIDE DEF n
<1>7. FindByTxnum(s, n) = [hash |-> s[m].hash, height |-> m - 1, offset |-> i - 1]
  BY <1>4, <1>5, <1>6
<1> QED BY <1>7 DEF n

\* The last transaction of the chunk that holds the i-th of c transactions, and
\* how far back the i-th is from it.
ChunkEnd(e, c) == e % CHUNK_SIZE = 0 \/ e = c
ChunkLen(e) == IF e % CHUNK_SIZE = 0 THEN CHUNK_SIZE ELSE e % CHUNK_SIZE

LEMMA ChunkOf ==
  ASSUME NEW c \in Nat, NEW i \in 1..c
  PROVE  \E e \in i..c :
           /\ ChunkEnd(e, c) /\ e - i < ChunkLen(e) /\ ChunkLen(e) \in Nat
           /\ \A d \in i..c : ChunkEnd(d, c) => e <= d
<1>0. CHUNK_SIZE \in Nat \ {0}
  BY ChunkAssumption DEF ChunkAssumption
<1> DEFINE T == { e \in i..c : ChunkEnd(e, c) }
<1>1. T \subseteq Nat /\ c \in T
  BY DEF ChunkEnd
<1>2. PICK e \in T : \A d \in T : e <= d
  <2> HIDE DEF T
  <2> QED BY <1>1, Least
<1>3. e \in i..c /\ e \in Nat /\ e > 0 /\ ChunkEnd(e, c) /\ \A d \in i..c : ChunkEnd(d, c) => e <= d
  BY <1>2
<1> HIDE DEF T
<1>4. e % CHUNK_SIZE \in 0..(CHUNK_SIZE - 1) /\ e % CHUNK_SIZE <= e
  BY <1>3, Remainders
<1>5. ChunkLen(e) \in Nat
  BY <1>0, <1>4 DEF ChunkLen
<1>6. e - i < ChunkLen(e)
  <2>1. CASE e % CHUNK_SIZE = 0
    <3> DEFINE d == e - CHUNK_SIZE
    <3>1. d % CHUNK_SIZE = 0 /\ d < e /\ d \in Int
      BY <1>0, <1>3, <2>1, Remainders
    <3>2. ~(d \in i..c)
      BY <1>3, <3>1 DEF ChunkEnd
    <3>3. d < i
      BY <1>0, <1>3, <3>2
    <3> QED BY <1>0, <1>3, <2>1, <3>3 DEF ChunkLen
  <2>2. CASE e % CHUNK_SIZE # 0
    <3> DEFINE r == e % CHUNK_SIZE
               d == e - r
    <3>1. d % CHUNK_SIZE = 0 /\ r \in Nat
      BY <1>0, <1>3, <1>4, Remainders
    <3>2. r > 0 /\ d < e /\ d \in Int
      BY <1>3, <2>2, <3>1
    <3>3. ~(d \in i..c)
      <4> HIDE DEF d
      <4> QED BY <1>3, <3>1, <3>2 DEF ChunkEnd
    <3> HIDE DEF r
    <3>4. d < i
      BY <1>3, <3>1, <3>2, <3>3
    <3>5. ChunkLen(e) = r
      BY <2>2 DEF ChunkLen, r
    <3> QED BY <1>3, <3>1, <3>4, <3>5
  <2> QED BY <2>1, <2>2
<1> QED BY <1>3, <1>5, <1>6

\* A block's txpos rows, by the chunk ends.
TxposRow(h, e) ==
  [key |-> FirstTxnum(h) + e - 1,
   val |-> [block |-> h.hash, last |-> e, len |-> ChunkLen(e)]]

LEMMA TxposByEnd ==
  ASSUME NEW h
  PROVE  TxposRows(h) =
           { TxposRow(h, e) : e \in { d \in 1..TxsCount(h.hash) : ChunkEnd(d, TxsCount(h.hash)) } }
  BY DEF TxposRows, TxposRow, ChunkEnd, ChunkLen

\* And get_tx_block_pos finds its place in the block: the first row at or after it
\* is that of its chunk.
LEMMA FindsPos ==
  ASSUME NEW s, Chain(s), NEW m \in 1..Len(s), NEW i \in 1..TxsCount(s[m].hash)
  PROVE  GetTxBlockPos(BatchRows(s), FirstTxnum(s[m]) + i - 1) =
           [block |-> s[m].hash, tx |-> i]
<1> DEFINE F == FirstTxnum(s[m])
           c == TxsCount(s[m].hash)
           n == F + i - 1
           after == { r \in BatchRows(s).txpos : r.key >= n }
<1>0. Len(s) \in Nat /\ DOMAIN s = 1..Len(s)
  BY DEF Chain
<1>1. c \in Nat /\ F \in Nat /\ s[m].next_txnum = F + c
  BY Ranges
<1>2. PICK e \in i..c :
           /\ ChunkEnd(e, c) /\ e - i < ChunkLen(e) /\ ChunkLen(e) \in Nat
           /\ \A d \in i..c : ChunkEnd(d, c) => e <= d
  BY <1>1, ChunkOf
<1> DEFINE row == TxposRow(s[m], e)
<1>3. row \in after /\ row.key = F + e - 1
  <2>1. row.key = F + e - 1
    BY DEF TxposRow
  <2>2. row \in TxposRows(s[m])
    BY <1>1, <1>2, TxposByEnd
  <2>3. row \in BatchRows(s).txpos
    BY <1>0, <2>2 DEF BatchRows
  <2> QED BY <1>1, <1>2, <2>1, <2>3
<1>4. ASSUME NEW r \in after
      PROVE  row.key <= r.key /\ (r.key <= row.key => r = row)
  <2>1. PICK j \in 1..Len(s) : r \in TxposRows(s[j])
    BY <1>0 DEF BatchRows
  <2>2. PICK d \in 1..TxsCount(s[j].hash) :
          ChunkEnd(d, TxsCount(s[j].hash)) /\ r = TxposRow(s[j], d)
    BY <2>1, TxposByEnd
  <2>3. /\ r.key = FirstTxnum(s[j]) + d - 1 /\ r.key >= n
        /\ FirstTxnum(s[j]) \in Nat /\ TxsCount(s[j].hash) \in Nat
        /\ s[j].next_txnum = FirstTxnum(s[j]) + TxsCount(s[j].hash)
    BY <2>2, Ranges DEF TxposRow
  <2>4. ~(j < m)
    <3>1. j < m => s[j].next_txnum <= F
      BY Ranges
    <3> QED BY <1>1, <2>2, <2>3, <3>1
  <2>5. CASE j = m
    <3>1. d \in i..c /\ ChunkEnd(d, c)
      BY <1>1, <2>2, <2>3, <2>5
    <3>2. e <= d
      BY <1>2, <3>1
    <3>3. r.key = F + d - 1
      BY <2>3, <2>5
    <3>4. r.key <= row.key => d = e
      BY <1>1, <1>2, <1>3, <3>1, <3>2, <3>3
    <3> QED BY <1>1, <1>2, <1>3, <2>2, <2>5, <3>1, <3>2, <3>3, <3>4
  <2>6. CASE j > m
    <3>1. s[m].next_txnum <= FirstTxnum(s[j])
      BY <2>6, Ranges
    <3> DEFINE G == FirstTxnum(s[j])
    <3>2. /\ F \in Nat /\ G \in Nat /\ F + c <= G /\ e <= c /\ d >= 1
          /\ e \in Int /\ d \in Int /\ c \in Nat
          /\ row.key = F + e - 1 /\ r.key = G + d - 1
      BY <1>1, <1>2, <1>3, <2>2, <2>3, <3>1
    <3> HIDE DEF F, G, c, row
    <3>3. row.key \in Int /\ r.key \in Int /\ row.key < r.key
      BY <3>2
    <3> QED BY <3>3
  <2> QED BY <1>0, <2>4, <2>5, <2>6
<1> DEFINE found == CHOOSE r \in after : \A q \in after : r.key <= q.key
<1> HIDE DEF after, row, n
<1>5. found = row
  <2>1. found \in after /\ \A q \in after : found.key <= q.key
    BY <1>3, <1>4
  <2> HIDE DEF found
  <2> QED BY <1>3, <1>4, <2>1
<1>6. /\ found.key - n = e - i
      /\ found.val.block = s[m].hash /\ found.val.last = e /\ found.val.len = ChunkLen(e)
  <2>1. row.val.block = s[m].hash /\ row.val.last = e /\ row.val.len = ChunkLen(e)
    BY DEF row, TxposRow
  <2> HIDE DEF found
  <2>2. (F + e - 1) - (F + i - 1) = e - i
    BY <1>1, <1>2
  <2> QED BY <1>3, <1>5, <2>1, <2>2 DEF n
<1>7. GetTxBlockPos(BatchRows(s), n) =
        IF after = {} THEN NoPos
        ELSE IF found.key - n >= found.val.len THEN NoPos
        ELSE [block |-> found.val.block, tx |-> found.val.last - (found.key - n)]
  BY DEF GetTxBlockPos, after
<1> HIDE DEF found
<1>8. after # {} /\ ~(e - i >= ChunkLen(e)) /\ e - (e - i) = i
  BY <1>2, <1>3
<1>9. GetTxBlockPos(BatchRows(s), n) = [block |-> s[m].hash, tx |-> i]
  BY <1>6, <1>7, <1>8
<1> QED BY <1>9 DEF n

\* So every row of a chain's store resolves to a transaction indexed under its
\* prefix, and every transaction of the chain is found under each of its prefixes.
LEMMA ChainResolves ==
  ASSUME NEW s, Chain(s)
  PROVE  RowsResolve(s, BatchRows(s)) /\ TxsFound(s, BatchRows(s))
<1>0. Len(s) \in Nat /\ DOMAIN s = 1..Len(s)
  BY DEF Chain
<1>1. ASSUME NEW r \in BatchRows(s).hashes
      PROVE  LET loc == FindByTxnum(s, r.key[2])
             IN  /\ loc # NoLocation
                 /\ loc.offset < TxsCount(loc.hash)
                 /\ r.key[1] \in Txs[loc.hash][loc.offset + 1]
                 /\ GetTxBlockPos(BatchRows(s), r.key[2]) =
                      [block |-> loc.hash, tx |-> loc.offset + 1]
  <2>1. PICK m \in 1..Len(s) : r \in HashRows(s[m])
    BY <1>0 DEF BatchRows
  <2> DEFINE F == FirstTxnum(s[m])
             b == s[m].hash
  <2>2. PICK i \in 1..TxsCount(b) :
          r \in { [key |-> <<p, F + i - 1>>, val |-> ""] : p \in Txs[b][i] }
    BY <2>1 DEF HashRows
  <2>3. PICK p \in Txs[b][i] : r = [key |-> <<p, F + i - 1>>, val |-> ""]
    BY <2>2
  <2>4. r.key[1] = p /\ r.key[2] = F + i - 1
    BY <2>3
  <2>5. TxsCount(b) \in Nat /\ b \in Blocks
    BY Ranges DEF IndexedHeader
  <2>6. FindByTxnum(s, r.key[2]) = [hash |-> b, height |-> m - 1, offset |-> i - 1]
    BY <2>4, Finds
  <2>7. GetTxBlockPos(BatchRows(s), r.key[2]) = [block |-> b, tx |-> i]
    BY <2>4, FindsPos
  <2> HIDE DEF b, F
  <2>8. i - 1 < TxsCount(b) /\ (i - 1) + 1 = i
    BY <2>5
  <2>9. [hash |-> b, height |-> m - 1, offset |-> i - 1] # NoLocation
    BY <2>5, BlocksAssumption DEF BlocksAssumption, NoLocation
  <2> DEFINE loc == FindByTxnum(s, r.key[2])
  <2>10. loc.hash = b /\ loc.offset = i - 1 /\ loc # NoLocation
    BY <2>6, <2>9
  <2> HIDE DEF loc
  <2>11. /\ loc.offset < TxsCount(loc.hash) /\ r.key[1] \in Txs[loc.hash][loc.offset + 1]
         /\ GetTxBlockPos(BatchRows(s), r.key[2]) = [block |-> loc.hash, tx |-> loc.offset + 1]
    BY <2>4, <2>7, <2>8, <2>10
  <2> QED BY <2>10, <2>11 DEF loc
<1>2. ASSUME NEW m \in DOMAIN s, NEW j \in 1..TxsCount(s[m].hash), NEW p \in Txs[s[m].hash][j]
      PROVE  \E r \in BatchRows(s).hashes :
               /\ r.key[1] = p
               /\ FindByTxnum(s, r.key[2]) =
                    [hash |-> s[m].hash, height |-> m - 1, offset |-> j - 1]
  <2> DEFINE r == [key |-> <<p, FirstTxnum(s[m]) + j - 1>>, val |-> ""]
  <2>1. r \in HashRows(s[m])
    <3>1. r \in { [key |-> <<q, FirstTxnum(s[m]) + j - 1>>, val |-> ""] :
                    q \in Txs[s[m].hash][j] }
      OBVIOUS
    <3> HIDE DEF r
    <3> QED BY <3>1 DEF HashRows
  <2>2. r \in BatchRows(s).hashes
    BY <2>1 DEF BatchRows
  <2>3. r.key[1] = p /\ r.key[2] = FirstTxnum(s[m]) + j - 1
    OBVIOUS
  <2>4. FindByTxnum(s, r.key[2]) = [hash |-> s[m].hash, height |-> m - 1, offset |-> j - 1]
    BY <1>0, <2>3, Finds
  <2> HIDE DEF r
  <2> QED BY <2>2, <2>3, <2>4
<1>3. RowsResolve(s, BatchRows(s))
  BY <1>1 DEF RowsResolve
<1>4. TxsFound(s, BatchRows(s))
  BY <1>2 DEF TxsFound
<1> QED BY <1>3, <1>4

\* Between rounds every script or txid row resolves, through find_by_txnum and
\* get_tx_block_pos, to a transaction indexed under its prefix, for every chunk
\* size and however many transactions a block has; and no transaction of the
\* chain is missed.
THEOREM LookupsAlwaysResolve ==
  ASSUME ~RetryInProcess
  PROVE  Spec => []LookupsResolve
<1>1. IInv => LookupsResolve
  BY ChainResolves DEF IInv, DiskInv, LookupsResolve
<1> QED BY <1>1, Invariance, PTL

-----------------------------------------------------------------------------
(* The reader: the inductive invariant *)

\* What the reader holds is a chain, and after a complete refresh it is that of
\* the rows it reads from.
SInv ==
  /\ IInv
  /\ Chain(sheaders)
  /\ sok \in BOOLEAN
  /\ sok => sstore = BatchRows(sheaders)

-----------------------------------------------------------------------------
(* Chains *)

\* Two blocks with one hash have one previous hash, so two chains that share a
\* block share everything up to it, at the same heights.
LEMMA SharedPrefix ==
  ASSUME NEW s, Chain(s), NEW t, Chain(t), NEW n \in 1..Len(s), NEW k \in 1..Len(t),
         s[n].hash = t[k].hash
  PROVE  n = k /\ \A j \in 1..n : s[j] = t[j]
<1> DEFINE Good(i) ==
      \A m \in 1..Len(t) :
        s[i].hash = t[m].hash => i = m /\ \A j \in 1..i : s[j] = t[j]
      Bad == { i \in 1..Len(s) : ~Good(i) }
<1>0. /\ s \in Seq(IndexedHeader) /\ t \in Seq(IndexedHeader)
      /\ Len(s) \in Nat /\ Len(t) \in Nat
      /\ \A i \in 1..Len(s) : s[i] \in IndexedHeader
      /\ \A i \in 1..Len(t) : t[i] \in IndexedHeader
  BY DEF Chain
<1>1. SUFFICES Bad = {}
  BY <1>1
<1>2. SUFFICES ASSUME Bad # {} PROVE FALSE
  OBVIOUS
<1>3. PICK i \in Bad : \A y \in Bad : i <= y
  <2>1. Bad \subseteq Nat
    BY <1>0
  <2> HIDE DEF Bad
  <2> QED BY <1>2, <2>1, Least
<1>4. PICK m \in 1..Len(t) :
        s[i].hash = t[m].hash /\ ~(i = m /\ \A j \in 1..i : s[j] = t[j])
  BY <1>3
<1>5. i \in 1..Len(s) /\ (i > 1 => Good(i - 1))
  BY <1>0, <1>3
<1> HIDE DEF Bad, Good
<1>6. s[i].prev_blockhash = t[m].prev_blockhash
  BY <1>4, <1>5 DEF Chain
<1>7. i = m /\ \A j \in 1..(i - 1) : s[j] = t[j]
  <2>1. CASE i = 1
    <3>1. s[i].prev_blockhash = NoBlock
      BY <1>5, <2>1 DEF Chain
    <3>2. m > 1 => t[m].prev_blockhash = t[m - 1].hash /\ t[m - 1].hash \in Blocks
      <4> SUFFICES ASSUME m > 1
                   PROVE t[m].prev_blockhash = t[m - 1].hash /\ t[m - 1].hash \in Blocks
        OBVIOUS
      <4>1. t[m].prev_blockhash = t[m - 1].hash /\ m - 1 \in 1..Len(t)
        BY <1>0, <1>4 DEF Chain
      <4> QED BY <1>0, <4>1 DEF IndexedHeader
    <3>3. m = 1
      BY <1>0, <1>6, <3>1, <3>2, BlocksAssumption DEF BlocksAssumption
    <3> QED BY <2>1, <3>3
  <2>2. CASE i > 1
    <3>1. s[i].prev_blockhash = s[i - 1].hash /\ i - 1 \in 1..Len(s)
      BY <1>0, <1>5, <2>2 DEF Chain
    <3>2. s[i - 1].hash \in Blocks
      BY <1>0, <3>1 DEF IndexedHeader
    <3>3. m # 1
      <4>1. m = 1 => t[m].prev_blockhash = NoBlock
        BY <1>4 DEF Chain
      <4> QED BY <1>6, <3>1, <3>2, <4>1, BlocksAssumption DEF BlocksAssumption
    <3>4. t[m].prev_blockhash = t[m - 1].hash /\ m - 1 \in 1..Len(t)
      BY <1>0, <1>4, <3>3 DEF Chain
    <3>5. i - 1 = m - 1 /\ \A j \in 1..(i - 1) : s[j] = t[j]
      BY <1>5, <1>6, <2>2, <3>1, <3>4 DEF Good
    <3> QED BY <1>0, <1>5, <3>5
  <2> QED BY <1>0, <1>5, <2>1, <2>2
<1>8. s[i] = t[i]
  <2>1. /\ s[i] \in IndexedHeader /\ t[i] \in IndexedHeader
        /\ s[i].hash = t[i].hash /\ s[i].prev_blockhash = t[i].prev_blockhash
    BY <1>0, <1>4, <1>5, <1>6, <1>7
  <2>2. s[i].height = i - 1 /\ t[i].height = i - 1
    BY <1>4, <1>5, <1>7 DEF Chain
  <2>3. /\ s[i].next_txnum = (IF i = 1 THEN 0 ELSE s[i - 1].next_txnum) + TxsCount(s[i].hash)
        /\ t[i].next_txnum = (IF i = 1 THEN 0 ELSE t[i - 1].next_txnum) + TxsCount(t[i].hash)
    BY <1>4, <1>5, <1>7 DEF Chain
  <2>4. i > 1 => s[i - 1] = t[i - 1]
    BY <1>0, <1>5, <1>7
  <2>5. s[i].next_txnum = t[i].next_txnum
    BY <1>0, <1>5, <2>1, <2>3, <2>4
  <2> QED BY <2>1, <2>2, <2>5 DEF IndexedHeader
<1> QED BY <1>0, <1>4, <1>5, <1>7, <1>8

-----------------------------------------------------------------------------
(* Reading from a key on *)

\* The header rows of a chain with a key of at least K are those of its blocks
\* from some block k on ...
LEMMA RowsFrom ==
  ASSUME NEW t, Chain(t), NEW K \in Nat,
         { r \in BatchRows(t).headers : r.key >= K } # {}
  PROVE  \E k \in 1..Len(t) :
           { r \in BatchRows(t).headers : r.key >= K } = { HeaderRow(t[j]) : j \in k..Len(t) }
<1> DEFINE cf == { r \in BatchRows(t).headers : r.key >= K }
           J == { j \in 1..Len(t) : HeaderRow(t[j]).key >= K }
<1>0. /\ Len(t) \in Nat /\ DOMAIN t = 1..Len(t)
      /\ BatchRows(t).headers = { HeaderRow(t[j]) : j \in 1..Len(t) }
  <2>1. Len(t) \in Nat /\ DOMAIN t = 1..Len(t)
    BY DEF Chain
  <2>2. BatchRows(t).headers = { HeaderRow(t[j]) : j \in DOMAIN t }
    BY DEF BatchRows
  <2> QED BY <2>1, <2>2
<1>1. J # {} /\ J \subseteq Nat
  BY <1>0
<1>2. PICK k \in J : \A j \in J : k <= j
  <2> HIDE DEF J
  <2> QED BY <1>1, Least
<1>3. \A j \in 1..Len(t) : HeaderRow(t[j]).key \in Nat
  BY <1>0, Ranges DEF HeaderRow, HeaderKey, IndexedHeader
<1>4. \A j \in 1..Len(t) : j >= k => j \in J
  <2> SUFFICES ASSUME NEW j \in 1..Len(t), j > k PROVE HeaderRow(t[j]).key >= K
    BY <1>0, <1>2
  <2>1. k \in 1..Len(t) /\ HeaderRow(t[k]).key >= K
    BY <1>2
  <2>2. HeaderKey(t[k]) < HeaderKey(t[j])
    BY <2>1, HeaderKeysGrow
  <2> QED BY <1>3, <2>1, <2>2 DEF HeaderRow
<1>5. cf = { HeaderRow(t[j]) : j \in k..Len(t) }
  <2>1. ASSUME NEW r \in cf PROVE \E j \in k..Len(t) : r = HeaderRow(t[j])
    <3>1. PICK j \in 1..Len(t) : r = HeaderRow(t[j])
      BY <1>0
    <3>2. j \in J
      BY <3>1
    <3>3. j \in k..Len(t)
      BY <1>0, <1>2, <3>1, <3>2
    <3> QED BY <3>1, <3>3
  <2>2. ASSUME NEW j \in k..Len(t) PROVE HeaderRow(t[j]) \in cf
    <3>1. j \in 1..Len(t) /\ j >= k
      BY <1>0, <1>2
    <3> QED BY <1>0, <1>4, <3>1
  <2> QED BY <2>1, <2>2
<1> QED BY <1>2, <1>5

\* ... and there are as many as blocks from k to n.
LEMMA RowsBetween ==
  ASSUME NEW t, Chain(t), NEW k \in 1..Len(t), NEW n \in (k - 1)..Len(t),
         NEW B, B = { HeaderRow(t[j]) : j \in k..n }
  PROVE  IsFiniteSet(B) /\ Cardinality(B) = n - k + 1
<1> DEFINE f == [j \in k..n |-> HeaderRow(t[j])]
<1>0. Len(t) \in Nat /\ k \in Nat /\ n \in Int
  BY DEF Chain
<1>1. IsFiniteSet(k..n) /\ Cardinality(k..n) = n - k + 1
  <2>1. k \in Int /\ n \in Int /\ (k > n <=> n - k + 1 = 0)
    BY <1>0
  <2>2. /\ IsFiniteSet(k..n)
        /\ Cardinality(k..n) = IF k > n THEN 0 ELSE n - k + 1
    BY <2>1, FS_Interval
  <2> QED BY <2>1, <2>2
<1>2. \A i, j \in k..n : f[i] = f[j] => i = j
  <2> SUFFICES ASSUME NEW i \in k..n, NEW j \in k..n, HeaderRow(t[i]) = HeaderRow(t[j])
               PROVE  i = j
    OBVIOUS
  <2>1. i \in 1..Len(t) /\ j \in 1..Len(t)
    BY <1>0
  <2>2. HeaderRow(t[i]).key = HeaderRow(t[j]).key
    OBVIOUS
  <2>3. ~(i < j) /\ ~(j < i)
    BY <2>1, <2>2, KeysDisjoint
  <2> QED BY <2>1, <2>3
<1>3. f \in [k..n -> B] /\ \A b \in B : \E j \in k..n : f[j] = b
  OBVIOUS
<1>4. f \in Bijection(k..n, B)
  BY <1>2, <1>3 DEF Bijection, Injection, Surjection, IsInjective
<1> QED BY <1>1, <1>4, FS_Bijection DEF ExistsBijection

\* In key order, they are read as blocks k, k + 1, ...
LEMMA RowAtFrom ==
  ASSUME NEW t, Chain(t), NEW k \in 1..Len(t), NEW i \in 1..(Len(t) - k + 1),
         NEW cf, cf = { HeaderRow(t[j]) : j \in k..Len(t) }
  PROVE  RowAt(cf, i - 1) = HeaderRow(t[k + i - 1])
<1>0. Len(t) \in Nat
  BY DEF Chain
<1>1. ASSUME NEW m \in k..Len(t)
      PROVE  Cardinality({ q \in cf : q.key < HeaderRow(t[m]).key }) = m - k
  <2> DEFINE B == { HeaderRow(t[j]) : j \in k..(m - 1) }
  <2>1. { q \in cf : q.key < HeaderRow(t[m]).key } = B
    <3>1. ASSUME NEW q \in cf, q.key < HeaderRow(t[m]).key
          PROVE  \E j \in k..(m - 1) : q = HeaderRow(t[j])
      <4>1. PICK j \in k..Len(t) : q = HeaderRow(t[j])
        OBVIOUS
      <4>2. j \in 1..Len(t) /\ m \in 1..Len(t)
        BY <1>0
      <4>3. HeaderKey(t[j]) < HeaderKey(t[m])
        BY <3>1, <4>1 DEF HeaderRow
      <4>4. ~(m < j)
        <5>1. m < j => /\ HeaderKey(t[m]) \in Nat /\ HeaderKey(t[j]) \in Nat
                       /\ HeaderKey(t[m]) < HeaderKey(t[j])
          BY <4>2, HeaderKeysGrow
        <5> QED BY <4>3, <5>1
      <4>5. m # j
        <5>1. HeaderKey(t[m]) \in Nat
          BY <4>2, Ranges DEF HeaderKey, IndexedHeader
        <5> QED BY <4>3, <5>1
      <4>6. j \in k..(m - 1)
        BY <1>0, <4>2, <4>4, <4>5
      <4> QED BY <4>1, <4>6
    <3>2. ASSUME NEW j \in k..(m - 1)
          PROVE  HeaderRow(t[j]) \in cf /\ HeaderRow(t[j]).key < HeaderRow(t[m]).key
      <4>1. j \in 1..Len(t) /\ m \in 1..Len(t) /\ j < m /\ j \in k..Len(t)
        BY <1>0
      <4> QED BY <4>1, HeaderKeysGrow DEF HeaderRow
    <3> QED BY <3>1, <3>2
  <2>2. m - 1 \in (k - 1)..Len(t)
    BY <1>0
  <2>3. Cardinality(B) = (m - 1) - k + 1
    BY <2>2, RowsBetween
  <2>4. (m - 1) - k + 1 = m - k
    BY <1>0
  <2> HIDE DEF B
  <2> QED BY <2>1, <2>3, <2>4
<1> DEFINE n == k + i - 1
<1>2. n \in k..Len(t) /\ n - k = i - 1
  BY <1>0
<1>3. HeaderRow(t[n]) \in cf /\ Cardinality({ q \in cf : q.key < HeaderRow(t[n]).key }) = i - 1
  BY <1>1, <1>2
<1>4. ASSUME NEW r \in cf, Cardinality({ q \in cf : q.key < r.key }) = i - 1
      PROVE  r = HeaderRow(t[n])
  <2>1. PICK m \in k..Len(t) : r = HeaderRow(t[m])
    OBVIOUS
  <2>2. m - k = i - 1
    BY <1>1, <1>4, <2>1
  <2>3. m = n
    BY <1>0, <2>2
  <2> QED BY <2>1, <2>3
<1> QED BY <1>3, <1>4 DEF RowAt

\* The part of a chain from block k on.
FromBlock(t, k) == [i \in 1..(Len(t) - k + 1) |-> t[k + i - 1]]

\* What headers_from reads from a chain's rows, given the height of its first row.
LEMMA ReadFrom ==
  ASSUME NEW t, Chain(t), NEW K \in Nat, NEW height \in Nat,
         NEW rows, rows = DbHeadersFrom(BatchRows(t), K, height), rows # <<>>
  PROVE  \E k \in 1..Len(t) :
           /\ rows[1].hash = t[k].hash
           /\ height = k - 1 => rows = FromBlock(t, k)
<1> DEFINE cf == { r \in BatchRows(t).headers : r.key >= K }
<1>0. Len(t) \in Nat
  BY DEF Chain
<1>1. rows = [i \in 1..Cardinality(cf) |-> Deserialize(RowAt(cf, i - 1), height + i - 1)]
  BY DEF DbHeadersFrom
<1>2. cf # {}
  <2>1. Cardinality({}) = 0
    BY FS_EmptySet
  <2>2. cf = {} => rows = [i \in 1..0 |-> Deserialize(RowAt(cf, i - 1), height + i - 1)]
    BY <1>1, <2>1
  <2>3. cf = {} => rows = <<>>
    BY <2>2
  <2> QED BY <2>3
<1>3. PICK k \in 1..Len(t) : cf = { HeaderRow(t[j]) : j \in k..Len(t) }
  BY <1>2, RowsFrom
<1> HIDE DEF cf
<1>4. Cardinality(cf) = Len(t) - k + 1
  <2>1. Len(t) \in (k - 1)..Len(t)
    BY <1>0
  <2> QED BY <1>3, <2>1, RowsBetween
<1>5. \A i \in 1..(Len(t) - k + 1) :
        /\ RowAt(cf, i - 1) = HeaderRow(t[k + i - 1])
        /\ rows[i] = Deserialize(HeaderRow(t[k + i - 1]), height + i - 1)
  <2> SUFFICES ASSUME NEW i \in 1..(Len(t) - k + 1)
               PROVE  /\ RowAt(cf, i - 1) = HeaderRow(t[k + i - 1])
                      /\ rows[i] = Deserialize(HeaderRow(t[k + i - 1]), height + i - 1)
    OBVIOUS
  <2>1. RowAt(cf, i - 1) = HeaderRow(t[k + i - 1])
    BY <1>3, RowAtFrom
  <2>2. rows[i] = Deserialize(RowAt(cf, i - 1), height + i - 1)
    BY <1>1, <1>4
  <2> QED BY <2>1, <2>2
<1>6. rows[1].hash = t[k].hash
  <2>1. 1 \in 1..(Len(t) - k + 1) /\ k + 1 - 1 = k
    BY <1>0
  <2>2. rows[1] = Deserialize(HeaderRow(t[k]), height + 1 - 1)
    BY <1>5, <2>1
  <2> QED BY <2>2 DEF Deserialize, HeaderRow
<1>7. ASSUME height = k - 1, NEW i \in 1..(Len(t) - k + 1)
      PROVE  Deserialize(RowAt(cf, i - 1), height + i - 1) = t[k + i - 1]
  <2> DEFINE n == k + i - 1
  <2>1. n \in 1..Len(t) /\ height + i - 1 = n - 1
    BY <1>0, <1>7
  <2> HIDE DEF n
  <2>2. t[n] \in IndexedHeader /\ t[n].height = n - 1
    BY <2>1 DEF Chain
  <2>3. t[n] = [height |-> t[n].height, next_txnum |-> t[n].next_txnum,
                hash |-> t[n].hash, prev_blockhash |-> t[n].prev_blockhash]
    BY <2>2 DEF IndexedHeader
  <2>4. Deserialize(HeaderRow(t[n]), n - 1) = t[n]
    BY <2>2, <2>3, LiquidAssumption DEF Deserialize, HeaderRow, HeaderKey
  <2>5. RowAt(cf, i - 1) = HeaderRow(t[n])
    BY <1>5 DEF n
  <2> QED BY <2>1, <2>4, <2>5 DEF n
<1>8. height = k - 1 => rows = FromBlock(t, k)
  BY <1>1, <1>4, <1>7 DEF FromBlock
<1> QED BY <1>6, <1>8

\* A reader on chain s next to a disk with chain t: if the rows from its tip on
\* extend the tip, then its chain with those rows is the disk's chain.
LEMMA AppendedIsReload ==
  ASSUME NEW s, Chain(s), s # <<>>, NEW t, Chain(t),
         NEW rows, rows = DbHeadersFrom(BatchRows(t), HeaderKey(s[Len(s)]), s[Len(s)].height),
         rows # <<>>, rows[1].hash = TipHash(s)
  PROVE  s \o Tail(rows) = t
<1> DEFINE n == Len(s)
<1>0. /\ s \in Seq(IndexedHeader) /\ t \in Seq(IndexedHeader)
      /\ n \in Nat \ {0} /\ n \in 1..Len(s) /\ Len(t) \in Nat
  BY DEF Chain
<1>1. s[n] \in IndexedHeader /\ s[n].height = n - 1 /\ s[n].height \in Nat
  BY <1>0 DEF Chain
<1>2. HeaderKey(s[n]) \in Nat
  BY <1>1 DEF HeaderKey, IndexedHeader
<1>3. PICK k \in 1..Len(t) :
        /\ rows[1].hash = t[k].hash
        /\ s[n].height = k - 1 => rows = FromBlock(t, k)
  <2> DEFINE K == HeaderKey(s[n])
             height == s[n].height
  <2>1. rows = DbHeadersFrom(BatchRows(t), K, height)
    OBVIOUS
  <2>2. K \in Nat /\ height \in Nat
    BY <1>1, <1>2
  <2> HIDE DEF n, K, height
  <2>3. \E k \in 1..Len(t) :
           /\ rows[1].hash = t[k].hash
           /\ height = k - 1 => rows = FromBlock(t, k)
    BY <2>1, <2>2, ReadFrom
  <2> QED BY <2>3 DEF height
<1>4. s[n].hash = t[k].hash
  BY <1>3 DEF TipHash
<1>5. n = k /\ \A j \in 1..n : s[j] = t[j]
  BY <1>0, <1>4, SharedPrefix
<1>6. rows = [i \in 1..(Len(t) - n + 1) |-> t[n + i - 1]]
  BY <1>1, <1>3, <1>5 DEF FromBlock
<1>7. /\ rows \in Seq(IndexedHeader) /\ Len(rows) = Len(t) - n + 1
      /\ \A i \in 1..(Len(t) - n + 1) : rows[i] = t[n + i - 1]
  <2>1. \A i \in 1..(Len(t) - n + 1) : t[n + i - 1] \in IndexedHeader
    BY <1>0, <1>3, <1>5
  <2>2. Len(t) - n + 1 \in Nat
    BY <1>0, <1>3, <1>5
  <2> HIDE DEF n
  <2> QED BY <1>6, <2>1, <2>2
<1> DEFINE u == Tail(rows)
<1> HIDE DEF n
<1>8. /\ u \in Seq(IndexedHeader) /\ Len(u) = Len(t) - n
      /\ \A i \in 1..(Len(t) - n) : u[i] = t[n + i]
  <2>1. /\ u \in Seq(IndexedHeader) /\ Len(u) = Len(rows) - 1
        /\ \A i \in 1..(Len(rows) - 1) : u[i] = rows[i + 1]
    BY <1>7
  <2>2. \A i \in 1..(Len(t) - n) :
          i + 1 \in 1..(Len(t) - n + 1) /\ n + (i + 1) - 1 = n + i
    BY <1>0
  <2>3. Len(rows) - 1 = Len(t) - n
    BY <1>0, <1>7
  <2> QED BY <1>7, <2>1, <2>2, <2>3
<1> HIDE DEF u
<1>9. Len(s) = n
  BY DEF n
<1>10. /\ s \o u \in Seq(IndexedHeader) /\ Len(s \o u) = n + Len(u)
       /\ \A i \in 1..n : (s \o u)[i] = s[i]
       /\ \A i \in 1..Len(u) : (s \o u)[n + i] = u[i]
  BY <1>0, <1>8, <1>9, Parts
<1>11. \A i \in 1..Len(t) : (s \o u)[i] = t[i]
  <2> SUFFICES ASSUME NEW i \in 1..Len(t) PROVE (s \o u)[i] = t[i]
    OBVIOUS
  <2>1. CASE i <= n
    BY <1>0, <1>5, <1>10, <2>1
  <2>2. CASE i > n
    <3>1. PICK m \in 1..(Len(t) - n) : i = n + m
      <4>1. i - n \in 1..(Len(t) - n) /\ i = n + (i - n)
        BY <1>0, <2>2
      <4> QED BY <4>1
    <3>2. (s \o u)[n + m] = u[m]
      BY <1>8, <1>10
    <3>3. u[m] = t[n + m]
      BY <1>8
    <3> QED BY <3>1, <3>2, <3>3
  <2>3. i <= n \/ i > n
    BY <1>0
  <2> QED BY <2>1, <2>2, <2>3
<1>12. s \o u = t
  <2>1. Len(s \o u) = Len(t)
    BY <1>0, <1>8, <1>10
  <2> DEFINE v == s \o u
  <2>2. v \in Seq(IndexedHeader) /\ Len(v) = Len(t) /\ \A i \in 1..Len(t) : v[i] = t[i]
    BY <1>10, <1>11, <2>1
  <2> HIDE DEF v
  <2>3. v = t
    BY <1>0, <2>2
  <2> QED BY <2>3 DEF v
<1> QED BY <1>12 DEF u

-----------------------------------------------------------------------------
(* The steps *)

\* The disk's chain, which every read of header rows meets.
LEMMA OnDisk ==
  ASSUME IInv
  PROVE  Chain(DbHeaders(store)) /\ store = BatchRows(DbHeaders(store))
<1>1. PICK s : Chain(s) /\ store = BatchRows(s)
  BY DiskHasChain
<1>2. DbHeaders(store) = s
  BY <1>1, ReadBack
<1> QED BY <1>1, <1>2

\* Whether it follows appended rows or reloads, a refresh ends on the disk's chain.
LEMMA RefreshReadsDisk ==
  ASSUME SInv, RefreshSecondary
  PROVE  sheaders' = DbHeaders(store)
<1> DEFINE t == DbHeaders(store)
<1>1. Chain(t) /\ store = BatchRows(t) /\ Chain(sheaders)
  BY OnDisk DEF SInv
<1>2. CASE sheaders # <<>> /\ ExtendsTip(RowsFromTip)
  <2> DEFINE rows == RowsFromTip
  <2>1. /\ rows # <<>> /\ rows[1].hash = TipHash(sheaders)
        /\ sheaders' = sheaders \o Tail(rows)
    BY <1>2 DEF ExtendsTip, RefreshSecondary
  <2>2. rows = DbHeadersFrom(BatchRows(t), HeaderKey(sheaders[Len(sheaders)]),
                             sheaders[Len(sheaders)].height)
    BY <1>1 DEF RowsFromTip
  <2> HIDE DEF t, rows
  <2>3. sheaders \o Tail(rows) = t
    BY <1>1, <1>2, <2>1, <2>2, AppendedIsReload
  <2> QED BY <2>1, <2>3 DEF t
<1>3. CASE ~(sheaders # <<>> /\ ExtendsTip(RowsFromTip))
  BY <1>3 DEF RefreshSecondary
<1> QED BY <1>2, <1>3

LEMMA SInitInv == SInit => SInv
<1> SUFFICES ASSUME SInit PROVE SInv
  OBVIOUS
<1>1. IInv
  BY InitInv DEF SInit
<1>2. Chain(sheaders) /\ sstore = BatchRows(sheaders) /\ sok = TRUE
  BY EmptyChain DEF SInit
<1> QED BY <1>1, <1>2 DEF SInv

LEMMA SStepInv ==
  ASSUME ~RetryInProcess, SInv, [SNext]_svars
  PROVE  SInv'
<1>1. CASE [Next]_vars /\ UNCHANGED secondary
  <2>1. IInv'
    BY <1>1, StepInv DEF SInv
  <2> QED BY <1>1, <2>1 DEF SInv, secondary
<1>2. CASE (OpenSecondary \/ RefreshSecondary) /\ UNCHANGED vars
  <2>1. IInv'
    BY <1>2, StepInv DEF SInv
  <2>2. sheaders' = DbHeaders(store) /\ sstore' = store /\ sok' = TRUE
    BY <1>2, RefreshReadsDisk DEF OpenSecondary, RefreshSecondary
  <2>3. Chain(DbHeaders(store)) /\ store = BatchRows(DbHeaders(store))
    BY OnDisk DEF SInv
  <2> QED BY <2>1, <2>2, <2>3 DEF SInv
<1>3. CASE RefreshReadFails
  <2>1. /\ UNCHANGED <<sheaders, active, store, headers, pc, chunk, batch, moves>>
        /\ faults' = faults + 1 /\ faults < MaxFaults /\ sok' = FALSE
    BY <1>3 DEF RefreshReadFails, writer
  <2>2. TypeOK /\ DiskInv
    BY DEF SInv, IInv
  <2>3. faults' \in 0..MaxFaults
    BY <2>1, <2>2, WriterAssumption DEF TypeOK, WriterAssumption
  <2>4. TypeOK'
    BY <2>1, <2>2, <2>3 DEF TypeOK
  <2>5. DiskInv'
    BY <2>1, <2>2 DEF DiskInv, ChunkLinks
  <2> QED BY <2>1, <2>4, <2>5 DEF SInv, IInv
<1> QED BY <1>1, <1>2, <1>3 DEF SNext, svars, secondary, OpenSecondary, RefreshSecondary

LEMMA SInvariance ==
  ASSUME ~RetryInProcess
  PROVE  SSpec => []SInv
<1>1. SInit => SInv
  BY SInitInv
<1>2. SInv /\ [SNext]_svars => SInv'
  BY SStepInv
<1> QED BY <1>1, <1>2, PTL DEF SSpec

\* After a complete refresh the reader's chain is exactly that of the rows it
\* reads from, though refresh_secondary read only the rows from its own tip on,
\* and whatever reorgs, kills, failed syncs and failed refreshes came before.
THEOREM SecondaryStaysInSync ==
  ASSUME ~RetryInProcess
  PROVE  SSpec => []SecondaryInSync
<1>1. SInv => SecondaryInSync
  BY ChainLinked DEF SInv, IInv, SecondaryInSync, SecondaryTypeOK, Chain
<1> QED BY <1>1, SInvariance, PTL

-----------------------------------------------------------------------------
(* The refinement *)

LEMMA InitRefines == SInit => Log!Init
<1> SUFFICES ASSUME SInit PROVE Log!Init
  OBVIOUS
<1>1. store = BatchRows(<<>>) /\ sheaders = <<>>
  BY EmptyChain DEF SInit, Init
<1>2. DbHeaders(store) = <<>>
  BY <1>1, EmptyChain, ReadBack
<1> QED BY <1>1, <1>2 DEF Log!Init

\* A round's batch appends its blocks to the chain on disk.
LEMMA WriteRefines ==
  ASSUME IInv, WriteBatches, UNCHANGED secondary
  PROVE  Log!AppendBlocks
<1>1. /\ headers \in Seq(IndexedHeader) /\ batch \in Seq(IndexedHeader) /\ batch # <<>>
      /\ Chain(headers) /\ Chain(headers \o batch) /\ store = BatchRows(headers)
      /\ store' = DbWrite(store, BatchRows(batch))
  BY DEF IInv, TypeOK, DiskInv, WriteBatches
<1>2. DbHeaders(store) = headers
  BY <1>1, ReadBack
<1>3. store' = BatchRows(headers \o batch)
  BY <1>1, WriteAppends
<1>4. DbHeaders(store') = headers \o batch
  BY <1>1, <1>3, ReadBack
<1>5. /\ Len(headers \o batch) > Len(headers)
      /\ SubSeq(headers \o batch, 1, Len(headers)) = headers
  BY <1>1
<1> QED BY <1>2, <1>4, <1>5 DEF Log!AppendBlocks, secondary

\* drop_tip takes the last block off it.
LEMMA DropRefines ==
  ASSUME IInv, DropTip, UNCHANGED secondary, IInv'
  PROVE  Log!DropTip
<1> DEFINE h == NewHeader(headers, chunk[1])
           s == Append(headers, h)
<1>1. /\ Chain(s) /\ store = BatchRows(s) /\ headers \in Seq(IndexedHeader)
  BY DEF IInv, TypeOK, DiskInv, DropTip
<1>2. DbHeaders(store) = s
  BY <1>1, ReadBack
<1>3. Chain(headers') /\ store' = BatchRows(headers') /\ headers' = headers
  BY DEF IInv, DiskInv, DropTip
<1>4. DbHeaders(store') = headers
  BY <1>3, ReadBack
<1> HIDE DEF h
<1>5. s # <<>> /\ SubSeq(s, 1, Len(s) - 1) = headers
  <2>1. Len(s) = Len(headers) + 1 /\ Len(headers) \in Nat
    BY <1>1
  <2> QED BY <1>1, <2>1
<1> QED BY <1>2, <1>4, <1>5 DEF Log!DropTip, secondary

LEMMA StepRefines ==
  ASSUME ~RetryInProcess, SInv, [SNext]_svars
  PROVE  [Log!Next]_(Log!vars)
<1>1. IInv /\ SInv'
  BY SStepInv DEF SInv
<1>2. CASE WriteBatches /\ UNCHANGED secondary
  BY <1>1, <1>2, WriteRefines DEF Log!Next
<1>3. CASE DropTip /\ UNCHANGED secondary
  BY <1>1, <1>3, DropRefines DEF Log!Next, SInv
<1>4. CASE store' = store /\ sheaders' = sheaders
  BY <1>4 DEF Log!vars
<1>5. CASE (OpenSecondary \/ RefreshSecondary) /\ store' = store
  <2>1. sheaders' = DbHeaders(store)
    BY <1>5, RefreshReadsDisk DEF OpenSecondary
  <2> QED BY <1>5, <2>1 DEF Log!Next, Log!Read
<1>6. CASE Next /\ UNCHANGED secondary /\ ~WriteBatches /\ ~DropTip
  <2>1. store' = store
    BY <1>6 DEF Next, WriterStep, NodeMoves, Open, GetHeaders, RollBack, IndexBlock,
                AddHeaders, NothingNew, TxNumOverflow, SyncError, FlushFails, Crash
  <2> QED BY <1>4, <1>6, <2>1 DEF secondary
<1>7. CASE UNCHANGED svars
  BY <1>4, <1>7 DEF svars, vars, secondary
<1>8. CASE RefreshReadFails
  BY <1>4, <1>8 DEF RefreshReadFails
<1> QED BY <1>2, <1>3, <1>5, <1>6, <1>7, <1>8
           DEF SNext, OpenSecondary, RefreshSecondary, vars

\* Writer and reader implement IndexLog: the chain on disk grows by whole rounds
\* and shrinks by its tip, and a reader only ever takes over the disk's chain of
\* the moment.
THEOREM ReaderImplementsIndexLog ==
  ASSUME ~RetryInProcess
  PROVE  SSpec => ImplementsIndexLog
<1>1. SInit => Log!Init
  BY InitRefines
<1>2. SInv /\ [SNext]_svars => [Log!Next]_(Log!vars)
  BY StepRefines
<1> QED BY <1>1, <1>2, SInvariance, PTL DEF SSpec, ImplementsIndexLog, Log!Spec
==============================================================================
