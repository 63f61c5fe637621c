-------------------------- MODULE Programs_proofs --------------------------
(***************************************************************************)
(* Proofs about the two programs that write the index they read:           *)
(* bindex-cli with its address history, and bindex-web.                    *)
(*                                                                         *)
(* The committed address history is always that of one chain in full, and  *)
(* after a sync it is that of the active chain, for every tree of blocks,  *)
(* set of transactions and watched scripts, and however often the process  *)
(* dies.  The argument follows the foreign keys: an entry has a            *)
(* transaction, and a transaction a header.  So what the deletion of stale *)
(* headers spares lies below an active header, where both chains agree;    *)
(* and there is a height up to which the history of a script is complete,  *)
(* as well as the transactions that later entries refer to.                *)
(*                                                                         *)
(* bindex-web has any number of workers, requests, changes of the chain    *)
(* and failed syncs.  Nobody reads while the syncer holds the write lock,  *)
(* nor after it died holding it, so what a reader has read is the chain as *)
(* it is; what any request has read is no newer than the chain, and no     *)
(* newer than the tip of a last sync that did not fail.                    *)
(***************************************************************************)
EXTENDS AddressCache, WebServer, TLAPS, NaturalsInduction, WellFoundedInduction

-----------------------------------------------------------------------------
(* The address history *)

HeaderRows(k) == { [height |-> h, block |-> Chain[k][h]] : h \in Heights(k) }

TxRows == [height : Nat, offset : Nat, tx : Txids]

Rows == [script : Scripts, height : Nat, offset : Nat, outpoint : Outpoints,
         isOutput : BOOLEAN]

Tables ==
  [watch : SUBSET Scripts, headers : SUBSET [height : Nat, block : Blocks],
   txs : SUBSET TxRows, history : SUBSET Rows]

\* The entries of s that the transaction at l makes.
RowsAt(s, l) ==
  { HistoryRow(s, l, o, FALSE) : o \in { i \in Inputs[l.tx] : i[2] = s } }
    \cup { HistoryRow(s, l, o, TRUE) : o \in Funding(s, l) }

RowsOf(s, locations) == UNION { RowsAt(s, l) : l \in locations }

\* All rows are of the chain ending in k, and no foreign key dangles.
OnChain(t, k) ==
  /\ t.headers \subseteq HeaderRows(k)
  /\ t.txs \subseteq Located(k)
  /\ \A l \in t.txs : \E q \in t.headers : q.height = l.height
  /\ \A r \in t.history : \E l \in t.txs : l.height = r.height /\ l.offset = r.offset

Snapshot(t, k) ==
  /\ OnChain(t, k)
  /\ \A s \in Scripts : \/ HistoryOf(t, s) = {}
                        \/ s \in t.watch /\ HistoryOf(t, s) = Reference(k, s)

\* LatestHeight, of the tables t.
Latest(t, s) ==
  LET heights == { r.height : r \in HistoryOf(t, s) }
  IN  IF heights = {} THEN 0 ELSE CHOOSE h \in heights : \A g \in heights : g <= h

\* The locations of the chain ending in k up to the latest entry of s.
Known(t, k, s) == { l \in Located(k) : l.height <= Latest(t, s) }

Only(t, s, rows) == HistoryOf(t, s) = IF s \in t.watch THEN rows ELSE {}

CacheInv ==
  /\ tip \in Tips
  /\ pc \in {"down", "index", "drop", "collect", "headers", "txs", "history", "synced"}
  /\ db \in Tables /\ saved \in Tables
  /\ todo \in [Scripts -> SUBSET Located(tip)]
  /\ \A s \in Scripts : todo[s] # {} => s \in db.watch
  /\ \E k \in Tips : Snapshot(saved, k)
  /\ pc \in {"down", "index", "drop", "synced"} => db = saved
  /\ pc \in {"down", "index", "drop", "collect", "synced"} => todo = NothingNew
  /\ pc \in {"collect", "headers", "txs", "history", "synced"} => OnChain(db, tip)
  /\ pc = "collect" => \A s \in Scripts : Only(db, s, RowsOf(s, Known(db, tip, s)))
  /\ pc \in {"headers", "txs", "history"} =>
       \A s \in Scripts : Only(db, s, RowsOf(s, Located(tip) \ todo[s]))
  /\ pc \in {"txs", "history"} =>
       \A s \in Scripts : \A l \in todo[s] : \E q \in db.headers : q.height = l.height
  /\ pc = "synced" => \A s \in Scripts : Only(db, s, Reference(tip, s))

-----------------------------------------------------------------------------
(* Locations and rows *)

LEMMA LocatedFacts ==
  ASSUME NEW k \in Tips, NEW l \in Located(k)
  PROVE  /\ l \in TxRows
         /\ l.height \in Heights(k)
         /\ l.height \in Nat /\ l.height > 0
         /\ l.offset \in DOMAIN BlockTxs[Chain[k][l.height]]
         /\ l.tx = BlockTxs[Chain[k][l.height]][l.offset]
<1>1. PICK h \in Heights(k) : \E i \in DOMAIN BlockTxs[Chain[k][h]] :
        l = [height |-> h, offset |-> i, tx |-> BlockTxs[Chain[k][h]][i]]
  BY DEF Located
<1>2. PICK i \in DOMAIN BlockTxs[Chain[k][h]] :
        l = [height |-> h, offset |-> i, tx |-> BlockTxs[Chain[k][h]][i]]
  BY <1>1
<1>3. /\ Chain[k] \in Seq(Blocks)
      /\ h \in Nat /\ h > 0
      /\ Chain[k][h] \in Blocks
  BY AddressCacheAssumption DEF Heights
<1>4. BlockTxs[Chain[k][h]] \in Seq(Txids)
  BY <1>3, AddressCacheAssumption
<1>5. i \in Nat /\ BlockTxs[Chain[k][h]][i] \in Txids
  BY <1>4
<1> QED BY <1>2, <1>3, <1>5 DEF TxRows

\* In a chain a place holds one transaction.
LEMMA SamePlace ==
  ASSUME NEW k \in Tips, NEW l \in Located(k), NEW m \in Located(k),
         l.height = m.height, l.offset = m.offset
  PROVE  l = m
BY LocatedFacts, AddressCacheAssumption

\* Two chains that have a block in common agree up to it.
LEMMA SharedBelow ==
  ASSUME NEW j \in Tips, NEW k \in Tips, NEW h \in Heights(j), NEW i \in Heights(k),
         Chain[j][h] = Chain[k][i],
         NEW l \in Located(j), l.height <= h
  PROVE  l \in Located(k)
<1>1. h = i /\ \A g \in 1..h : Chain[j][g] = Chain[k][g]
  BY ChainAssumption
<1>2. /\ Chain[j] \in Seq(Blocks) /\ Chain[k] \in Seq(Blocks)
      /\ h \in Nat /\ h <= Len(Chain[k])
  BY <1>1, AddressCacheAssumption DEF Heights
<1>3. PICK g \in Heights(j) : \E o \in DOMAIN BlockTxs[Chain[j][g]] :
        l = [height |-> g, offset |-> o, tx |-> BlockTxs[Chain[j][g]][o]]
  BY DEF Located
<1>4. g \in 1..h /\ g \in Heights(k)
  BY <1>2, <1>3 DEF Heights
<1>5. Chain[j][g] = Chain[k][g]
  BY <1>1, <1>4
<1>6. PICK o \in DOMAIN BlockTxs[Chain[k][g]] :
        l = [height |-> g, offset |-> o, tx |-> BlockTxs[Chain[k][g]][o]]
  BY <1>3, <1>5
<1>7. l \in { [height |-> g, offset |-> n, tx |-> BlockTxs[Chain[k][g]][n]] :
               n \in DOMAIN BlockTxs[Chain[k][g]] }
  BY <1>6
<1> QED BY <1>4, <1>7 DEF Located

LEMMA HistoryRowType ==
  ASSUME NEW s \in Scripts, NEW l \in TxRows, NEW o \in Outpoints, NEW b \in BOOLEAN
  PROVE  HistoryRow(s, l, o, b) \in Rows
BY DEF HistoryRow, TxRows, Rows

LEMMA RowsAtFacts ==
  ASSUME NEW s \in Scripts, NEW l \in TxRows, NEW r \in RowsAt(s, l)
  PROVE  /\ r \in Rows
         /\ r.script = s /\ r.height = l.height /\ r.offset = l.offset
         /\ l.tx \in Touching(Txids, s)
<1>1. l.tx \in Txids
  BY DEF TxRows
<1>2. CASE r \in { HistoryRow(s, l, o, FALSE) : o \in { i \in Inputs[l.tx] : i[2] = s } }
  <2>1. PICK o \in Inputs[l.tx] : o[2] = s /\ r = HistoryRow(s, l, o, FALSE)
    BY <1>2
  <2>2. o \in Outpoints
    BY <1>1, TransactionsAssumption
  <2>3. l.tx \in Touching(Txids, s)
    BY <1>1, <2>1 DEF Touching
  <2>4. r \in Rows
    BY <2>1, <2>2, HistoryRowType
  <2>5. r.script = s /\ r.height = l.height /\ r.offset = l.offset
    BY <2>1 DEF HistoryRow
  <2> QED BY <2>3, <2>4, <2>5
<1>3. CASE r \in { HistoryRow(s, l, o, TRUE) : o \in Funding(s, l) }
  <2>1. PICK o \in Funding(s, l) : r = HistoryRow(s, l, o, TRUE)
    BY <1>3
  <2>2. s \in Outputs[l.tx] /\ o = <<l.tx, s>>
    BY <2>1 DEF Funding
  <2>3. o \in Outpoints
    BY <1>1, <2>2 DEF Outpoints
  <2>4. l.tx \in Touching(Txids, s)
    BY <1>1, <2>2 DEF Touching
  <2>5. r \in Rows
    BY <2>1, <2>3, HistoryRowType
  <2>6. r.script = s /\ r.height = l.height /\ r.offset = l.offset
    BY <2>1 DEF HistoryRow
  <2> QED BY <2>4, <2>5, <2>6
<1> QED BY <1>2, <1>3 DEF RowsAt

LEMMA ReferenceRows ==
  ASSUME NEW k, NEW s
  PROVE  Reference(k, s) = RowsOf(s, Located(k))
BY DEF Reference, RowsOf, RowsAt

\* A row says which location it is of.
LEMMA RowsOfFacts ==
  ASSUME NEW k \in Tips, NEW s \in Scripts, NEW L \in SUBSET Located(k),
         NEW r \in RowsOf(s, L)
  PROVE  /\ r \in Rows /\ r.script = s
         /\ \E l \in L : /\ r \in RowsAt(s, l)
                         /\ l.height = r.height /\ l.offset = r.offset
                         /\ l.tx \in Touching(Txids, s)
<1>1. PICK l \in L : r \in RowsAt(s, l)
  BY DEF RowsOf
<1>2. l \in TxRows
  BY LocatedFacts
<1> QED BY <1>1, <1>2, RowsAtFacts

LEMMA LeastNumber ==
  ASSUME NEW T, T \subseteq Nat, T # {}
  PROVE  \E x \in T : \A y \in T : x <= y
<1>1. PICK x \in T : \A y \in T : ~(<<y, x>> \in OpToRel(<, Nat))
  BY WFMin, NatLessThanWellFounded
<1>2. \A y \in T : ~(y < x)
  BY <1>1 DEF OpToRel
<1> QED BY <1>2

LEMMA GreatestNumber ==
  ASSUME NEW n \in Nat, NEW T, T \subseteq 0..n, T # {}
  PROVE  \E x \in T : \A y \in T : y <= x
<1> DEFINE U == { n - x : x \in T }
<1>1. U \subseteq Nat /\ U # {}
  <2>1. ASSUME NEW x \in T PROVE n - x \in Nat
    <3>1. x \in 0..n
      OBVIOUS
    <3> QED BY <3>1
  <2> QED BY <2>1
<1>2. PICK u \in U : \A v \in U : u <= v
  BY <1>1, LeastNumber
<1>3. PICK x \in T : u = n - x
  BY <1>2
<1>4. ASSUME NEW y \in T PROVE y <= x
  <2>1. n - y \in U
    OBVIOUS
  <2>2. n - x <= n - y
    BY <1>2, <1>3, <2>1
  <2> QED BY <2>2
<1> QED BY <1>4

LEMMA LatestFacts ==
  ASSUME NEW k \in Tips, NEW s \in Scripts, NEW t,
         HistoryOf(t, s) \subseteq RowsOf(s, Located(k))
  PROVE  /\ Latest(t, s) \in Nat
         /\ HistoryOf(t, s) = {} => Latest(t, s) = 0
         /\ HistoryOf(t, s) # {} => \E r \in HistoryOf(t, s) : r.height = Latest(t, s)
         /\ \A r \in HistoryOf(t, s) : r.height <= Latest(t, s)
<1> DEFINE T == { r.height : r \in HistoryOf(t, s) }
           n == Len(Chain[k])
<1>1. n \in Nat /\ Heights(k) = 1..n
  BY AddressCacheAssumption DEF Heights
<1>2. ASSUME NEW r \in HistoryOf(t, s) PROVE r.height \in 0..n
  <2>1. PICK l \in Located(k) : l.height = r.height
    BY RowsOfFacts
  <2> QED BY <1>1, <2>1, LocatedFacts
<1>3. T \subseteq 0..n
  BY <1>2
<1>4. CASE T = {}
  BY <1>4 DEF Latest
<1>5. CASE T # {}
  <2>1. \E x \in T : \A y \in T : y <= x
    BY <1>1, <1>3, <1>5, GreatestNumber
  <2>2. Latest(t, s) = CHOOSE h \in T : \A g \in T : g <= h
    BY <1>5 DEF Latest
  <2>3. Latest(t, s) \in T /\ \A g \in T : g <= Latest(t, s)
    BY <2>1, <2>2
  <2> QED BY <1>3, <2>3
<1> QED BY <1>4, <1>5

-----------------------------------------------------------------------------
(* Dropping stale blocks *)

LEMMA HeaderRowFacts ==
  ASSUME NEW k \in Tips, NEW q \in HeaderRows(k)
  PROVE  /\ q.height \in Heights(k) /\ q.height \in Nat /\ q.height > 0
         /\ q.block = Chain[k][q.height]
BY AddressCacheAssumption DEF HeaderRows, Heights

LEMMA HeaderRowIn ==
  ASSUME NEW k \in Tips, NEW q, q \in [height : Nat, block : Blocks],
         q.height \in Heights(k), q.block = Chain[k][q.height]
  PROVE  q \in HeaderRows(k)
BY DEF HeaderRows

\* What is left of a snapshot of one chain once the headers that are not of
\* another one are deleted: of each script, the history up to a height.
LEMMA DroppedIsPrefix ==
  ASSUME NEW j \in Tips, NEW k \in Tips, NEW t, NEW u, Snapshot(t, k),
         t.headers \subseteq [height : Nat, block : Blocks],
         NEW stale \in SUBSET t.headers,
         \A q \in t.headers \ stale : \E p \in t.headers :
            /\ p.height >= q.height
            /\ p.height \in Heights(j) /\ Chain[j][p.height] = p.block,
         u.watch = t.watch,
         u.headers = { r \in t.headers : \A q \in stale : r.height < q.height },
         u.txs = { r \in t.txs : \A q \in stale : r.height < q.height },
         u.history = { r \in t.history : \A q \in stale : r.height < q.height }
  PROVE  /\ OnChain(u, j)
         /\ \A s \in Scripts : Only(u, s, RowsOf(s, Known(u, j, s)))
<1>1. ASSUME NEW q \in u.headers
      PROVE  \E p \in t.headers :
                /\ p.height \in Heights(j) /\ p.height \in Heights(k)
                /\ Chain[j][p.height] = Chain[k][p.height]
                /\ q.height <= p.height
  <2>1. q \in HeaderRows(k) /\ q.height \in Nat
    BY HeaderRowFacts DEF Snapshot, OnChain
  <2>2. q \in t.headers \ stale
    BY <2>1
  <2>3. PICK p \in t.headers : /\ p.height >= q.height
                               /\ p.height \in Heights(j) /\ Chain[j][p.height] = p.block
    BY <2>2
  <2>4. p.height \in Nat /\ p.height \in Heights(k) /\ p.block = Chain[k][p.height]
    BY HeaderRowFacts DEF Snapshot, OnChain
  <2> QED BY <2>1, <2>3, <2>4
<1>2. ASSUME NEW q \in u.headers PROVE q \in HeaderRows(j)
  <2>1. PICK p \in t.headers :
          /\ p.height \in Heights(j) /\ p.height \in Heights(k)
          /\ Chain[j][p.height] = Chain[k][p.height]
          /\ q.height <= p.height
    BY <1>1
  <2>2. q.height \in Heights(k) /\ q.height \in Nat /\ q.height > 0
        /\ q.block = Chain[k][q.height]
    BY HeaderRowFacts DEF Snapshot, OnChain
  <2>3. \A g \in 1..p.height : Chain[j][g] = Chain[k][g]
    BY <2>1, ChainAssumption
  <2>4. Heights(j) = 1..Len(Chain[j]) /\ Len(Chain[j]) \in Nat
    BY AddressCacheAssumption DEF Heights
  <2>5. q.height \in 1..p.height /\ q.height \in Heights(j)
    BY <2>1, <2>2, <2>4
  <2>6. q.block = Chain[j][q.height]
    BY <2>2, <2>3, <2>5
  <2> QED BY <2>5, <2>6, HeaderRowIn
<1>3. ASSUME NEW l \in u.txs PROVE \E q \in u.headers : q.height = l.height
  <2>1. PICK q \in t.headers : q.height = l.height
    BY DEF Snapshot, OnChain
  <2> QED BY <2>1
<1>4. ASSUME NEW l \in u.txs PROVE l \in Located(k) /\ l \in Located(j)
  <2>1. l \in Located(k)
    BY DEF Snapshot, OnChain
  <2>2. PICK q \in u.headers : q.height = l.height
    BY <1>3
  <2>3. PICK p \in t.headers :
          /\ p.height \in Heights(j) /\ p.height \in Heights(k)
          /\ Chain[j][p.height] = Chain[k][p.height]
          /\ q.height <= p.height
    BY <1>1
  <2> QED BY <2>1, <2>2, <2>3, SharedBelow
<1>5. ASSUME NEW r \in u.history
      PROVE  \E l \in u.txs : l.height = r.height /\ l.offset = r.offset
  <2>1. PICK l \in t.txs : l.height = r.height /\ l.offset = r.offset
    BY DEF Snapshot, OnChain
  <2> QED BY <2>1
<1>6. OnChain(u, j)
  BY <1>2, <1>3, <1>4, <1>5 DEF OnChain
<1>7. ASSUME NEW s \in Scripts PROVE Only(u, s, RowsOf(s, Known(u, j, s)))
  <2> DEFINE rows == RowsOf(s, Known(u, j, s))
  <2>1. HistoryOf(t, s) # {} =>
          s \in t.watch /\ HistoryOf(t, s) = RowsOf(s, Located(k))
    BY ReferenceRows DEF Snapshot
  <2>2. HistoryOf(u, s) \subseteq HistoryOf(t, s)
    BY DEF HistoryOf
  <2>3. ASSUME NEW r \in HistoryOf(u, s)
        PROVE  \E l \in Located(j) : r \in RowsAt(s, l) /\ l.height = r.height
    <3>1. r \in u.history /\ r \in RowsOf(s, Located(k))
      BY <2>1, <2>2 DEF HistoryOf
    <3>2. PICK l \in Located(k) : /\ r \in RowsAt(s, l)
                                  /\ l.height = r.height /\ l.offset = r.offset
      BY <3>1, RowsOfFacts
    <3>3. PICK m \in u.txs : m.height = r.height /\ m.offset = r.offset
      BY <1>5, <3>1
    <3>4. l = m
      BY <1>4, <3>2, <3>3, SamePlace
    <3> QED BY <1>4, <3>2, <3>4
  <2>4. HistoryOf(u, s) \subseteq RowsOf(s, Located(j))
    BY <2>3 DEF RowsOf
  <2>5. /\ Latest(u, s) \in Nat
        /\ HistoryOf(u, s) = {} => Latest(u, s) = 0
        /\ HistoryOf(u, s) # {} => \E r \in HistoryOf(u, s) : r.height = Latest(u, s)
        /\ \A r \in HistoryOf(u, s) : r.height <= Latest(u, s)
    BY <2>4, LatestFacts
  <2>6. ASSUME NEW r \in HistoryOf(u, s) PROVE r \in rows
    <3>1. PICK l \in Located(j) : r \in RowsAt(s, l) /\ l.height = r.height
      BY <2>3
    <3>2. l \in Known(u, j, s)
      BY <2>5, <3>1 DEF Known
    <3> QED BY <3>1, <3>2 DEF RowsOf
  <2>7. ASSUME NEW r \in rows PROVE r \in HistoryOf(u, s)
    <3>1. Known(u, j, s) \subseteq Located(j)
      BY DEF Known
    <3>2. PICK l \in Known(u, j, s) : r \in RowsAt(s, l) /\ l.height = r.height
      BY <3>1, RowsOfFacts
    <3>3. l.height \in Nat /\ l.height > 0 /\ l.height <= Latest(u, s)
      BY <3>1, LocatedFacts DEF Known
    <3>4. PICK r0 \in HistoryOf(u, s) : r0.height = Latest(u, s)
      BY <2>5, <3>3
    <3>5. r0 \in u.history
      BY DEF HistoryOf
    <3>6. PICK q \in u.headers : q.height = Latest(u, s)
      BY <1>3, <1>5, <3>4, <3>5
    <3>7. PICK p \in t.headers :
            /\ p.height \in Heights(j) /\ p.height \in Heights(k)
            /\ Chain[j][p.height] = Chain[k][p.height]
            /\ q.height <= p.height
      BY <1>1
    <3>8. p.height \in Nat
      BY HeaderRowFacts DEF Snapshot, OnChain
    <3>9. l.height <= p.height
      BY <2>5, <3>3, <3>6, <3>7, <3>8
    <3>10. l \in Located(k)
      BY <3>1, <3>7, <3>9, SharedBelow
    <3>11. r \in RowsOf(s, Located(k))
      BY <3>2, <3>10 DEF RowsOf
    <3>12. r \in HistoryOf(t, s)
      BY <2>1, <2>2, <3>4, <3>11
    <3>13. ASSUME NEW x \in stale PROVE r.height < x.height
      <4>1. x.height \in Nat
        OBVIOUS
      <4>2. Latest(u, s) < x.height
        BY <3>4, <3>5
      <4> QED BY <2>5, <3>2, <3>3, <4>1, <4>2
    <3>14. r \in u.history /\ r.script = s
      BY <3>12, <3>13 DEF HistoryOf
    <3> QED BY <3>14 DEF HistoryOf
  <2>8. HistoryOf(u, s) = rows
    BY <2>6, <2>7
  <2>9. CASE s \in u.watch
    BY <2>8, <2>9 DEF Only
  <2>10. CASE s \notin u.watch
    <3>1. HistoryOf(u, s) = {}
      BY <2>1, <2>2, <2>10
    <3> QED BY <2>10, <3>1 DEF Only
  <2> QED BY <2>9, <2>10
<1> QED BY <1>6, <1>7

-----------------------------------------------------------------------------
(* Collecting and adding entries *)

\* Every location that makes an entry is known, or found by its script's prefix.
LEMMA CollectedIsRest ==
  ASSUME tip \in Tips, NEW s \in Scripts,
         HistoryOf(db, s) = RowsOf(s, Known(db, tip, s))
  PROVE  /\ NewLocations(s) \subseteq Located(tip)
         /\ HistoryOf(db, s) = RowsOf(s, Located(tip) \ NewLocations(s))
<1> DEFINE N == NewLocations(s)
<1>1. LatestHeight(s) = Latest(db, s)
  BY DEF LatestHeight, Latest, HistoryOf
<1>2. Known(db, tip, s) \subseteq Located(tip)
  BY DEF Known
<1>3. HistoryOf(db, s) \subseteq RowsOf(s, Located(tip))
  BY <1>2 DEF RowsOf
<1>4. Latest(db, s) \in Nat
  BY <1>3, LatestFacts
<1>5. N = { l \in Located(tip) : /\ l.height > Latest(db, s)
                                 /\ l.tx \in Touching(Txids, s) \cup Collides[s] }
  BY <1>1 DEF NewLocations
<1> HIDE DEF N
<1>6. ASSUME NEW l \in Known(db, tip, s) PROVE l \in Located(tip) \ N
  <2>1. l \in Located(tip) /\ l.height <= Latest(db, s) /\ l.height \in Nat
    BY <1>2, LocatedFacts DEF Known
  <2> QED BY <1>4, <1>5, <2>1
<1>7. ASSUME NEW r \in RowsOf(s, Located(tip) \ N)
      PROVE  r \in RowsOf(s, Known(db, tip, s))
  <2>1. PICK l \in Located(tip) \ N : r \in RowsAt(s, l) /\ l.tx \in Touching(Txids, s)
    BY RowsOfFacts
  <2>2. l.height \in Nat /\ ~(l.height > Latest(db, s))
    BY <1>5, <2>1, LocatedFacts
  <2>3. l \in Known(db, tip, s)
    BY <1>4, <2>1, <2>2 DEF Known
  <2> QED BY <2>1, <2>3 DEF RowsOf
<1>8. RowsOf(s, Known(db, tip, s)) \subseteq RowsOf(s, Located(tip) \ N)
  BY <1>6 DEF RowsOf
<1>9. N \subseteq Located(tip)
  BY <1>5
<1> QED BY <1>7, <1>8, <1>9 DEF N

\* When the earliest of the missing locations is next, all it can spend is there.
LEMMA SpendingExact ==
  ASSUME tip \in Tips, NEW s \in Scripts, OnChain(db, tip),
         NEW N \in SUBSET Located(tip),
         HistoryOf(db, s) = RowsOf(s, Located(tip) \ N),
         NEW l \in N, \A m \in N \ {l} : Before(l, m)
  PROVE  Spending(s, l) = { i \in Inputs[l.tx] : i[2] = s }
<1>1. l \in Located(tip) /\ l \in TxRows /\ l.tx \in Txids
  BY LocatedFacts DEF TxRows
<1>2. \A o \in Inputs[l.tx] : o \in Outpoints /\ o[2] \in Outputs[o[1]]
  BY <1>1, TransactionsAssumption
<1>3. ASSUME NEW o \in Spending(s, l) PROVE o \in Inputs[l.tx] /\ o[2] = s
  <2>1. o \in Inputs[l.tx]
    BY DEF Spending
  <2>2. PICK t \in db.txs : HistoryRow(s, t, o, TRUE) \in db.history
    BY DEF Spending
  <2> DEFINE r == HistoryRow(s, t, o, TRUE)
  <2>3. r.script = s /\ r.outpoint = o /\ r.isOutput = TRUE
    BY DEF HistoryRow
  <2>4. r \in RowsOf(s, Located(tip) \ N)
    BY <2>2, <2>3 DEF HistoryOf
  <2> HIDE DEF r
  <2>5. PICK m \in Located(tip) : r \in RowsAt(s, m)
    BY <2>4, RowsOfFacts
  <2>6. r \notin { HistoryRow(s, m, i, FALSE) : i \in { x \in Inputs[m.tx] : x[2] = s } }
    BY <2>3 DEF HistoryRow
  <2>7. PICK i \in Funding(s, m) : r = HistoryRow(s, m, i, TRUE)
    BY <2>5, <2>6 DEF RowsAt
  <2>8. o = i
    BY <2>3, <2>7 DEF HistoryRow
  <2>9. o = <<m.tx, s>>
    BY <2>7, <2>8 DEF Funding
  <2> QED BY <2>1, <2>9
<1>4. ASSUME NEW o \in Inputs[l.tx], o[2] = s PROVE o \in Spending(s, l)
  <2>1. PICK m \in Located(tip) : m.tx = o[1] /\ Before(m, l)
    BY <1>1, ChainAssumption
  <2>2. /\ m \in TxRows /\ m.height \in Nat /\ m.offset \in Nat
        /\ l.height \in Nat /\ l.offset \in Nat
    BY <1>1, LocatedFacts DEF TxRows
  <2>3. m # l /\ ~Before(l, m)
    BY <2>1, <2>2 DEF Before
  <2>4. m \in Located(tip) \ N
    BY <2>3
  <2>5. o = <<m.tx, s>>
    BY <1>2, <1>4, <2>1 DEF Outpoints
  <2>6. o \in Funding(s, m)
    BY <1>2, <1>4, <2>1, <2>5 DEF Funding
  <2> DEFINE r == HistoryRow(s, m, o, TRUE)
  <2>7. r \in RowsAt(s, m)
    BY <2>6 DEF RowsAt
  <2>8. r.height = m.height /\ r.offset = m.offset
    BY DEF HistoryRow
  <2> HIDE DEF r
  <2>9. r \in db.history
    <3>1. r \in HistoryOf(db, s)
      BY <2>4, <2>7 DEF RowsOf
    <3> QED BY <3>1 DEF HistoryOf
  <2>10. PICK t \in db.txs : t.height = r.height /\ t.offset = r.offset
    BY <2>9 DEF OnChain
  <2>11. t = m
    BY <2>8, <2>10, SamePlace DEF OnChain
  <2>12. m \in db.txs /\ m.tx = o[1] /\ HistoryRow(s, m, o, TRUE) \in db.history
    BY <2>1, <2>9, <2>10, <2>11 DEF r
  <2> QED BY <2>12 DEF Spending
<1> QED BY <1>3, <1>4

LEMMA EntriesExact ==
  ASSUME tip \in Tips, NEW s \in Scripts, OnChain(db, tip),
         NEW N \in SUBSET Located(tip),
         HistoryOf(db, s) = RowsOf(s, Located(tip) \ N),
         NEW l \in N, \A m \in N \ {l} : Before(l, m)
  PROVE  /\ Entries(s, l) = RowsAt(s, l)
         /\ RowsOf(s, Located(tip) \ (N \ {l})) = HistoryOf(db, s) \cup Entries(s, l)
<1>1. Spending(s, l) = { i \in Inputs[l.tx] : i[2] = s }
  BY SpendingExact
<1>2. Entries(s, l) = RowsAt(s, l)
  BY <1>1 DEF Entries, RowsAt
<1>3. Located(tip) \ (N \ {l}) = (Located(tip) \ N) \cup {l}
  OBVIOUS
<1>4. RowsOf(s, (Located(tip) \ N) \cup {l}) = RowsOf(s, Located(tip) \ N) \cup RowsAt(s, l)
  BY DEF RowsOf
<1> QED BY <1>2, <1>3, <1>4

-----------------------------------------------------------------------------
(* Tables *)

LEMMA SetWatch ==
  ASSUME NEW t \in Tables, NEW W \in SUBSET Scripts
  PROVE  LET u == [t EXCEPT !.watch = W]
         IN  /\ u \in Tables
             /\ u.watch = W /\ u.headers = t.headers /\ u.txs = t.txs /\ u.history = t.history
BY DEF Tables

LEMMA SetHeaders ==
  ASSUME NEW t \in Tables, NEW H \in SUBSET [height : Nat, block : Blocks]
  PROVE  LET u == [t EXCEPT !.headers = H]
         IN  /\ u \in Tables
             /\ u.watch = t.watch /\ u.headers = H /\ u.txs = t.txs /\ u.history = t.history
BY DEF Tables

LEMMA SetTxs ==
  ASSUME NEW t \in Tables, NEW T \in SUBSET TxRows
  PROVE  LET u == [t EXCEPT !.txs = T]
         IN  /\ u \in Tables
             /\ u.watch = t.watch /\ u.headers = t.headers /\ u.txs = T /\ u.history = t.history
BY DEF Tables

LEMMA SetHistory ==
  ASSUME NEW t \in Tables, NEW R \in SUBSET Rows
  PROVE  LET u == [t EXCEPT !.history = R]
         IN  /\ u \in Tables
             /\ u.watch = t.watch /\ u.headers = t.headers /\ u.txs = t.txs /\ u.history = R
BY DEF Tables

LEMMA TableFields ==
  ASSUME NEW t \in Tables
  PROVE  /\ t.watch \subseteq Scripts
         /\ t.headers \subseteq [height : Nat, block : Blocks]
         /\ t.txs \subseteq TxRows /\ t.history \subseteq Rows
BY DEF Tables

\* The tables of one chain hold no block or transaction twice.
LEMMA NoDuplicates ==
  ASSUME NEW t, NEW k \in Tips, OnChain(t, k)
  PROVE  /\ \A r, q \in t.headers : r.height = q.height \/ r.block = q.block => r = q
         /\ \A r, q \in t.txs : r.tx = q.tx => r = q
<1>1. ASSUME NEW r \in t.headers, NEW q \in t.headers,
             r.height = q.height \/ r.block = q.block
      PROVE  r = q
  <2>1. r \in HeaderRows(k) /\ q \in HeaderRows(k)
    BY DEF OnChain
  <2>2. PICK g \in Heights(k) : r = [height |-> g, block |-> Chain[k][g]]
    BY <2>1 DEF HeaderRows
  <2>3. PICK h \in Heights(k) : q = [height |-> h, block |-> Chain[k][h]]
    BY <2>1 DEF HeaderRows
  <2>4. g = h \/ Chain[k][g] = Chain[k][h]
    BY <1>1, <2>2, <2>3
  <2>5. g = h
    BY <2>4, ChainAssumption
  <2> QED BY <2>2, <2>3, <2>5
<1>2. ASSUME NEW r \in t.txs, NEW q \in t.txs, r.tx = q.tx PROVE r = q
  BY <1>2, AddressCacheAssumption DEF OnChain
<1> QED BY <1>1, <1>2

-----------------------------------------------------------------------------
(* CacheInv is inductive *)

LEMMA EmptySnapshot ==
  ASSUME NEW k \in Tips
  PROVE  EmptyTables \in Tables /\ Snapshot(EmptyTables, k)
<1>1. /\ EmptyTables \in Tables
      /\ EmptyTables.headers = {} /\ EmptyTables.txs = {} /\ EmptyTables.history = {}
  BY DEF EmptyTables, Tables
<1> QED BY <1>1 DEF Snapshot, OnChain, HistoryOf

LEMMA NothingNewType ==
  ASSUME NEW k
  PROVE  /\ NothingNew \in [Scripts -> SUBSET Located(k)]
         /\ \A s \in Scripts : NothingNew[s] = {}
BY DEF NothingNew

LEMMA InitCache == Init => CacheInv
<1> SUFFICES ASSUME Init PROVE CacheInv
  OBVIOUS
<1>1. tip \in Tips /\ db = EmptyTables /\ saved = EmptyTables /\ todo = NothingNew
      /\ pc = "down"
  BY DEF Init
<1>2. saved \in Tables /\ Snapshot(saved, tip)
  BY <1>1, EmptySnapshot
<1>3. todo \in [Scripts -> SUBSET Located(tip)] /\ \A s \in Scripts : todo[s] = {}
  BY <1>1, NothingNewType
<1> QED BY <1>1, <1>2, <1>3 DEF CacheInv

LEMMA OpenCache == CacheInv /\ Open => CacheInv'
<1> SUFFICES ASSUME CacheInv, Open PROVE CacheInv'
  OBVIOUS
<1>1. PICK A \in SUBSET Scripts :
        /\ db' = [db EXCEPT !.watch = db.watch \cup A] /\ saved' = db'
        /\ pc = "down" /\ pc' = "index" /\ tip' = tip /\ todo' = todo
  BY DEF Open
<1>2. db \in Tables /\ db = saved /\ todo = NothingNew
  BY <1>1 DEF CacheInv
<1>3. db.watch \cup A \in SUBSET Scripts
  BY <1>2, TableFields
<1>4. /\ db' \in Tables
      /\ db'.watch = db.watch \cup A
      /\ db'.headers = db.headers /\ db'.txs = db.txs /\ db'.history = db.history
  BY <1>1, <1>2, <1>3, SetWatch
<1>5. PICK k \in Tips : Snapshot(db, k)
  BY <1>2 DEF CacheInv
<1>6. Snapshot(db', k)
  BY <1>4, <1>5 DEF Snapshot, OnChain, HistoryOf
<1>7. \E j \in Tips : Snapshot(saved', j)
  BY <1>1, <1>6
<1>8. tip \in Tips /\ todo \in [Scripts -> SUBSET Located(tip)]
  BY DEF CacheInv
<1>9. \A s \in Scripts : todo[s] = {}
  BY <1>2, NothingNewType
<1> QED BY <1>1, <1>2, <1>4, <1>7, <1>8, <1>9 DEF CacheInv

LEMMA IndexCache == CacheInv /\ IndexChain => CacheInv'
<1> SUFFICES ASSUME CacheInv, IndexChain PROVE CacheInv'
  OBVIOUS
<1>1. /\ pc = "index" /\ pc' = "drop" /\ tip' \in Tips
      /\ db' = db /\ saved' = saved /\ todo' = todo
  BY DEF IndexChain
<1>2. todo' = NothingNew
  BY <1>1 DEF CacheInv
<1>3. todo' \in [Scripts -> SUBSET Located(tip')] /\ \A s \in Scripts : todo'[s] = {}
  BY <1>2, NothingNewType
<1>4. db = saved /\ db \in Tables /\ saved \in Tables /\ \E k \in Tips : Snapshot(saved, k)
  BY <1>1 DEF CacheInv
<1> QED BY <1>1, <1>2, <1>3, <1>4 DEF CacheInv

LEMMA DropCache == CacheInv /\ DropStaleBlocks => CacheInv'
<1> SUFFICES ASSUME CacheInv, DropStaleBlocks PROVE CacheInv'
  OBVIOUS
<1> DEFINE kept(rows) == { r \in rows : \A q \in DeleteFrom : r.height < q.height }
           H == kept(db.headers)
           T == kept(db.txs)
           R == kept(db.history)
<1>1. /\ pc = "drop" /\ pc' = "collect"
      /\ db' = [db EXCEPT !.headers = H, !.txs = T, !.history = R]
      /\ tip' = tip /\ saved' = saved /\ todo' = todo
  BY DEF DropStaleBlocks, DeleteHeaders
<1>2. db = saved /\ db \in Tables /\ tip \in Tips /\ todo = NothingNew
      /\ saved \in Tables /\ todo \in [Scripts -> SUBSET Located(tip)]
  BY <1>1 DEF CacheInv
<1>3. PICK k \in Tips : Snapshot(saved, k)
  BY DEF CacheInv
<1>4. /\ db.headers \subseteq [height : Nat, block : Blocks]
      /\ db.txs \subseteq TxRows /\ db.history \subseteq Rows
  BY <1>2, TableFields
<1>5. /\ H \in SUBSET [height : Nat, block : Blocks]
      /\ T \in SUBSET TxRows /\ R \in SUBSET Rows
  BY <1>4
<1>6. /\ db' \in Tables
      /\ db'.watch = db.watch
      /\ db'.headers = H /\ db'.txs = T /\ db'.history = R
  <2>1. db' = [db EXCEPT !.headers = H, !.txs = T, !.history = R]
    BY <1>1
  <2> HIDE DEF H, T, R
  <2> QED BY <1>2, <1>5, <2>1 DEF Tables
<1>7. DeleteFrom \in SUBSET db.headers
  BY DEF DeleteFrom
<1>8. ASSUME NEW q \in db.headers \ DeleteFrom
      PROVE  \E p \in db.headers :
               /\ p.height >= q.height
               /\ p.height \in Heights(tip) /\ Chain[tip][p.height] = p.block
  BY DEF DeleteFrom, Active
<1>9. /\ OnChain(db', tip)
      /\ \A s \in Scripts : Only(db', s, RowsOf(s, Known(db', tip, s)))
  <2>1. Snapshot(db, k)
    BY <1>2, <1>3
  <2> QED BY <1>2, <1>4, <1>6, <1>7, <1>8, <2>1, DroppedIsPrefix
<1>10. \A s \in Scripts : todo[s] = {}
  BY <1>2, NothingNewType
<1>11. \E j \in Tips : Snapshot(saved', j)
  BY <1>1, <1>3
<1> HIDE DEF H, T, R
<1> QED BY <1>1, <1>2, <1>6, <1>9, <1>10, <1>11 DEF CacheInv

LEMMA CollectCache == CacheInv /\ SyncHistory => CacheInv'
<1> SUFFICES ASSUME CacheInv, SyncHistory PROVE CacheInv'
  OBVIOUS
<1>1. /\ pc = "collect" /\ pc' = "headers"
      /\ todo' = [s \in Scripts |-> IF s \in db.watch THEN NewLocations(s) ELSE {}]
      /\ tip' = tip /\ saved' = saved /\ db' = db
  BY DEF SyncHistory
<1>2. /\ tip \in Tips /\ db \in Tables /\ saved \in Tables /\ OnChain(db, tip)
      /\ \E k \in Tips : Snapshot(saved, k)
      /\ \A s \in Scripts : Only(db, s, RowsOf(s, Known(db, tip, s)))
  BY <1>1 DEF CacheInv
<1>3. ASSUME NEW s \in Scripts
      PROVE  /\ todo'[s] \subseteq Located(tip)
             /\ todo'[s] # {} => s \in db.watch
             /\ Only(db, s, RowsOf(s, Located(tip) \ todo'[s]))
  <2>1. todo'[s] = IF s \in db.watch THEN NewLocations(s) ELSE {}
    BY <1>1
  <2>2. CASE s \in db.watch
    <3>1. HistoryOf(db, s) = RowsOf(s, Known(db, tip, s))
      BY <1>2, <2>2 DEF Only
    <3>2. /\ NewLocations(s) \subseteq Located(tip)
          /\ HistoryOf(db, s) = RowsOf(s, Located(tip) \ NewLocations(s))
      BY <1>2, <3>1, CollectedIsRest
    <3> QED BY <2>1, <2>2, <3>2 DEF Only
  <2>3. CASE s \notin db.watch
    BY <1>2, <2>1, <2>3 DEF Only
  <2> QED BY <2>2, <2>3
<1>4. todo' \in [Scripts -> SUBSET Located(tip)]
  <2> DEFINE f(s) == IF s \in db.watch THEN NewLocations(s) ELSE {}
  <2>1. todo' = [s \in Scripts |-> f(s)]
    BY <1>1
  <2>2. \A s \in Scripts : f(s) \in SUBSET Located(tip)
    BY <1>3, <2>1
  <2> HIDE DEF f
  <2> QED BY <2>1, <2>2
<1>5. /\ pc' = "headers" /\ tip' = tip /\ saved' = saved /\ db' = db
      /\ \A s \in Scripts : todo'[s] # {} => s \in db.watch
      /\ \A s \in Scripts : Only(db, s, RowsOf(s, Located(tip) \ todo'[s]))
  BY <1>1, <1>3
<1> QED BY <1>2, <1>4, <1>5 DEF CacheInv

LEMMA AddHeadersCache == CacheInv /\ AddHeaders => CacheInv'
<1> SUFFICES ASSUME CacheInv, AddHeaders PROVE CacheInv'
  OBVIOUS
<1> DEFINE row(l) == [height |-> l.height, block |-> Chain[tip][l.height]]
           new == { row(l) : l \in UNION { todo[s] : s \in Scripts } }
           clash(r) == \E q \in db.headers : q.height = r.height \/ q.block = r.block
           H == db.headers \cup { r \in new : ~clash(r) }
<1>1. /\ pc = "headers" /\ pc' = "txs"
      /\ db' = [db EXCEPT !.headers = H]
      /\ tip' = tip /\ saved' = saved /\ todo' = todo
  BY DEF AddHeaders
<1>2. /\ tip \in Tips /\ db \in Tables /\ saved \in Tables /\ OnChain(db, tip)
      /\ todo \in [Scripts -> SUBSET Located(tip)]
      /\ \A s \in Scripts : todo[s] # {} => s \in db.watch
      /\ \E k \in Tips : Snapshot(saved, k)
      /\ \A s \in Scripts : Only(db, s, RowsOf(s, Located(tip) \ todo[s]))
  BY <1>1 DEF CacheInv
<1>3. ASSUME NEW l \in Located(tip)
      PROVE  row(l) \in HeaderRows(tip) /\ row(l) \in [height : Nat, block : Blocks]
  <2>1. l.height \in Heights(tip) /\ l.height \in Nat
    BY <1>2, LocatedFacts
  <2>2. Chain[tip][l.height] \in Blocks
    BY <1>2, <2>1, AddressCacheAssumption DEF Heights
  <2> QED BY <2>1, <2>2 DEF HeaderRows
<1>4. \A s \in Scripts : todo[s] \subseteq Located(tip)
  BY <1>2
<1>5. H \subseteq HeaderRows(tip)
  BY <1>2, <1>3, <1>4 DEF OnChain
<1>6. H \in SUBSET [height : Nat, block : Blocks]
  BY <1>2, <1>3, <1>4, TableFields
<1>7. ASSUME NEW s \in Scripts, NEW l \in todo[s]
      PROVE  \E q \in H : q.height = l.height
  <2>1. l \in Located(tip) /\ row(l) \in new /\ row(l) \in HeaderRows(tip)
    BY <1>3, <1>4
  <2>2. CASE clash(row(l))
    <3>1. PICK q \in db.headers : q.height = l.height \/ q.block = Chain[tip][l.height]
      BY <2>2
    <3>2. q.height \in Heights(tip) /\ q.block = Chain[tip][q.height]
      BY <1>2, HeaderRowFacts DEF OnChain
    <3>3. l.height \in Heights(tip)
      BY <1>2, <2>1, LocatedFacts
    <3>4. q.height = l.height
      BY <1>2, <3>1, <3>2, <3>3, ChainAssumption
    <3> QED BY <3>4
  <2>3. CASE ~clash(row(l))
    <3>1. row(l) \in H
      BY <2>1, <2>3
    <3> QED BY <3>1
  <2> QED BY <2>2, <2>3
<1>8. db.headers \subseteq H
  OBVIOUS
<1> HIDE DEF H
<1>9. /\ db' \in Tables
      /\ db'.watch = db.watch
      /\ db'.headers = H /\ db'.txs = db.txs /\ db'.history = db.history
  BY <1>1, <1>2, <1>6, SetHeaders
<1>10. OnChain(db', tip)
  BY <1>2, <1>5, <1>8, <1>9 DEF OnChain
<1>11. \A s \in Scripts : Only(db', s, RowsOf(s, Located(tip) \ todo[s]))
  BY <1>2, <1>9 DEF Only, HistoryOf
<1>12. \A s \in Scripts : \A l \in todo[s] : \E q \in db'.headers : q.height = l.height
  BY <1>7, <1>9
<1> QED BY <1>1, <1>2, <1>9, <1>10, <1>11, <1>12 DEF CacheInv

LEMMA AddTransactionsCache == CacheInv /\ AddTransactions => CacheInv'
<1> SUFFICES ASSUME CacheInv, AddTransactions PROVE CacheInv'
  OBVIOUS
<1> DEFINE new == UNION { todo[s] : s \in Scripts }
           clash(r) == \E q \in db.txs :
             q.tx = r.tx \/ (q.height = r.height /\ q.offset = r.offset)
           T == db.txs \cup { r \in new : ~clash(r) }
<1>1. /\ pc = "txs" /\ pc' = "history"
      /\ db' = [db EXCEPT !.txs = T]
      /\ tip' = tip /\ saved' = saved /\ todo' = todo
  BY DEF AddTransactions
<1>2. /\ tip \in Tips /\ db \in Tables /\ saved \in Tables /\ OnChain(db, tip)
      /\ todo \in [Scripts -> SUBSET Located(tip)]
      /\ \A s \in Scripts : todo[s] # {} => s \in db.watch
      /\ \E k \in Tips : Snapshot(saved, k)
      /\ \A s \in Scripts : Only(db, s, RowsOf(s, Located(tip) \ todo[s]))
      /\ \A s \in Scripts : \A l \in todo[s] : \E q \in db.headers : q.height = l.height
  BY <1>1 DEF CacheInv
<1>3. new \subseteq Located(tip)
  BY <1>2
<1>4. T \subseteq Located(tip)
  BY <1>2, <1>3 DEF OnChain
<1>5. T \in SUBSET TxRows
  BY <1>2, <1>4, LocatedFacts
<1>6. \A l \in T : \E q \in db.headers : q.height = l.height
  BY <1>2 DEF OnChain
<1>7. db.txs \subseteq T
  OBVIOUS
<1> HIDE DEF T
<1>8. /\ db' \in Tables
      /\ db'.watch = db.watch
      /\ db'.headers = db.headers /\ db'.txs = T /\ db'.history = db.history
  BY <1>1, <1>2, <1>5, SetTxs
<1>9. OnChain(db', tip)
  BY <1>2, <1>4, <1>6, <1>7, <1>8 DEF OnChain
<1>10. \A s \in Scripts : Only(db', s, RowsOf(s, Located(tip) \ todo[s]))
  BY <1>2, <1>8 DEF Only, HistoryOf
<1> QED BY <1>1, <1>2, <1>8, <1>9, <1>10 DEF CacheInv

LEMMA AddHistoryCache ==
  ASSUME NEW s \in Scripts
  PROVE  CacheInv /\ AddHistory(s) => CacheInv'
<1> SUFFICES ASSUME CacheInv, AddHistory(s) PROVE CacheInv'
  OBVIOUS
<1>1. PICK l \in todo[s] :
        /\ \A m \in todo[s] \ {l} : Before(l, m)
        /\ l \in db.txs
        /\ db' = [db EXCEPT !.history = db.history \cup Entries(s, l)]
        /\ todo' = [todo EXCEPT ![s] = todo[s] \ {l}]
        /\ pc = "history" /\ tip' = tip /\ saved' = saved /\ pc' = pc
  BY DEF AddHistory
<1>2. /\ tip \in Tips /\ db \in Tables /\ saved \in Tables /\ OnChain(db, tip)
      /\ todo \in [Scripts -> SUBSET Located(tip)]
      /\ \A u \in Scripts : todo[u] # {} => u \in db.watch
      /\ \E k \in Tips : Snapshot(saved, k)
      /\ \A u \in Scripts : Only(db, u, RowsOf(u, Located(tip) \ todo[u]))
      /\ \A u \in Scripts : \A m \in todo[u] : \E q \in db.headers : q.height = m.height
  BY <1>1 DEF CacheInv
<1>3. s \in db.watch /\ HistoryOf(db, s) = RowsOf(s, Located(tip) \ todo[s])
  BY <1>1, <1>2 DEF Only
<1>4. /\ Entries(s, l) = RowsAt(s, l)
      /\ RowsOf(s, Located(tip) \ (todo[s] \ {l})) = HistoryOf(db, s) \cup Entries(s, l)
  <2>1. todo[s] \in SUBSET Located(tip)
    BY <1>2
  <2> QED BY <1>1, <1>2, <1>3, <2>1, EntriesExact
<1>5. l \in TxRows
  BY <1>1, <1>2, LocatedFacts
<1>6. \A r \in Entries(s, l) : /\ r \in Rows
                               /\ r.script = s /\ r.height = l.height /\ r.offset = l.offset
  BY <1>4, <1>5, RowsAtFacts
<1>7. db.history \cup Entries(s, l) \in SUBSET Rows
  BY <1>2, <1>6, TableFields
<1>8. /\ db' \in Tables
      /\ db'.watch = db.watch
      /\ db'.headers = db.headers /\ db'.txs = db.txs
      /\ db'.history = db.history \cup Entries(s, l)
  BY <1>1, <1>2, <1>7, SetHistory
<1>9. OnChain(db', tip)
  BY <1>1, <1>2, <1>6, <1>8 DEF OnChain
<1>10. /\ todo' \in [Scripts -> SUBSET Located(tip)]
       /\ todo'[s] = todo[s] \ {l}
       /\ \A u \in Scripts \ {s} : todo'[u] = todo[u]
  BY <1>1, <1>2
<1>11. ASSUME NEW u \in Scripts PROVE Only(db', u, RowsOf(u, Located(tip) \ todo'[u]))
  <2>1. CASE u = s
    <3>1. HistoryOf(db', s) = HistoryOf(db, s) \cup Entries(s, l)
      BY <1>6, <1>8 DEF HistoryOf
    <3>2. RowsOf(s, Located(tip) \ todo'[s]) = HistoryOf(db', s)
      BY <1>4, <1>10, <3>1
    <3> QED BY <1>3, <1>8, <2>1, <3>2 DEF Only
  <2>2. CASE u # s
    <3>1. HistoryOf(db', u) = HistoryOf(db, u)
      BY <1>6, <1>8, <2>2 DEF HistoryOf
    <3>2. todo'[u] = todo[u]
      BY <1>10, <2>2
    <3>3. Only(db, u, RowsOf(u, Located(tip) \ todo[u]))
      BY <1>2
    <3> QED BY <1>8, <3>1, <3>2, <3>3 DEF Only
  <2> QED BY <2>1, <2>2
<1>12. \A u \in Scripts : todo'[u] \subseteq todo[u]
  BY <1>10
<1>13. /\ \A u \in Scripts : todo'[u] # {} => u \in db'.watch
       /\ \A u \in Scripts : \A m \in todo'[u] : \E q \in db'.headers : q.height = m.height
  BY <1>2, <1>8, <1>12
<1>14. pc' = "history"
  BY <1>1
<1>15. /\ tip' \in Tips /\ saved' \in Tables /\ tip' = tip
       /\ \E k \in Tips : Snapshot(saved', k)
  BY <1>1, <1>2
<1> QED BY <1>8, <1>9, <1>10, <1>11, <1>13, <1>14, <1>15 DEF CacheInv

\* The process ends, and with it the database transaction.
LEMMA RolledBackCache ==
  ASSUME CacheInv, tip' = tip, saved' = saved,
         db' = saved, todo' = NothingNew, pc' = "down"
  PROVE  CacheInv'
<1>1. tip \in Tips /\ saved \in Tables /\ \E k \in Tips : Snapshot(saved, k)
  BY DEF CacheInv
<1>2. /\ NothingNew \in [Scripts -> SUBSET Located(tip)]
      /\ \A s \in Scripts : NothingNew[s] = {}
  BY NothingNewType
<1> QED BY <1>1, <1>2 DEF CacheInv

LEMMA CommitCache == CacheInv /\ Commit => CacheInv'
<1> SUFFICES ASSUME CacheInv, Commit PROVE CacheInv'
  OBVIOUS
<1>1. /\ pc = "history" /\ todo = NothingNew /\ saved' = db /\ pc' = "synced"
      /\ tip' = tip /\ db' = db /\ todo' = todo
  BY DEF Commit
<1>2. /\ tip \in Tips /\ db \in Tables /\ OnChain(db, tip)
      /\ todo \in [Scripts -> SUBSET Located(tip)]
      /\ \A s \in Scripts : Only(db, s, RowsOf(s, Located(tip) \ todo[s]))
      /\ \A s \in Scripts : todo[s] # {} => s \in db.watch
  BY <1>1 DEF CacheInv
<1>3. ASSUME NEW s \in Scripts PROVE Only(db, s, Reference(tip, s))
  <2>1. Located(tip) \ todo[s] = Located(tip)
    BY <1>1, NothingNewType
  <2> QED BY <1>2, <2>1, ReferenceRows
<1>4. Snapshot(db, tip)
  BY <1>2, <1>3 DEF Snapshot, Only
<1>5. \E k \in Tips : Snapshot(saved', k)
  BY <1>1, <1>2, <1>4
<1> QED BY <1>1, <1>2, <1>3, <1>5 DEF CacheInv

LEMMA StutterCache ==
  ASSUME CacheInv, tip' = tip, saved' = saved, db' = db, todo' = todo,
         pc' = pc \/ (pc = "synced" /\ pc' \in {"index", "down"})
  PROVE  CacheInv'
<1>1. CASE pc' = pc
  BY <1>1 DEF CacheInv
<1>2. CASE pc = "synced" /\ pc' \in {"index", "down"}
  BY <1>2 DEF CacheInv
<1> QED BY <1>1, <1>2

LEMMA NextCache == CacheInv /\ [Next]_vars => CacheInv'
<1> SUFFICES ASSUME CacheInv, [Next]_vars PROVE CacheInv'
  OBVIOUS
<1>1. CASE Open
  BY <1>1, OpenCache
<1>2. CASE IndexChain
  BY <1>2, IndexCache
<1>3. CASE DropStaleBlocks
  BY <1>3, DropCache
<1>4. CASE SyncHistory
  BY <1>4, CollectCache
<1>5. CASE AddHeaders
  BY <1>5, AddHeadersCache
<1>6. CASE AddTransactions
  BY <1>6, AddTransactionsCache
<1>7. ASSUME NEW s \in Scripts, AddHistory(s) PROVE CacheInv'
  BY <1>7, AddHistoryCache
<1>8. ASSUME NEW s \in Scripts, AddHistoryPanics(s) PROVE CacheInv'
  BY <1>8, RolledBackCache DEF AddHistoryPanics
<1>9. CASE Commit
  BY <1>9, CommitCache
<1>10. CASE NextRound
  BY <1>10, StutterCache DEF NextRound
<1>11. CASE Exit
  BY <1>11, RolledBackCache DEF Exit
<1>12. CASE UNCHANGED vars
  BY <1>12, StutterCache DEF vars
<1> QED BY <1>1, <1>2, <1>3, <1>4, <1>5, <1>6, <1>7, <1>8, <1>9, <1>10, <1>11,
           <1>12 DEF Next

-----------------------------------------------------------------------------
(* Theorems *)

\* Whenever a sync is done the cached history of every watched script is that
\* of the active chain, and when sync_history looks up the cached headers
\* drop_stale_blocks has removed all that are off it.
THEOREM CacheStaysExact == Spec => []CacheExact
<1>1. CacheInv => CacheExact
  <2> SUFFICES ASSUME CacheInv PROVE CacheExact
    OBVIOUS
  <2>1. \E k \in Tips : OnChain(db, k)
    <3>1. CASE pc \in {"down", "index", "drop", "synced"}
      BY <3>1 DEF CacheInv, Snapshot
    <3>2. CASE pc \in {"collect", "headers", "txs", "history", "synced"}
      BY <3>2 DEF CacheInv
    <3> QED BY <3>1, <3>2 DEF CacheInv
  <2>2. /\ \A r, q \in db.headers : r.height = q.height \/ r.block = q.block => r = q
        /\ \A r, q \in db.txs : r.tx = q.tx => r = q
    BY <2>1, NoDuplicates
  <2>3. /\ db.watch \subseteq Scripts
        /\ db.headers \subseteq [height : Nat, block : Blocks]
        /\ db.txs \subseteq [height : Nat, offset : Nat, tx : Txids]
    BY TableFields DEF CacheInv, TxRows
  <2>4. /\ tip \in Tips
        /\ pc \in {"down", "index", "drop", "collect", "headers", "txs", "history", "synced"}
        /\ pc \in {"down", "index", "drop", "synced"} => db = saved /\ todo = NothingNew
        /\ \A s \in Scripts : todo[s] # {} => s \in db.watch
    BY DEF CacheInv
  <2>5. TypeOK
    BY <2>2, <2>3, <2>4 DEF TypeOK
  <2>6. ASSUME pc = "collect", NEW r \in db.headers PROVE Active(r)
    <3>1. r \in HeaderRows(tip)
      BY <2>6 DEF CacheInv, OnChain
    <3> QED BY <2>4, <3>1, HeaderRowFacts DEF Active
  <2>7. pc = "synced" => \A s \in Scripts :
          HistoryOf(db, s) = IF s \in db.watch THEN Reference(tip, s) ELSE {}
    BY DEF CacheInv, Only
  <2> QED BY <2>5, <2>6, <2>7 DEF CacheExact
<1> QED BY <1>1, InitCache, NextCache, PTL DEF Spec

\* Whenever the process died, the committed history is that of one chain in
\* full: drop_stale_blocks, sync_history and what they add are one database
\* transaction.
THEOREM SavedStaysSnapshot == Spec => []SavedIsSnapshot
<1>1. CacheInv => SavedIsSnapshot
  BY DEF CacheInv, Snapshot, SavedIsSnapshot
<1> QED BY <1>1, InitCache, NextCache, PTL DEF Spec

-----------------------------------------------------------------------------
(* bindex-web *)

RequestType ==
  [at : Places, kind : Kinds \cup {None}, by : Workers \cup {None}, ok : BOOLEAN,
   first : 0..MaxChanges \cup {None}, second : 0..MaxChanges \cup {None},
   shown : Figures \cup {None}]

\* The lock excludes readers, and stays so if the writer dies.
Excluded ==
  /\ syncer \in {"syncing", "dead"} => Readers = {}
  /\ poisoned <=> syncer = "dead"

\* The figures are those of the chain, unless the last run failed or panicked.
FiguresFit ==
  ~poisoned => figures.last_error \/ figures.last_tip \in {None, chain}

\* A tip `first` that was read is not newer than the one of figures `f`.
NotNewer(first, f) ==
  first # None => f.last_error \/ f.last_tip = None \/ f.last_tip >= first

\* What has been read for a request, by where it is.
RequestFits(q) ==
  /\ q.first # None => q.first <= chain
  /\ NotNewer(q.first, figures)
  /\ q.at \in {"none", "queued", "resetting", "locking"} => q.first = None
  /\ q.at = "reading" => q.first \in {None, chain}
  /\ q.at \in {"none", "queued", "resetting", "locking", "reading"} => q.second = None
  /\ q.at \in {"figures", "answered"} => q.first = q.second
  /\ q.at # "answered" => q.shown = None
  /\ q.shown # None => NotNewer(q.first, q.shown)
  /\ q.at = "resetting" => q.kind = "reset"
  /\ q.at = "figures" => q.kind = "monitor"

WebInv ==
  /\ WebTypeOK
  /\ Excluded
  /\ FiguresFit
  /\ \A r \in Requests : RequestFits(request[r])

-----------------------------------------------------------------------------

LEMMA WebInitInv == WebInit => WebInv
<1> SUFFICES ASSUME WebInit PROVE WebInv
  OBVIOUS
<1> USE WebAssumption DEF WebAssumption
<1>1. NoRequest \in RequestType /\ NoFigures \in Figures
  BY DEF NoRequest, RequestType, Places, NoFigures, Figures
<1>2. WebTypeOK
  <2>1. request \in [Requests -> RequestType] /\ figures \in Figures
    BY <1>1 DEF WebInit
  <2>2. /\ node \in 0..MaxChanges /\ chain \in 0..node /\ failures \in 0..MaxFailures
    BY DEF WebInit
  <2>3. /\ alive \subseteq Workers /\ poisoned \in BOOLEAN /\ silent \in BOOLEAN
        /\ syncer \in {"waiting", "syncing", "sleeping", "dead"}
    BY DEF WebInit
  <2> QED BY <2>1, <2>2, <2>3 DEF WebTypeOK, RequestType
<1>3. Excluded /\ FiguresFit
  BY DEF WebInit, Excluded, FiguresFit, NoFigures
<1>4. \A r \in Requests : RequestFits(request[r])
  BY DEF WebInit, RequestFits, NoRequest, NotNewer
<1> QED BY <1>2, <1>3, <1>4 DEF WebInv

\* A step of the syncer.  Without readers, the chain may grow; the figures are
\* then those of a failed run, or of the new chain, or the syncer is dead.
LEMMA SyncKeeps ==
  ASSUME WebInv, UNCHANGED <<node, silent, alive, request>>,
         chain' \in chain..node, figures' \in Figures, failures' \in 0..MaxFailures,
         syncer' \in {"waiting", "syncing", "sleeping", "dead"}, poisoned' \in BOOLEAN,
         Excluded', FiguresFit',
         chain' # chain => Readers = {},
         \/ figures' = figures
         \/ figures'.last_error
         \/ figures'.last_tip = chain'
  PROVE  WebInv'
<1> USE WebAssumption DEF WebAssumption
<1>1. WebTypeOK
  BY DEF WebInv
<1>2. node \in 0..MaxChanges /\ chain \in 0..node /\ chain' \in 0..node
  BY <1>1 DEF WebTypeOK
<1>3. WebTypeOK'
  <2>1. request' = request /\ node' = node /\ alive' = alive
    OBVIOUS
  <2> QED BY <1>1, <1>2, <2>1 DEF WebTypeOK
<1>4. ASSUME NEW r \in Requests PROVE RequestFits(request[r])'
  <2> DEFINE q == request[r]
  <2>1. q \in RequestType /\ RequestFits(q) /\ request'[r] = q
    BY <1>1 DEF WebInv, WebTypeOK, RequestType
  <2>2. q.at = "reading" => chain' = chain
    BY DEF Readers
  <2>3. q.first \in 0..MaxChanges \cup {None}
    BY <2>1 DEF RequestType
  <2> HIDE DEF q
  <2>4. q.first # None => q.first <= chain'
    BY <1>2, <2>1, <2>3 DEF RequestFits
  <2>5. NotNewer(q.first, figures')
    <3>1. CASE figures' = figures
      BY <2>1, <3>1 DEF RequestFits
    <3>2. CASE figures'.last_error
      BY <3>2 DEF NotNewer
    <3>3. CASE figures'.last_tip = chain'
      BY <1>2, <2>3, <2>4, <3>3 DEF NotNewer
    <3> QED BY <3>1, <3>2, <3>3
  <2>6. q.at = "reading" => q.first \in {None, chain'}
    BY <2>1, <2>2 DEF RequestFits
  <2> QED BY <2>1, <2>4, <2>5, <2>6 DEF RequestFits, NotNewer
<1> QED BY <1>3, <1>4 DEF WebInv

\* A step of a worker on request r.
LEMMA WorkKeeps ==
  ASSUME WebInv, NEW r \in Requests, NEW q,
         UNCHANGED <<node, silent, chain, syncer, poisoned, figures, failures>>,
         request' = [request EXCEPT ![r] = q], alive' \subseteq Workers,
         q \in RequestType, RequestFits(q),
         q.at = "reading" => request[r].at = "reading" \/ syncer \notin {"syncing", "dead"}
  PROVE  WebInv'
<1>1. WebTypeOK /\ request \in [Requests -> RequestType]
  BY DEF WebInv, WebTypeOK, RequestType
<1>2. WebTypeOK'
  <2>1. request' \in [Requests -> RequestType]
    BY <1>1
  <2> QED BY <1>1, <2>1 DEF WebTypeOK, RequestType
<1>3. Excluded'
  <2>1. Readers' \subseteq Readers \cup (IF q.at = "reading" THEN {r} ELSE {})
    BY <1>1 DEF Readers
  <2>2. q.at = "reading" /\ syncer \in {"syncing", "dead"} => r \in Readers
    BY DEF Readers
  <2> QED BY <2>1, <2>2 DEF Excluded, WebInv
<1>4. FiguresFit'
  BY DEF FiguresFit, WebInv
<1>5. ASSUME NEW d \in Requests PROVE RequestFits(request[d])'
  <2>1. RequestFits(request'[d])
    BY <1>1 DEF WebInv
  <2> QED BY <2>1 DEF RequestFits, NotNewer
<1> QED BY <1>2, <1>3, <1>4, <1>5 DEF WebInv

\* Every step keeps the invariant.
LEMMA WebStepInv == WebInv /\ [WebNext]_webVars => WebInv'
<1> SUFFICES ASSUME WebInv, [WebNext]_webVars PROVE WebInv'
  OBVIOUS
<1>0. /\ node \in 0..MaxChanges /\ chain \in 0..node
      /\ syncer \in {"waiting", "syncing", "sleeping", "dead"} /\ poisoned \in BOOLEAN
      /\ figures \in Figures /\ failures \in 0..MaxFailures /\ alive \subseteq Workers
      /\ request \in [Requests -> RequestType] /\ silent \in BOOLEAN
      /\ MaxChanges \in Nat /\ MaxFailures \in Nat
      /\ None \notin Nat /\ None \notin Figures
  BY WebAssumption DEF WebAssumption, WebInv, WebTypeOK, RequestType
<1>1. Excluded /\ FiguresFit /\ \A r \in Requests : RequestFits(request[r])
  BY DEF WebInv
<1>2. CASE NodeChanges \/ NodeSilent
  <2>1. /\ UNCHANGED <<alive, request, chain, syncer, poisoned, figures, failures>>
        /\ node' \in 0..MaxChanges /\ chain \in 0..node'
    BY <1>0, <1>2 DEF NodeChanges, NodeSilent, UnchangedSync
  <2>2. silent' \in BOOLEAN
    BY <1>0, <1>2, Zenon DEF NodeChanges, NodeSilent, UnchangedSync
  <2>3. WebTypeOK'
    BY <1>0, <2>1, <2>2 DEF WebTypeOK, RequestType
  <2>4. Excluded' /\ FiguresFit' /\ \A r \in Requests : RequestFits(request[r])'
    BY <1>1, <2>1 DEF Excluded, Readers, FiguresFit, RequestFits, NotNewer
  <2> QED BY <2>3, <2>4 DEF WebInv
<1>3. CASE SyncLock \/ SyncWakes
  <2>1. /\ UNCHANGED <<node, silent, alive, request, chain, poisoned, figures, failures>>
        /\ (syncer' = "syncing" /\ Readers = {}) \/ syncer' = "waiting"
        /\ syncer \in {"waiting", "sleeping"}
    BY <1>3 DEF SyncLock, SyncWakes, UnchangedWeb
  <2>2. Excluded' /\ FiguresFit' /\ chain' \in chain..node
    BY <1>0, <1>1, <2>1 DEF Excluded, FiguresFit, Readers
  <2> QED BY <1>0, <2>1, <2>2, SyncKeeps
<1>4. CASE SyncBlocks \/ SyncDone
  <2>1. /\ UNCHANGED <<node, silent, alive, request, poisoned, failures>>
        /\ syncer = "syncing" /\ syncer' \in {"syncing", "sleeping"}
        /\ chain' \in chain..node
        /\ figures' = [last_tip |-> chain', last_error |-> FALSE]
    BY <1>0, <1>4 DEF SyncBlocks, SyncDone, UnchangedWeb
  <2>2. figures' \in Figures /\ figures'.last_tip = chain' /\ Readers = {}
    <3>1. chain' \in 0..MaxChanges
      BY <1>0, <2>1
    <3> QED BY <1>1, <2>1, <3>1 DEF Figures, Excluded
  <2>3. Excluded' /\ FiguresFit'
    BY <1>1, <2>1, <2>2 DEF Excluded, FiguresFit, Readers
  <2> QED BY <1>0, <2>1, <2>2, <2>3, SyncKeeps
<1>5. CASE SyncFails
  <2>1. /\ UNCHANGED <<node, silent, alive, request, poisoned>>
        /\ syncer = "syncing" /\ syncer' = "sleeping"
        /\ chain' \in chain..node /\ failures' \in 0..MaxFailures
        /\ figures' = [figures EXCEPT !.last_error = TRUE]
    BY <1>0, <1>5 DEF SyncFails, UnchangedWeb
  <2>2. figures' \in Figures /\ figures'.last_error /\ Readers = {}
    BY <1>0, <1>1, <2>1 DEF Figures, Excluded
  <2>3. Excluded' /\ FiguresFit'
    BY <1>1, <2>1, <2>2 DEF Excluded, FiguresFit, Readers
  <2> QED BY <1>0, <2>1, <2>2, <2>3, SyncKeeps
<1>6. CASE SyncPanics
  <2>1. /\ UNCHANGED <<node, silent, alive, request, figures, failures>>
        /\ syncer = "syncing" /\ syncer' = "dead" /\ poisoned' = TRUE
        /\ chain' \in chain..node
    BY <1>0, <1>6 DEF SyncPanics, UnchangedWeb
  <2>2. Readers = {}
    BY <1>1, <2>1 DEF Excluded
  <2>3. Excluded' /\ FiguresFit'
    BY <2>1, <2>2 DEF Excluded, FiguresFit, Readers
  <2> QED BY <1>0, <2>1, <2>2, <2>3, SyncKeeps
<1>7. ASSUME NEW r \in Requests,
             \/ Arrive(r) \/ ReadLock(r) \/ Handle(r) \/ Panics(r) \/ Respond(r)
             \/ \E w \in Workers : Take(w, r)
      PROVE  WebInv'
  <2> DEFINE old == request[r]
  <2>0. /\ old \in RequestType /\ RequestFits(old)
    BY <1>0, <1>1
  <2>1. CASE Arrive(r)
    <3> PICK kind \in Kinds :
          request' = [request EXCEPT ![r].at = "queued", ![r].kind = kind]
      BY <2>1 DEF Arrive
    <3> DEFINE new == [old EXCEPT !.at = "queued", !.kind = kind]
    <3>1. /\ UNCHANGED <<node, silent, chain, syncer, poisoned, figures, failures>>
          /\ request' = [request EXCEPT ![r] = new] /\ alive' \subseteq Workers
      BY <1>0, <2>1 DEF Arrive, UnchangedSync
    <3>2. /\ new \in RequestType
          /\ new.at = "queued" /\ new.kind = kind
          /\ new.by = old.by /\ new.ok = old.ok /\ new.first = old.first
          /\ new.second = old.second /\ new.shown = old.shown
      BY <1>0, <2>0 DEF RequestType, Places
    <3> HIDE DEF new
    <3>3. RequestFits(new)
      BY <1>0, <1>1, <2>0, <2>1, <3>2 DEF Arrive, RequestFits, NotNewer
    <3> QED BY <1>0, <2>1, <3>1, <3>2, <3>3, WorkKeeps DEF Arrive
  <2>2. CASE \E w \in Workers : Take(w, r)
    <3> PICK w \in Workers, to \in AfterTake(old.kind) :
          request' = [request EXCEPT ![r].at = to, ![r].by = w, ![r].ok = old.kind = "page"]
      BY <2>2 DEF Take, AfterTake
    <3> DEFINE new == [old EXCEPT !.at = to, !.by = w, !.ok = old.kind = "page"]
    <3>1. /\ UNCHANGED <<node, silent, chain, syncer, poisoned, figures, failures>>
          /\ request' = [request EXCEPT ![r] = new] /\ alive' \subseteq Workers
      BY <1>0, <2>2 DEF Take, AfterTake, UnchangedSync
    <3>2. /\ new \in RequestType
          /\ new.at = to /\ new.by = w /\ new.ok = (old.kind = "page")
          /\ new.kind = old.kind /\ new.first = old.first /\ new.second = old.second
          /\ new.shown = old.shown
      BY <1>0, <2>0 DEF RequestType, Places, AfterTake
    <3> HIDE DEF new
    <3>3. RequestFits(new)
      BY <1>0, <1>1, <2>0, <2>2, <3>2 DEF Take, AfterTake, RequestFits, NotNewer
    <3> QED BY <1>0, <2>2, <3>1, <3>2, <3>3, WorkKeeps DEF Take, AfterTake
  <2>3. CASE Reset(r)
    <3> PICK ok \in BOOLEAN :
          request' = [request EXCEPT ![r].at = "answered", ![r].ok = ok]
      BY <2>3 DEF Reset
    <3> DEFINE new == [old EXCEPT !.at = "answered", !.ok = ok]
    <3>1. /\ UNCHANGED <<node, silent, chain, syncer, poisoned, figures, failures>>
          /\ request' = [request EXCEPT ![r] = new] /\ alive' \subseteq Workers
      BY <1>0, <2>3 DEF Reset, UnchangedSync
    <3>2. /\ new \in RequestType
          /\ new.at = "answered" /\ new.ok = ok
          /\ new.kind = old.kind /\ new.by = old.by /\ new.first = old.first
          /\ new.second = old.second /\ new.shown = old.shown
      BY <1>0, <2>0 DEF RequestType, Places
    <3> HIDE DEF new
    <3>3. RequestFits(new)
      BY <1>0, <1>1, <2>0, <2>3, <3>2 DEF Reset, RequestFits, NotNewer
    <3> QED BY <1>0, <2>3, <3>1, <3>2, <3>3, WorkKeeps DEF Reset
  <2>4. CASE ReadLock(r)
    <3> DEFINE new == [old EXCEPT !.at = "reading"]
    <3>1. /\ UNCHANGED <<node, silent, chain, syncer, poisoned, figures, failures>>
          /\ request' = [request EXCEPT ![r] = new] /\ alive' \subseteq Workers
      BY <1>0, <2>4 DEF ReadLock, Move, UnchangedSync
    <3>2. /\ new \in RequestType
          /\ new.at = "reading"
          /\ new.kind = old.kind /\ new.by = old.by /\ new.ok = old.ok
          /\ new.first = old.first /\ new.second = old.second /\ new.shown = old.shown
      BY <1>0, <2>0 DEF RequestType, Places
    <3> HIDE DEF new
    <3>3. RequestFits(new)
      BY <1>0, <1>1, <2>0, <2>4, <3>2 DEF ReadLock, Move, RequestFits, NotNewer
    <3>4. syncer \notin {"syncing", "dead"}
      BY <1>1, <2>4 DEF ReadLock, Excluded
    <3> QED BY <3>1, <3>2, <3>3, <3>4, WorkKeeps
  <2>5. CASE LockFails(r)
    <3> DEFINE new == [old EXCEPT !.at = AfterRead(r)]
    <3>1. /\ UNCHANGED <<node, silent, chain, syncer, poisoned, figures, failures>>
          /\ request' = [request EXCEPT ![r] = new] /\ alive' \subseteq Workers
      BY <1>0, <2>5 DEF LockFails, Move, AfterRead, UnchangedSync
    <3>2. /\ new \in RequestType
          /\ new.at = AfterRead(r)
          /\ new.kind = old.kind /\ new.by = old.by /\ new.ok = old.ok
          /\ new.first = old.first /\ new.second = old.second /\ new.shown = old.shown
      BY <1>0, <2>0 DEF RequestType, Places, AfterRead
    <3> HIDE DEF new
    <3>3. RequestFits(new)
      BY <1>0, <1>1, <2>0, <2>5, <3>2 DEF LockFails, Move, AfterRead, RequestFits, NotNewer
    <3> QED BY <1>0, <2>5, <3>1, <3>2, <3>3, WorkKeeps DEF LockFails, Move, AfterRead
  <2>6. CASE ReadFirst(r)
    <3> DEFINE new == [old EXCEPT !.first = chain]
    <3>1. /\ UNCHANGED <<node, silent, chain, syncer, poisoned, figures, failures>>
          /\ request' = [request EXCEPT ![r] = new] /\ alive' \subseteq Workers
      BY <1>0, <2>6 DEF ReadFirst, UnchangedSync
    <3>0. chain \in 0..MaxChanges
      BY <1>0
    <3>2. /\ new \in RequestType
          /\ new.first = chain
          /\ new.at = old.at /\ new.kind = old.kind /\ new.by = old.by
          /\ new.ok = old.ok /\ new.second = old.second /\ new.shown = old.shown
      BY <1>0, <2>0, <3>0 DEF RequestType, Places
    <3> HIDE DEF new
    <3>3. RequestFits(new)
      BY <1>0, <1>1, <2>0, <2>6, <3>2, <3>0 DEF ReadFirst, RequestFits, NotNewer, FiguresFit, Excluded, Readers
    <3> QED BY <1>0, <2>6, <3>1, <3>2, <3>3, WorkKeeps DEF ReadFirst
  <2>7. CASE ReadSecond(r)
    <3> PICK ok \in BOOLEAN, to \in {"figures", "answered"} :
          /\ to = AfterRead(r)
          /\ request' = [request EXCEPT ![r].at = to, ![r].second = chain, ![r].ok = ok]
      BY <2>7 DEF ReadSecond, AfterRead
    <3> DEFINE new == [old EXCEPT !.at = to, !.second = chain, !.ok = ok]
    <3>1. /\ UNCHANGED <<node, silent, chain, syncer, poisoned, figures, failures>>
          /\ request' = [request EXCEPT ![r] = new] /\ alive' \subseteq Workers
      BY <1>0, <2>7 DEF ReadSecond, AfterRead, UnchangedSync
    <3>0. chain \in 0..MaxChanges
      BY <1>0
    <3>2. /\ new \in RequestType
          /\ new.at = to /\ new.second = chain /\ new.ok = ok
          /\ new.kind = old.kind /\ new.by = old.by /\ new.first = old.first
          /\ new.shown = old.shown
      BY <1>0, <2>0, <3>0 DEF RequestType, Places
    <3> HIDE DEF new
    <3>3. RequestFits(new)
      BY <1>0, <1>1, <2>0, <2>7, <3>2, <3>0 DEF ReadSecond, AfterRead, RequestFits, NotNewer
    <3> QED BY <1>0, <2>7, <3>1, <3>2, <3>3, WorkKeeps DEF ReadSecond, AfterRead
  <2>8. CASE ReadFigures(r)
    <3> DEFINE new == [old EXCEPT !.at = "answered", !.shown = figures, !.ok = TRUE]
    <3>1. /\ UNCHANGED <<node, silent, chain, syncer, poisoned, figures, failures>>
          /\ request' = [request EXCEPT ![r] = new] /\ alive' \subseteq Workers
      BY <1>0, <2>8 DEF ReadFigures, UnchangedSync
    <3>2. /\ new \in RequestType
          /\ new.at = "answered" /\ new.shown = figures /\ new.ok = TRUE
          /\ new.kind = old.kind /\ new.by = old.by /\ new.first = old.first
          /\ new.second = old.second
      BY <1>0, <2>0 DEF RequestType, Places
    <3> HIDE DEF new
    <3>3. RequestFits(new)
      BY <1>0, <1>1, <2>0, <2>8, <3>2 DEF ReadFigures, RequestFits, NotNewer
    <3> QED BY <1>0, <2>8, <3>1, <3>2, <3>3, WorkKeeps DEF ReadFigures
  <2>9. CASE Panics(r)
    <3> DEFINE new == [old EXCEPT !.at = "lost", !.by = None]
    <3>1. /\ UNCHANGED <<node, silent, chain, syncer, poisoned, figures, failures>>
          /\ request' = [request EXCEPT ![r] = new] /\ alive' \subseteq Workers
      BY <1>0, <2>9 DEF Panics, UnchangedSync
    <3>2. /\ new \in RequestType
          /\ new.at = "lost" /\ new.by = None
          /\ new.kind = old.kind /\ new.ok = old.ok /\ new.first = old.first
          /\ new.second = old.second /\ new.shown = old.shown
      BY <1>0, <2>0 DEF RequestType, Places
    <3> HIDE DEF new
    <3>3. RequestFits(new)
      BY <1>0, <1>1, <2>0, <2>9, <3>2 DEF Panics, RequestFits, NotNewer
    <3> QED BY <1>0, <2>9, <3>1, <3>2, <3>3, WorkKeeps DEF Panics
  <2>10. CASE Respond(r)
    <3> DEFINE new == [NoRequest EXCEPT !.at = "done"]
    <3>1. /\ UNCHANGED <<node, silent, chain, syncer, poisoned, figures, failures>>
          /\ request' = [request EXCEPT ![r] = new] /\ alive' \subseteq Workers
      BY <1>0, <2>10 DEF Respond, UnchangedSync
    <3>2. new \in RequestType /\ new.at # "reading"
      BY DEF NoRequest, RequestType, Places
    <3>3. RequestFits(new)
      BY DEF NoRequest, RequestFits, NotNewer
    <3> HIDE DEF new
    <3> QED BY <3>1, <3>2, <3>3, WorkKeeps
  <2> QED BY <1>7, <2>1, <2>2, <2>3, <2>4, <2>5, <2>6, <2>7, <2>8, <2>9, <2>10 DEF Handle
<1>8. CASE UNCHANGED webVars
  BY <1>8 DEF webVars, WebInv, WebTypeOK, Excluded, Readers, FiguresFit, RequestFits, NotNewer
<1> QED BY <1>2, <1>3, <1>4, <1>5, <1>6, <1>7, <1>8 DEF WebNext, SyncNext

LEMMA WebInvAlways == WebSpec => []WebInv
  BY WebInitInv, WebStepInv, PTL DEF WebSpec

\* An answer is about one state of the chain, however many workers read and
\* panic and whatever the syncer does in between, and a monitor page shows no
\* tip that is newer than the last sync it shows, unless that failed
\* (handle, sync_loop, Monitor::json).
THEOREM AnswersStayCoherent == WebSpec => []AnswersCoherent
<1>1. WebInv => AnswersCoherent
  BY DEF WebInv, RequestFits, NotNewer, AnswersCoherent
<1> QED BY <1>1, WebInvAlways, PTL

\* Once the syncer has died holding the lock no query is answered from the chain.
THEOREM PoisonedStaysSilent == WebSpec => PoisonedAnswersNothing
<1> DEFINE Silent ==
      \A r \in Requests :
        poisoned /\ request'[r].ok /\ ~request[r].ok =>
          request[r].kind \in {"page", "monitor", "reset"}
<1>1. WebInv /\ [WebNext]_webVars => [Silent]_webVars
  <2> SUFFICES ASSUME WebInv, WebNext, NEW d \in Requests,
                      poisoned, request'[d].ok, ~request[d].ok
               PROVE  request[d].kind \in {"page", "monitor", "reset"}
    OBVIOUS
  <2>1. request \in [Requests -> RequestType] /\ RequestFits(request[d])
    BY DEF WebInv, WebTypeOK, RequestType
  <2>2. request[d].at # "reading"
    BY DEF WebInv, Excluded, Readers
  <2>3. request' # request
    OBVIOUS
  <2>4. PICK r \in Requests :
          \/ Arrive(r) \/ ReadLock(r) \/ Handle(r) \/ Panics(r) \/ Respond(r)
          \/ \E w \in Workers : Take(w, r)
    BY <2>3 DEF WebNext, NodeChanges, NodeSilent, SyncLock, SyncNext, SyncBlocks, SyncDone, SyncFails,
                SyncPanics, SyncWakes, UnchangedWeb
  <2>5. CASE Arrive(r) \/ ReadLock(r) \/ LockFails(r) \/ ReadFirst(r) \/ Panics(r) \/ Respond(r)
    <3>1. request'[d].ok \in {request[d].ok, FALSE}
      BY <2>1, <2>5 DEF Arrive, ReadLock, LockFails, ReadFirst, Panics, Respond, Move,
                        NoRequest, RequestType
    <3> QED BY <3>1
  <2>6. CASE ReadSecond(r)
    <3>1. d # r
      BY <2>2, <2>6 DEF ReadSecond
    <3> QED BY <2>1, <2>6, <3>1 DEF ReadSecond
  <2>7. CASE Reset(r) \/ ReadFigures(r)
    <3>1. d = r
      BY <2>1, <2>7 DEF Reset, ReadFigures
    <3> QED BY <2>1, <2>7, <3>1 DEF Reset, ReadFigures, RequestFits
  <2>8. CASE \E w \in Workers : Take(w, r)
    <3>1. d = r
      BY <2>1, <2>8 DEF Take
    <3> QED BY <2>1, <2>8, <3>1 DEF Take, RequestType
  <2> QED BY <2>4, <2>5, <2>6, <2>7, <2>8 DEF Handle
<1> QED BY <1>1, WebInvAlways, PTL DEF WebSpec, PoisonedAnswersNothing
=============================================================================
