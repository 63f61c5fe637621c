---------------------------- MODULE AddressCache ----------------------------
(***************************************************************************)
(* bindex-cli's address history: the SQLite cache of the watched scripts'  *)
(* headers, transactions and history (Cache), and the loop that brings the *)
(* index and then the cache up to date.                                    *)
(*                                                                         *)
(*   down --Open--> index --> drop --> collect --> headers --> txs         *)
(*    ^               ^                                         |          *)
(*    '--- Exit --- synced <------- Commit ------ history <-----'          *)
(*                                                                         *)
(* From "drop" to "history" a database transaction is open.  Tables are    *)
(* sets of rows, without the raw bytes that go with a header, transaction  *)
(* or script.                                                              *)
(***************************************************************************)
EXTENDS Transactions, Sequences

CONSTANTS
  Blocks,
  BlockTxs,   \* BlockTxs[b]: the transactions of block b, in order
  Tips,       \* the blocks the index may end in
  Chain,      \* Chain[k]: the blocks from the first one to k
  Amount,     \* Amount[o]: the value of outpoint o
  Collides    \* Collides[s]: transactions indexed under s's prefix by chance

Heights(k) == DOMAIN Chain[k]

\* Every transaction of the chain ending in k, with its place.
Located(k) ==
  UNION { { [height |-> h, offset |-> i, tx |-> BlockTxs[Chain[k][h]][i]] :
              i \in DOMAIN BlockTxs[Chain[k][h]] } : h \in Heights(k) }

Before(l, m) == l.height < m.height \/ (l.height = m.height /\ l.offset < m.offset)

\* Within one chain transaction identifiers are unique.
ASSUME AddressCacheAssumption ==
  /\ BlockTxs \in [Blocks -> Seq(Txids)]
  /\ Chain \in [Tips -> Seq(Blocks)]
  /\ \A k \in Tips : \A l, m \in Located(k) : l.tx = m.tx => l = m
  /\ Amount \in [Outpoints -> Nat]
  /\ Collides \in [Scripts -> SUBSET Txids]

\* A block stands on the one before it, so chains that share a block share all
\* below it; and a transaction comes after those it spends from.
ASSUME ChainAssumption ==
  /\ \A j, k \in Tips : \A h \in Heights(j), i \in Heights(k) :
       Chain[j][h] = Chain[k][i] =>
         h = i /\ \A g \in 1..h : Chain[j][g] = Chain[k][g]
  /\ \A k \in Tips : \A l \in Located(k) : \A o \in Inputs[l.tx] :
       \E m \in Located(k) : m.tx = o[1] /\ Before(m, l)

VARIABLES
  tip,    \* the tip of the IndexedChain
  db,     \* the tables as the open database transaction sees them
  saved,  \* the tables as they were last committed
  todo,   \* todo[s]: the new locations of s that sync_history collected
  pc

vars == <<tip, db, saved, todo, pc>>

-----------------------------------------------------------------------------
(* Tables *)

EmptyTables == [watch |-> {}, headers |-> {}, txs |-> {}, history |-> {}]

NothingNew == [s \in Scripts |-> {}]

\* Headers::get_header: is the row's block at its height in the active chain?
Active(row) == row.height \in Heights(tip) /\ Chain[tip][row.height] = row.block

\* The stale rows that a scan from the highest one down meets before the first
\* active one.
DeleteFrom ==
  { r \in db.headers : \A q \in db.headers : q.height >= r.height => ~Active(q) }

\* (foreign keys are not enforced)
DeleteHeaders_NoCascade(stale) ==
  [db EXCEPT !.headers =
     { r \in @ : \A q \in stale : r.height < q.height }]

\* DELETE FROM headers WHERE block_height >= the lowest of them, which takes the
\* rows of transactions and history along (ON DELETE CASCADE).
DeleteHeaders(stale) ==
  LET kept(rows) == { r \in rows : \A q \in stale : r.height < q.height }
  IN  [db EXCEPT !.headers = kept(@), !.txs = kept(@), !.history = kept(@)]

\* max(block_height) of the script's history; 0, below every block, if it has none.
LatestHeight(s) ==
  LET heights == { r.height : r \in { q \in db.history : q.script = s } }
  IN  IF heights = {} THEN 0 ELSE CHOOSE h \in heights : \A g \in heights : g <= h

\* locations_by_scripthash, from the block after the latest one.
NewLocations(s) ==
  { l \in Located(tip) : /\ l.height > LatestHeight(s)
                         /\ l.tx \in Touching(Txids, s) \cup Collides[s] }

HistoryRow(s, l, o, isOutput) ==
  [script |-> s, height |-> l.height, offset |-> l.offset, outpoint |-> o,
   isOutput |-> isOutput]

\* The outputs to s that l spends and whose funding entry is in the history.
Spending(s, l) ==
  { o \in Inputs[l.tx] :
      \E t \in db.txs : t.tx = o[1] /\ HistoryRow(s, t, o, TRUE) \in db.history }

Funding(s, l) == IF s \in Outputs[l.tx] THEN {<<l.tx, s>>} ELSE {}

\* Both kinds of entries of one location.
Entries(s, l) ==
  { HistoryRow(s, l, o, FALSE) : o \in Spending(s, l) }
    \cup { HistoryRow(s, l, o, TRUE) : o \in Funding(s, l) }

-----------------------------------------------------------------------------

TypeOK ==
  /\ tip \in Tips
  /\ pc \in {"down", "index", "drop", "collect", "headers", "txs", "history", "synced"}
  /\ db.watch \subseteq Scripts
  /\ db.headers \subseteq [height : Nat, block : Blocks]
  /\ db.txs \subseteq [height : Nat, offset : Nat, tx : Txids]
  /\ pc \in {"down", "index", "drop", "synced"} => db = saved /\ todo = NothingNew
  /\ \A s \in Scripts : todo[s] # {} => s \in db.watch
  /\ \A r, q \in db.headers : r.height = q.height \/ r.block = q.block => r = q
  /\ \A r, q \in db.txs : r.tx = q.tx => r = q

Init ==
  /\ tip \in Tips
  /\ db = EmptyTables /\ saved = EmptyTables
  /\ todo = NothingNew
  /\ pc = "down"

\* Cache::open and Cache::add: one committed INSERT OR IGNORE per address, so
\* that a start that dies in between has added some of them.
Open ==
  /\ pc = "down"
  /\ \E addresses \in SUBSET Scripts :
       /\ db' = [db EXCEPT !.watch = @ \cup addresses]
       /\ saved' = db'
  /\ pc' = "index"
  /\ UNCHANGED <<tip, todo>>

\* chain.sync until there is nothing new; the node may be on any branch.
IndexChain ==
  /\ pc = "index"
  /\ tip' \in Tips
  /\ pc' = "drop"
  /\ UNCHANGED <<db, saved, todo>>

DropStaleBlocks ==
  /\ pc = "drop"
  /\ db' = DeleteHeaders(DeleteFrom)
  /\ pc' = "collect"
  /\ UNCHANGED <<tip, saved, todo>>

SyncHistory ==
  /\ pc = "collect"
  /\ todo' = [s \in Scripts |-> IF s \in db.watch THEN NewLocations(s) ELSE {}]
  /\ pc' = "headers"
  /\ UNCHANGED <<tip, db, saved>>

\* INSERT OR IGNORE: a row that clashes with the primary key, or with the
\* unique hash, is left as it is.
AddHeaders ==
  /\ pc = "headers"
  /\ LET new == { [height |-> l.height, block |-> Chain[tip][l.height]] :
                    l \in UNION { todo[s] : s \in Scripts } }
         clash(r) == \E q \in db.headers : q.height = r.height \/ q.block = r.block
     IN  db' = [db EXCEPT !.headers = @ \cup { r \in new : ~clash(r) }]
  /\ pc' = "txs"
  /\ UNCHANGED <<tip, saved, todo>>

AddTransactions ==
  /\ pc = "txs"
  /\ LET new == UNION { todo[s] : s \in Scripts }
         clash(r) == \E q \in db.txs :
           q.tx = r.tx \/ (q.height = r.height /\ q.offset = r.offset)
     IN  db' = [db EXCEPT !.txs = @ \cup { r \in new : ~clash(r) }]
  /\ pc' = "history"
  /\ UNCHANGED <<tip, saved, todo>>

\* (every entry is committed at once)
AddHistory_Autocommit(s) ==
  /\ pc = "history"
  /\ \E l \in todo[s] :
       /\ \A m \in todo[s] \ {l} : Before(l, m)
       /\ l \in db.txs /\ \A o \in Spending(s, l) : Amount[o] > 0
       /\ Entries(s, l) \cap db.history = {}
       /\ db' = [db EXCEPT !.history = @ \cup Entries(s, l)]
       /\ saved' = db'
       /\ todo' = [todo EXCEPT ![s] = @ \ {l}]
  /\ UNCHANGED <<tip, pc>>

\* The next location of s, in the order of the chain.  Its transaction must be
\* in the table, and its entries not yet: both are errors otherwise (Exit).
AddHistory(s) ==
  /\ pc = "history"
  /\ \E l \in todo[s] :
       /\ \A m \in todo[s] \ {l} : Before(l, m)
       /\ l \in db.txs /\ \A o \in Spending(s, l) : Amount[o] > 0
       /\ Entries(s, l) \cap db.history = {}
       /\ db' = [db EXCEPT !.history = @ \cup Entries(s, l)]
       /\ todo' = [todo EXCEPT ![s] = @ \ {l}]
  /\ UNCHANGED <<tip, saved, pc>>

\* assert!(amount > 0): spending an output of value zero is the end.
AddHistoryPanics(s) ==
  /\ pc = "history"
  /\ \E l \in todo[s] :
       /\ \A m \in todo[s] \ {l} : Before(l, m)
       /\ l \in db.txs /\ \E o \in Spending(s, l) : Amount[o] = 0
  /\ db' = saved /\ todo' = NothingNew /\ pc' = "down"
  /\ UNCHANGED <<tip, saved>>

Commit ==
  /\ pc = "history" /\ todo = NothingNew
  /\ saved' = db
  /\ pc' = "synced"
  /\ UNCHANGED <<tip, db, todo>>

\* After the history is printed: another round, or the end (--sync-once).
NextRound ==
  /\ pc = "synced"
  /\ pc' \in {"index", "down"}
  /\ UNCHANGED <<tip, db, saved, todo>>

\* The process is killed, or a request or statement fails: the error is
\* reported and the process ends.  An open transaction is rolled back.
Exit ==
  /\ pc # "down"
  /\ db' = saved /\ todo' = NothingNew /\ pc' = "down"
  /\ UNCHANGED <<tip, saved>>

Next ==
  \/ Open \/ IndexChain
  \/ DropStaleBlocks \/ SyncHistory \/ AddHeaders \/ AddTransactions
  \/ \E s \in Scripts : AddHistory(s) \/ AddHistoryPanics(s)
  \/ Commit \/ NextRound \/ Exit

Spec == Init /\ [][Next]_vars

-----------------------------------------------------------------------------
(* Properties *)

\* The entries of s in the chain ending in k, from the whole chain at once.
Reference(k, s) ==
  UNION { { HistoryRow(s, l, o, FALSE) : o \in { i \in Inputs[l.tx] : i[2] = s } }
            \cup { HistoryRow(s, l, o, TRUE) : o \in Funding(s, l) } :
          l \in Located(k) }

HistoryOf(tables, s) == { r \in tables.history : r.script = s }

\* After a sync the history of every watched script is that of the active
\* chain, no entry missing, stale or twice, though it was put together in many
\* syncs, on several branches, for scripts watched at different times.  On the
\* way there no cached header is off the active chain when sync_history looks
\* them up ("Stale blocks should be removed by drop_stale_blocks").
CacheExact ==
  /\ TypeOK
  /\ pc = "collect" => \A r \in db.headers : Active(r)
  /\ pc = "synced" => \A s \in Scripts :
       HistoryOf(db, s) = IF s \in db.watch THEN Reference(tip, s) ELSE {}

\* At every moment, whenever the process died, the committed history is that
\* of one chain in full, but for scripts that were not synced since they were
\* added.  (A block whose entries are only partly there is never completed.)
SavedIsSnapshot ==
  \E k \in Tips : \A s \in Scripts :
    HistoryOf(saved, s) = {} \/ HistoryOf(saved, s) = Reference(k, s)
==============================================================================
