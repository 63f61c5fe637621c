------------------------------- MODULE Mempool -------------------------------
(***************************************************************************)
(* The mempool poll (poll_once): compare the node's mempool with the       *)
(* index, fetch the bodies of what is new, and apply both changes under    *)
(* the index's write lock, while the node's mempool keeps changing.        *)
(*                                                                         *)
(*   idle --snapshot--> fetch --lock--> apply --unlock--> idle             *)
(*                                                                         *)
(* Bodies are fetched, and transactions removed and inserted, one at a     *)
(* time; readers, who need the lock, see the index outside apply only.     *)
(***************************************************************************)
EXTENDS MempoolIndex, Sequences

CONSTANTS
  RecentCap,   \* length of the "recently added" queue
  MaxMoves,    \* bound: changes of the node's mempool
  MaxFailures  \* bound: failed requests for a body

ASSUME PollAssumption ==
  RecentCap \in Nat /\ MaxMoves \in Nat /\ MaxFailures \in Nat

VARIABLES
  node,      \* transactions in the node's mempool
  mined,     \* transactions in the node's chain
  index,     \* the MempoolIndex
  recent,    \* newest first
  pc,
  wanted,    \* arrivals whose bodies are still to fetch
  removed,   \* known transactions that left the mempool
  arrivals,  \* fetched, to be inserted
  dirty,     \* the poll added or removed something: subscribers are told
  moves, failures

poller == <<index, recent, pc, wanted, removed, arrivals, dirty>>
vars == <<node, mined, poller, moves, failures>>

TypeOK ==
  /\ node \in SUBSET Txids /\ mined \in SUBSET Txids
  /\ index \in Index
  /\ recent \in Seq(Txids) /\ Len(recent) <= RecentCap
  /\ pc \in {"idle", "fetch", "apply"}
  /\ wanted \in SUBSET Txids /\ removed \in SUBSET Txids
  /\ arrivals \in SUBSET Txids
  /\ dirty \in BOOLEAN
  /\ moves \in 0..MaxMoves /\ failures \in 0..MaxFailures

Init ==
  /\ node = {} /\ mined = {} /\ index = EmptyIndex /\ recent = <<>>
  /\ pc = "idle" /\ wanted = {} /\ removed = {} /\ arrivals = {}
  /\ dirty = FALSE
  /\ moves = 0 /\ failures = 0

-----------------------------------------------------------------------------
(* The node *)

\* Transactions leave the mempool together with what spends from them.
Closed(gone) ==
  \A u \in node : (\E o \in Inputs[u] : o[1] \in gone) => u \in gone

\* A transaction is accepted; those it replaces leave, and any others may.
NodeAccepts(t) ==
  /\ moves < MaxMoves /\ t \notin node \cup mined
  /\ moves' = moves + 1
  /\ \E gone \in SUBSET node :
       /\ Closed(gone)
       /\ \A u \in node : Inputs[u] \cap Inputs[t] # {} => u \in gone
       /\ \A o \in Inputs[t] : /\ o[1] \in (node \ gone) \cup mined
                               /\ \A u \in mined : o \notin Inputs[u]
       /\ node' = (node \ gone) \cup {t}
  /\ UNCHANGED <<mined, poller, failures>>

\* A transaction is mined, out of the mempool or not; its descendants stay in
\* the mempool, what conflicts with it leaves, and others may.
NodeMines(t) ==
  /\ moves < MaxMoves /\ t \notin mined
  /\ \A o \in Inputs[t] : o[1] \in mined /\ \A u \in mined : o \notin Inputs[u]
  /\ moves' = moves + 1
  /\ mined' = mined \cup {t}
  /\ \E gone \in SUBSET (node \ {t}) :
       /\ Closed(gone)
       /\ \A u \in node \ {t} : Inputs[u] \cap Inputs[t] # {} => u \in gone
       /\ node' = node \ (gone \cup {t})
  /\ UNCHANGED <<poller, failures>>

\* Transactions are evicted.
NodeEvicts ==
  /\ moves < MaxMoves
  /\ moves' = moves + 1
  /\ \E gone \in SUBSET node : gone # {} /\ Closed(gone) /\ node' = node \ gone
  /\ UNCHANGED <<mined, poller, failures>>

-----------------------------------------------------------------------------
(* poll_once *)

\* (what left the node's mempool is not looked for)
Snapshot_OnlyNew ==
  /\ pc = "idle"
  /\ wanted' = node \ index.txs
  /\ removed' = {}
  /\ arrivals' = {} /\ dirty' = FALSE
  /\ pc' = "fetch"
  /\ UNCHANGED <<node, mined, index, recent, moves, failures>>

\* The node's mempool is listed, and compared with the transactions known.
Snapshot ==
  /\ pc = "idle"
  /\ wanted' = node \ index.txs
  /\ removed' = index.txs \ node
  /\ arrivals' = {} /\ dirty' = FALSE
  /\ pc' = "fetch"
  /\ UNCHANGED <<node, mined, index, recent, moves, failures>>

\* A body is fetched ...
FetchBody(t) ==
  /\ pc = "fetch" /\ t \in wanted
  /\ wanted' = wanted \ {t}
  /\ arrivals' = arrivals \cup {t}
  /\ UNCHANGED <<node, mined, index, recent, pc, removed, dirty, moves, failures>>

\* ... or not, because the request failed or the transaction has left the
\* mempool meanwhile: it is skipped, and wanted again by the next poll.
SkipBody(t) ==
  /\ pc = "fetch" /\ t \in wanted
  /\ IF t \in node THEN failures < MaxFailures /\ failures' = failures + 1
                   ELSE UNCHANGED failures
  /\ wanted' = wanted \ {t}
  /\ UNCHANGED <<node, mined, index, recent, pc, removed, arrivals, dirty, moves>>

\* The write lock is taken.
Lock ==
  /\ pc = "fetch" /\ wanted = {}
  /\ pc' = "apply"
  /\ dirty' = (removed # {} \/ arrivals # {})
  /\ UNCHANGED <<node, mined, index, recent, wanted, removed, arrivals, moves, failures>>

RemoveTx(t) ==
  /\ pc = "apply" /\ t \in removed
  /\ index' = Remove(index, t)
  /\ removed' = removed \ {t}
  /\ UNCHANGED <<node, mined, recent, pc, wanted, arrivals, dirty, moves, failures>>

\* (the queue is cut before the new entry is pushed)
PushRecent_CutFirst(t) ==
  <<t>> \o SubSeq(recent, 1, IF Len(recent) < RecentCap THEN Len(recent) ELSE RecentCap)

\* push_recent: to the front, cut at the cap.
PushRecent(t) ==
  LET q == <<t>> \o recent
  IN  SubSeq(q, 1, IF Len(q) < RecentCap THEN Len(q) ELSE RecentCap)

\* (insertions do not wait for the removals)
InsertTx_AnyOrder(t) ==
  /\ pc = "apply" /\ t \in arrivals
  /\ index' = Insert(index, t)
  /\ recent' = PushRecent(t)
  /\ arrivals' = arrivals \ {t}
  /\ UNCHANGED <<node, mined, pc, wanted, removed, dirty, moves, failures>>

\* What is gone is removed first.  Arrivals are inserted in order of their
\* time, which the model does not fix: any order.
InsertTx(t) ==
  /\ pc = "apply" /\ removed = {} /\ t \in arrivals
  /\ index' = Insert(index, t)
  /\ recent' = PushRecent(t)
  /\ arrivals' = arrivals \ {t}
  /\ UNCHANGED <<node, mined, pc, wanted, removed, dirty, moves, failures>>

\* The lock is released, subscribers are told if the poll is dirty, and the
\* task sleeps until the next tick or wake-up.
Unlock ==
  /\ pc = "apply" /\ removed = {} /\ arrivals = {}
  /\ pc' = "idle"
  /\ UNCHANGED <<node, mined, index, recent, wanted, removed, arrivals, dirty, moves, failures>>

-----------------------------------------------------------------------------

PollStep ==
  \/ Snapshot \/ Lock \/ Unlock
  \/ \E t \in Txids : FetchBody(t) \/ RemoveTx(t) \/ InsertTx(t)

Next ==
  \/ \E t \in Txids : NodeAccepts(t) \/ NodeMines(t) \/ SkipBody(t)
  \/ NodeEvicts \/ PollStep

Spec == Init /\ [][Next]_vars

\* The poll task runs on a timer for as long as the server lives.
FairSpec == Spec /\ WF_vars(PollStep)

-----------------------------------------------------------------------------
(* Properties *)

\* Whenever a reader can hold the lock, the two lookup maps are exactly those
\* of the transactions in the index: a replacement and the transaction it
\* replaces may arrive and leave in one poll without losing a spend.
IndexConsistent == pc # "apply" => index = IndexOf(index.txs)

\* The index never holds two transactions that spend one output, though the
\* node replaces transactions between and during polls, and bodies are missed.
NoDoubleSpends == ConflictFree(index.txs)

\* The sets of confirmed transactions a reader's chain can hold next to this
\* index: with all their parents, leaving no parent of the index unknown, and
\* spending no output that the index spends differently.
Confirmable ==
  { K \in SUBSET Txids :
      /\ \A t \in K : \A o \in Inputs[t] : o[1] \in K
      /\ \A t \in index.txs : \A o \in Inputs[t] : o[1] \in K \cup index.txs
      /\ ConflictFree(K \cup index.txs) }

View(K, s) == ScriptView(index, s, Unspent(K, s), Touching(K, s))

\* Whatever part of the index is confirmed by now, a script's view of the
\* mempool lists exactly the unconfirmed transactions that pay it or spend from
\* it, and confirmed and unconfirmed outputs together are the unspent outputs
\* of both: none twice, none missing (get_mempool and listunspent).
ViewsExact ==
  pc # "apply" =>
    \A K \in Confirmable : \A s \in Scripts :
      /\ { e[1] : e \in View(K, s).entries } = Touching(index.txs, s) \ K
      /\ (Unspent(K, s) \ View(K, s).spent_confirmed) \cup View(K, s).utxos
           = Unspent(K \cup index.txs, s)

\* When the node's mempool and the failures stop, the index ends up equal to it.
IndexFollows == <>[](index.txs = node)
==============================================================================
