--------------------------- MODULE Mempool_proofs ---------------------------
(***************************************************************************)
(* The mempool index stays exact and free of double spends, for every set  *)
(* of transactions and every order of node changes, failures and polls.    *)
(*                                                                         *)
(* What makes it inductive is not the state of the index alone: what a     *)
(* poll is still going to insert must not conflict with what it is not     *)
(* going to remove.  Both come from one snapshot of the node's mempool.    *)
(***************************************************************************)
EXTENDS Mempool, TLAPS

\* The lookup maps hold what the transactions of the index say, and no more.
Exact(ix) ==
  /\ \A s \in Scripts : ix.by_scripthash[s] = { t \in ix.txs : s \in Outputs[t] }
  /\ \A o \in Outpoints :
       \/ ix.spent_prevouts[o] = NoTx /\ \A t \in ix.txs : o \notin Inputs[t]
       \/ ix.spent_prevouts[o] \in ix.txs /\ o \in Inputs[ix.spent_prevouts[o]]

\* What the index will hold when the poll is done.
Target == (index.txs \ removed) \cup wanted \cup arrivals

PollInv ==
  /\ TypeOK
  /\ ConflictFree(node) /\ ConflictFree(index.txs) /\ ConflictFree(Target)
  /\ Exact(index)
  /\ removed \subseteq index.txs
  /\ pc = "idle" => removed = {} /\ arrivals = {}
  /\ pc # "fetch" => wanted = {}

-----------------------------------------------------------------------------
(* Conflicts *)

LEMMA ConflictFreeSubset ==
  ASSUME NEW S, NEW T \in SUBSET S, ConflictFree(S)
  PROVE  ConflictFree(T)
BY DEF ConflictFree

LEMMA ConflictFreeAdd ==
  ASSUME NEW S, NEW t, ConflictFree(S),
         \A u \in S : Inputs[u] \cap Inputs[t] = {}
  PROVE  ConflictFree(S \cup {t})
BY DEF ConflictFree

-----------------------------------------------------------------------------
(* Insert and Remove *)

LEMMA EmptyExact == EmptyIndex \in Index /\ Exact(EmptyIndex) /\ EmptyIndex.txs = {}
BY DEF EmptyIndex, Index, Exact

LEMMA InsertExact ==
  ASSUME NEW ix \in Index, NEW t \in Txids,
         Exact(ix), ConflictFree(ix.txs \cup {t})
  PROVE  /\ Insert(ix, t) \in Index
         /\ Insert(ix, t).txs = ix.txs \cup {t}
         /\ Exact(Insert(ix, t))
<1> DEFINE new == Insert(ix, t)
<1>1. /\ new.txs = ix.txs \cup {t}
      /\ \A s \in Scripts : new.by_scripthash[s] =
           IF s \in Outputs[t] THEN ix.by_scripthash[s] \cup {t} ELSE ix.by_scripthash[s]
      /\ \A o \in Outpoints : new.spent_prevouts[o] =
           IF o \in Inputs[t] THEN t ELSE ix.spent_prevouts[o]
  BY DEF Insert
<1>2. new \in Index
  BY DEF Insert, Index
<1>3. \A s \in Scripts : new.by_scripthash[s] = { u \in new.txs : s \in Outputs[u] }
  BY <1>1 DEF Exact
<1>4. ASSUME NEW o \in Outpoints
      PROVE  \/ new.spent_prevouts[o] = NoTx /\ \A u \in new.txs : o \notin Inputs[u]
             \/ new.spent_prevouts[o] \in new.txs /\ o \in Inputs[new.spent_prevouts[o]]
  <2>1. CASE o \in Inputs[t]
    BY <1>1, <2>1
  <2>2. CASE o \notin Inputs[t]
    BY <1>1, <2>2 DEF Exact
  <2>3. QED
    BY <2>1, <2>2
<1>5. QED
  BY <1>1, <1>2, <1>3, <1>4 DEF Exact

LEMMA RemoveExact ==
  ASSUME NEW ix \in Index, NEW t \in ix.txs, Exact(ix), ConflictFree(ix.txs)
  PROVE  /\ Remove(ix, t) \in Index
         /\ Remove(ix, t).txs = ix.txs \ {t}
         /\ Exact(Remove(ix, t))
<1> DEFINE new == Remove(ix, t)
<1>1. /\ new.txs = ix.txs \ {t}
      /\ \A s \in Scripts : new.by_scripthash[s] =
           IF s \in Outputs[t] THEN ix.by_scripthash[s] \ {t} ELSE ix.by_scripthash[s]
      /\ \A o \in Outpoints : new.spent_prevouts[o] =
           IF o \in Inputs[t] THEN NoTx ELSE ix.spent_prevouts[o]
  BY DEF Remove
<1>2. new \in Index
  BY DEF Remove, Index
<1>3. \A s \in Scripts : new.by_scripthash[s] = { u \in new.txs : s \in Outputs[u] }
  BY <1>1 DEF Exact
<1>4. ASSUME NEW o \in Outpoints
      PROVE  \/ new.spent_prevouts[o] = NoTx /\ \A u \in new.txs : o \notin Inputs[u]
             \/ new.spent_prevouts[o] \in new.txs /\ o \in Inputs[new.spent_prevouts[o]]
  <2>1. CASE o \in Inputs[t]
    <3>1. \A u \in ix.txs : u # t => o \notin Inputs[u]
      BY <2>1 DEF ConflictFree
    <3>2. QED
      BY <1>1, <2>1, <3>1
  <2>2. CASE o \notin Inputs[t]
    BY <1>1, <2>2 DEF Exact
  <2>3. QED
    BY <2>1, <2>2
<1>5. QED
  BY <1>1, <1>2, <1>3, <1>4 DEF Exact

\* An exact index without double spends is the function IndexOf of its
\* transactions.
LEMMA ExactIsIndexOf ==
  ASSUME NEW ix \in Index, Exact(ix), ConflictFree(ix.txs)
  PROVE  ix = IndexOf(ix.txs)
<1> DEFINE spender == [o \in Outpoints |->
             IF \E t \in ix.txs : o \in Inputs[t]
               THEN CHOOSE t \in ix.txs : o \in Inputs[t] ELSE NoTx]
<1>1. ix.by_scripthash = [s \in Scripts |-> { t \in ix.txs : s \in Outputs[t] }]
  BY DEF Index, Exact
<1>2. ASSUME NEW o \in Outpoints
      PROVE  ix.spent_prevouts[o] = spender[o]
  <2>1. CASE \E t \in ix.txs : o \in Inputs[t]
    <3>1. ix.spent_prevouts[o] \in ix.txs /\ o \in Inputs[ix.spent_prevouts[o]]
      BY <2>1 DEF Exact
    <3>2. \A t \in ix.txs : o \in Inputs[t] => t = ix.spent_prevouts[o]
      BY <3>1 DEF ConflictFree
    <3>3. QED
      BY <2>1, <3>1, <3>2
  <2>2. CASE ~\E t \in ix.txs : o \in Inputs[t]
    BY <2>2 DEF Exact
  <2>3. QED
    BY <2>1, <2>2
<1>3. ix.spent_prevouts = spender
  BY <1>2 DEF Index
<1>4. QED
  BY <1>1, <1>3 DEF Index, IndexOf

-----------------------------------------------------------------------------
(* The invariant: Init, then one lemma per action *)

LEMMA InitPollInv == Init => PollInv
<1> SUFFICES ASSUME Init PROVE PollInv
  OBVIOUS
<1>1. index \in Index /\ Exact(index) /\ index.txs = {}
  BY EmptyExact DEF Init
<1>2. TypeOK
  <2>1. recent \in Seq(Txids) /\ Len(recent) = 0
    BY DEF Init
  <2>2. Len(recent) <= RecentCap /\ 0 \in 0..MaxMoves /\ 0 \in 0..MaxFailures
    BY <2>1, PollAssumption
  <2>3. QED
    BY <1>1, <2>1, <2>2 DEF Init, TypeOK
<1>3. ConflictFree(node) /\ ConflictFree(index.txs) /\ ConflictFree(Target)
  BY <1>1 DEF Init, Target, ConflictFree
<1>4. QED
  BY <1>1, <1>2, <1>3 DEF Init, PollInv

\* What the node does leaves the poll alone, and its mempool conflict free.
LEMMA NodeStepKeepsPollInv ==
  ASSUME PollInv, UNCHANGED poller, ConflictFree(node'), node' \in SUBSET Txids,
         mined' \in SUBSET Txids,
         moves' \in 0..MaxMoves, failures' \in 0..MaxFailures
  PROVE  PollInv'
<1>1. TypeOK'
  BY DEF PollInv, TypeOK, poller
<1>2. Target' = Target /\ index' = index
  BY DEF Target, poller
<1>3. QED
  BY <1>1, <1>2 DEF PollInv, poller

LEMMA NodeAcceptsPollInv ==
  ASSUME PollInv, NEW t \in Txids, NodeAccepts(t)
  PROVE  PollInv'
<1>1. PICK gone \in SUBSET node :
        /\ \A u \in node : Inputs[u] \cap Inputs[t] # {} => u \in gone
        /\ node' = (node \ gone) \cup {t}
  BY DEF NodeAccepts
<1>2. ConflictFree(node \ gone)
  BY ConflictFreeSubset DEF PollInv
<1>3. ConflictFree(node')
  <2>1. \A u \in node \ gone : Inputs[u] \cap Inputs[t] = {}
    BY <1>1
  <2>2. QED
    BY <1>1, <1>2, <2>1, ConflictFreeAdd
<1>4. node' \in SUBSET Txids /\ moves' \in 0..MaxMoves
  BY <1>1, PollAssumption DEF NodeAccepts, PollInv, TypeOK
<1>5. QED
  BY <1>3, <1>4, NodeStepKeepsPollInv DEF NodeAccepts, PollInv, TypeOK

LEMMA NodeMinesPollInv ==
  ASSUME PollInv, NEW t \in Txids, NodeMines(t)
  PROVE  PollInv'
<1>1. node' \in SUBSET node
  BY DEF NodeMines
<1>2. ConflictFree(node')
  BY <1>1, ConflictFreeSubset DEF PollInv
<1>3. /\ node' \in SUBSET Txids /\ moves' \in 0..MaxMoves
      /\ mined' \in SUBSET Txids
  BY <1>1, PollAssumption DEF NodeMines, PollInv, TypeOK
<1>4. QED
  BY <1>2, <1>3, NodeStepKeepsPollInv DEF NodeMines, PollInv, TypeOK

LEMMA NodeEvictsPollInv ==
  ASSUME PollInv, NodeEvicts
  PROVE  PollInv'
<1>1. node' \in SUBSET node
  BY DEF NodeEvicts
<1>2. ConflictFree(node')
  BY <1>1, ConflictFreeSubset DEF PollInv
<1>3. node' \in SUBSET Txids /\ moves' \in 0..MaxMoves
  BY <1>1, PollAssumption DEF NodeEvicts, PollInv, TypeOK
<1>4. QED
  BY <1>2, <1>3, NodeStepKeepsPollInv DEF NodeEvicts, PollInv, TypeOK

\* The target of a poll is a part of the mempool it has seen.
LEMMA SnapshotPollInv ==
  ASSUME PollInv, Snapshot
  PROVE  PollInv'
<1>1. index.txs \in SUBSET Txids
  BY DEF PollInv, TypeOK, Index
<1>2. TypeOK'
  BY <1>1 DEF Snapshot, PollInv, TypeOK
<1>3. Target' \in SUBSET node
  BY DEF Snapshot, Target
<1>4. ConflictFree(Target')
  BY <1>3, ConflictFreeSubset DEF PollInv
<1>5. node' = node /\ index' = index /\ pc' = "fetch" /\ removed' \subseteq index'.txs
  BY DEF Snapshot
<1>6. QED
  BY <1>2, <1>4, <1>5 DEF PollInv

LEMMA FetchBodyPollInv ==
  ASSUME PollInv, NEW t \in Txids, FetchBody(t)
  PROVE  PollInv'
<1>1. TypeOK'
  BY DEF FetchBody, PollInv, TypeOK
<1>2. Target' = Target
  BY DEF FetchBody, Target
<1>3. QED
  BY <1>1, <1>2 DEF FetchBody, PollInv

LEMMA SkipBodyPollInv ==
  ASSUME PollInv, NEW t \in Txids, SkipBody(t)
  PROVE  PollInv'
<1>1. failures' \in 0..MaxFailures
  BY PollAssumption DEF SkipBody, PollInv, TypeOK
<1>2. TypeOK'
  BY <1>1 DEF SkipBody, PollInv, TypeOK
<1>3. Target' \in SUBSET Target
  BY DEF SkipBody, Target
<1>4. ConflictFree(Target')
  BY <1>3, ConflictFreeSubset DEF PollInv
<1>5. QED
  BY <1>2, <1>4 DEF SkipBody, PollInv

LEMMA LockPollInv ==
  ASSUME PollInv, Lock
  PROVE  PollInv'
<1>1. dirty' \in BOOLEAN
  BY DEF Lock
<1>2. TypeOK'
  BY <1>1 DEF Lock, PollInv, TypeOK
<1>3. Target' = Target
  BY DEF Lock, Target
<1>4. QED
  BY <1>2, <1>3 DEF Lock, PollInv

LEMMA RemoveTxPollInv ==
  ASSUME PollInv, NEW t \in Txids, RemoveTx(t)
  PROVE  PollInv'
<1>1. index \in Index /\ t \in index.txs /\ Exact(index) /\ ConflictFree(index.txs)
  BY DEF RemoveTx, PollInv, TypeOK
<1>2. index' \in Index /\ index'.txs = index.txs \ {t} /\ Exact(index')
  BY <1>1, RemoveExact DEF RemoveTx
<1>3. TypeOK'
  BY <1>2 DEF RemoveTx, PollInv, TypeOK
<1>4. ConflictFree(index'.txs)
  BY <1>1, <1>2, ConflictFreeSubset
<1>5. Target' = Target
  BY <1>1, <1>2 DEF RemoveTx, Target
<1>6. removed' \subseteq index'.txs
  BY <1>2 DEF RemoveTx, PollInv
<1>7. QED
  BY <1>2, <1>3, <1>4, <1>5, <1>6 DEF RemoveTx, PollInv

\* The queue of recent transactions never outgrows its cap.
LEMMA PushRecentBounded ==
  ASSUME PollInv, NEW t \in Txids
  PROVE  PushRecent(t) \in Seq(Txids) /\ Len(PushRecent(t)) <= RecentCap
<1> DEFINE q == <<t>> \o recent
<1> DEFINE n == IF Len(q) < RecentCap THEN Len(q) ELSE RecentCap
<1>1. recent \in Seq(Txids)
  BY DEF PollInv, TypeOK
<1>2. q \in Seq(Txids) /\ Len(q) \in Nat
  BY <1>1
<1>3. n \in Nat /\ n <= Len(q) /\ n <= RecentCap
  BY <1>2, PollAssumption
<1> HIDE DEF q, n
<1>4. SubSeq(q, 1, n) \in Seq(Txids) /\ Len(SubSeq(q, 1, n)) = n
  BY <1>2, <1>3
<1>5. PushRecent(t) = SubSeq(q, 1, n)
  BY DEF PushRecent, q, n
<1>6. QED
  BY <1>3, <1>4, <1>5

LEMMA InsertTxPollInv ==
  ASSUME PollInv, NEW t \in Txids, InsertTx(t)
  PROVE  PollInv'
<1>1. index \in Index /\ Exact(index) /\ ConflictFree(Target)
  BY DEF PollInv, TypeOK
<1>2. (index.txs \cup {t}) \in SUBSET Target
  BY DEF InsertTx, Target
<1>3. ConflictFree(index.txs \cup {t})
  BY <1>1, <1>2, ConflictFreeSubset
<1>4. index' \in Index /\ index'.txs = index.txs \cup {t} /\ Exact(index')
  BY <1>1, <1>3, InsertExact DEF InsertTx
<1>5. TypeOK'
  BY <1>4, PushRecentBounded DEF InsertTx, PollInv, TypeOK
<1>6. Target' = Target
  BY <1>4 DEF InsertTx, Target
<1>7. QED
  BY <1>3, <1>4, <1>5, <1>6 DEF InsertTx, PollInv

LEMMA UnlockPollInv ==
  ASSUME PollInv, Unlock
  PROVE  PollInv'
<1>1. TypeOK'
  BY DEF Unlock, PollInv, TypeOK
<1>2. Target' = Target
  BY DEF Unlock, Target
<1>3. QED
  BY <1>1, <1>2 DEF Unlock, PollInv

-----------------------------------------------------------------------------
(* The theorems *)

\* poll_once keeps PollInv, whatever the node does in between.
THEOREM PollInvariance == Spec => []PollInv
<1>1. Init => PollInv
  BY InitPollInv
<1>2. PollInv /\ [Next]_vars => PollInv'
  <2> SUFFICES ASSUME PollInv, [Next]_vars PROVE PollInv'
    OBVIOUS
  <2>1. ASSUME NEW t \in Txids, NodeAccepts(t) PROVE PollInv'
    BY <2>1, NodeAcceptsPollInv
  <2>2. ASSUME NEW t \in Txids, NodeMines(t) PROVE PollInv'
    BY <2>2, NodeMinesPollInv
  <2>3. ASSUME NEW t \in Txids, SkipBody(t) PROVE PollInv'
    BY <2>3, SkipBodyPollInv
  <2>4. CASE NodeEvicts
    BY <2>4, NodeEvictsPollInv
  <2>6. CASE Snapshot
    BY <2>6, SnapshotPollInv
  <2>7. CASE Lock
    BY <2>7, LockPollInv
  <2>8. CASE Unlock
    BY <2>8, UnlockPollInv
  <2>9. ASSUME NEW t \in Txids, FetchBody(t) PROVE PollInv'
    BY <2>9, FetchBodyPollInv
  <2>10. ASSUME NEW t \in Txids, RemoveTx(t) PROVE PollInv'
    BY <2>10, RemoveTxPollInv
  <2>11. ASSUME NEW t \in Txids, InsertTx(t) PROVE PollInv'
    BY <2>11, InsertTxPollInv
  <2>12. CASE UNCHANGED vars
    BY <2>12, NodeStepKeepsPollInv DEF vars, PollInv, TypeOK
  <2>13. QED
    BY <2>1, <2>2, <2>3, <2>4, <2>6, <2>7, <2>8, <2>9, <2>10, <2>11, <2>12
    DEF Next, PollStep
<1>3. QED
  BY <1>1, <1>2, PTL DEF Spec

\* The poll's state is well typed; the recent queue in particular never holds
\* more than its cap (push_recent).
THEOREM PollTypeCorrect == Spec => []TypeOK
<1>1. PollInv => TypeOK
  BY DEF PollInv
<1>2. QED
  BY <1>1, PollInvariance, PTL

\* Whenever a reader can hold the lock, the lookup maps are those of the
\* transactions in the index (MempoolIndex::insert and remove as poll_once
\* calls them).
THEOREM IndexAlwaysConsistent == Spec => []IndexConsistent
<1>1. PollInv => IndexConsistent
  BY ExactIsIndexOf DEF PollInv, TypeOK, IndexConsistent
<1>2. QED
  BY <1>1, PollInvariance, PTL

\* The index never holds two transactions that spend the same output.
THEOREM NeverDoubleSpends == Spec => []NoDoubleSpends
<1>1. PollInv => NoDoubleSpends
  BY DEF PollInv, NoDoubleSpends
<1>2. QED
  BY <1>1, PollInvariance, PTL
-----------------------------------------------------------------------------
(* A script's view of the mempool *)

\* K can be confirmed next to the transactions S: Confirmable, for any index.
Beside(K, S) ==
  /\ K \subseteq Txids /\ S \subseteq Txids
  /\ \A t \in K : \A o \in Inputs[t] : o[1] \in K
  /\ \A t \in S : \A o \in Inputs[t] : o[1] \in K \cup S
  /\ ConflictFree(K \cup S)

LEMMA OutpointFacts ==
  ASSUME NEW t \in Txids, NEW o \in Inputs[t]
  PROVE  /\ o = <<o[1], o[2]>> /\ o \in Outpoints
         /\ o[1] \in Txids /\ o[2] \in Scripts /\ o[2] \in Outputs[o[1]]
BY TransactionsAssumption DEF TransactionsAssumption, Outpoints

LEMMA SpenderFacts ==
  ASSUME NEW ix \in Index, Exact(ix), ConflictFree(ix.txs), NEW o \in Outpoints
  PROVE  /\ ix.txs \subseteq Txids
         /\ ix.spent_prevouts[o] = NoTx => \A t \in ix.txs : o \notin Inputs[t]
         /\ ix.spent_prevouts[o] # NoTx =>
              ix.spent_prevouts[o] \in ix.txs /\ o \in Inputs[ix.spent_prevouts[o]]
         /\ \A t \in ix.txs : o \in Inputs[t] => ix.spent_prevouts[o] = t
<1>1. ix.txs \subseteq Txids
  BY DEF Index
<1>2. NoTx \notin ix.txs
  BY <1>1, TxidsAssumption DEF TxidsAssumption
<1>3. /\ ix.spent_prevouts[o] = NoTx => \A t \in ix.txs : o \notin Inputs[t]
      /\ ix.spent_prevouts[o] # NoTx =>
           ix.spent_prevouts[o] \in ix.txs /\ o \in Inputs[ix.spent_prevouts[o]]
  BY <1>2 DEF Exact
<1>4. ASSUME NEW t \in ix.txs, o \in Inputs[t]
      PROVE  ix.spent_prevouts[o] = t
  <2>1. ix.spent_prevouts[o] \in ix.txs /\ o \in Inputs[ix.spent_prevouts[o]]
    BY <1>3, <1>4
  <2> QED BY <1>4, <2>1 DEF ConflictFree
<1> QED BY <1>1, <1>3, <1>4

\* An output to s is unspent if a transaction paid it and none spends it.
LEMMA InUnspent ==
  ASSUME NEW S, NEW s, NEW o
  PROVE  o \in Unspent(S, s) <=>
           \E u \in S : /\ o = <<u, s>> /\ s \in Outputs[u]
                        /\ \A v \in S : <<u, s>> \notin Inputs[v]
BY DEF Unspent

LEMMA ViewTxids ==
  ASSUME NEW ix \in Index, Exact(ix), ConflictFree(ix.txs), NEW K, Beside(K, ix.txs),
         NEW s \in Scripts
  PROVE  ScriptTxids(ix, s, Unspent(K, s)) \ Touching(K, s) = Touching(ix.txs, s) \ K
<1> DEFINE paying == ix.by_scripthash[s]
           known == Unspent(K, s) \cup { <<t, s>> : t \in paying }
           all == ScriptTxids(ix, s, Unspent(K, s))
<1>1. paying = { t \in ix.txs : s \in Outputs[t] } /\ ix.txs \subseteq Txids /\ K \subseteq Txids
  BY DEF Exact, Beside
<1>2. \A t : t \in all <=> \/ t \in paying
                           \/ \E o \in known : t = ix.spent_prevouts[o] /\ t # NoTx
  BY DEF ScriptTxids
<1>3. \A o \in known : o \in Outpoints /\ o[2] = s
  <2>1. \A u \in Txids : <<u, s>> \in Outpoints /\ <<u, s>>[2] = s
    BY DEF Outpoints
  <2>2. \A o \in Unspent(K, s) : \E u \in K : o = <<u, s>>
    BY DEF Unspent
  <2>3. \A o \in known : \E u \in Txids : o = <<u, s>>
    BY <1>1, <2>2
  <2> QED BY <2>1, <2>3
<1> HIDE DEF known, all
<1>4. ASSUME NEW t \in all
      PROVE  t \in Touching(ix.txs, s)
  <2>1. CASE t \in paying
    BY <1>1, <2>1 DEF Touching
  <2>2. CASE \E o \in known : t = ix.spent_prevouts[o] /\ t # NoTx
    <3>1. PICK o \in known : t = ix.spent_prevouts[o] /\ t # NoTx
      BY <2>2
    <3>2. t \in ix.txs /\ o \in Inputs[t] /\ o[2] = s
      BY <1>3, <3>1, SpenderFacts
    <3> QED BY <3>2 DEF Touching
  <2> QED BY <1>2, <2>1, <2>2
<1>5. ASSUME NEW t \in Touching(ix.txs, s), t \notin K
      PROVE  t \in all
  <2>1. t \in ix.txs /\ t \in Txids
    BY <1>1 DEF Touching
  <2>2. CASE s \in Outputs[t]
    BY <1>1, <1>2, <2>1, <2>2
  <2>3. CASE \E o \in Inputs[t] : o[2] = s
    <3>1. PICK o \in Inputs[t] : o[2] = s
      BY <2>3
    <3>2. o = <<o[1], s>> /\ o \in Outpoints /\ s \in Outputs[o[1]]
      BY <2>1, <3>1, OutpointFacts
    <3>3. ix.spent_prevouts[o] = t /\ t # NoTx
      BY <2>1, <3>2, SpenderFacts, TxidsAssumption DEF TxidsAssumption
    <3>4. o \in known
      <4>1. CASE o[1] \in ix.txs
        BY <1>1, <3>2, <4>1 DEF known
      <4>2. CASE o[1] \in K
        <5>1. \A v \in K : o \notin Inputs[v]
          BY <1>5, <2>1 DEF Beside, ConflictFree
        <5>2. o \in Unspent(K, s)
          BY <3>2, <4>2, <5>1, InUnspent
        <5> QED BY <5>2 DEF known
      <4> QED BY <2>1, <4>1, <4>2 DEF Beside
    <3> QED BY <1>2, <3>3, <3>4
  <2> QED BY <2>2, <2>3 DEF Touching
<1>6. \A t \in Touching(ix.txs, s) : t \in K <=> t \in Touching(K, s)
  BY DEF Touching
<1> QED BY <1>4, <1>5, <1>6 DEF all

LEMMA ViewOutputs ==
  ASSUME NEW ix \in Index, Exact(ix), ConflictFree(ix.txs), NEW K, Beside(K, ix.txs),
         NEW s \in Scripts
  PROVE  LET view == ScriptView(ix, s, Unspent(K, s), Touching(K, s))
         IN  /\ { e[1] : e \in view.entries } = Touching(ix.txs, s) \ K
             /\ (Unspent(K, s) \ view.spent_confirmed) \cup view.utxos
                  = Unspent(K \cup ix.txs, s)
<1> DEFINE view == ScriptView(ix, s, Unspent(K, s), Touching(K, s))
           txs == ScriptTxids(ix, s, Unspent(K, s)) \ Touching(K, s)
           Spent(o) == ix.spent_prevouts[o] \notin Touching(K, s) \cup {NoTx}
<1>1. txs = Touching(ix.txs, s) \ K
  BY ViewTxids
<1>2. { e[1] : e \in view.entries } = txs
  <2>1. view.entries = { <<t, IF \E o \in Inputs[t] : o[1] \in ix.txs \ Touching(K, s)
                              THEN -1 ELSE 0>> : t \in txs }
    BY DEF ScriptView
  <2>2. \A e \in view.entries : e[1] \in txs
    BY <2>1
  <2>3. ASSUME NEW t \in txs
        PROVE  \E e \in view.entries : e[1] = t
    <3> DEFINE h == IF \E o \in Inputs[t] : o[1] \in ix.txs \ Touching(K, s) THEN -1 ELSE 0
    <3>1. <<t, h>> \in view.entries
      BY <2>1
    <3>2. <<t, h>>[1] = t
      OBVIOUS
    <3> QED BY <3>1, <3>2
  <2> QED BY <2>2, <2>3
<1>3. \A o : o \in view.utxos <=> \E t \in txs : o = <<t, s>> /\ s \in Outputs[t] /\ ~Spent(o)
  BY DEF ScriptView
<1>4. \A o : o \in view.spent_confirmed <=> o \in Unspent(K, s) /\ Spent(o)
  BY DEF ScriptView
<1> HIDE DEF view, txs
<1>5. ix.txs \subseteq Txids /\ K \subseteq Txids /\ Touching(K, s) \subseteq K
  BY DEF Beside, Index, Touching
<1>6. ASSUME NEW u \in K, s \in Outputs[u]
      PROVE  /\ <<u, s>> \notin view.utxos
             /\ <<u, s>> \in Unspent(K, s) \ view.spent_confirmed <=>
                  <<u, s>> \in Unspent(K \cup ix.txs, s)
  <2> DEFINE o == <<u, s>>
  <2>1. o \in Outpoints
    BY <1>5 DEF Outpoints
  <2>2. o \notin view.utxos
    BY <1>1, <1>3
  <2>3. o \in Unspent(K, s) <=> \A v \in K : o \notin Inputs[v]
    BY <1>6, InUnspent
  <2>4. o \in Unspent(K \cup ix.txs, s) <=> \A v \in K \cup ix.txs : o \notin Inputs[v]
    BY <1>6, InUnspent
  <2> HIDE DEF o
  <2>5. ASSUME o \in Unspent(K, s)
        PROVE  Spent(o) <=> \E v \in ix.txs : o \in Inputs[v]
    <3>1. ix.spent_prevouts[o] # NoTx => ix.spent_prevouts[o] \notin Touching(K, s)
      BY <1>5, <2>1, <2>3, <2>5, SpenderFacts
    <3>2. (\E v \in ix.txs : o \in Inputs[v]) <=> ix.spent_prevouts[o] # NoTx
      BY <2>1, SpenderFacts
    <3> QED BY <3>1, <3>2
  <2> QED BY <1>4, <2>2, <2>3, <2>4, <2>5 DEF o
<1>7. ASSUME NEW u \in ix.txs, u \notin K, s \in Outputs[u]
      PROVE  /\ <<u, s>> \notin Unspent(K, s)
             /\ <<u, s>> \in view.utxos <=> <<u, s>> \in Unspent(K \cup ix.txs, s)
  <2> DEFINE o == <<u, s>>
  <2>1. o \in Outpoints /\ o[1] = u
    BY <1>5 DEF Outpoints
  <2>2. o \notin Unspent(K, s)
    <3>1. \A q \in Unspent(K, s) : \E w \in K : q = <<w, s>>
      BY DEF Unspent
    <3>2. \A w : <<w, s>>[1] = w
      OBVIOUS
    <3> QED BY <1>7, <2>1, <3>1, <3>2
  <2>3. u \in txs
    BY <1>1, <1>7 DEF Touching
  <2>4. \A v \in K : o \notin Inputs[v]
    BY <1>7, <2>1 DEF Beside
  <2>5. o \in Unspent(K \cup ix.txs, s) <=> \A v \in K \cup ix.txs : o \notin Inputs[v]
    BY <1>7, InUnspent
  <2>6. o \in view.utxos <=> ~Spent(o)
    BY <1>3, <1>7, <2>3
  <2> HIDE DEF o
  <2>7. Spent(o) <=> \E v \in ix.txs : o \in Inputs[v]
    <3>1. ix.spent_prevouts[o] # NoTx => ix.spent_prevouts[o] \notin Touching(K, s)
      BY <1>5, <2>1, <2>4, SpenderFacts
    <3>2. (\E v \in ix.txs : o \in Inputs[v]) <=> ix.spent_prevouts[o] # NoTx
      BY <2>1, SpenderFacts
    <3> QED BY <3>1, <3>2
  <2> QED BY <2>2, <2>4, <2>5, <2>6, <2>7 DEF o
<1>8. ASSUME NEW o
      PROVE  o \in (Unspent(K, s) \ view.spent_confirmed) \cup view.utxos <=>
               o \in Unspent(K \cup ix.txs, s)
  <2>1. o \in Unspent(K, s) => \E u \in K : o = <<u, s>> /\ s \in Outputs[u]
    BY InUnspent
  <2>2. o \in view.utxos => \E u \in ix.txs : o = <<u, s>> /\ u \notin K /\ s \in Outputs[u]
    BY <1>1, <1>3 DEF Touching
  <2>3. o \in Unspent(K \cup ix.txs, s) =>
          \E u \in K \cup ix.txs : o = <<u, s>> /\ s \in Outputs[u]
    BY InUnspent
  <2> QED BY <1>6, <1>7, <2>1, <2>2, <2>3
<1> QED BY <1>1, <1>2, <1>8 DEF view

\* Whatever part of the index is confirmed, a script's view lists exactly the
\* unconfirmed transactions that touch it, and the confirmed and unconfirmed
\* outputs together are the unspent ones of both (mempool.rs script_view,
\* script_txids), for every set of transactions and every history of polls.
THEOREM ViewsStayExact == Spec => []ViewsExact
<1>1. PollInv => ViewsExact
  <2> SUFFICES ASSUME PollInv, NEW K \in Confirmable, NEW s \in Scripts
               PROVE  /\ { e[1] : e \in View(K, s).entries } = Touching(index.txs, s) \ K
                      /\ (Unspent(K, s) \ View(K, s).spent_confirmed) \cup View(K, s).utxos
                           = Unspent(K \cup index.txs, s)
    BY DEF ViewsExact
  <2>1. index \in Index /\ Exact(index) /\ ConflictFree(index.txs)
    BY DEF PollInv, TypeOK
  <2>2. Beside(K, index.txs)
    BY <2>1 DEF Beside, Confirmable, Index
  <2> QED BY <2>1, <2>2, ViewOutputs DEF View
<1> QED BY <1>1, PollInvariance, PTL
==============================================================================
