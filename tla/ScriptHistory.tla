---------------------------- MODULE ScriptHistory ----------------------------
(***************************************************************************)
(* Confirmed script histories (ChainAdapter::script_history): queries of   *)
(* several clients that share one cache of folded histories, while the     *)
(* chain they read is refreshed and reorganised under them.                *)
(*                                                                         *)
(* A query holds the chain's lock while it lists the script's references,  *)
(* and again to read the tip; it holds the cache's lock to look up and to  *)
(* store; and it fetches bodies holding none:                              *)
(*                                                                         *)
(*   idle -> refs --list--> get --hit--> idle                              *)
(*            ^               '--miss--> fetch --> check --fold, put--> idle *)
(*            '---------------- tip moved -----------'                     *)
(***************************************************************************)
EXTENDS Transactions, Sequences

Seqs == INSTANCE SequencesExt

CONSTANTS
  Clients,
  Blocks,
  Tips,           \* those of them the chain may end in
  Chain,          \* Chain[k]: the references of the chain ending in k, in order
  Collides,       \* Collides[s]: transactions indexed under s's prefix by chance
  MaxRefs,        \* max_refs of the ScriptCache
  REORG_RETRIES   \* 3 in the code

\* A reference names a block, and so the body of one transaction.
Refs == [block : Blocks, tx : Txids]

ASSUME ScriptHistoryAssumption ==
  /\ Scripts # {} /\ Tips # {} /\ Chain \in [Tips -> Seq(Refs)]
  /\ Collides \in [Scripts -> SUBSET Txids]
  /\ MaxRefs \in Nat /\ REORG_RETRIES \in Nat \ {0}

\* A chain has each transaction once (since BIP 34), and behind those whose
\* outputs it spends.
ASSUME ChainAssumption ==
  \A k \in Tips : \A i \in 1..Len(Chain[k]) :
    /\ \A j \in 1..(i - 1) : Chain[k][j].tx # Chain[k][i].tx
    /\ \A o \in Inputs[Chain[k][i].tx] : \E j \in 1..(i - 1) : Chain[k][j].tx = o[1]

VARIABLES
  tip,      \* the tip of the chain the server reads
  entries,  \* the ScriptCache's entries, least recently used first
  refs,     \* its count of the references they hold
  query     \* query[c]: where the query of client c is, and its locals

vars == <<tip, entries, refs, query>>

-----------------------------------------------------------------------------
(* References and folds *)

Indexed(s) == Touching(Txids, s) \cup Collides[s]

\* The references to transactions of S, in order.
Keep(S, found, r) == IF r.tx \in S THEN Append(found, r) ELSE found

Among(S, rs) ==
  LET found[n \in 0..Len(rs)] ==
        IF n = 0 THEN <<>> ELSE Keep(S, found[n - 1], rs[n])
  IN  found[Len(rs)]

\* script_refs: the chain's references that are indexed under s.
ScriptRefs(k, s) == Among(Indexed(s), Chain[k])

EmptyFold == [rows |-> <<>>, funded |-> {}, live |-> {}, peak |-> 0]

\* Fold::apply.  An input is the script's own when it spends an output seen
\* before; a transaction with none and no output to s is a prefix collision.
Apply(fold, s, r) ==
  LET spent == Inputs[r.tx] \cap fold.funded
      paid == IF s \in Outputs[r.tx] THEN {<<r.tx, s>>} ELSE {}
      live == (fold.live \ spent) \cup paid
  IN  [rows |-> IF spent \cup paid = {}
                  THEN fold.rows
                  ELSE Append(fold.rows, [ref |-> r, spent |-> spent, funded |-> paid]),
       funded |-> fold.funded \cup paid,
       live |-> live,
       peak |-> IF Cardinality(live) > fold.peak THEN Cardinality(live) ELSE fold.peak]

FoldOn(fold, s, tail) ==
  LET after[n \in 0..Len(tail)] ==
        IF n = 0 THEN fold ELSE Apply(after[n - 1], s, tail[n])
  IN  after[Len(tail)]

\* Fold::finish; the counters are functions of the rows.
Finish(fold) == [rows |-> fold.rows, utxos |-> fold.live, peak |-> fold.peak]

-----------------------------------------------------------------------------
(* The cache *)

CachedScripts == { entries[i].script : i \in DOMAIN entries }

Place(s) == CHOOSE i \in DOMAIN entries : entries[i].script = s

Cached(s) == entries[Place(s)]

Without(s) == IF s \in CachedScripts THEN Seqs!RemoveAt(entries, Place(s)) ELSE entries

\* ScriptCache::get makes the entry the most recently used one.
Touch(s) == IF s \in CachedScripts THEN Append(Without(s), Cached(s)) ELSE entries

\* Evict from the front until the count is within the bound.
RefsIn(es) ==
  LET count[n \in 0..Len(es)] ==
        IF n = 0 THEN 0 ELSE count[n - 1] + Len(es[n].refs)
  IN  count[Len(es)]

Evicted(es, count) ==
  CHOOSE n \in 0..Len(es) :
    /\ n = Len(es) \/ count - RefsIn(SubSeq(es, 1, n)) <= MaxRefs
    /\ \A m \in 0..(n - 1) : count - RefsIn(SubSeq(es, 1, m)) > MaxRefs

\* (the references of the replaced entry stay in the count)
Put_KeepsCount(s, e) ==
  LET others == Without(s)
      count == refs + Len(e.refs)
      all == Append(others, e)
      n == Evicted(all, count)
  IN  IF Len(e.refs) > MaxRefs
        THEN entries' = others /\ UNCHANGED refs
        ELSE /\ entries' = SubSeq(all, n + 1, Len(all))
             /\ refs' = count - RefsIn(SubSeq(all, 1, n))

\* ScriptCache::put: replace the entry, unless the new one is larger than the
\* whole cache, and evict.
Put(s, e) ==
  LET others == Without(s)
      rest == refs - (IF s \in CachedScripts THEN Len(Cached(s).refs) ELSE 0)
      all == Append(others, e)
      count == rest + Len(e.refs)
      n == Evicted(all, count)
  IN  IF Len(e.refs) > MaxRefs
        THEN entries' = others /\ refs' = rest
        ELSE /\ entries' = SubSeq(all, n + 1, Len(all))
             /\ refs' = count - RefsIn(SubSeq(all, 1, n))

-----------------------------------------------------------------------------
(* Queries *)

Idle ==
  [at |-> "idle", script |-> CHOOSE s \in Scripts : TRUE, tries |-> 0,
   tip |-> CHOOSE k \in Tips : TRUE, refs |-> <<>>, start |-> 0,
   fold |-> EmptyFold, history |-> Finish(EmptyFold)]

Done(q, fold) ==
  [Idle EXCEPT !.at = "done", !.script = q.script, !.tip = q.tip,
               !.history = Finish(fold)]

TypeOK ==
  /\ tip \in Tips
  /\ \A i, j \in DOMAIN entries : entries[i].script = entries[j].script => i = j
  /\ refs \in Nat
  /\ \A c \in Clients :
       /\ query[c].at \in {"idle", "refs", "get", "check", "put", "done"}
       /\ query[c].script \in Scripts /\ query[c].tip \in Tips
       /\ query[c].tries \in 0..(REORG_RETRIES - 1)
       /\ query[c].start \in 0..Len(query[c].refs)

Init ==
  /\ tip \in Tips
  /\ entries = <<>> /\ refs = 0
  /\ query = [c \in Clients |-> Idle]

\* The refresh task moves the chain: new blocks, or another branch.
Refresh ==
  /\ \E k \in Tips \ {tip} : tip' = k
  /\ UNCHANGED <<entries, refs, query>>

Begin(c) ==
  /\ query[c].at = "idle"
  /\ \E s \in Scripts :
       query' = [query EXCEPT ![c] = [Idle EXCEPT !.at = "refs", !.script = s]]
  /\ UNCHANGED <<tip, entries, refs>>

\* script_refs, with the tip they belong to.
ListRefs(c) ==
  /\ query[c].at = "refs"
  /\ query' = [query EXCEPT ![c].at = "get", ![c].tip = tip,
                            ![c].refs = ScriptRefs(tip, query[c].script)]
  /\ UNCHANGED <<tip, entries, refs>>

\* (as many references are taken for the same ones)
Extends_ByLength(c) ==
  /\ query[c].script \in CachedScripts
  /\ Len(Cached(query[c].script).refs) <= Len(query[c].refs)

\* The listed references are the cached ones, perhaps with more at the end.
Extends(c) ==
  /\ query[c].script \in CachedScripts
  /\ Seqs!IsPrefix(Cached(query[c].script).refs, query[c].refs)

\* The cached history is complete ...
Hit(c) ==
  LET cached == Cached(query[c].script)
  IN  /\ query[c].at = "get" /\ Extends(c) /\ Len(cached.refs) = Len(query[c].refs)
      /\ query' = [query EXCEPT ![c] = Done(query[c], cached.fold)]
      /\ entries' = Touch(query[c].script)
      /\ UNCHANGED <<tip, refs>>

\* ... or the start of it is, or none.  The bodies of the rest are fetched.
Miss(c) ==
  LET cached == Cached(query[c].script)
  IN  /\ query[c].at = "get"
      /\ ~(Extends(c) /\ Len(cached.refs) = Len(query[c].refs))
      /\ query' = [query EXCEPT ![c].at = "check",
                     ![c].fold = IF Extends(c) THEN cached.fold ELSE EmptyFold,
                     ![c].start = IF Extends(c) THEN Len(cached.refs) ELSE 0]
      /\ entries' = Touch(query[c].script)
      /\ UNCHANGED <<tip, refs>>

\* A request fails, or the deadline passes: the query returns an error.
FetchFails(c) ==
  /\ query[c].at = "check" /\ query[c].start < Len(query[c].refs)
  /\ query' = [query EXCEPT ![c] = Idle]
  /\ UNCHANGED <<tip, entries, refs>>

\* The bodies are there and the tip is still the same: fold them.
CheckTip(c) ==
  /\ query[c].at = "check" /\ tip = query[c].tip
  /\ query' = [query EXCEPT ![c].at = "put",
                 ![c].fold = FoldOn(query[c].fold, query[c].script,
                               SubSeq(query[c].refs, query[c].start + 1,
                                      Len(query[c].refs)))]
  /\ UNCHANGED <<tip, entries, refs>>

\* (retries are not counted)
Retry_Uncounted(c) ==
  /\ query[c].at = "check" /\ tip # query[c].tip
  /\ query' = [query EXCEPT ![c] =
       [Idle EXCEPT !.at = "refs", !.script = query[c].script]]
  /\ UNCHANGED <<tip, entries, refs>>

\* The chain moved under the fetch: start again, or give up (Error::Reorg).
Retry(c) ==
  /\ query[c].at = "check" /\ tip # query[c].tip
  /\ query' = [query EXCEPT ![c] =
       IF query[c].tries + 1 < REORG_RETRIES
         THEN [Idle EXCEPT !.at = "refs", !.script = query[c].script,
                           !.tries = query[c].tries + 1]
         ELSE Idle]
  /\ UNCHANGED <<tip, entries, refs>>

Store(c) ==
  /\ query[c].at = "put"
  /\ Put(query[c].script, [script |-> query[c].script, refs |-> query[c].refs,
                           fold |-> query[c].fold])
  /\ query' = [query EXCEPT ![c] = Done(query[c], query[c].fold)]
  /\ UNCHANGED tip

Return(c) ==
  /\ query[c].at = "done"
  /\ query' = [query EXCEPT ![c] = Idle]
  /\ UNCHANGED <<tip, entries, refs>>

-----------------------------------------------------------------------------

QueryStep(c) ==
  \/ ListRefs(c) \/ Hit(c) \/ Miss(c) \/ CheckTip(c) \/ Retry(c) \/ Store(c)
  \/ Return(c)

Next ==
  \/ Refresh
  \/ \E c \in Clients : Begin(c) \/ QueryStep(c) \/ FetchFails(c)

\* A query that was begun is scheduled.  Nothing is assumed of the chain, which
\* may move for ever.
Spec == Init /\ [][Next]_vars

FairSpec == Spec /\ \A c \in Clients : WF_vars(QueryStep(c))

-----------------------------------------------------------------------------
(* Properties *)

\* The history of s in the chain ending in k, from the whole chain at once.
UnspentAfter(k, s, n) == Unspent({ Chain[k][i].tx : i \in 1..n }, s)

Reference(k, s) ==
  LET txs == Among(Touching(Txids, s), Chain[k])
      sizes == { Cardinality(UnspentAfter(k, s, n)) : n \in 0..Len(Chain[k]) }
  IN  [rows |-> [i \in DOMAIN txs |->
         [ref |-> txs[i], spent |-> { o \in Inputs[txs[i].tx] : o[2] = s },
          funded |-> IF s \in Outputs[txs[i].tx] THEN {<<txs[i].tx, s>>} ELSE {}]],
       utxos |-> UnspentAfter(k, s, Len(Chain[k])),
       peak |-> CHOOSE m \in sizes : \A n \in sizes : n <= m]

\* Every answer is exactly the script's history at the tip whose references the
\* query listed, though it may be folded on from what another query cached at
\* another tip or on another branch, and a prefix collision is never part of it.
\* The query's locals stay within their types; in particular a query is never
\* retried more often than REORG_RETRIES allows.
HistoryExact ==
  /\ TypeOK
  /\ \A c \in Clients : query[c].at = "done" =>
       query[c].history = Reference(query[c].tip, query[c].script)

\* The cache's count of references is that of its entries, and within its
\* bound, through replacing, refusing, evicting and concurrent queries.
CacheBounded == refs = RefsIn(entries) /\ refs <= MaxRefs

\* Every query ends, in an answer or an error, even if the chain never rests.
QueriesEnd == \A c \in Clients : query[c].at = "refs" ~> query[c].at = "idle"
==============================================================================
