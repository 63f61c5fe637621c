--------------------------- MODULE Queries_proofs ---------------------------
(***************************************************************************)
(* Proofs about the queries, for any tree of blocks, any mempools, and any *)
(* number of refreshes and polls between the reads of a request.           *)
(***************************************************************************)
EXTENDS QueriesInv, TLAPS, NaturalsInduction, WellFoundedInduction, FiniteSetTheorems

-----------------------------------------------------------------------------
(* Chains *)

LEMMA PathFacts ==
  ASSUME NEW k \in Blocks
  PROVE  /\ Path[k] \in Seq(Blocks) /\ Len(Path[k]) \in Nat /\ Len(Path[k]) > 0
         /\ DOMAIN Path[k] = 1..Len(Path[k]) /\ Path[k][Len(Path[k])] = k
         /\ Height(k) = Len(Path[k]) - 1 /\ Height(k) \in Nat
<1>1. Path[k] \in Seq(Blocks) /\ Path[k] # <<>> /\ Path[k][Len(Path[k])] = k
  BY QueriesAssumption, ChainAssumption DEF QueriesAssumption, ChainAssumption
<1>2. Len(Path[k]) \in Nat /\ Len(Path[k]) > 0 /\ DOMAIN Path[k] = 1..Len(Path[k])
  BY <1>1
<1> QED BY <1>1, <1>2 DEF Height

\* A block of a chain has its place in it, and the chain below is its own.
LEMMA PlaceOfBlock ==
  ASSUME NEW k \in Blocks, NEW j, Grown(j, k)
  PROVE  /\ j \in Blocks /\ Height(j) + 1 \in 1..Len(Path[k])
         /\ Path[k][Height(j) + 1] = j /\ Path[j] = SubSeq(Path[k], 1, Height(j) + 1)
         /\ Height(j) \in 0..Height(k) /\ HashAt(k, Height(j)) = j
<1>1. PICK i \in 1..Len(Path[k]) : Path[k][i] = j
  BY PathFacts DEF Grown, Seqs!ToSet
<1>2. j \in Blocks /\ Path[k] \in Seq(Blocks) /\ Len(Path[k]) \in Nat /\ i \in DOMAIN Path[k]
  BY <1>1, PathFacts
<1>3. Path[j] = SubSeq(Path[k], 1, i)
  BY <1>1, <1>2, ChainAssumption DEF ChainAssumption
<1>4. Len(Path[j]) = i
  BY <1>2, <1>3
<1>5. Height(j) = i - 1
  BY <1>2, <1>4 DEF Height
<1>6. Height(j) + 1 = i /\ Height(j) \in 0..Height(k)
  BY <1>2, <1>5 DEF Height
<1> QED BY <1>1, <1>2, <1>3, <1>6 DEF HashAt

LEMMA GrownSelf ==
  ASSUME NEW k \in Blocks
  PROVE  Grown(k, k)
BY PathFacts DEF Grown, Seqs!ToSet

LEMMA GrownPrefix ==
  ASSUME NEW k \in Blocks, NEW j, Grown(j, k), NEW i \in 1..Len(Path[j])
  PROVE  i \in 1..Len(Path[k]) /\ Path[j][i] = Path[k][i]
<1>1. /\ Height(j) + 1 \in 1..Len(Path[k]) /\ Path[j] = SubSeq(Path[k], 1, Height(j) + 1)
      /\ Path[k] \in Seq(Blocks) /\ Len(Path[k]) \in Nat
  BY PlaceOfBlock, PathFacts
<1> DEFINE h == Height(j) + 1
           p == Path[k]
<1> HIDE DEF h, p
<1>2. p \in Seq(Blocks) /\ h \in 1..Len(p) /\ Path[j] = SubSeq(p, 1, h)
  BY <1>1 DEF h, p
<1>3. Len(Path[j]) = h /\ \A n \in 1..h : Path[j][n] = p[n]
  BY <1>2
<1> QED BY <1>2, <1>3 DEF p

LEMMA GrownTransitive ==
  ASSUME NEW k \in Blocks, NEW j, NEW i, Grown(j, k), Grown(i, j)
  PROVE  Grown(i, k)
<1>1. j \in Blocks
  BY PlaceOfBlock
<1>2. PICK n \in 1..Len(Path[j]) : Path[j][n] = i
  BY <1>1, PathFacts DEF Grown, Seqs!ToSet
<1>3. n \in 1..Len(Path[k]) /\ Path[k][n] = i
  BY <1>2, GrownPrefix
<1> QED BY <1>3, PathFacts DEF Grown, Seqs!ToSet

LEMMA GrownHash ==
  ASSUME NEW k \in Blocks, NEW j, Grown(j, k), NEW h, HashAt(j, h) # NoBlock
  PROVE  HashAt(k, h) = HashAt(j, h) /\ HashAt(j, h) \in Blocks /\ h \in Nat
<1>1. j \in Blocks
  BY PlaceOfBlock
<1>2. h \in 0..Height(j) /\ HashAt(j, h) = Path[j][h + 1] /\ Height(j) = Len(Path[j]) - 1
      /\ Len(Path[j]) \in Nat /\ Path[j] \in Seq(Blocks)
  BY <1>1, PathFacts DEF HashAt
<1>3. h + 1 \in 1..Len(Path[j]) /\ h \in Nat
  BY <1>2
<1>4. h + 1 \in 1..Len(Path[k]) /\ Path[j][h + 1] = Path[k][h + 1]
  BY <1>3, GrownPrefix
<1>5. h \in 0..Height(k)
  BY <1>3, <1>4, PathFacts
<1> QED BY <1>2, <1>3, <1>4, <1>5 DEF HashAt

LEMMA GrownLocations ==
  ASSUME NEW k \in Blocks, NEW j, Grown(j, k)
  PROVE  Locations(j) \subseteq Locations(k) /\ Mined(j) \subseteq Mined(k)
<1>1. Seqs!ToSet(Path[j]) \subseteq Seqs!ToSet(Path[k])
  BY GrownTransitive DEF Grown
<1>2. Locations(j) \subseteq Locations(k)
  BY <1>1 DEF Locations
<1> QED BY <1>2 DEF Mined

LEMMA LocationFacts ==
  ASSUME NEW k \in Blocks, NEW l \in Locations(k)
  PROVE  /\ l.tx \in Mined(k) /\ l.tx \in Txids /\ l.place = "chain" /\ l.block \in Blocks
         /\ HashAt(k, l.height) = l.block /\ l.height \in Nat /\ l.pos \in Nat
         /\ l.time = NoBlock /\ BlockTxs[l.block][l.pos + 1] = l.tx
<1>1. PICK b \in Seqs!ToSet(Path[k]) : \E i \in DOMAIN BlockTxs[b] : l = InBlock(b, i)
  BY DEF Locations
<1>2. PICK i \in DOMAIN BlockTxs[b] : l = InBlock(b, i)
  BY <1>1
<1>3. b \in Blocks /\ HashAt(k, Height(b)) = b /\ Height(b) \in Nat
  BY PlaceOfBlock, PathFacts DEF Grown
<1>4. BlockTxs[b] \in Seq(Txids)
  BY <1>3, QueriesAssumption DEF QueriesAssumption
<1>5. i \in 1..Len(BlockTxs[b]) /\ BlockTxs[b][i] \in Txids /\ i - 1 \in Nat /\ (i - 1) + 1 = i
  BY <1>4
<1>6. /\ l.tx = BlockTxs[b][i] /\ l.place = "chain" /\ l.block = b /\ l.height = Height(b)
      /\ l.pos = i - 1 /\ l.time = NoBlock
  BY <1>2 DEF InBlock
<1>7. l.tx \in Mined(k)
  BY DEF Mined
<1> QED BY <1>3, <1>5, <1>6, <1>7

LEMMA MinedFacts ==
  ASSUME NEW k \in Blocks, NEW t \in Mined(k)
  PROVE  /\ t \in Txids /\ \E l \in Locations(k) : l.tx = t
         /\ \A o \in Inputs[t] : o[1] \in Mined(k)
<1>1. PICK l \in Locations(k) : l.tx = t
  BY DEF Mined
<1>2. \A o \in Inputs[t] : \E m \in Locations(k) : m.tx = o[1]
  BY <1>1, ChainAssumption DEF ChainAssumption
<1> QED BY <1>1, <1>2, LocationFacts DEF Mined

-----------------------------------------------------------------------------
(* Requests *)

\* k is a request of the route of j.
Goes(j, k) == IsJob(k) /\ k.route = j.route

LEMMA DoneGoes ==
  ASSUME NEW j, DOMAIN j = Fields, NEW a
  PROVE  /\ Goes(j, Done(j, a)) /\ Done(j, a).at = "done" /\ Done(j, a).answer = a
         /\ \A f \in Fields \ {"at", "answer"} : Done(j, a)[f] = j[f]
<1> DEFINE k == Done(j, a)
<1>1. /\ DOMAIN k = Fields /\ k.at = "done" /\ k.answer = a
      /\ \A f \in Fields \ {"at", "answer"} : k[f] = j[f]
  BY DEF Done, Fields
<1>2. k.route = j.route
  BY <1>1 DEF Fields
<1> HIDE DEF k
<1>3. Stations(k)
  BY <1>1 DEF Stations
<1> QED BY <1>1, <1>2, <1>3 DEF Goes, IsJob, k

LEMMA AtTipGoes ==
  ASSUME NEW j, DOMAIN j = Fields, NEW a, NEW h
  PROVE  /\ Goes(j, AtTip(j, a, h)) /\ AtTip(j, a, h).at = "tip"
         /\ AtTip(j, a, h).answer = a /\ AtTip(j, a, h).height = h
         /\ \A f \in Fields \ {"at", "answer", "height"} : AtTip(j, a, h)[f] = j[f]
<1> DEFINE k == AtTip(j, a, h)
<1>1. /\ DOMAIN k = Fields /\ k.at = "tip" /\ k.answer = a /\ k.height = h
      /\ \A f \in Fields \ {"at", "answer", "height"} : k[f] = j[f]
  BY DEF AtTip, Fields
<1>2. k.route = j.route
  BY <1>1 DEF Fields
<1> HIDE DEF k
<1>3. Stations(k)
  BY <1>1 DEF Stations
<1> QED BY <1>1, <1>2, <1>3 DEF Goes, IsJob, k

LEMMA PageDoneGoes ==
  ASSUME NEW j, DOMAIN j = Fields
  PROVE  Goes(j, PageDone(j))
<1>1. CASE j.route \notin Walks \/ Len(j.list) = j.from
  BY <1>1, DoneGoes DEF PageDone
<1>2. CASE ~(j.route \notin Walks \/ Len(j.list) = j.from)
  <2> DEFINE k == [j EXCEPT !.at = "more", !.cursor = j.list[Len(j.list)].tx, !.from = Len(j.list)]
  <2>1. DOMAIN k = Fields /\ k.at = "more" /\ k.route = j.route /\ PageDone(j) = k
    BY <1>2 DEF Fields, PageDone
  <2> HIDE DEF k
  <2> QED BY <1>2, <2>1 DEF Goes, IsJob, Stations
<1> QED BY <1>1, <1>2

LEMMA NextValueGoes ==
  ASSUME NEW j, DOMAIN j = Fields, j.route \in Lists
  PROVE  Goes(j, NextValue(j))
<1>1. CASE Len(j.todo) <= 1
  <2> DEFINE k == [j EXCEPT !.todo = <<>>]
  <2>1. DOMAIN k = Fields /\ k.route = j.route /\ NextValue(j) = PageDone(k)
    BY <1>1 DEF Fields, NextValue
  <2> HIDE DEF k
  <2> QED BY <2>1, PageDoneGoes DEF Goes
<1>2. CASE ~(Len(j.todo) <= 1)
  <2> DEFINE k == [j EXCEPT !.todo = Tail(@), !.at = "locate"]
  <2>1. DOMAIN k = Fields /\ k.at = "locate" /\ k.route = j.route /\ NextValue(j) = k
    BY <1>2 DEF Fields, NextValue
  <2> HIDE DEF k
  <2> QED BY <2>1 DEF Goes, IsJob, Stations
<1> QED BY <1>1, <1>2

LEMMA TakeGoes ==
  ASSUME NEW j, DOMAIN j = Fields, j.route \in Lists, NEW txids
  PROVE  Goes(j, Take(j, txids))
<1>1. CASE txids = <<>>
  BY <1>1, PageDoneGoes DEF Take
<1>2. CASE txids # <<>>
  <2> DEFINE few == SubSeq(txids, 1, Sets!Min({Len(txids), PageLimit}))
  <2> HIDE DEF few
  <2> DEFINE k == [j EXCEPT !.todo = few, !.at = "locate"]
  <2>1. Take(j, txids) = k
    BY <1>2 DEF Take, few
  <2>2. DOMAIN k = Fields /\ k.at = "locate" /\ k.route = j.route
    BY DEF Fields
  <2> HIDE DEF k
  <2> QED BY <2>1, <2>2 DEF Goes, IsJob, Stations
<1> QED BY <1>1, <1>2

LEMMA SelectGoes ==
  ASSUME NEW j, DOMAIN j = Fields, j.route \in {"txs", "txs chain", "txs mempool"}, NEW mempool
  PROVE  Goes(j, Select(j, mempool))
<1>1. \A txids : Goes(j, Take(j, txids))
  BY TakeGoes DEF Lists
<1>2. Goes(j, Done(j, "422"))
  BY DoneGoes
<1> DEFINE chain == RowsDesc(j.rows)
           c == j.cursor
           x == Seqs!ToSet(chain)
           m == Seqs!ToSet(mempool)
           a == IF c = NoTx THEN chain ELSE IF c \in x THEN After(chain, c) ELSE <<>>
           u == mempool \o chain
           v == After(mempool, c) \o chain
           w == After(chain, c)
<1>3. Select(j, mempool) =
        CASE j.route = "txs mempool" -> Take(j, mempool)
          [] j.route = "txs chain" -> Take(j, a)
          [] j.route = "txs" /\ c = NoTx -> Take(j, u)
          [] j.route = "txs" /\ c \in m -> Take(j, v)
          [] j.route = "txs" /\ c \in x \ m -> Take(j, w)
          [] OTHER -> Done(j, "422")
  BY DEF Select
<1> HIDE DEF a, u, v, w, c, x, m
<1> QED BY <1>1, <1>2, <1>3

LEMMA ResolveGoes ==
  ASSUME NEW j, DOMAIN j = Fields, j.route \in Lists \cup {"tx"}
  PROVE  Goes(j, Resolve(j))
<1>1. CASE j.inputs # {}
  <2> DEFINE k == [j EXCEPT !.at = "prevout"]
  <2>1. DOMAIN k = Fields /\ k.at = "prevout" /\ k.route = j.route /\ Resolve(j) = k
    BY <1>1 DEF Fields, Resolve
  <2> HIDE DEF k
  <2> QED BY <2>1 DEF Goes, IsJob, Stations
<1>2. CASE j.inputs = {} /\ j.route = "tx"
  BY <1>2, AtTipGoes DEF Resolve
<1>3. CASE j.inputs = {} /\ j.route \in Lists
  <2> DEFINE k == [j EXCEPT !.list = Append(@, j.found)]
  <2>1. DOMAIN k = Fields /\ k.route = j.route
    BY DEF Fields
  <2>2. Resolve(j) = NextValue(k)
    BY <1>3 DEF Resolve, Lists
  <2> HIDE DEF k
  <2> QED BY <1>3, <2>1, <2>2, NextValueGoes DEF Goes
<1> QED BY <1>1, <1>2, <1>3

\* The request after find_tx, before it goes on.
Holding(j, l) == [j EXCEPT !.found = l, !.inputs = IF l.tx = NoTx THEN {} ELSE Inputs[l.tx]]

Held(j, l, k) ==
  /\ DOMAIN k = Fields /\ k.found = l /\ k.inputs = IF l.tx = NoTx THEN {} ELSE Inputs[l.tx]
  /\ k.route = j.route /\ k.todo = j.todo /\ k.outpoint = j.outpoint /\ k.answer = j.answer

LEMMA HoldingFacts ==
  ASSUME NEW j, DOMAIN j = Fields, NEW l
  PROVE  Held(j, l, Holding(j, l))
<1> DEFINE i == IF l.tx = NoTx THEN {} ELSE Inputs[l.tx]
           k == [j EXCEPT !.found = l, !.inputs = i]
<1>1. Holding(j, l) = k
  BY DEF Holding
<1> HIDE DEF i
<1>2. /\ DOMAIN k = Fields /\ k.found = l /\ k.route = j.route /\ k.inputs = i
      /\ k.todo = j.todo /\ k.outpoint = j.outpoint /\ k.answer = j.answer
  BY DEF Fields
<1> HIDE DEF k
<1> QED BY <1>1, <1>2 DEF i, Held

LEMMA FoundCases ==
  ASSUME NEW j, NEW l
  PROVE  LET k == Holding(j, l)
         IN  /\ j.route \in Lists =>
                  Found(j, l) = IF l.place = "none" THEN NextValue(k) ELSE Resolve(k)
             /\ j.route = "tx" =>
                  Found(j, l) = IF l.place = "none" THEN Done(k, "404") ELSE Resolve(k)
             /\ j.route = "status" =>
                  Found(j, l) = IF l.place = "none" THEN Done(k, "404") ELSE AtTip(k, "ok", l.height)
             /\ j.route = "get" => Found(j, l) = Done(k, IF l.place = "none" THEN "404" ELSE "ok")
             /\ j.route \in {"merkle", "merkleblock"} =>
                  Found(j, l) = IF l.place # "chain" THEN Done(k, "404") ELSE [k EXCEPT !.at = "hash"]
             /\ j.route = "outspend" =>
                  Found(j, l) = IF l.place = "none" \/ j.outpoint[2] \notin Outputs[l.tx]
                                  THEN AtTip(k, "unspent", -1) ELSE [k EXCEPT !.at = "spender"]
<1> DEFINE k == Holding(j, l)
           e1 == IF l.place = "none" THEN NextValue(k) ELSE Resolve(k)
           e2 == IF l.place = "none" THEN Done(k, "404") ELSE Resolve(k)
           e3 == IF l.place = "none" THEN Done(k, "404") ELSE AtTip(k, "ok", l.height)
           e4 == Done(k, IF l.place = "none" THEN "404" ELSE "ok")
           e5 == IF l.place # "chain" THEN Done(k, "404") ELSE [k EXCEPT !.at = "hash"]
           e6 == IF l.place = "none" \/ j.outpoint[2] \notin Outputs[l.tx]
                   THEN AtTip(k, "unspent", -1) ELSE [k EXCEPT !.at = "spender"]
<1>1. Found(j, l) = CASE j.route \in Lists -> e1
                      [] j.route = "tx" -> e2
                      [] j.route = "status" -> e3
                      [] j.route = "get" -> e4
                      [] j.route \in {"merkle", "merkleblock"} -> e5
                      [] j.route = "outspend" -> e6
  BY DEF Found, Holding
<1> HIDE DEF e1, e2, e3, e4, e5, e6
<1>2. /\ j.route \in Lists => Found(j, l) = e1
      /\ j.route = "tx" => Found(j, l) = e2
      /\ j.route = "status" => Found(j, l) = e3
      /\ j.route = "get" => Found(j, l) = e4
      /\ j.route \in {"merkle", "merkleblock"} => Found(j, l) = e5
      /\ j.route = "outspend" => Found(j, l) = e6
  BY <1>1 DEF Lists
<1> HIDE DEF k
<1> QED BY <1>2 DEF e1, e2, e3, e4, e5, e6, k

LEMMA MissingGoes ==
  ASSUME NEW j, DOMAIN j = Fields, j.route \in Lists \cup {"tx"}
  PROVE  Goes(j, Missing(j))
BY DoneGoes, NextValueGoes DEF Missing

LEMMA FoundGoes ==
  ASSUME NEW j, DOMAIN j = Fields, NEW l, j.route \in Lists \cup {"merkle", "merkleblock"} \cup Single
  PROVE  Goes(j, Found(j, l))
<1> DEFINE k == Holding(j, l)
<1>1. DOMAIN k = Fields /\ k.route = j.route
  BY HoldingFacts DEF Held
<1> HIDE DEF k
<1>2. (\A a : Goes(j, Done(k, a))) /\ \A a, h : Goes(j, AtTip(k, a, h))
  BY <1>1, DoneGoes, AtTipGoes DEF Goes
<1>3. CASE j.route \in Lists
  <2>1. Goes(j, NextValue(k)) /\ Goes(j, Resolve(k))
    BY <1>1, <1>3, NextValueGoes, ResolveGoes DEF Goes
  <2> QED BY <1>3, <2>1, FoundCases DEF k
<1>4. CASE j.route = "tx"
  <2>1. Goes(j, Resolve(k))
    BY <1>1, <1>4, ResolveGoes DEF Goes
  <2> QED BY <1>2, <1>4, <2>1, FoundCases DEF k
<1>5. CASE j.route \in {"status", "get"}
  BY <1>2, <1>5, FoundCases DEF k
<1>6. CASE j.route \in {"merkle", "merkleblock"}
  <2> DEFINE n == [k EXCEPT !.at = "hash"]
  <2>1. DOMAIN n = Fields /\ n.at = "hash" /\ n.route = j.route
    BY <1>1 DEF Fields
  <2>2. Found(j, l) = IF l.place # "chain" THEN Done(k, "404") ELSE n
    BY <1>6, FoundCases DEF k
  <2> HIDE DEF n
  <2>3. Goes(j, n)
    BY <1>6, <2>1 DEF Goes, IsJob, Stations
  <2> QED BY <1>2, <2>2, <2>3
<1>7. CASE j.route = "outspend"
  <2> DEFINE n == [k EXCEPT !.at = "spender"]
             no == l.place = "none" \/ j.outpoint[2] \notin Outputs[l.tx]
  <2>1. DOMAIN n = Fields /\ n.at = "spender" /\ n.route = j.route
    BY <1>1 DEF Fields
  <2>2. Found(j, l) = IF no THEN AtTip(k, "unspent", -1) ELSE n
    BY <1>7, FoundCases DEF k
  <2> HIDE DEF n, no
  <2>3. Goes(j, n)
    BY <1>7, <2>1 DEF Goes, IsJob, Stations
  <2> QED BY <1>2, <2>2, <2>3
<1> QED BY <1>3, <1>4, <1>5, <1>6, <1>7 DEF Single

-----------------------------------------------------------------------------
(* Every read takes a request on *)

LEMMA LocateGoes ==
  ASSUME IsJob(job), Locate
  PROVE  Goes(job, job')
<1>1. DOMAIN job = Fields /\ Stations(job) /\ job.at = "locate"
  BY DEF IsJob, Locate
<1>2. ASSUME NEW l, job' = [job EXCEPT !.found = l, !.at = "time"] PROVE Goes(job, job')
  <2>1. DOMAIN job' = Fields /\ job'.at = "time" /\ job'.route = job.route
    BY <1>1, <1>2 DEF Fields
  <2> QED BY <1>1, <2>1 DEF Goes, IsJob, Stations
<1>3. ASSUME job' = [job EXCEPT !.at = "pool"] PROVE Goes(job, job')
  <2>1. DOMAIN job' = Fields /\ job'.at = "pool" /\ job'.route = job.route
    BY <1>1, <1>3 DEF Fields
  <2> QED BY <1>1, <2>1 DEF Goes, IsJob, Stations
<1> QED BY <1>2, <1>3 DEF Locate, Step

LEMMA FindTimeGoes ==
  ASSUME IsJob(job), FindTime
  PROVE  Goes(job, job')
<1>1. /\ DOMAIN job = Fields
      /\ job.route \in Lists \cup {"merkle", "merkleblock"} \cup Single
  BY DEF IsJob, FindTime, Stations, Single
<1>2. (\A a : Goes(job, Done(job, a))) /\ \A l : Goes(job, Found(job, l))
  BY <1>1, DoneGoes, FoundGoes
<1>3. (\E a : job' = Done(job, a)) \/ \E l : job' = Found(job, l)
  BY DEF FindTime, Step
<1> QED BY <1>2, <1>3

LEMMA FindInPoolGoes ==
  ASSUME IsJob(job), FindInPool
  PROVE  Goes(job, job')
<1>1. /\ DOMAIN job = Fields
      /\ job.route \in Lists \cup {"merkle", "merkleblock"} \cup Single
  BY DEF IsJob, FindInPool, Stations, Single
<1>2. \E l : job' = Found(job, l)
  BY DEF FindInPool, Step
<1> QED BY <1>1, <1>2, FoundGoes

LEMMA GetFromPoolGoes ==
  ASSUME IsJob(job), GetFromPool
  PROVE  Goes(job, job')
<1>1. DOMAIN job = Fields /\ job.route \in Single /\ job.route = "get"
  BY DEF IsJob, GetFromPool, Stations, Single
<1>2. ASSUME job' = [job EXCEPT !.at = "get chain"] PROVE Goes(job, job')
  <2>1. DOMAIN job' = Fields /\ job'.at = "get chain" /\ job'.route = job.route
    BY <1>1, <1>2 DEF Fields
  <2> QED BY <1>1, <2>1 DEF Goes, IsJob, Stations
<1>3. (\E l : job' = Found(job, l)) \/ job' = [job EXCEPT !.at = "get chain"]
  BY DEF GetFromPool, Step
<1> QED BY <1>1, <1>2, <1>3, FoundGoes

LEMMA GetFromChainGoes ==
  ASSUME IsJob(job), GetFromChain
  PROVE  Goes(job, job')
<1>1. DOMAIN job = Fields /\ job.route \in Single
  BY DEF IsJob, GetFromChain, Stations, Single
<1>2. \E l : job' = Found(job, l)
  BY DEF GetFromChain, Step
<1> QED BY <1>1, <1>2, FoundGoes

LEMMA PrevoutGoes ==
  ASSUME IsJob(job), PrevoutInPool \/ PrevoutInChain
  PROVE  Goes(job, job')
<1>1. DOMAIN job = Fields /\ job.route \in Lists \cup {"tx"}
  BY DEF IsJob, PrevoutInPool, PrevoutInChain, Stations
<1> DEFINE k == [job EXCEPT !.inputs = @ \ {Input}]
           n == [job EXCEPT !.at = "funding"]
<1>2. DOMAIN k = Fields /\ k.route = job.route
  BY <1>1 DEF Fields
<1>3. DOMAIN n = Fields /\ n.at = "funding" /\ n.route = job.route
  BY <1>1 DEF Fields
<1>4. job' \in {Resolve(k), n, Missing(job)}
  BY DEF PrevoutInPool, PrevoutInChain, Step
<1> HIDE DEF k, n
<1>5. Goes(job, Resolve(k))
  BY <1>1, <1>2, ResolveGoes DEF Goes
<1>6. Goes(job, n)
  BY <1>1, <1>3 DEF Goes, IsJob, Stations
<1>7. Goes(job, Missing(job))
  BY <1>1, MissingGoes
<1> QED BY <1>4, <1>5, <1>6, <1>7

LEMMA BlockPositionGoes ==
  ASSUME IsJob(job), BlockPosition
  PROVE  Goes(job, job')
<1>1. DOMAIN job = Fields /\ Stations(job) /\ job.at = "hash"
  BY DEF IsJob, BlockPosition
<1>2. ASSUME NEW b, NEW p, NEW m
      PROVE  LET j == [job EXCEPT !.block = b, !.pos = p, !.branch = m]
             IN  /\ \A h : Goes(job, AtTip(j, "ok", h))
                 /\ job.route = "merkleblock" => Goes(job, [j EXCEPT !.at = "header"])
  <2> DEFINE j == [job EXCEPT !.block = b, !.pos = p, !.branch = m]
             n == [j EXCEPT !.at = "header"]
  <2>1. DOMAIN j = Fields /\ j.route = job.route
    BY <1>1 DEF Fields
  <2> HIDE DEF j
  <2>2. DOMAIN n = Fields /\ n.at = "header" /\ n.route = job.route
    BY <2>1 DEF Fields
  <2>3. \A h : Goes(job, AtTip(j, "ok", h))
    BY <2>1, AtTipGoes DEF Goes
  <2> HIDE DEF n
  <2>4. job.route = "merkleblock" => Goes(job, n)
    BY <2>2 DEF Goes, IsJob, Stations
  <2> QED BY <2>3, <2>4 DEF j, n
<1> DEFINE b == HashAt(tip, job.found.height)
           p == Position(job.found, BlockTxs[b])
           m == BranchAndRoot(BlockTxs[b], p).branch
           j == [job EXCEPT !.block = b, !.pos = p, !.branch = m]
           n == [j EXCEPT !.at = "header"]
           z == AtTip(j, "ok", job.found.height)
<1>3. job' = CASE b = NoBlock -> Done(job, "404")
               [] b # NoBlock /\ p < 0 -> Done(job, "500")
               [] OTHER -> IF job.route = "merkleblock" THEN n ELSE z
  BY DEF BlockPosition, Step
<1>4. Goes(job, z) /\ (job.route = "merkleblock" => Goes(job, n))
  BY <1>2
<1>5. Goes(job, Done(job, "404")) /\ Goes(job, Done(job, "500"))
  BY <1>1, DoneGoes
<1> HIDE DEF b, p, n, z
<1> QED BY <1>3, <1>4, <1>5

LEMMA MerkleblockHeaderGoes ==
  ASSUME IsJob(job), MerkleblockHeader
  PROVE  Goes(job, job')
<1>1. DOMAIN job = Fields
  BY DEF IsJob
<1> DEFINE b == HashAt(tip, job.found.height)
           j == [job EXCEPT !.header = b]
<1>2. job' \in {Done(job, "404"), AtTip(j, "ok", job.found.height)}
  BY DEF MerkleblockHeader, Step
<1> HIDE DEF b
<1>3. DOMAIN j = Fields /\ j.route = job.route
  BY <1>1 DEF Fields
<1> HIDE DEF j
<1>4. Goes(job, Done(job, "404"))
  BY <1>1, DoneGoes
<1>5. Goes(job, AtTip(j, "ok", job.found.height))
  BY <1>3, AtTipGoes DEF Goes
<1> QED BY <1>2, <1>4, <1>5

LEMMA GetMerkleGoes ==
  ASSUME IsJob(job), GetMerkle
  PROVE  Goes(job, job')
<1>1. DOMAIN job = Fields
  BY DEF IsJob
<1> DEFINE b == HashAt(tip, job.height)
           l == [InBlock(b, 1) EXCEPT !.tx = Head(job.todo)]
           p == Position(l, BlockTxs[b])
           m == BranchAndRoot(BlockTxs[b], p).branch
           j == [job EXCEPT !.block = b, !.found = l, !.pos = p, !.branch = m]
<1>2. job' \in {Done(job, "error"), Done(j, "ok")}
  BY DEF GetMerkle, Step
<1> HIDE DEF b, l, p, m
<1>3. DOMAIN j = Fields /\ j.route = job.route
  BY <1>1 DEF Fields
<1> HIDE DEF j
<1>4. Goes(job, Done(job, "error")) /\ Goes(job, Done(j, "ok"))
  BY <1>1, <1>3, DoneGoes DEF Goes
<1> QED BY <1>2, <1>4

LEMMA BlockHeadersGoes ==
  ASSUME IsJob(job), BlockHeaders
  PROVE  Goes(job, job')
<1>1. DOMAIN job = Fields
  BY DEF IsJob
<1> DEFINE count == Sets!Min({job.count, HeadersLimit, Height(tip) - job.height + 1})
           hashes == SubSeq(Path[tip], 1, Sets!Min({job.cp, Height(tip)}) + 1)
           p == Sets!Min({job.height, Len(hashes) - 1})
           x == SubSeq(Path[tip], job.height + 1, job.height + count)
           m == IF job.cp > 0 THEN BranchAndRoot(hashes, p).branch ELSE <<>>
           j == [job EXCEPT !.blocks = x, !.branch = m]
<1>2. job' \in {Done(job, "ok"), Done(j, "ok")}
  BY DEF BlockHeaders, Step
<1> HIDE DEF x, m
<1>3. DOMAIN j = Fields /\ j.route = job.route
  BY <1>1 DEF Fields
<1> HIDE DEF j
<1>4. Goes(job, Done(job, "ok")) /\ Goes(job, Done(j, "ok"))
  BY <1>1, <1>3, DoneGoes DEF Goes
<1> QED BY <1>2, <1>4

LEMMA SpenderInPoolGoes ==
  ASSUME IsJob(job), SpenderInPool
  PROVE  Goes(job, job')
<1>1. DOMAIN job = Fields /\ job.route = "outspend"
  BY DEF IsJob, SpenderInPool, Stations
<1> DEFINE l == InPool(CHOOSE t \in { t \in pool : job.outpoint \in Inputs[t] } : TRUE)
           j == [job EXCEPT !.spender = l]
           n == [job EXCEPT !.at = "refs"]
<1>2. job' \in {AtTip(j, "spent", -1), AtTip(job, "unspent", -1), n}
  BY DEF SpenderInPool, Step
<1> HIDE DEF l
<1>3. DOMAIN j = Fields /\ j.route = job.route
  BY <1>1 DEF Fields
<1>4. DOMAIN n = Fields /\ n.at = "refs" /\ n.route = job.route
  BY <1>1 DEF Fields
<1> HIDE DEF j, n
<1>5. Goes(job, AtTip(j, "spent", -1)) /\ Goes(job, AtTip(job, "unspent", -1))
  BY <1>1, <1>3, AtTipGoes DEF Goes
<1>6. Goes(job, n)
  BY <1>1, <1>4 DEF Goes, IsJob, Stations
<1> QED BY <1>2, <1>5, <1>6

LEMMA ScanRefsGoes ==
  ASSUME IsJob(job), ScanRefs
  PROVE  Goes(job, job')
<1>1. DOMAIN job = Fields /\ job.route = "outspend"
  BY DEF IsJob, ScanRefs, Stations
<1>2. \E l : job' = [job EXCEPT !.at = "check", !.tip = tip, !.spender = l]
  BY DEF ScanRefs, Step
<1>3. DOMAIN job' = Fields /\ job'.at = "check" /\ job'.route = job.route
  BY <1>1, <1>2 DEF Fields
<1> QED BY <1>1, <1>3 DEF Goes, IsJob, Stations

LEMMA CheckTipGoes ==
  ASSUME IsJob(job), CheckTip
  PROVE  Goes(job, job')
<1>1. DOMAIN job = Fields /\ job.route = "outspend"
  BY DEF IsJob, CheckTip, Stations
<1> DEFINE m == [job EXCEPT !.at = "refs", !.tries = @ + 1]
           n == [job EXCEPT !.at = "spent time"]
           u == AtTip(job, "unspent", -1)
           r == Done(job, "reorg")
<1>2. job' = CASE tip # job.tip /\ LastTry(job.tries) -> r
               [] tip # job.tip /\ ~LastTry(job.tries) -> m
               [] tip = job.tip /\ job.spender = Nowhere -> u
               [] OTHER -> n
  BY DEF CheckTip, Step
<1>3. /\ DOMAIN m = Fields /\ m.at = "refs" /\ m.route = job.route
      /\ DOMAIN n = Fields /\ n.at = "spent time" /\ n.route = job.route
  BY <1>1 DEF Fields
<1>4. Goes(job, u) /\ Goes(job, r)
  BY <1>1, AtTipGoes, DoneGoes
<1> HIDE DEF m, n, u, r
<1>5. Goes(job, m) /\ Goes(job, n)
  BY <1>1, <1>3 DEF Goes, IsJob, Stations
<1> QED BY <1>2, <1>4, <1>5

LEMMA SpenderTimeGoes ==
  ASSUME IsJob(job), SpenderTime
  PROVE  Goes(job, job')
<1>1. DOMAIN job = Fields
  BY DEF IsJob
<1> DEFINE b == BlockTime(tip, job.spender.height)
           h == job.spender.height
           l == [job.spender EXCEPT !.time = b]
           j == [job EXCEPT !.spender = l]
<1>2. [job EXCEPT !.spender.time = b] = j
  BY <1>1 DEF Fields
<1>3. job' \in {Done(job, "404"), AtTip(j, "spent", h)}
  BY <1>2 DEF SpenderTime, Step
<1> HIDE DEF b, l, h
<1>4. DOMAIN j = Fields /\ j.route = job.route
  BY <1>1 DEF Fields
<1> HIDE DEF j
<1>5. Goes(job, Done(job, "404")) /\ Goes(job, AtTip(j, "spent", h))
  BY <1>1, <1>4, DoneGoes, AtTipGoes DEF Goes
<1> QED BY <1>3, <1>5

LEMMA HistoryFailsGoes ==
  ASSUME IsJob(job), HistoryFails
  PROVE  Goes(job, job')
BY DoneGoes DEF IsJob, HistoryFails, Step

LEMMA HistoryGoes ==
  ASSUME IsJob(job), History
  PROVE  Goes(job, job')
<1>1. /\ DOMAIN job = Fields /\ job.at = "history"
      /\ job.route \in {"utxo", "listunspent", "txs", "txs chain", "txs mempool"}
  BY DEF IsJob, History, Stations
<1> DEFINE s == Head(job.keys)
           ks == Only(job.keys, Scripts \ {s})
           rs == job.rows \cup { l \in Rows(tip, s) : \A m \in job.rows : m.tx # l.tx }
           us == job.utxos \cup Utxos(tip, s)
           j == [job EXCEPT !.keys = ks, !.rows = rs, !.utxos = us]
           many == Peak(tip, s) > UtxosLimit
           n == [j EXCEPT !.at = "mempool"]
<1>2. job' = CASE j.keys # <<>> -> j
               [] j.keys = <<>> /\ j.route = "txs chain" -> Select(j, <<>>)
               [] j.keys = <<>> /\ j.route = "utxo" /\ many -> Done(j, "400")
               [] OTHER -> n
  BY DEF History, Step
<1> HIDE DEF ks, rs, us, many
<1>3. DOMAIN j = Fields /\ j.at = job.at /\ j.route = job.route
  BY <1>1 DEF Fields
<1> HIDE DEF j
<1>4. DOMAIN n = Fields /\ n.at = "mempool" /\ n.route = job.route
  BY <1>3 DEF Fields
<1> HIDE DEF n
<1>5. Goes(job, j)
  BY <1>1, <1>3 DEF Goes, IsJob, Stations
<1>6. Goes(job, Done(j, "400"))
  BY <1>3, DoneGoes DEF Goes
<1>7. j.route = "txs chain" => Goes(job, Select(j, <<>>))
  BY <1>3, SelectGoes DEF Goes
<1>8. job.route # "txs chain" => Goes(job, n)
  BY <1>1, <1>4 DEF Goes, IsJob, Stations
<1> DEFINE z == Select(j, <<>>)
           d == Done(j, "400")
<1> HIDE DEF z, d
<1>9. job' = CASE j.keys # <<>> -> j
               [] j.keys = <<>> /\ j.route = "txs chain" -> z
               [] j.keys = <<>> /\ j.route = "utxo" /\ many -> d
               [] OTHER -> n
  BY <1>2 DEF z, d
<1>10. \/ job' = j \/ (j.route = "txs chain" /\ job' = z) \/ job' = d
       \/ (j.route # "txs chain" /\ job' = n)
  BY <1>9
<1> QED BY <1>3, <1>5, <1>6, <1>7, <1>8, <1>10 DEF z, d

LEMMA MempoolGoes ==
  ASSUME IsJob(job), Mempool
  PROVE  Goes(job, job')
<1>1. /\ DOMAIN job = Fields
      /\ job.route \in {"utxo", "listunspent", "txs", "txs mempool"}
  BY DEF IsJob, Mempool, Stations
<1> DEFINE s == job.scripts[1]
           view == ScriptView(IndexOf(pool), s, { Outpoint(u) : u \in job.utxos },
                              { l.tx : l \in job.rows })
           us == { u \in job.utxos : ~SpentInPool(Outpoint(u)) }
           w == Unconfirmed(s)
           x == { u \in job.utxos : Outpoint(u) \notin view.spent_confirmed }
                \cup { <<InPool(o[1]), s>> : o \in view.utxos }
           k == Select(job, MempoolTxids(job))
           m == [job EXCEPT !.utxos = us, !.shown = w, !.at = "utxo block"]
           j == [job EXCEPT !.shown = x]
           n == Done(j, "ok")
<1>2. job' = CASE job.route \in Lists -> k
               [] job.route = "utxo" -> m
               [] job.route = "listunspent" -> n
  BY DEF Mempool, Step
<1> HIDE DEF us, w, x
<1>3. /\ DOMAIN m = Fields /\ m.at = "utxo block" /\ m.route = job.route
      /\ DOMAIN j = Fields /\ j.route = job.route
  BY <1>1 DEF Fields
<1> HIDE DEF m, j
<1>4. Goes(job, n)
  <2>1. Goes(j, Done(j, "ok"))
    BY <1>3, DoneGoes
  <2> HIDE DEF view, k
  <2> QED BY <1>3, <2>1 DEF Goes
<1>5. job.route = "utxo" => Goes(job, m)
  BY <1>3 DEF Goes, IsJob, Stations
<1>6. job.route \in Lists => Goes(job, k)
  BY <1>1, SelectGoes DEF Lists
<1> HIDE DEF k, n
<1>7. \/ job.route \in Lists /\ job' = k
      \/ job.route = "utxo" /\ job' = m
      \/ job' = n
  BY <1>1, <1>2 DEF Lists
<1> QED BY <1>4, <1>5, <1>6, <1>7

LEMMA UtxoGoes ==
  ASSUME IsJob(job), UtxoBlock \/ UtxoTime
  PROVE  Goes(job, job')
<1>1. DOMAIN job = Fields /\ job.route = "utxo"
  BY DEF IsJob, UtxoBlock, UtxoTime, Stations
<1>2. \A a : Goes(job, Done(job, a))
  BY <1>1, DoneGoes
<1>3. ASSUME NEW b PROVE Goes(job, [job EXCEPT !.at = "utxo time", !.header = b])
  <2> DEFINE k == [job EXCEPT !.at = "utxo time", !.header = b]
  <2>1. DOMAIN k = Fields /\ k.at = "utxo time" /\ k.route = job.route
    BY <1>1 DEF Fields
  <2> HIDE DEF k
  <2>2. Goes(job, k)
    BY <1>1, <2>1 DEF Goes, IsJob, Stations
  <2> QED BY <2>2 DEF k
<1>4. ASSUME NEW us, NEW x PROVE Goes(job, [job EXCEPT !.at = "utxo block", !.utxos = us, !.shown = x])
  <2> DEFINE k == [job EXCEPT !.at = "utxo block", !.utxos = us, !.shown = x]
  <2>1. DOMAIN k = Fields /\ k.at = "utxo block" /\ k.route = job.route
    BY <1>1 DEF Fields
  <2> HIDE DEF k
  <2>2. Goes(job, k)
    BY <1>1, <2>1 DEF Goes, IsJob, Stations
  <2> QED BY <2>2 DEF k
<1>5. CASE UtxoBlock
  <2>1. \/ \E a : job' = Done(job, a)
        \/ \E b : job' = [job EXCEPT !.at = "utxo time", !.header = b]
    BY <1>5 DEF UtxoBlock, Step
  <2> QED BY <1>2, <1>3, <2>1
<1>6. CASE UtxoTime
  <2> DEFINE now == { u \in job.utxos : u[1].height = Lowest }
             b == BlockTime(tip, Lowest)
             us == job.utxos \ now
             x == job.shown \cup { <<[u[1] EXCEPT !.block = job.header, !.time = b], u[2]>>
                                   : u \in now }
             k == [job EXCEPT !.at = "utxo block", !.utxos = us, !.shown = x]
  <2>1. job' \in {Done(job, "404"), k}
    BY <1>6 DEF UtxoTime, Step
  <2> HIDE DEF us, x
  <2>2. Goes(job, k)
    BY <1>4
  <2> HIDE DEF k
  <2> QED BY <1>2, <2>1, <2>2
<1> QED BY <1>5, <1>6

LEMMA PageGoes ==
  ASSUME IsJob(job), Page
  PROVE  Goes(job, job')
<1>1. DOMAIN job = Fields /\ job.route \in {"mempool page", "mempool txs"}
  BY DEF IsJob, Page, Stations
<1> DEFINE page == PagedTxids(job)
           x == job.list \o [i \in DOMAIN page |-> InPool(page[i])]
           j == [job EXCEPT !.list = x]
<1>2. job' = IF job.route = "mempool txs" THEN Take(job, page) ELSE PageDone(j)
  BY DEF Page, Step
<1> HIDE DEF x, page
<1>3. DOMAIN j = Fields /\ j.route = job.route
  BY <1>1 DEF Fields
<1> HIDE DEF j
<1>4. Goes(job, PageDone(j))
  BY <1>3, PageDoneGoes DEF Goes
<1>5. job.route = "mempool txs" => Goes(job, Take(job, page))
  BY <1>1, TakeGoes DEF Lists
<1> QED BY <1>2, <1>4, <1>5

LEMMA MoreGoes ==
  ASSUME IsJob(job), More
  PROVE  Goes(job, job')
<1>1. DOMAIN job = Fields /\ job.route \in {"txs chain", "mempool page"}
  BY DEF IsJob, More, Stations, Walks
<1> DEFINE a == IF job.route = "mempool page" THEN "page" ELSE "history"
<1>2. job' = [job EXCEPT !.at = a, !.keys = job.scripts, !.rows = {}, !.utxos = {}]
  BY DEF More, Step
<1> HIDE DEF a
<1>3. DOMAIN job' = Fields /\ job'.at = a /\ job'.route = job.route
  BY <1>1, <1>2 DEF Fields
<1> QED BY <1>1, <1>3 DEF Goes, IsJob, Stations, a

LEMMA DeadlineGoes ==
  ASSUME IsJob(job), Deadline
  PROVE  Goes(job, job')
BY DoneGoes DEF IsJob, Deadline, Step

LEMMA BlocksGoes ==
  ASSUME IsJob(job), FirstTip \/ ListBlock
  PROVE  Goes(job, job')
<1>1. DOMAIN job = Fields /\ job.route \in {"blocks", "tip hash"}
  BY DEF IsJob, FirstTip, ListBlock, Stations
<1>2. CASE FirstTip
  <2>1. job' = [job EXCEPT !.at = "listing", !.height = Height(tip)]
    BY <1>2 DEF FirstTip, Step
  <2>2. DOMAIN job' = Fields /\ job'.at = "listing" /\ job'.route = job.route
    BY <1>1, <2>1 DEF Fields
  <2> QED BY <1>1, <2>2 DEF Goes, IsJob, Stations
<1>3. CASE ListBlock
  <2> DEFINE b == HashAt(tip, job.height)
             x == Append(job.blocks, b)
             j == [job EXCEPT !.blocks = x, !.height = @ - 1]
             limit == IF job.route = "blocks" THEN BlockLimit ELSE 1
             a == IF job.blocks = <<>> THEN "404" ELSE "ok"
             last == b # NoBlock /\ (job.height = 0 \/ Len(j.blocks) = limit)
             d == Done(job, a)
             e == Done(j, "ok")
  <2>1. job' = CASE b = NoBlock -> d [] last -> e [] OTHER -> j
    BY <1>3 DEF ListBlock, Step
  <2> HIDE DEF x, a, last
  <2>2. DOMAIN j = Fields /\ j.at = job.at /\ j.route = job.route /\ job.at = "listing"
    BY <1>1, <1>3 DEF Fields, ListBlock
  <2> HIDE DEF j, b
  <2>3. Goes(job, d)
    BY <1>1, DoneGoes
  <2>4. Goes(j, e)
    BY <2>2, DoneGoes
  <2>5. Goes(job, e)
    BY <2>2, <2>4 DEF Goes
  <2>6. Goes(job, j)
    BY <1>1, <2>2 DEF Goes, IsJob, Stations
  <2> HIDE DEF d, e
  <2> QED BY <2>1, <2>3, <2>5, <2>6
<1> QED BY <1>2, <1>3

LEMMA BlockAtHeightGoes ==
  ASSUME IsJob(job), BlockAtHeight
  PROVE  Goes(job, job')
<1>1. DOMAIN job = Fields
  BY DEF IsJob
<1> DEFINE b == HashAt(tip, job.height)
           j == [job EXCEPT !.blocks = <<b>>]
<1>2. job' \in {Done(job, "404"), AtTip(j, "ok", job.height)}
  BY DEF BlockAtHeight, Step
<1> HIDE DEF b
<1>3. DOMAIN j = Fields /\ j.route = job.route
  BY <1>1 DEF Fields
<1> HIDE DEF j
<1>4. Goes(job, Done(job, "404")) /\ Goes(job, AtTip(j, "ok", job.height))
  BY <1>1, <1>3, DoneGoes, AtTipGoes DEF Goes
<1> QED BY <1>2, <1>4

LEMMA BestGoes ==
  ASSUME IsJob(job), InBestChain \/ NextBest
  PROVE  Goes(job, job')
<1>1. DOMAIN job = Fields /\ job.route \in {"block status", "block txs"}
  BY DEF IsJob, InBestChain, NextBest, Stations
<1> DEFINE h == Height(job.block)
           x == <<HashAt(tip, h + 1)>>
           j == [job EXCEPT !.blocks = x]
           n == [job EXCEPT !.at = "next"]
<1>2. \/ \E a, i : job' = AtTip(job, a, i)
      \/ job' = n
      \/ job' = AtTip(j, "best", h)
  BY DEF InBestChain, NextBest, Step
<1> HIDE DEF x, h
<1>3. /\ DOMAIN j = Fields /\ j.route = job.route
      /\ DOMAIN n = Fields /\ n.at = "next" /\ n.route = job.route
  BY <1>1 DEF Fields
<1> HIDE DEF j, n
<1>4. \A a, i : Goes(job, AtTip(job, a, i))
  BY <1>1, AtTipGoes
<1>5. Goes(j, AtTip(j, "best", h))
  BY <1>3, AtTipGoes
<1>6. Goes(job, AtTip(j, "best", h))
  BY <1>3, <1>5 DEF Goes
<1>7. Goes(job, n)
  BY <1>1, <1>3 DEF Goes, IsJob, Stations
<1> QED BY <1>2, <1>4, <1>6, <1>7

LEMMA ReadTipGoes ==
  ASSUME IsJob(job), ReadTip
  PROVE  /\ Goes(job, job') /\ job'.at = "done"
         /\ \A f \in Fields \ {"at", "ttl"} : job'[f] = job[f]
<1> DEFINE k == Done(job, job.answer)
           x == TtlByDepth(job.height, Height(tip))
<1>1. /\ DOMAIN k = Fields /\ k.at = "done" /\ k.route = job.route /\ k.answer = job.answer
      /\ \A f \in Fields \ {"at", "answer"} : k[f] = job[f]
  BY DoneGoes DEF IsJob, Goes
<1>2. job' = [k EXCEPT !.ttl = x]
  BY DEF ReadTip, Step
<1> HIDE DEF k, x
<1>3. DOMAIN job' = Fields /\ job'.at = "done" /\ job'.route = job.route
  BY <1>1, <1>2 DEF Fields
<1>4. \A f \in Fields \ {"at", "ttl"} : job'[f] = job[f]
  BY <1>1, <1>2
<1> QED BY <1>3, <1>4 DEF Goes, IsJob, Stations

-----------------------------------------------------------------------------
(* What was not there, at one moment of a request or another *)

\* Not in the mempool once, and not in the chain now: in neither, then.
LEMMA UnseenUnserved ==
  ASSUME NEW P, NEW k, NEW S, Current(P, k, S), NEW t, Unseen(P, t), t \notin Mined(k)
  PROVE  Unserved(P, t)
<1>1. PICK v \in P : t \notin v[2]
  BY DEF Unseen
<1>2. t \notin Mined(v[1])
  BY GrownLocations DEF Current
<1> QED BY <1>1, <1>2 DEF Unserved, Served

\* Not in the chain once, and not mined since.
LEMMA UnminedStays ==
  ASSUME NEW P, NEW k, NEW S, Current(P, k, S), NEW t, Unmined(P, t), ~ArrivedIn(P, t)
  PROVE  t \notin Mined(k) /\ (t \notin S => Unserved(P, t))
<1>1. <<k, S>> \in P /\ <<k, S>>[1] = k /\ <<k, S>>[2] = S
  BY DEF Current
<1>2. t \notin Mined(k)
  BY <1>1 DEF Unmined, ArrivedIn
<1> QED BY <1>1, <1>2 DEF Unserved, Served

\* What was in a block is there as long as the chain only grows.
LEMMA PlacedNow ==
  ASSUME NEW P, NEW k, NEW S, Current(P, k, S), NEW l, Placed(P, l)
  PROVE  /\ HashAt(k, l.height) # NoBlock
         /\ \E m \in Locations(k) : m.tx = l.tx /\ m.height = l.height
<1>1. PICK v \in P : \E m \in Locations(v[1]) : m.tx = l.tx /\ m.height = l.height
  BY DEF Placed
<1>2. PICK m \in Locations(v[1]) : m.tx = l.tx /\ m.height = l.height
  BY <1>1
<1>3. k \in Blocks /\ m \in Locations(k)
  BY GrownLocations DEF Current
<1>4. HashAt(k, m.height) \in Blocks
  BY <1>3, LocationFacts
<1> QED BY <1>2, <1>3, <1>4, QueriesAssumption DEF QueriesAssumption

-----------------------------------------------------------------------------
(* The scan for a spender *)

\* A chain has at most one of them.
LEMMA SpendsOnce ==
  ASSUME NEW k \in Blocks, NEW o, NEW h, NEW l \in Spends(k, o, h), NEW m \in Spends(k, o, h)
  PROVE  l = m /\ l \in Locations(k)
<1>1. l \in Locations(k) /\ m \in Locations(k) /\ o \in Inputs[l.tx] /\ o \in Inputs[m.tx]
  BY DEF Spends, Rows
<1>2. l.tx \in Mined(k) /\ m.tx \in Mined(k)
  BY <1>1 DEF Mined
<1>3. l.tx = m.tx
  BY <1>1, <1>2, ChainAssumption DEF ChainAssumption, ConflictFree
<1> QED BY <1>1, <1>3, ChainAssumption DEF ChainAssumption

LEMMA SpendsChosen ==
  ASSUME NEW k \in Blocks, NEW o, NEW h, Spends(k, o, h) # {}
  PROVE  LET spends == Spends(k, o, h)
             l == CHOOSE m \in spends : \A n \in spends : ~Before(n, m)
         IN  l \in spends /\ l \in Locations(k)
<1> DEFINE spends == Spends(k, o, h)
<1>1. PICK m \in spends : TRUE
  OBVIOUS
<1>2. m \in Locations(k) /\ \A n \in spends : n = m
  BY SpendsOnce
<1>3. m.height \in Nat /\ m.pos \in Nat
  BY <1>2, LocationFacts
<1>4. \A n \in spends : ~Before(n, m)
  BY <1>2, <1>3 DEF Before
<1> HIDE DEF spends
<1> DEFINE l == CHOOSE n \in spends : \A i \in spends : ~Before(i, n)
<1>5. l \in spends
  BY <1>1, <1>4
<1> QED BY <1>2, <1>5 DEF spends

\* No spender is below the funding transaction, so the scan misses none.
LEMMA SpendsAll ==
  ASSUME NEW k \in Blocks, NEW o \in Outpoints, NEW f \in Locations(k), f.tx = o[1],
         NEW t \in Mined(k), o \in Inputs[t]
  PROVE  \E l \in Spends(k, o, f.height) : l.tx = t
<1>1. PICK l \in Locations(k) : l.tx = t
  BY DEF Mined
<1>2. PICK m \in Locations(k) : m.tx = o[1] /\ Before(m, l)
  BY <1>1, ChainAssumption DEF ChainAssumption
<1>3. m = f
  BY <1>2, ChainAssumption DEF ChainAssumption
<1>4. f.height \in Nat /\ f.pos \in Nat /\ l.height \in Nat /\ l.pos \in Nat
  BY LocationFacts
<1>5. f.height <= l.height /\ l # f
  BY <1>2, <1>3, <1>4 DEF Before
<1>6. l.tx # o[1]
  BY <1>5, ChainAssumption DEF ChainAssumption
<1>7. FromHeight(k, f.height) \in {0, f.height}
  BY DEF FromHeight
<1>8. l.height >= FromHeight(k, f.height)
  BY <1>4, <1>5, <1>7
<1>9. l \in Rows(k, o[2])
  BY <1>1 DEF Rows, Touching
<1> QED BY <1>1, <1>6, <1>8, <1>9 DEF Spends

-----------------------------------------------------------------------------
(* What a request knows on its way *)

\* More views take nothing of it away.
LEMMA SoundGrows ==
  ASSUME NEW P, NEW Q, P \subseteq Q, NEW j, Sound(P, j)
  PROVE  Sound(Q, j)
<1>1. \A t : /\ Unseen(P, t) => Unseen(Q, t)
             /\ Unmined(P, t) => Unmined(Q, t)
             /\ Unserved(P, t) => Unserved(Q, t)
             /\ ArrivedIn(P, t) => ArrivedIn(Q, t)
  BY DEF Unseen, Unmined, Unserved, ArrivedIn
<1>2. \A o : (Unclaimed(P, o) => Unclaimed(Q, o)) /\ (Open(P, o) => Open(Q, o))
  BY DEF Unclaimed, Open
<1>3. Placed(P, j.found) => Placed(Q, j.found)
  BY DEF Placed
<1>4. ASSUME GetSound(P, j) PROVE GetSound(Q, j)
  BY <1>1, <1>4 DEF GetSound
<1>5. ASSUME TxSound(P, j) PROVE TxSound(Q, j)
  BY <1>1, <1>3, <1>5 DEF TxSound
<1>6. ASSUME OutSound(P, j) PROVE OutSound(Q, j)
  BY <1>1, <1>2, <1>3, <1>6 DEF OutSound
<1> QED BY <1>4, <1>5, <1>6 DEF Sound

LEMMA SoundRoutes ==
  ASSUME NEW P, NEW j
  PROVE  /\ j.route = "get" /\ GetSound(P, j) => Sound(P, j)
         /\ j.route \in {"tx", "status"} /\ TxSound(P, j) => Sound(P, j)
         /\ j.route = "outspend" /\ OutSound(P, j) => Sound(P, j)
         /\ j.route \notin Single => Sound(P, j)
BY DEF Sound, Single

-----------------------------------------------------------------------------
(* Every read keeps what the request knows *)

\* k is about the same transaction as j.
Keeps(j, k) ==
  k.route = j.route /\ k.todo = j.todo /\ k.found = j.found /\ k.outpoint = j.outpoint

LEMMA DoneKeeps ==
  ASSUME NEW j, DOMAIN j = Fields, NEW a
  PROVE  Keeps(j, Done(j, a)) /\ Done(j, a).at = "done" /\ Done(j, a).answer = a
BY DEF Done, Fields, Keeps

LEMMA AtTipKeeps ==
  ASSUME NEW j, DOMAIN j = Fields, NEW a, NEW h
  PROVE  Keeps(j, AtTip(j, a, h)) /\ AtTip(j, a, h).at = "tip" /\ AtTip(j, a, h).answer = a
BY DEF AtTip, Fields, Keeps

\* A request that ends says nothing it does not know.
LEMMA TxEnds ==
  ASSUME NEW P, NEW j, NEW k, Keeps(j, k), k.at \in {"tip", "done"},
         k.answer = "404" /\ ~ArrivedIn(P, Head(j.todo)) => Unserved(P, Head(j.todo)),
         k.answer = "missing" => \E o \in Inputs[j.found.tx] : Unserved(P, o[1])
  PROVE  TxSound(P, k)
BY DEF TxSound, Keeps

LEMMA OutEnds ==
  ASSUME NEW P, NEW j, NEW k, Keeps(j, k), k.at \in {"tip", "done"}, Funded(j),
         k.answer = "unspent" /\ ~ArrivedIn(P, j.outpoint[1])
           => Unserved(P, j.outpoint[1]) \/ Open(P, j.outpoint)
  PROVE  OutSound(P, k)
BY DEF OutSound, Keeps, Funded

LEMMA ResolveSound ==
  ASSUME NEW P, NEW j, DOMAIN j = Fields, j.route = "tx", j.answer = "none",
         j.inputs \subseteq Inputs[j.found.tx]
  PROVE  TxSound(P, Resolve(j))
<1>1. CASE j.inputs # {}
  <2> DEFINE k == [j EXCEPT !.at = "prevout"]
  <2>1. /\ Resolve(j) = k /\ k.at = "prevout" /\ k.inputs = j.inputs /\ k.found = j.found
        /\ k.answer = "none"
    BY <1>1 DEF Fields, Resolve
  <2> HIDE DEF k
  <2> QED BY <1>1, <2>1 DEF TxSound
<1>2. CASE j.inputs = {}
  <2> DEFINE k == AtTip(j, "ok", j.found.height)
  <2>1. Resolve(j) = k
    BY <1>2 DEF Resolve
  <2>2. Keeps(j, k) /\ k.at = "tip" /\ k.answer = "ok"
    BY AtTipKeeps
  <2> HIDE DEF k
  <2> QED BY <2>1, <2>2, TxEnds
<1> QED BY <1>1, <1>2

LEMMA FoundGet ==
  ASSUME NEW P, NEW j, DOMAIN j = Fields, j.route = "get", NEW l,
         l.place = "none" => Unserved(P, Head(j.todo))
  PROVE  GetSound(P, Found(j, l))
<1> DEFINE k == Holding(j, l)
           a == IF l.place = "none" THEN "404" ELSE "ok"
           d == Done(k, a)
<1>1. DOMAIN k = Fields /\ k.todo = j.todo
  BY HoldingFacts DEF Held
<1>2. Found(j, l) = d
  BY FoundCases
<1> HIDE DEF k
<1>3. a = "404" => l.place = "none"
  OBVIOUS
<1> HIDE DEF a
<1>4. d.at = "done" /\ d.answer = a /\ d.todo = k.todo
  BY <1>1, DoneKeeps DEF Keeps
<1> HIDE DEF d
<1> QED BY <1>1, <1>2, <1>3, <1>4 DEF GetSound

LEMMA FoundTx ==
  ASSUME NEW P, NEW j, DOMAIN j = Fields, j.route \in {"tx", "status"}, j.answer = "none", NEW l,
         l.place = "none" /\ ~ArrivedIn(P, Head(j.todo)) => Unserved(P, Head(j.todo))
  PROVE  TxSound(P, Found(j, l))
<1> DEFINE k == Holding(j, l)
<1>1. /\ DOMAIN k = Fields /\ k.todo = j.todo /\ k.route = j.route /\ k.answer = "none"
      /\ k.found = l /\ k.inputs = IF l.tx = NoTx THEN {} ELSE Inputs[l.tx]
  <2>1. Held(j, l, k)
    BY HoldingFacts
  <2> HIDE DEF k
  <2> QED BY <2>1 DEF Held
<1>2. /\ j.route = "tx" =>
           Found(j, l) = IF l.place = "none" THEN Done(k, "404") ELSE Resolve(k)
      /\ j.route = "status" =>
           Found(j, l) = IF l.place = "none" THEN Done(k, "404") ELSE AtTip(k, "ok", l.height)
  BY FoundCases
<1> HIDE DEF k
<1>3. k.inputs \subseteq Inputs[k.found.tx]
  BY <1>1
<1>4. l.place = "none" => TxSound(P, Done(k, "404"))
  BY <1>1, DoneKeeps, TxEnds
<1>5. TxSound(P, AtTip(k, "ok", l.height))
  BY <1>1, AtTipKeeps, TxEnds
<1>6. j.route = "tx" => TxSound(P, Resolve(k))
  BY <1>1, <1>3, ResolveSound
<1> QED BY <1>2, <1>4, <1>5, <1>6

LEMMA FoundOut ==
  ASSUME NEW P, P # {}, NEW j, DOMAIN j = Fields, j.route = "outspend", Funded(j), NEW l,
         l.place = "none" /\ ~ArrivedIn(P, j.outpoint[1]) => Unserved(P, j.outpoint[1]),
         l.place # "none" =>
           /\ l.tx = j.outpoint[1]
           /\ (l.place = "pool" /\ Unmined(P, j.outpoint[1])) \/ Placed(P, l)
  PROVE  OutSound(P, Found(j, l))
<1> DEFINE k == Holding(j, l)
<1>0. Held(j, l, k)
  BY HoldingFacts
<1> HIDE DEF k
<1>1. /\ DOMAIN k = Fields /\ k.todo = j.todo /\ k.route = j.route
      /\ k.found = l /\ k.outpoint = j.outpoint
  BY <1>0 DEF Held
<1> DEFINE n == [k EXCEPT !.at = "spender"]
           no == l.place = "none" \/ j.outpoint[2] \notin Outputs[l.tx]
           u == AtTip(k, "unspent", -1)
<1>2. Found(j, l) = IF no THEN u ELSE n
  BY FoundCases DEF k
<1>3. /\ n.at = "spender" /\ n.todo = j.todo /\ n.found = l /\ n.outpoint = j.outpoint
  BY <1>1 DEF Fields
<1>4. Keeps(k, u) /\ u.at = "tip" /\ u.answer = "unspent"
  BY <1>1, AtTipKeeps
<1> HIDE DEF n, u
<1>5. Funded(k)
  BY <1>1 DEF Funded
<1>6. ASSUME l.place # "none", j.outpoint[2] \notin Outputs[l.tx] PROVE Open(P, j.outpoint)
  <2>1. j.outpoint[2] \notin Outputs[j.outpoint[1]]
    BY <1>6
  <2>2. \A t \in Txids : j.outpoint \notin Inputs[t]
    BY <2>1, TransactionsAssumption DEF TransactionsAssumption
  <2> QED BY <2>2 DEF Open
<1>7. no => OutSound(P, u)
  BY <1>1, <1>4, <1>5, <1>6, OutEnds
<1>8. ~no => OutSound(P, n)
  BY <1>3 DEF OutSound, Funded
<1> HIDE DEF no
<1> QED BY <1>2, <1>7, <1>8

\* A request in hand, while the chain only grew: what the next read starts from.
Reads == IsJob(job) /\ Current(past, tip, pool) /\ Sound(past, job)

LEMMA ReadsFacts ==
  ASSUME Reads
  PROVE  /\ DOMAIN job = Fields /\ tip \in Blocks /\ past # {}
         /\ \A t : t \notin pool => Unseen(past, t)
         /\ \A t : t \notin Mined(tip) => Unmined(past, t)
         /\ \A l \in Locations(tip) : Placed(past, l)
         /\ \A o : (\A t \in pool : o \notin Inputs[t]) => Unclaimed(past, o)
<1>1. DOMAIN job = Fields /\ tip \in Blocks /\ <<tip, pool>> \in past
  BY DEF Reads, IsJob, Current
<1>2. /\ \A t : t \notin pool => Unseen(past, t)
      /\ \A t : t \notin Mined(tip) => Unmined(past, t)
      /\ \A o : (\A t \in pool : o \notin Inputs[t]) => Unclaimed(past, o)
  BY <1>1 DEF Unseen, Unmined, Unclaimed
<1>3. \A l \in Locations(tip) : Placed(past, l)
  BY <1>1, LocationFacts DEF Placed
<1> QED BY <1>1, <1>2, <1>3

LEMMA LocateSound ==
  ASSUME Reads, Locate
  PROVE  Sound(past, job')
<1>1. /\ DOMAIN job = Fields /\ Sound(past, job) /\ job.at = "locate" /\ Stations(job)
      /\ job'.route = job.route
  BY LocateGoes DEF Reads, IsJob, Locate, Goes
<1>2. ASSUME NEW l \in Locations(tip), l.tx = Head(job.todo),
             job' = [job EXCEPT !.found = l, !.at = "time"]
      PROVE  Sound(past, job')
  <2>1. /\ job'.at = "time" /\ job'.found = l /\ job'.todo = job.todo
        /\ job'.outpoint = job.outpoint /\ job'.answer = job.answer
    BY <1>1, <1>2 DEF Fields
  <2>2. Placed(past, l)
    BY ReadsFacts
  <2>3. CASE job.route \in {"tx", "status"}
    <3>1. job.answer = "none"
      BY <1>1, <2>3 DEF Sound, TxSound
    <3>2. TxSound(past, job')
      BY <2>1, <2>2, <3>1 DEF TxSound
    <3> QED BY <1>1, <2>3, <3>2, SoundRoutes
  <2>4. CASE job.route = "outspend"
    <3>1. Funded(job)
      BY <1>1, <2>4 DEF Sound, OutSound
    <3>2. OutSound(past, job')
      BY <1>2, <2>1, <2>2, <3>1 DEF OutSound, Funded
    <3> QED BY <1>1, <2>4, <3>2, SoundRoutes
  <2>5. job.route # "get"
    BY <1>1 DEF Stations, Lists
  <2> QED BY <1>1, <2>3, <2>4, <2>5, SoundRoutes DEF Single
<1>3. ASSUME Head(job.todo) \notin Mined(tip), job' = [job EXCEPT !.at = "pool"]
      PROVE  Sound(past, job')
  <2>1. /\ job'.at = "pool" /\ job'.todo = job.todo
        /\ job'.outpoint = job.outpoint /\ job'.answer = job.answer
    BY <1>1, <1>3 DEF Fields
  <2>2. Unmined(past, Head(job.todo))
    BY <1>3, ReadsFacts
  <2>3. CASE job.route \in {"tx", "status"}
    <3>1. job.answer = "none"
      BY <1>1, <2>3 DEF Sound, TxSound
    <3>2. TxSound(past, job')
      BY <2>1, <2>2, <3>1 DEF TxSound
    <3> QED BY <1>1, <2>3, <3>2, SoundRoutes
  <2>4. CASE job.route = "outspend"
    <3>1. Funded(job)
      BY <1>1, <2>4 DEF Sound, OutSound
    <3>2. OutSound(past, job')
      BY <2>1, <2>2, <3>1 DEF OutSound, Funded
    <3> QED BY <1>1, <2>4, <3>2, SoundRoutes
  <2>5. job.route # "get"
    BY <1>1 DEF Stations, Lists
  <2> QED BY <1>1, <2>3, <2>4, <2>5, SoundRoutes DEF Single
<1> QED BY <1>2, <1>3 DEF Locate, Step

\* The block of a transaction that was found is there when its time is read.
LEMMA FindTimeSound ==
  ASSUME Reads, FindTime
  PROVE  Sound(past, job')
<1>1. /\ DOMAIN job = Fields /\ Sound(past, job) /\ job.at = "time" /\ Stations(job)
      /\ job'.route = job.route /\ Current(past, tip, pool) /\ past # {}
  BY FindTimeGoes, ReadsFacts DEF Reads, IsJob, FindTime, Goes
<1>2. SUFFICES ASSUME job.route \in {"tx", "status", "outspend"} PROVE Sound(past, job')
  BY <1>1, SoundRoutes DEF Stations, Lists, Single
<1>3. Placed(past, job.found)
  BY <1>1, <1>2 DEF Sound, TxSound, OutSound
<1> DEFINE b == BlockTime(tip, job.found.height)
           l == [job.found EXCEPT !.time = b]
<1>4. b # NoBlock
  BY <1>1, <1>3, PlacedNow DEF BlockTime
<1>5. job' = Found(job, l)
  BY <1>4 DEF FindTime, Step
<1>6. l.place = job.found.place /\ l.tx = job.found.tx /\ l.height = job.found.height
  OBVIOUS
<1> HIDE DEF b, l
<1>7. Placed(past, l) /\ l.place = "chain"
  BY <1>3, <1>6 DEF Placed
<1>8. CASE job.route \in {"tx", "status"}
  <2>1. job.answer = "none"
    BY <1>1, <1>8 DEF Sound, TxSound
  <2>2. TxSound(past, job')
    BY <1>1, <1>5, <1>7, <1>8, <2>1, FoundTx
  <2> QED BY <1>1, <1>8, <2>2, SoundRoutes
<1>9. CASE job.route = "outspend"
  <2>1. Funded(job) /\ job.found.tx = job.outpoint[1]
    BY <1>1, <1>9 DEF Sound, OutSound
  <2>2. OutSound(past, job')
    BY <1>1, <1>5, <1>6, <1>7, <1>9, <2>1, FoundOut
  <2> QED BY <1>1, <1>9, <2>2, SoundRoutes
<1> QED BY <1>2, <1>8, <1>9

LEMMA FindInPoolSound ==
  ASSUME Reads, FindInPool
  PROVE  Sound(past, job')
<1>1. /\ DOMAIN job = Fields /\ Sound(past, job) /\ job.at = "pool" /\ Stations(job)
      /\ job'.route = job.route /\ Current(past, tip, pool) /\ past # {}
  BY FindInPoolGoes, ReadsFacts DEF Reads, IsJob, FindInPool, Goes
<1>2. SUFFICES ASSUME job.route \in {"tx", "status", "outspend"} PROVE Sound(past, job')
  BY <1>1, SoundRoutes DEF Stations, Lists, Single
<1> DEFINE t == Head(job.todo)
           l == IF t \in pool THEN InPool(t) ELSE Nowhere
<1>3. job' = Found(job, l)
  BY DEF FindInPool, Step
<1>4. Unmined(past, t)
  BY <1>1, <1>2 DEF Sound, TxSound, OutSound, Funded
<1>5. /\ t \in pool => l.place = "pool" /\ l.tx = t
      /\ t \notin pool => l.place = "none"
  BY DEF InPool, Nowhere
<1> HIDE DEF t, l
<1>6. l.place = "none" /\ ~ArrivedIn(past, t) => Unserved(past, t)
  BY <1>1, <1>4, <1>5, UnminedStays
<1>7. CASE job.route \in {"tx", "status"}
  <2>1. job.answer = "none"
    BY <1>1, <1>7 DEF Sound, TxSound
  <2>2. TxSound(past, job')
    BY <1>1, <1>3, <1>6, <1>7, <2>1, FoundTx DEF t
  <2> QED BY <1>1, <1>7, <2>2, SoundRoutes
<1>8. CASE job.route = "outspend"
  <2>1. Funded(job) /\ t = job.outpoint[1]
    BY <1>1, <1>8 DEF Sound, OutSound, Funded, t
  <2>2. l.place # "none" => l.tx = job.outpoint[1] /\ l.place = "pool"
    BY <1>5, <2>1
  <2>3. OutSound(past, job')
    BY <1>1, <1>3, <1>4, <1>6, <1>8, <2>1, <2>2, FoundOut
  <2> QED BY <1>1, <1>8, <2>3, SoundRoutes
<1> QED BY <1>2, <1>7, <1>8

LEMMA GetFromPoolSound ==
  ASSUME Reads, GetFromPool
  PROVE  Sound(past, job')
<1>1. DOMAIN job = Fields /\ job.route = "get" /\ job'.route = "get"
  BY GetFromPoolGoes DEF Reads, IsJob, GetFromPool, Stations, Goes
<1> DEFINE t == Head(job.todo)
<1>2. CASE t \in pool
  <2>1. job' = Found(job, InPool(t)) /\ InPool(t).place # "none"
    BY <1>2 DEF GetFromPool, Step, InPool, Nowhere
  <2>2. GetSound(past, job')
    BY <1>1, <2>1, FoundGet
  <2> QED BY <1>1, <2>2, SoundRoutes
<1>3. CASE t \notin pool
  <2>1. job' = [job EXCEPT !.at = "get chain"]
    BY <1>3 DEF GetFromPool, Step
  <2>2. job'.at = "get chain" /\ job'.todo = job.todo
    BY <1>1, <2>1 DEF Fields
  <2>3. Unseen(past, t)
    BY <1>3, ReadsFacts
  <2>4. GetSound(past, job')
    BY <2>2, <2>3 DEF GetSound
  <2> QED BY <1>1, <2>4, SoundRoutes
<1> QED BY <1>2, <1>3

LEMMA GetFromChainSound ==
  ASSUME Reads, GetFromChain
  PROVE  Sound(past, job')
<1>1. /\ DOMAIN job = Fields /\ job.route = "get" /\ job'.route = "get" /\ job.at = "get chain"
      /\ Sound(past, job) /\ Current(past, tip, pool)
  BY GetFromChainGoes DEF Reads, IsJob, GetFromChain, Stations, Goes
<1>2. Unseen(past, Head(job.todo))
  BY <1>1 DEF Sound, GetSound
<1>3. PICK l : job' = Found(job, l) /\ (l.place = "none" => Head(job.todo) \notin Mined(tip))
  <2>1. ASSUME NEW m \in Locations(tip) PROVE m.place # "none"
    BY <1>1, LocationFacts DEF Current
  <2> QED BY <2>1 DEF GetFromChain, Step
<1>4. l.place = "none" => Unserved(past, Head(job.todo))
  BY <1>1, <1>2, <1>3, UnseenUnserved
<1>5. GetSound(past, job')
  BY <1>1, <1>3, <1>4, FoundGet
<1> QED BY <1>1, <1>5, SoundRoutes

LEMMA PrevoutFacts ==
  ASSUME Reads, job.at \in {"prevout", "funding"}, job.route = "tx"
  PROVE  /\ DOMAIN job = Fields /\ job.answer = "none" /\ job.inputs \subseteq Inputs[job.found.tx]
         /\ Input \in job.inputs
<1>1. DOMAIN job = Fields /\ TxSound(past, job)
  BY DEF Reads, IsJob, Sound
<1>2. /\ job.answer = "none" /\ job.inputs # {} /\ job.inputs \subseteq Inputs[job.found.tx]
  BY <1>1 DEF TxSound
<1> QED BY <1>1, <1>2 DEF Input

LEMMA InputTaken ==
  ASSUME Reads, job.at \in {"prevout", "funding"}, job.route = "tx"
  PROVE  TxSound(past, Resolve([job EXCEPT !.inputs = @ \ {Input}]))
<1> DEFINE i == job.inputs \ {Input}
           k == [job EXCEPT !.inputs = i]
<1>1. DOMAIN job = Fields /\ job.answer = "none" /\ i \subseteq Inputs[job.found.tx]
  BY PrevoutFacts
<1> HIDE DEF i
<1>2. /\ DOMAIN k = Fields /\ k.route = "tx" /\ k.answer = "none" /\ k.inputs = i
      /\ k.found = job.found
  BY <1>1 DEF Fields
<1>3. [job EXCEPT !.inputs = @ \ {Input}] = k
  BY DEF i
<1> HIDE DEF k
<1>4. TxSound(past, Resolve(k))
  BY <1>1, <1>2, ResolveSound
<1> QED BY <1>3, <1>4

LEMMA PrevoutInPoolSound ==
  ASSUME Reads, PrevoutInPool
  PROVE  Sound(past, job')
<1>1. job.at = "prevout" /\ job.route \in Lists \cup {"tx"} /\ job'.route = job.route
  BY PrevoutGoes DEF Reads, IsJob, PrevoutInPool, Stations, Goes
<1>2. SUFFICES ASSUME job.route = "tx" PROVE TxSound(past, job')
  BY <1>1, SoundRoutes DEF Lists, Single
<1>3. /\ DOMAIN job = Fields /\ job.answer = "none" /\ job.inputs \subseteq Inputs[job.found.tx]
      /\ Input \in job.inputs
  BY <1>1, <1>2, PrevoutFacts
<1>4. CASE Input[1] \in pool
  BY <1>1, <1>2, <1>4, InputTaken DEF PrevoutInPool, Step
<1>5. CASE Input[1] \notin pool
  <2>1. job' = [job EXCEPT !.at = "funding"]
    BY <1>5 DEF PrevoutInPool, Step
  <2>2. /\ job'.at = "funding" /\ job'.inputs = job.inputs /\ job'.found = job.found
        /\ job'.answer = job.answer
    BY <1>3, <2>1 DEF Fields
  <2>3. Unseen(past, Input[1])
    BY <1>5, ReadsFacts
  <2> QED BY <1>3, <2>2, <2>3 DEF TxSound, Input
<1> QED BY <1>4, <1>5

LEMMA PrevoutInChainSound ==
  ASSUME Reads, PrevoutInChain
  PROVE  Sound(past, job')
<1>1. /\ job.at = "funding" /\ job.route \in Lists \cup {"tx"} /\ job'.route = job.route
      /\ Sound(past, job) /\ Current(past, tip, pool)
  BY PrevoutGoes DEF Reads, IsJob, PrevoutInChain, Stations, Goes
<1>2. SUFFICES ASSUME job.route = "tx" PROVE TxSound(past, job')
  BY <1>1, SoundRoutes DEF Lists, Single
<1>3. /\ DOMAIN job = Fields /\ job.answer = "none" /\ job.inputs \subseteq Inputs[job.found.tx]
      /\ Input \in job.inputs
  BY <1>1, <1>2, PrevoutFacts
<1>4. CASE Input[1] \in Mined(tip)
  BY <1>1, <1>2, <1>4, InputTaken DEF PrevoutInChain, Step
<1>5. CASE Input[1] \notin Mined(tip)
  <2>1. job' = Done(job, "missing")
    BY <1>2, <1>5 DEF PrevoutInChain, Step, Missing
  <2>2. Unseen(past, Input[1])
    BY <1>1, <1>2 DEF Sound, TxSound, Input
  <2>3. Unserved(past, Input[1])
    BY <1>1, <1>5, <2>2, UnseenUnserved
  <2>4. \E o \in Inputs[job.found.tx] : Unserved(past, o[1])
    BY <1>3, <2>3
  <2>5. Keeps(job, job') /\ job'.at = "done" /\ job'.answer = "missing"
    BY <1>3, <2>1, DoneKeeps
  <2> QED BY <2>4, <2>5, TxEnds
<1> QED BY <1>4, <1>5

LEMMA OutspendFacts ==
  ASSUME Reads, job.route = "outspend"
  PROVE  /\ DOMAIN job = Fields /\ OutSound(past, job) /\ Funded(job)
         /\ Current(past, tip, pool) /\ tip \in Blocks
BY DEF Reads, IsJob, Sound, OutSound, Current

LEMMA SpenderInPoolSound ==
  ASSUME Reads, SpenderInPool
  PROVE  Sound(past, job')
<1>1. job.at = "spender" /\ job.route = "outspend" /\ job'.route = "outspend"
  BY SpenderInPoolGoes DEF Reads, IsJob, SpenderInPool, Stations, Goes
<1>2. SUFFICES OutSound(past, job')
  BY <1>1, SoundRoutes
<1>3. /\ DOMAIN job = Fields /\ OutSound(past, job) /\ Funded(job)
      /\ Current(past, tip, pool) /\ tip \in Blocks
  BY <1>1, OutspendFacts
<1>4. /\ job.found.tx = job.outpoint[1]
      /\ (job.found.place = "pool" /\ Unmined(past, job.outpoint[1])) \/ Placed(past, job.found)
  BY <1>1, <1>3 DEF OutSound
<1> DEFINE spenders == { t \in pool : job.outpoint \in Inputs[t] }
<1>5. CASE spenders # {}
  <2> DEFINE l == InPool(CHOOSE t \in spenders : TRUE)
             j == [job EXCEPT !.spender = l]
  <2>1. job' = AtTip(j, "spent", -1)
    BY <1>5 DEF SpenderInPool, Step
  <2> HIDE DEF l
  <2>2. DOMAIN j = Fields /\ j.todo = job.todo /\ j.outpoint = job.outpoint
    BY <1>3 DEF Fields
  <2> HIDE DEF j
  <2>3. Keeps(j, job') /\ job'.at = "tip" /\ job'.answer = "spent" /\ Funded(j)
    BY <1>3, <2>1, <2>2, AtTipKeeps DEF Funded
  <2> QED BY <2>3, OutEnds
<1>6. CASE spenders = {} /\ job.found.place = "pool"
  <2>1. job' = AtTip(job, "unspent", -1)
    BY <1>6 DEF SpenderInPool, Step
  <2>2. Unmined(past, job.outpoint[1])
    BY <1>4, <1>6 DEF Placed
  <2>3. ASSUME ~ArrivedIn(past, job.outpoint[1]) PROVE Open(past, job.outpoint)
    <3>1. job.outpoint[1] \notin Mined(tip)
      BY <1>3, <2>2, <2>3, UnminedStays
    <3>2. \A t \in Mined(tip) : job.outpoint \notin Inputs[t]
      BY <1>3, <3>1, MinedFacts
    <3>3. \A t \in pool : job.outpoint \notin Inputs[t]
      BY <1>6
    <3>4. <<tip, pool>> \in past /\ <<tip, pool>>[1] = tip /\ <<tip, pool>>[2] = pool
      BY <1>3 DEF Current
    <3> QED BY <3>2, <3>3, <3>4 DEF Open, Served
  <2>4. Keeps(job, job') /\ job'.at = "tip"
    BY <1>3, <2>1, AtTipKeeps
  <2> QED BY <1>3, <2>3, <2>4, OutEnds
<1>7. CASE spenders = {} /\ job.found.place # "pool"
  <2>1. job' = [job EXCEPT !.at = "refs"]
    BY <1>7 DEF SpenderInPool, Step
  <2>2. /\ job'.at = "refs" /\ job'.todo = job.todo /\ job'.outpoint = job.outpoint
        /\ job'.found = job.found
    BY <1>3, <2>1 DEF Fields
  <2>3. Unclaimed(past, job.outpoint)
    BY <1>7, ReadsFacts
  <2>4. Placed(past, job.found)
    BY <1>4, <1>7
  <2> QED BY <1>3, <1>4, <2>2, <2>3, <2>4 DEF OutSound, Funded
<1> QED BY <1>5, <1>6, <1>7

\* If the scan of a chain finds no spender, that chain has none.
LEMMA ScanRefsSound ==
  ASSUME Reads, ScanRefs
  PROVE  Sound(past, job')
<1>1. job.at = "refs" /\ job.route = "outspend" /\ job'.route = "outspend"
  BY ScanRefsGoes DEF Reads, IsJob, ScanRefs, Stations, Goes
<1>2. SUFFICES OutSound(past, job')
  BY <1>1, SoundRoutes
<1>3. /\ DOMAIN job = Fields /\ OutSound(past, job) /\ Funded(job)
      /\ Current(past, tip, pool) /\ tip \in Blocks
  BY <1>1, OutspendFacts
<1>4. /\ job.found.tx = job.outpoint[1] /\ Placed(past, job.found)
      /\ Unclaimed(past, job.outpoint) /\ job.outpoint \in Outpoints
  BY <1>1, <1>3 DEF OutSound, Funded
<1> DEFINE spends == Spends(tip, job.outpoint, job.found.height)
           l == IF spends = {} THEN Nowhere
                ELSE CHOOSE m \in spends : \A n \in spends : ~Before(n, m)
<1>5. job' = [job EXCEPT !.at = "check", !.tip = tip, !.spender = l]
  BY DEF ScanRefs, Step, Spends
<1>6. spends # {} => l # Nowhere
  <2>1. SUFFICES ASSUME NEW m \in spends PROVE l # Nowhere
    OBVIOUS
  <2>2. l \in Locations(tip)
    BY <1>3, <2>1, SpendsChosen
  <2>3. l.place = "chain"
    BY <1>3, <2>2, LocationFacts
  <2> QED BY <2>3 DEF Nowhere
<1>7. spends = {} => \A t \in Mined(tip) : job.outpoint \notin Inputs[t]
  <2>1. PICK f \in Locations(tip) : f.tx = job.found.tx /\ f.height = job.found.height
    BY <1>3, <1>4, PlacedNow
  <2>2. \A t \in Mined(tip) : job.outpoint \in Inputs[t] => spends # {}
    BY <1>3, <1>4, <2>1, SpendsAll
  <2> QED BY <2>2
<1> HIDE DEF spends, l
<1>8. /\ job'.at = "check" /\ job'.tip = tip /\ job'.spender = l /\ job'.todo = job.todo
      /\ job'.outpoint = job.outpoint /\ job'.found = job.found
  BY <1>3, <1>5 DEF Fields
<1> QED BY <1>3, <1>4, <1>6, <1>7, <1>8 DEF OutSound, Funded

\* The chain that was scanned is served when the answer is given, and has grown
\* from the one that was served when the mempool had no spender.
LEMMA CheckTipSound ==
  ASSUME Reads, CheckTip
  PROVE  Sound(past, job')
<1>1. job.at = "check" /\ job.route = "outspend" /\ job'.route = "outspend"
  BY CheckTipGoes DEF Reads, IsJob, CheckTip, Stations, Goes
<1>2. SUFFICES OutSound(past, job')
  BY <1>1, SoundRoutes
<1>3. /\ DOMAIN job = Fields /\ OutSound(past, job) /\ Funded(job)
      /\ Current(past, tip, pool) /\ tip \in Blocks
  BY <1>1, OutspendFacts
<1>4. /\ job.found.tx = job.outpoint[1] /\ Placed(past, job.found)
      /\ Unclaimed(past, job.outpoint)
      /\ job.spender = Nowhere => \A t \in Mined(job.tip) : job.outpoint \notin Inputs[t]
  BY <1>1, <1>3 DEF OutSound
<1> DEFINE m == [job EXCEPT !.at = "refs", !.tries = @ + 1]
           n == [job EXCEPT !.at = "spent time"]
           u == AtTip(job, "unspent", -1)
           r == Done(job, "reorg")
<1>5. job' = CASE tip # job.tip /\ LastTry(job.tries) -> r
               [] tip # job.tip /\ ~LastTry(job.tries) -> m
               [] tip = job.tip /\ job.spender = Nowhere -> u
               [] OTHER -> n
  BY DEF CheckTip, Step
<1>6. /\ m.at = "refs" /\ m.todo = job.todo /\ m.outpoint = job.outpoint /\ m.found = job.found
      /\ n.at = "spent time" /\ n.todo = job.todo /\ n.outpoint = job.outpoint
  BY <1>3 DEF Fields
<1>7. Keeps(job, u) /\ u.at = "tip"
  BY <1>3, AtTipKeeps
<1>8. Keeps(job, r) /\ r.at = "done" /\ r.answer = "reorg"
  BY <1>3, DoneKeeps
<1> HIDE DEF m, n, u, r
<1>9. OutSound(past, m) /\ OutSound(past, n)
  BY <1>3, <1>4, <1>6 DEF OutSound, Funded
<1>10. OutSound(past, r)
  BY <1>3, <1>8, OutEnds
<1>11. ASSUME tip = job.tip, job.spender = Nowhere PROVE OutSound(past, u)
  <2>1. PICK v \in past : \A t \in v[2] : job.outpoint \notin Inputs[t]
    BY <1>4 DEF Unclaimed
  <2>2. Mined(v[1]) \subseteq Mined(tip)
    BY <1>3, GrownLocations DEF Current
  <2>3. Open(past, job.outpoint)
    BY <1>4, <1>11, <2>1, <2>2 DEF Open, Served
  <2> QED BY <1>3, <1>7, <2>3, OutEnds
<1> QED BY <1>5, <1>9, <1>10, <1>11

LEMMA SpenderTimeSound ==
  ASSUME Reads, SpenderTime
  PROVE  Sound(past, job')
<1>1. job.route = "outspend" /\ job'.route = "outspend"
  BY SpenderTimeGoes DEF Reads, IsJob, SpenderTime, Stations, Goes
<1>2. SUFFICES OutSound(past, job')
  BY <1>1, SoundRoutes
<1>3. DOMAIN job = Fields /\ Funded(job)
  BY <1>1, OutspendFacts
<1> DEFINE b == BlockTime(tip, job.spender.height)
           h == job.spender.height
           l == [job.spender EXCEPT !.time = b]
           j == [job EXCEPT !.spender = l]
<1>4. [job EXCEPT !.spender.time = b] = j
  BY <1>3 DEF Fields
<1>5. job' \in {Done(job, "404"), AtTip(j, "spent", h)}
  BY <1>4 DEF SpenderTime, Step
<1> HIDE DEF b, l, h
<1>6. DOMAIN j = Fields /\ j.todo = job.todo /\ j.outpoint = job.outpoint
  BY <1>3 DEF Fields
<1> HIDE DEF j
<1>7. Funded(j)
  BY <1>3, <1>6 DEF Funded
<1>8. CASE job' = Done(job, "404")
  BY <1>3, <1>8, DoneKeeps, OutEnds
<1>9. CASE job' = AtTip(j, "spent", h)
  BY <1>6, <1>7, <1>9, AtTipKeeps, OutEnds
<1> QED BY <1>5, <1>8, <1>9

LEMMA DeadlineSound ==
  ASSUME Reads, Deadline
  PROVE  Sound(past, job')
<1>1. /\ job.route \in Lists \cup {"outspend"} /\ job'.route = job.route
      /\ job' = Done(job, "504")
  BY DeadlineGoes DEF Reads, IsJob, Deadline, Goes, Step
<1>2. SUFFICES ASSUME job.route = "outspend" PROVE OutSound(past, job')
  BY <1>1, SoundRoutes DEF Lists, Single
<1> QED BY <1>1, <1>2, OutspendFacts, DoneKeeps, OutEnds

LEMMA ReadTipSound ==
  ASSUME Reads, ReadTip
  PROVE  Sound(past, job')
<1>1. /\ Goes(job, job') /\ job'.at = "done" /\ job.at = "tip" /\ Sound(past, job)
      /\ \A f \in Fields \ {"at", "ttl"} : job'[f] = job[f]
  BY ReadTipGoes DEF Reads, ReadTip
<1>2. /\ job'.route = job.route /\ job'.answer = job.answer /\ job'.todo = job.todo
      /\ job'.found = job.found /\ job'.outpoint = job.outpoint
  BY <1>1 DEF Fields
<1>3. ASSUME GetSound(past, job) PROVE GetSound(past, job')
  BY <1>1, <1>2, <1>3 DEF GetSound
<1>4. ASSUME TxSound(past, job) PROVE TxSound(past, job')
  BY <1>1, <1>2, <1>4 DEF TxSound
<1>5. ASSUME OutSound(past, job) PROVE OutSound(past, job')
  BY <1>1, <1>2, <1>5 DEF OutSound, Funded
<1> QED BY <1>1, <1>2, <1>3, <1>4, <1>5 DEF Sound

\* The reads of the other routes are no business of these.
LEMMA OtherSound ==
  ASSUME Reads, IsJob(job'), job'.route = job.route,
         job.at \in {"history", "mempool", "utxo block", "utxo time", "page", "more", "first",
                     "listing", "at height", "best", "next", "hash", "header", "get merkle",
                     "headers"}
  PROVE  Sound(past, job')
<1>1. job.route \notin Single
  BY DEF Reads, IsJob, Stations, Single, Walks
<1> QED BY <1>1, SoundRoutes

\* One of a request's own reads.
Reading ==
  \/ Locate \/ FindTime \/ FindInPool \/ GetFromPool \/ GetFromChain
  \/ PrevoutInPool \/ PrevoutInChain
  \/ BlockPosition \/ MerkleblockHeader \/ GetMerkle \/ BlockHeaders
  \/ SpenderInPool \/ ScanRefs \/ CheckTip \/ SpenderTime
  \/ History \/ HistoryFails \/ Mempool \/ UtxoBlock \/ UtxoTime
  \/ Page \/ More \/ Deadline
  \/ FirstTip \/ ListBlock \/ BlockAtHeight \/ InBestChain \/ NextBest
  \/ ReadTip

LEMMA ReadingGoes ==
  ASSUME IsJob(job), Reading
  PROVE  Goes(job, job') /\ job.at \notin {"idle", "done"} /\ UNCHANGED <<tip, pool, past, reorged, moves>>
<1>1. Goes(job, job')
  BY LocateGoes, FindTimeGoes, FindInPoolGoes, GetFromPoolGoes, GetFromChainGoes, PrevoutGoes,
     BlockPositionGoes, MerkleblockHeaderGoes, GetMerkleGoes, BlockHeadersGoes,
     SpenderInPoolGoes, ScanRefsGoes, CheckTipGoes, SpenderTimeGoes, HistoryGoes,
     HistoryFailsGoes, MempoolGoes, UtxoGoes, PageGoes, MoreGoes, DeadlineGoes, BlocksGoes,
     BlockAtHeightGoes, BestGoes, ReadTipGoes DEF Reading
<1>2. /\ job.at \notin {"idle", "done"}
      /\ \E j : Step(j)
  BY DEF Reading, Locate, FindTime, FindInPool, GetFromPool, GetFromChain, PrevoutInPool,
     PrevoutInChain, BlockPosition, MerkleblockHeader, GetMerkle, BlockHeaders, SpenderInPool,
     ScanRefs, CheckTip, SpenderTime, History, HistoryFails, Mempool, UtxoBlock, UtxoTime, Page,
     More, Deadline, FirstTip, ListBlock, BlockAtHeight, InBestChain, NextBest, ReadTip
<1> QED BY <1>1, <1>2 DEF Step

LEMMA ReadingSound ==
  ASSUME Reads, Reading
  PROVE  Sound(past, job')
<1>1. IsJob(job') /\ job'.route = job.route
  BY ReadingGoes DEF Reads, Goes
<1>2. CASE \/ BlockPosition \/ MerkleblockHeader \/ GetMerkle \/ BlockHeaders
           \/ History \/ HistoryFails \/ Mempool \/ UtxoBlock \/ UtxoTime \/ Page \/ More
           \/ FirstTip \/ ListBlock \/ BlockAtHeight \/ InBestChain \/ NextBest
  <2>1. job.at \in {"history", "mempool", "utxo block", "utxo time", "page", "more", "first",
                    "listing", "at height", "best", "next", "hash", "header", "get merkle",
                    "headers"}
    BY <1>2 DEF BlockPosition, MerkleblockHeader, GetMerkle, BlockHeaders, History,
       HistoryFails, Mempool, UtxoBlock, UtxoTime, Page, More, FirstTip, ListBlock,
       BlockAtHeight, InBestChain, NextBest
  <2> QED BY <1>1, <2>1, OtherSound
<1> QED BY <1>2, LocateSound, FindTimeSound, FindInPoolSound, GetFromPoolSound,
     GetFromChainSound, PrevoutInPoolSound, PrevoutInChainSound, SpenderInPoolSound,
     ScanRefsSound, CheckTipSound, SpenderTimeSound, DeadlineSound, ReadTipSound DEF Reading

-----------------------------------------------------------------------------
(* Requests come, and chain and mempool change *)

LEMMA IdleFacts ==
  DOMAIN Idle = Fields /\ Idle.route = "none" /\ Idle.at = "idle" /\ Idle.answer = "none"
BY DEF Idle, Fields

\* A request knows nothing yet.
Fresh(j) ==
  /\ IsJob(j) /\ j.at # "idle" /\ j.answer = "none"
  /\ j.route \in {"get", "tx", "status", "outspend"} => j.at \in {"get", "locate"}
  /\ j.route = "outspend" => Funded(j)

LEMMA FreshSound ==
  ASSUME NEW j, Fresh(j), NEW P
  PROVE  Sound(P, j)
<1>1. j.route = "get" => GetSound(P, j)
  BY DEF Fresh, GetSound
<1>2. j.route \in {"tx", "status"} => TxSound(P, j)
  BY DEF Fresh, TxSound
<1>3. j.route = "outspend" => OutSound(P, j)
  BY DEF Fresh, OutSound
<1> QED BY <1>1, <1>2, <1>3 DEF Sound

\* Its route and its first read go together.
Starts(r, at) ==
  \/ r \in {"tx", "status", "merkle", "merkleblock"} /\ at = "locate"
  \/ r = "get" /\ at = "get"
  \/ r \in {"utxo", "listunspent", "txs", "txs chain", "txs mempool"} /\ at = "history"
  \/ r \in {"mempool page", "mempool txs"} /\ at = "page"
  \/ r \in {"blocks", "tip hash"} /\ at = "first"
  \/ r = "block height" /\ at = "at height"
  \/ r \in {"block status", "block txs"} /\ at = "best"
  \/ r = "get merkle" /\ at = "get merkle"
  \/ r = "headers" /\ at = "headers"

New(j, r, at) == DOMAIN j = Fields /\ j.route = r /\ j.at = at /\ j.answer = "none"

LEMMA StartsFresh ==
  ASSUME NEW j, NEW r, NEW at, New(j, r, at), Starts(r, at)
  PROVE  Fresh(j)
BY DEF New, Starts, Fresh, IsJob, Stations

LEMMA NewRequests ==
  /\ \A r, at : New(Plain(r, at), r, at)
  /\ \A r, at, t : New(OfTx(r, at, t), r, at)
  /\ \A r, keys, c : New(OfScripts(r, keys, c), r, "history")
  /\ \A r, k : New(OfBlock(r, k), r, "best")
  /\ \A h : New(OfHeight(h), "block height", "at height")
  /\ \A t, h : New(OfTxAt(t, h), "get merkle", "get merkle")
  /\ \A h, n, cp : New(OfHeaders(h, n, cp), "headers", "headers")
<1>1. \A r, at : New(Plain(r, at), r, at)
  BY IdleFacts DEF Plain, New, Fields
<1>2. \A r, at, t : New(OfTx(r, at, t), r, at)
  BY IdleFacts DEF OfTx, New, Fields
<1>3. \A r, keys, c : New(OfScripts(r, keys, c), r, "history")
  BY IdleFacts DEF OfScripts, New, Fields
<1>4. \A r, k : New(OfBlock(r, k), r, "best")
  BY IdleFacts DEF OfBlock, New, Fields
<1>5. \A h : New(OfHeight(h), "block height", "at height")
  BY IdleFacts DEF OfHeight, New, Fields
<1>6. \A t, h : New(OfTxAt(t, h), "get merkle", "get merkle")
  BY IdleFacts DEF OfTxAt, New, Fields
<1>7. \A h, n, cp : New(OfHeaders(h, n, cp), "headers", "headers")
  BY IdleFacts DEF OfHeaders, New, Fields
<1> QED BY <1>1, <1>2, <1>3, <1>4, <1>5, <1>6, <1>7

LEMMA OutpointFresh ==
  ASSUME NEW o \in Outpoints
  PROVE  Fresh(OfOutpoint(o))
<1> DEFINE k == OfOutpoint(o)
<1>1. /\ DOMAIN k = Fields /\ k.route = "outspend" /\ k.at = "locate" /\ k.answer = "none"
      /\ k.todo = <<o[1]>> /\ k.outpoint = o
  BY IdleFacts DEF OfOutpoint, Fields
<1> HIDE DEF k
<1>2. Funded(k)
  BY <1>1 DEF Funded
<1>3. Fresh(k)
  BY <1>1, <1>2 DEF Fresh, IsJob, Stations
<1> QED BY <1>3 DEF k

LEMMA RequestsFresh ==
  ASSUME NEW j \in Requests
  PROVE  Fresh(j)
<1>1. \/ \E r \in TxRoutes, t \in Txids : j = OfTx(r, "locate", t)
      \/ \E t \in Txids : j = OfTx("get", "get", t)
      \/ \E o \in Outpoints : j = OfOutpoint(o)
      \/ \E r \in ScriptRoutes, keys \in OneScript : j = OfScripts(r, keys, NoTx)
      \/ \E keys \in OneScript \cup TwoScripts, c \in {NoTx} \cup (Txids \ Unpooled) :
           j = OfScripts("txs", keys, c)
      \/ \E r \in PageRoutes : j = Plain(r, "page")
      \/ \E r \in TipRoutes : j = Plain(r, "first")
      \/ \E h \in Heights : j = OfHeight(h)
      \/ \E r \in BlockRoutes, k \in Blocks : j = OfBlock(r, k)
      \/ \E t \in Txids, h \in Heights : j = OfTxAt(t, h)
      \/ \E h \in Heights, n \in Counts, cp \in Counts : j = OfHeaders(h, n, cp)
  BY DEF Requests
<1>2. \/ \E o \in Outpoints : j = OfOutpoint(o)
      \/ \E r, at : Starts(r, at) /\ New(j, r, at)
  BY <1>1, NewRequests DEF Starts, TxRoutes, ScriptRoutes, PageRoutes, TipRoutes, BlockRoutes
<1> QED BY <1>2, StartsFresh, OutpointFresh

LEMMA KnowsInit == Init => KnowsInv
<1> SUFFICES ASSUME Init PROVE KnowsInv
  OBVIOUS
<1>1. job = Idle /\ tip \in Blocks /\ reorged = FALSE
  BY DEF Init
<1>2. IsJob(Idle) /\ Idle.at = "idle"
  BY IdleFacts DEF IsJob, Stations
<1> QED BY <1>1, <1>2 DEF KnowsInv

LEMMA CurrentGrows ==
  ASSUME NEW P, NEW k, NEW S, Current(P, k, S), NEW n \in Blocks, Grown(k, n), NEW T
  PROVE  Current(P \cup {<<n, T>>}, n, T)
<1>1. \A v \in P : Grown(v[1], n)
  BY GrownTransitive DEF Current
<1>2. Grown(<<n, T>>[1], n)
  BY GrownSelf
<1> QED BY <1>1, <1>2 DEF Current

LEMMA BeginKnows ==
  ASSUME KnowsInv, Begin
  PROVE  KnowsInv'
<1>1. job' \in Requests /\ past' = {<<tip, pool>>} /\ UNCHANGED <<tip, pool, reorged>>
  BY DEF Begin
<1>2. Fresh(job')
  BY <1>1, RequestsFresh
<1>3. Sound(past', job')
  BY <1>2, FreshSound
<1>4. Current(past', tip', pool')
  BY <1>1, GrownSelf DEF Current, KnowsInv
<1>5. IsJob(job') /\ job'.at # "idle"
  BY <1>2 DEF Fresh
<1> QED BY <1>1, <1>3, <1>4, <1>5 DEF KnowsInv

LEMMA AnsweredKnows ==
  ASSUME KnowsInv, Answered
  PROVE  KnowsInv'
<1>1. job' = Idle /\ reorged' = FALSE /\ tip' = tip
  BY DEF Answered
<1>2. IsJob(Idle) /\ Idle.at = "idle"
  BY IdleFacts DEF IsJob, Stations
<1> QED BY <1>1, <1>2 DEF KnowsInv

LEMMA RefreshKnows ==
  ASSUME KnowsInv, Refresh
  PROVE  KnowsInv'
<1>1. PICK k \in Blocks : /\ tip' = k /\ past' = past \cup {<<k, pool>>}
                          /\ reorged' = (reorged \/ tip \notin Seqs!ToSet(Path[k]))
  BY DEF Refresh
<1>2. job' = job /\ pool' = pool /\ job.at # "idle"
  BY DEF Refresh, InHand
<1>3. ASSUME ~reorged' PROVE Current(past', tip', pool') /\ Sound(past', job')
  <2>1. ~reorged /\ Grown(tip, k)
    BY <1>1, <1>3 DEF Grown
  <2>2. Current(past, tip, pool) /\ Sound(past, job)
    BY <1>2, <2>1 DEF KnowsInv
  <2>3. Current(past', tip', pool')
    BY <1>1, <1>2, <2>1, <2>2, CurrentGrows
  <2>4. Sound(past', job')
    BY <1>1, <1>2, <2>2, SoundGrows
  <2> QED BY <2>3, <2>4
<1>4. reorged' \in BOOLEAN
  BY <1>1
<1> QED BY <1>1, <1>2, <1>3, <1>4 DEF KnowsInv

LEMMA PollKnows ==
  ASSUME KnowsInv, Poll
  PROVE  KnowsInv'
<1>1. /\ past' = past \cup {<<tip, pool'>>} /\ tip' = tip /\ job' = job /\ reorged' = reorged
      /\ job.at # "idle" /\ tip \in Blocks
  BY DEF Poll, InHand, KnowsInv
<1>2. ASSUME ~reorged' PROVE Current(past', tip', pool') /\ Sound(past', job')
  <2>1. Current(past, tip, pool) /\ Sound(past, job)
    BY <1>1, <1>2 DEF KnowsInv
  <2>2. Current(past', tip', pool')
    BY <1>1, <2>1, GrownSelf, CurrentGrows
  <2>3. Sound(past', job')
    BY <1>1, <2>1, SoundGrows
  <2> QED BY <2>2, <2>3
<1> QED BY <1>1, <1>2 DEF KnowsInv

LEMMA ReadingKnows ==
  ASSUME KnowsInv, Reading
  PROVE  KnowsInv'
<1>1. /\ IsJob(job') /\ job.at # "idle"
      /\ tip' = tip /\ pool' = pool /\ past' = past /\ reorged' = reorged
  BY ReadingGoes DEF KnowsInv, Goes
<1>2. ~reorged => Sound(past, job')
  BY <1>1, ReadingSound DEF KnowsInv, Reads
<1> QED BY <1>1, <1>2 DEF KnowsInv

LEMMA KnowsNext == KnowsInv /\ [Next]_vars => KnowsInv'
<1> SUFFICES ASSUME KnowsInv, [Next]_vars PROVE KnowsInv'
  OBVIOUS
<1>1. CASE UNCHANGED vars
  BY <1>1 DEF vars, KnowsInv
<1>2. CASE Next
  <2>1. Begin \/ Answered \/ Refresh \/ Poll \/ Reading
    BY <1>2 DEF Next, Reading
  <2> QED BY <2>1, BeginKnows, AnsweredKnows, RefreshKnows, PollKnows, ReadingKnows
<1> QED BY <1>1, <1>2

LEMMA KnowsAlways == Spec => []KnowsInv
BY KnowsInit, KnowsNext, PTL DEF Spec

LEMMA KnowsOverlooksNothing == KnowsInv => NothingOverlooked
<1> SUFFICES ASSUME KnowsInv, ~reorged PROVE
      /\ Answers("get", "404") => \E view \in past : ~Served(Head(job.todo), view)
      /\ job.route \in {"tx", "status"} /\ job.answer = "404" /\ ~Arrived(Head(job.todo))
           => \E view \in past : ~Served(Head(job.todo), view)
      /\ Answers("tx", "missing") =>
           \E view \in past : \E o \in Inputs[job.found.tx] : ~Served(o[1], view)
      /\ Answers("outspend", "unspent") /\ ~Arrived(job.outpoint[1]) =>
           \E view \in past : \/ ~Served(job.outpoint[1], view)
                              \/ \A t \in Txids : job.outpoint \in Inputs[t] => ~Served(t, view)
  BY DEF NothingOverlooked
<1>1. CASE job.at = "idle"
  BY <1>1 DEF KnowsInv, IsJob, Stations, Answers
<1>2. CASE job.at # "idle"
  <2>1. Sound(past, job)
    BY <1>2 DEF KnowsInv
  <2>2. Answers("get", "404") => Unserved(past, Head(job.todo))
    BY <2>1 DEF Sound, GetSound, Answers
  <2>3. \A t : Arrived(t) <=> ArrivedIn(past, t)
    BY DEF Arrived, ArrivedIn
  <2>4. job.route \in {"tx", "status"} /\ job.answer = "404" /\ ~Arrived(Head(job.todo))
          => Unserved(past, Head(job.todo))
    BY <2>1, <2>3 DEF Sound, TxSound
  <2>5. Answers("tx", "missing") => \E o \in Inputs[job.found.tx] : Unserved(past, o[1])
    BY <2>1 DEF Sound, TxSound, Answers
  <2>6. Answers("outspend", "unspent") /\ ~Arrived(job.outpoint[1]) =>
          Unserved(past, job.outpoint[1]) \/ Open(past, job.outpoint)
    BY <2>1, <2>3 DEF Sound, OutSound, Answers
  <2> QED BY <2>2, <2>4, <2>5, <2>6 DEF Unserved, Open
<1> QED BY <1>1, <1>2

\* A transaction or output that was served all the time is not reported missing,
\* nor a spent output as unspent, for any tree of blocks, any mempools and any
\* number of refreshes and polls between the reads (find_tx, transaction_get,
\* prevout and find_spender).
THEOREM NothingStaysOverlooked == Spec => []NothingOverlooked
BY KnowsAlways, KnowsOverlooksNothing, PTL

-----------------------------------------------------------------------------
(* What fits together *)

\* A block is where it was, as long as the chain only grows.
LEMMA AnchoredNow ==
  ASSUME NEW P, NEW k, NEW S, Current(P, k, S), NEW h, NEW b, Anchored(P, h, b)
  PROVE  HashAt(k, h) = b /\ Height(b) = h /\ h \in Nat /\ b \in Blocks /\ b # NoBlock
<1>1. PICK v \in P : HashAt(v[1], h) = b
  BY DEF Anchored
<1>2. b \in Blocks /\ b # NoBlock /\ k \in Blocks /\ Grown(v[1], k)
  BY QueriesAssumption DEF Anchored, QueriesAssumption, Current
<1>3. HashAt(k, h) = b /\ h \in Nat
  BY <1>1, <1>2, GrownHash
<1>4. h \in 0..Height(k) /\ Path[k][h + 1] = b
  BY <1>2, <1>3 DEF HashAt
<1>5. Path[k] \in Seq(Blocks) /\ Height(k) = Len(Path[k]) - 1 /\ Len(Path[k]) \in Nat
  BY <1>2, PathFacts
<1>6. h + 1 \in 1..Len(Path[k]) /\ DOMAIN Path[k] = 1..Len(Path[k])
  BY <1>3, <1>4, <1>5
<1>7. Path[b] = SubSeq(Path[k], 1, h + 1)
  BY <1>2, <1>4, <1>6, ChainAssumption DEF ChainAssumption
<1>8. Len(Path[b]) = h + 1
  BY <1>5, <1>6, <1>7
<1>9. Height(b) = h
  BY <1>3, <1>8 DEF Height
<1> QED BY <1>2, <1>3, <1>9

LEMMA AnchoredHere ==
  ASSUME NEW P, NEW k, NEW S, Current(P, k, S), NEW h, HashAt(k, h) # NoBlock
  PROVE  Anchored(P, h, HashAt(k, h))
<1>1. <<k, S>> \in P /\ <<k, S>>[1] = k /\ k \in Blocks
  BY DEF Current
<1>2. HashAt(k, h) \in Blocks
  BY <1>1, GrownSelf, GrownHash
<1> QED BY <1>1, <1>2 DEF Anchored

LEMMA LocationSpot ==
  ASSUME NEW P, NEW k, NEW S, Current(P, k, S), NEW l \in Locations(k)
  PROVE  Spot(P, l) /\ Timed(l) /\ l.time = NoBlock
<1>1. k \in Blocks /\ <<k, S>> \in P /\ <<k, S>>[1] = k
  BY DEF Current
<1>2. /\ l.place = "chain" /\ l.block \in Blocks /\ HashAt(k, l.height) = l.block
      /\ l.time = NoBlock /\ BlockTxs[l.block][l.pos + 1] = l.tx
  BY <1>1, LocationFacts
<1>3. DOMAIN l = {"tx", "place", "block", "height", "pos", "time"}
  <2>1. \E b, i : l = InBlock(b, i)
    BY DEF Locations
  <2> QED BY <2>1 DEF InBlock
<1> QED BY <1>1, <1>2, <1>3 DEF Spot, Anchored, Timed

LEMMA PlacesTimed ==
  /\ Timed(Nowhere) /\ Nowhere.height = -1 /\ Nowhere.place = "none"
  /\ \A t : Timed(InPool(t)) /\ InPool(t).height = -1 /\ InPool(t).place = "pool"
BY DEF Timed, Nowhere, InPool

LEMMA FitsGrows ==
  ASSUME NEW P, NEW Q, P \subseteq Q, NEW k, NEW n, NEW j, j.at # "done", Fits(P, k, j)
  PROVE  Fits(Q, n, j)
<1>1. \A h, b : Anchored(P, h, b) => Anchored(Q, h, b)
  BY DEF Anchored
<1>2. \A l : Spot(P, l) => Spot(Q, l)
  BY <1>1 DEF Spot
<1>3. TimesFit(Q, j)
  BY <1>2 DEF Fits, TimesFit
<1>4. OutputsFit(Q, j)
  BY <1>2 DEF Fits, OutputsFit, Shown
<1>5. HeaderFits(Q, j)
  BY <1>1 DEF Fits, HeaderFits
<1>6. (Listing(P, j) => Listing(Q, j)) /\ (Piece(P, j) => Piece(Q, j))
  BY DEF Listing, Piece, PieceFor
<1>7. BlocksFit(Q, j)
  BY <1>1, <1>6 DEF Fits, BlocksFit
<1>8. LifetimeFits(Q, n, j)
  BY <1>1 DEF Fits, LifetimeFits
<1> QED BY <1>3, <1>4, <1>5, <1>7, <1>8 DEF Fits

LEMMA FitsKept ==
  ASSUME NEW P, NEW k, NEW j, Fits(P, k, j), j.at \notin {"tip", "done"}, Blockless(j.route)
  PROVE  Kept(P, j)
BY DEF Fits, Kept, TimesFit, HeaderFits, BlocksFit, LifetimeFits

Quiet == {"locate", "pool", "get", "get chain", "more", "page", "history", "mempool", "done",
          "hash", "spender", "refs", "utxo block"}

LEMMA KeptQuiet ==
  ASSUME NEW P, NEW k, NEW j, Kept(P, j), j.at \in Quiet
  PROVE  Fits(P, k, j)
BY DEF Fits, Kept, TimesFit, HeaderFits, BlocksFit, LifetimeFits, Quiet, Blockless

LEMMA KeptTip ==
  ASSUME NEW P, NEW k, NEW j, Kept(P, j), j.at = "tip",
         j.height = -1 \/ Anchored(P, j.height, Subject(j))
  PROVE  Fits(P, k, j)
BY DEF Fits, Kept, TimesFit, HeaderFits, BlocksFit, LifetimeFits, Blockless

\* k differs from j in nothing that has to fit.
Same(j, k) ==
  /\ k.route = j.route /\ k.found = j.found /\ k.spender = j.spender
  /\ k.utxos = j.utxos /\ k.shown = j.shown /\ k.header = j.header
  /\ k.block = j.block /\ k.blocks = j.blocks /\ k.ttl = j.ttl

LEMMA KeptSame ==
  ASSUME NEW P, NEW j, NEW k, Kept(P, j), Same(j, k)
  PROVE  Kept(P, k)
BY DEF Kept, Same, OutputsFit

LEMMA DoneSame ==
  ASSUME NEW j, DOMAIN j = Fields, NEW a
  PROVE  Same(j, Done(j, a)) /\ Done(j, a).at = "done" /\ Done(j, a).height = j.height
<1> DEFINE k == Done(j, a)
<1>1. k.at = "done" /\ \A f \in Fields \ {"at", "answer"} : k[f] = j[f]
  BY DoneGoes
<1> HIDE DEF k
<1>2. Same(j, k) /\ k.height = j.height
  BY <1>1 DEF Same, Fields
<1> QED BY <1>1, <1>2 DEF k

LEMMA AtTipSame ==
  ASSUME NEW j, DOMAIN j = Fields, NEW a, NEW h
  PROVE  Same(j, AtTip(j, a, h)) /\ AtTip(j, a, h).at = "tip" /\ AtTip(j, a, h).height = h
<1> DEFINE k == AtTip(j, a, h)
<1>1. /\ k.at = "tip" /\ k.height = h
      /\ \A f \in Fields \ {"at", "answer", "height"} : k[f] = j[f]
  BY AtTipGoes
<1> HIDE DEF k
<1>2. Same(j, k)
  BY <1>1 DEF Same, Fields
<1> QED BY <1>1, <1>2 DEF k

\* A list goes on, or is over.
Rests(j, k) == Same(j, k) /\ k.at \in {"done", "more", "locate"}

LEMMA RestsFits ==
  ASSUME NEW P, NEW n, NEW j, NEW k, Kept(P, j), Rests(j, k)
  PROVE  Fits(P, n, k)
BY KeptSame, KeptQuiet DEF Rests, Quiet

LEMMA PageDoneRests ==
  ASSUME NEW j, DOMAIN j = Fields
  PROVE  Rests(j, PageDone(j))
<1>1. CASE j.route \notin Walks \/ Len(j.list) = j.from
  BY <1>1, DoneSame DEF PageDone, Rests
<1>2. CASE ~(j.route \notin Walks \/ Len(j.list) = j.from)
  <2> DEFINE k == [j EXCEPT !.at = "more", !.cursor = j.list[Len(j.list)].tx, !.from = Len(j.list)]
  <2>1. Same(j, k) /\ k.at = "more" /\ PageDone(j) = k
    BY <1>2 DEF Fields, PageDone, Same
  <2> HIDE DEF k
  <2> QED BY <2>1 DEF Rests
<1> QED BY <1>1, <1>2

LEMMA NextValueRests ==
  ASSUME NEW j, DOMAIN j = Fields
  PROVE  Rests(j, NextValue(j))
<1>1. CASE Len(j.todo) <= 1
  <2> DEFINE k == [j EXCEPT !.todo = <<>>]
  <2>1. DOMAIN k = Fields /\ Same(j, k) /\ NextValue(j) = PageDone(k)
    BY <1>1 DEF Fields, NextValue, Same
  <2> HIDE DEF k
  <2>2. Rests(k, PageDone(k))
    BY <2>1, PageDoneRests
  <2> QED BY <2>1, <2>2 DEF Rests, Same
<1>2. CASE ~(Len(j.todo) <= 1)
  <2> DEFINE k == [j EXCEPT !.todo = Tail(@), !.at = "locate"]
  <2>1. Same(j, k) /\ k.at = "locate" /\ NextValue(j) = k
    BY <1>2 DEF Fields, NextValue, Same
  <2> HIDE DEF k
  <2> QED BY <2>1 DEF Rests
<1> QED BY <1>1, <1>2

LEMMA TakeRests ==
  ASSUME NEW j, DOMAIN j = Fields, NEW txids
  PROVE  Rests(j, Take(j, txids))
<1>1. CASE txids = <<>>
  BY <1>1, PageDoneRests DEF Take
<1>2. CASE txids # <<>>
  <2> DEFINE few == SubSeq(txids, 1, Sets!Min({Len(txids), PageLimit}))
  <2> HIDE DEF few
  <2> DEFINE k == [j EXCEPT !.todo = few, !.at = "locate"]
  <2>1. Take(j, txids) = k
    BY <1>2 DEF Take, few
  <2>2. Same(j, k) /\ k.at = "locate"
    BY DEF Fields, Same
  <2> HIDE DEF k
  <2> QED BY <2>1, <2>2 DEF Rests
<1> QED BY <1>1, <1>2

LEMMA SelectRests ==
  ASSUME NEW j, DOMAIN j = Fields, j.route \in {"txs", "txs chain", "txs mempool"}, NEW mempool
  PROVE  Rests(j, Select(j, mempool))
<1>1. \A txids : Rests(j, Take(j, txids))
  BY TakeRests
<1>2. Rests(j, Done(j, "422"))
  BY DoneSame DEF Rests
<1> DEFINE chain == RowsDesc(j.rows)
           c == j.cursor
           x == Seqs!ToSet(chain)
           m == Seqs!ToSet(mempool)
           a == IF c = NoTx THEN chain ELSE IF c \in x THEN After(chain, c) ELSE <<>>
           u == mempool \o chain
           v == After(mempool, c) \o chain
           w == After(chain, c)
<1>3. Select(j, mempool) =
        CASE j.route = "txs mempool" -> Take(j, mempool)
          [] j.route = "txs chain" -> Take(j, a)
          [] j.route = "txs" /\ c = NoTx -> Take(j, u)
          [] j.route = "txs" /\ c \in m -> Take(j, v)
          [] j.route = "txs" /\ c \in x \ m -> Take(j, w)
          [] OTHER -> Done(j, "422")
  BY DEF Select
<1> HIDE DEF a, u, v, w, c, x, m
<1> QED BY <1>1, <1>2, <1>3

\* A found transaction is in the mempool, or where it says.
Known(P, l) == Timed(l) /\ (l.height = -1 \/ Spot(P, l))

LEMMA KeptPrevout ==
  ASSUME NEW P, NEW n, NEW j, Kept(P, j), j.at \in {"prevout", "funding"}, Known(P, j.found)
  PROVE  Fits(P, n, j)
BY DEF Fits, Kept, Known, TimesFit, HeaderFits, BlocksFit, LifetimeFits, Blockless

LEMMA ResolveFits ==
  ASSUME NEW P, NEW n, NEW j, DOMAIN j = Fields, Kept(P, j), Known(P, j.found),
         j.route \in Lists \cup {"tx"}
  PROVE  Fits(P, n, Resolve(j))
<1>1. CASE j.inputs # {}
  <2> DEFINE k == [j EXCEPT !.at = "prevout"]
  <2>1. Same(j, k) /\ k.at = "prevout" /\ Resolve(j) = k
    BY <1>1 DEF Fields, Resolve, Same
  <2> HIDE DEF k
  <2>2. Kept(P, k) /\ Known(P, k.found)
    BY <2>1, KeptSame DEF Same
  <2> QED BY <2>1, <2>2, KeptPrevout
<1>2. CASE j.inputs = {} /\ j.route = "tx"
  <2> DEFINE k == AtTip(j, "ok", j.found.height)
  <2>1. Same(j, k) /\ k.at = "tip" /\ k.height = j.found.height
    BY AtTipSame
  <2>2. Resolve(j) = k
    BY <1>2 DEF Resolve
  <2> HIDE DEF k
  <2>3. Subject(k) = j.found.block
    BY <1>2, <2>1 DEF Subject, Same
  <2>4. k.height = -1 \/ Anchored(P, k.height, Subject(k))
    BY <2>1, <2>3 DEF Known, Spot
  <2>5. Kept(P, k)
    BY <2>1, KeptSame
  <2> QED BY <2>1, <2>2, <2>4, <2>5, KeptTip
<1>3. CASE j.inputs = {} /\ j.route \in Lists
  <2> DEFINE k == [j EXCEPT !.list = Append(@, j.found)]
  <2>1. DOMAIN k = Fields /\ Same(j, k)
    BY DEF Fields, Same
  <2>2. Resolve(j) = NextValue(k)
    BY <1>3 DEF Resolve, Lists
  <2> HIDE DEF k
  <2>3. Kept(P, k)
    BY <2>1, KeptSame
  <2> QED BY <2>1, <2>2, <2>3, NextValueRests, RestsFits
<1> QED BY <1>1, <1>2, <1>3

LEMMA DoneFits ==
  ASSUME NEW P, NEW n, NEW j, DOMAIN j = Fields, Kept(P, j), NEW a
  PROVE  Fits(P, n, Done(j, a))
<1>1. Rests(j, Done(j, a))
  BY DoneSame DEF Rests
<1> QED BY <1>1, RestsFits

LEMMA AtTipFits ==
  ASSUME NEW P, NEW n, NEW j, DOMAIN j = Fields, Kept(P, j), NEW a, NEW h,
         h = -1 \/ Anchored(P, h, Subject(j))
  PROVE  Fits(P, n, AtTip(j, a, h))
<1> DEFINE k == AtTip(j, a, h)
<1>1. Same(j, k) /\ k.at = "tip" /\ k.height = h
  BY AtTipSame
<1> HIDE DEF k
<1>2. Kept(P, k)
  BY <1>1, KeptSame
<1>3. Subject(k) = Subject(j)
  BY <1>1 DEF Subject, Same
<1>4. Fits(P, n, k)
  BY <1>1, <1>2, <1>3, KeptTip
<1> QED BY <1>4 DEF k

LEMMA MissingFits ==
  ASSUME NEW P, NEW n, NEW j, DOMAIN j = Fields, Kept(P, j)
  PROVE  Fits(P, n, Missing(j))
BY DoneFits, NextValueRests, RestsFits DEF Missing

LEMMA HoldingKept ==
  ASSUME NEW P, NEW j, DOMAIN j = Fields, Kept(P, j), NEW l, Timed(l)
  PROVE  /\ DOMAIN Holding(j, l) = Fields /\ Kept(P, Holding(j, l))
         /\ Holding(j, l).found = l /\ Holding(j, l).route = j.route
<1> DEFINE i == IF l.tx = NoTx THEN {} ELSE Inputs[l.tx]
           k == [j EXCEPT !.found = l, !.inputs = i]
<1>1. Holding(j, l) = k
  BY DEF Holding
<1> HIDE DEF i
<1>2. /\ DOMAIN k = Fields /\ k.found = l /\ k.route = j.route /\ k.spender = j.spender
      /\ k.utxos = j.utxos /\ k.shown = j.shown /\ k.header = j.header
      /\ k.blocks = j.blocks /\ k.ttl = j.ttl
  BY DEF Fields
<1> HIDE DEF k
<1>3. Kept(P, k)
  BY <1>2 DEF Kept, OutputsFit
<1> QED BY <1>1, <1>2, <1>3

LEMMA FoundFits ==
  ASSUME NEW P, NEW n, NEW j, DOMAIN j = Fields, Kept(P, j), NEW l, Known(P, l),
         j.route \in Lists \cup {"merkle", "merkleblock"} \cup Single
  PROVE  Fits(P, n, Found(j, l))
<1> DEFINE k == Holding(j, l)
<1>1. DOMAIN k = Fields /\ Kept(P, k) /\ k.found = l /\ k.route = j.route
  BY HoldingKept DEF Known
<1>2. \A a : Fits(P, n, Done(k, a))
  BY <1>1, DoneFits
<1>3. Fits(P, n, NextValue(k))
  BY <1>1, NextValueRests, RestsFits
<1>4. j.route \in Lists \cup {"tx"} => Fits(P, n, Resolve(k))
  BY <1>1, ResolveFits
<1>5. j.route = "status" => Fits(P, n, AtTip(k, "ok", l.height))
  <2>1. ASSUME j.route = "status" PROVE l.height = -1 \/ Anchored(P, l.height, Subject(k))
    BY <1>1, <2>1 DEF Known, Spot, Subject
  <2> QED BY <1>1, <2>1, AtTipFits
<1>6. Fits(P, n, AtTip(k, "unspent", -1))
  BY <1>1, AtTipFits
<1>7. Fits(P, n, [k EXCEPT !.at = "hash"]) /\ Fits(P, n, [k EXCEPT !.at = "spender"])
  <2>1. ASSUME NEW a \in {"hash", "spender"} PROVE Fits(P, n, [k EXCEPT !.at = a])
    <3> HIDE DEF k
    <3> DEFINE m == [k EXCEPT !.at = a]
    <3>1. Same(k, m) /\ m.at = a
      BY <1>1 DEF Same, Fields
    <3> HIDE DEF m
    <3>2. Fits(P, n, m)
      BY <1>1, <3>1, KeptSame, KeptQuiet DEF Quiet
    <3> QED BY <3>2 DEF m
  <2> QED BY <2>1
<1> HIDE DEF k
<1>8. CASE j.route \in Lists
  BY <1>3, <1>4, <1>8, FoundCases DEF k
<1>9. CASE j.route \in {"tx", "status", "get"}
  BY <1>2, <1>4, <1>5, <1>9, FoundCases DEF k
<1>10. CASE j.route \in {"merkle", "merkleblock"}
  BY <1>2, <1>7, <1>10, FoundCases DEF k
<1>11. CASE j.route = "outspend"
  BY <1>6, <1>7, <1>11, FoundCases DEF k
<1> QED BY <1>8, <1>9, <1>10, <1>11 DEF Single

-----------------------------------------------------------------------------
(* Every read fits with those before *)

Following == IsJob(job) /\ Current(past, tip, pool) /\ Fits(past, tip, job)

LEMMA FollowingKept ==
  ASSUME Following, job.at \notin {"tip", "done"}, Blockless(job.route)
  PROVE  Kept(past, job)
BY FitsKept DEF Following

\* A place of the chain has the block's time, when that is read.
LEMMA TimeFits ==
  ASSUME NEW P, NEW k, NEW S, Current(P, k, S), NEW l, Spot(P, l), NEW b,
         b = BlockTime(k, l.height)
  PROVE  /\ b # NoBlock /\ b = l.block
         /\ Timed([l EXCEPT !.time = b]) /\ Spot(P, [l EXCEPT !.time = b])
         /\ [l EXCEPT !.time = b].block = l.block /\ [l EXCEPT !.time = b].height = l.height
<1>1. b # NoBlock /\ b = l.block
  BY AnchoredNow DEF Spot, BlockTime
<1> DEFINE m == [l EXCEPT !.time = b]
<1>2. /\ DOMAIN m = DOMAIN l /\ m.time = b /\ m.block = l.block /\ m.height = l.height
      /\ m.place = l.place /\ m.tx = l.tx /\ m.pos = l.pos
  BY DEF Spot
<1> HIDE DEF m
<1>3. Timed(m) /\ Spot(P, m)
  BY <1>1, <1>2 DEF Timed, Spot
<1> QED BY <1>1, <1>2, <1>3 DEF m

LEMMA LocateFits ==
  ASSUME Following, Locate
  PROVE  Fits(past, tip, job')
<1>1. DOMAIN job = Fields /\ Kept(past, job) /\ Current(past, tip, pool)
  <2>1. job.at \notin {"tip", "done"} /\ Blockless(job.route)
    BY DEF Following, IsJob, Stations, Locate, Blockless, Lists
  <2> QED BY <2>1, FollowingKept DEF Following, IsJob
<1>2. ASSUME NEW l \in Locations(tip), job' = [job EXCEPT !.found = l, !.at = "time"]
      PROVE  Fits(past, tip, job')
  <2>1. Spot(past, l) /\ Timed(l)
    BY <1>1, LocationSpot
  <2>2. /\ job'.at = "time" /\ job'.found = l /\ job'.route = job.route
        /\ job'.spender = job.spender /\ job'.utxos = job.utxos /\ job'.shown = job.shown
        /\ job'.header = job.header /\ job'.blocks = job.blocks /\ job'.ttl = job.ttl
    BY <1>1, <1>2 DEF Fields
  <2> QED BY <1>1, <2>1, <2>2
        DEF Fits, Kept, TimesFit, OutputsFit, HeaderFits, BlocksFit, LifetimeFits, Blockless
<1>3. ASSUME job' = [job EXCEPT !.at = "pool"] PROVE Fits(past, tip, job')
  <2>1. Same(job, job') /\ job'.at = "pool"
    BY <1>1, <1>3 DEF Fields, Same
  <2> QED BY <1>1, <2>1, KeptSame, KeptQuiet DEF Quiet
<1> QED BY <1>2, <1>3 DEF Locate, Step

LEMMA FindTimeFits ==
  ASSUME Following, FindTime
  PROVE  Fits(past, tip, job')
<1>1. /\ DOMAIN job = Fields /\ Kept(past, job) /\ Current(past, tip, pool)
      /\ job.route \in Lists \cup {"merkle", "merkleblock"} \cup Single
      /\ Spot(past, job.found)
  <2>1. /\ job.at = "time" /\ job.at \notin {"tip", "done"}
        /\ job.route \in Lists \cup {"merkle", "merkleblock"} \cup Single
    BY DEF Following, IsJob, Stations, FindTime, Single
  <2>2. Blockless(job.route)
    BY <2>1 DEF Blockless, Lists, Single
  <2> QED BY <2>1, <2>2, FollowingKept DEF Following, IsJob, Fits, TimesFit
<1> DEFINE b == BlockTime(tip, job.found.height)
           l == [job.found EXCEPT !.time = b]
<1>2. Timed(l) /\ Spot(past, l)
  BY <1>1, TimeFits
<1>3. job' \in {Done(job, "404"), Found(job, l)}
  BY DEF FindTime, Step
<1> HIDE DEF b, l
<1>4. Fits(past, tip, Found(job, l))
  BY <1>1, <1>2, FoundFits DEF Known
<1> QED BY <1>1, <1>3, <1>4, DoneFits

LEMMA FindFits ==
  ASSUME Following, FindInPool \/ GetFromPool \/ GetFromChain
  PROVE  Fits(past, tip, job')
<1>1. /\ job.at \in {"pool", "get", "get chain"}
      /\ job.route \in Lists \cup {"merkle", "merkleblock"} \cup Single
  BY DEF Following, IsJob, Stations, FindInPool, GetFromPool, GetFromChain, Single
<1>2. Blockless(job.route)
  BY <1>1 DEF Blockless, Lists, Single
<1>3. DOMAIN job = Fields /\ Kept(past, job) /\ Current(past, tip, pool)
  BY <1>1, <1>2, FollowingKept DEF Following, IsJob
<1>4. Known(past, Nowhere) /\ \A t : Known(past, InPool(t))
  BY PlacesTimed DEF Known
<1>5. \A l \in Locations(tip) : Known(past, l)
  BY <1>3, LocationSpot DEF Known
<1>6. \/ \E l : job' = Found(job, l) /\ Known(past, l)
      \/ job' = [job EXCEPT !.at = "get chain"]
  BY <1>4, <1>5 DEF FindInPool, GetFromPool, GetFromChain, Step
<1>7. ASSUME job' = [job EXCEPT !.at = "get chain"] PROVE Fits(past, tip, job')
  <2>1. Same(job, job') /\ job'.at = "get chain"
    BY <1>3, <1>7 DEF Fields, Same
  <2> QED BY <1>3, <2>1, KeptSame, KeptQuiet DEF Quiet
<1> QED BY <1>1, <1>3, <1>6, <1>7, FoundFits

LEMMA PrevoutFits ==
  ASSUME Following, PrevoutInPool \/ PrevoutInChain
  PROVE  Fits(past, tip, job')
<1>1. job.at \in {"prevout", "funding"} /\ job.route \in Lists \cup {"tx"}
  BY DEF Following, IsJob, PrevoutInPool, PrevoutInChain, Stations
<1>2. Blockless(job.route)
  BY <1>1 DEF Blockless, Lists
<1>3. DOMAIN job = Fields /\ Kept(past, job) /\ Known(past, job.found)
  BY <1>1, <1>2, FollowingKept DEF Following, IsJob, Fits, TimesFit, Known
<1> DEFINE k == [job EXCEPT !.inputs = @ \ {Input}]
           n == [job EXCEPT !.at = "funding"]
<1>4. DOMAIN k = Fields /\ Same(job, k)
  BY <1>3 DEF Fields, Same
<1>5. Same(job, n) /\ n.at = "funding"
  BY <1>3 DEF Fields, Same
<1>6. job' \in {Resolve(k), n, Missing(job)}
  BY DEF PrevoutInPool, PrevoutInChain, Step
<1> HIDE DEF k, n
<1>7. Fits(past, tip, Resolve(k))
  <2>1. Kept(past, k) /\ Known(past, k.found) /\ k.route \in Lists \cup {"tx"}
    BY <1>1, <1>3, <1>4, KeptSame DEF Same
  <2> QED BY <1>4, <2>1, ResolveFits
<1>8. Fits(past, tip, n)
  <2>1. Kept(past, n) /\ Known(past, n.found)
    BY <1>3, <1>5, KeptSame DEF Same
  <2> QED BY <1>5, <2>1, KeptPrevout
<1>9. Fits(past, tip, Missing(job))
  BY <1>3, MissingFits
<1> QED BY <1>6, <1>7, <1>8, <1>9

\* The block of a Merkle proof is the one whose header follows.
LEMMA BlockPositionFits ==
  ASSUME Following, BlockPosition
  PROVE  Fits(past, tip, job')
<1>1. job.at = "hash" /\ job.route \in {"merkle", "merkleblock"}
  BY DEF Following, IsJob, BlockPosition, Stations
<1>2. Blockless(job.route)
  BY <1>1 DEF Blockless
<1>3. DOMAIN job = Fields /\ Kept(past, job) /\ Current(past, tip, pool)
  BY <1>1, <1>2, FollowingKept DEF Following, IsJob
<1> DEFINE b == HashAt(tip, job.found.height)
           p == Position(job.found, BlockTxs[b])
           m == BranchAndRoot(BlockTxs[b], p).branch
           j == [job EXCEPT !.block = b, !.pos = p, !.branch = m]
           n == [j EXCEPT !.at = "header"]
           z == AtTip(j, "ok", job.found.height)
<1>4. job' = CASE b = NoBlock -> Done(job, "404")
               [] b # NoBlock /\ p < 0 -> Done(job, "500")
               [] OTHER -> IF job.route = "merkleblock" THEN n ELSE z
  BY DEF BlockPosition, Step
<1>5. b # NoBlock => Anchored(past, job.found.height, b)
  BY <1>3, AnchoredHere
<1> HIDE DEF b, p, m
<1>6. /\ DOMAIN j = Fields /\ j.block = b /\ j.route = job.route /\ j.found = job.found
      /\ j.spender = job.spender /\ j.utxos = job.utxos /\ j.shown = job.shown
      /\ j.header = job.header /\ j.blocks = job.blocks /\ j.ttl = job.ttl
  BY <1>3 DEF Fields
<1> HIDE DEF j
<1>7. Kept(past, j)
  BY <1>3, <1>6 DEF Kept, OutputsFit
<1>8. DOMAIN n = Fields /\ Same(j, n) /\ n.at = "header"
  BY <1>6 DEF Fields, Same
<1> HIDE DEF n
<1>9. Kept(past, n)
  BY <1>7, <1>8, KeptSame
<1>10. b # NoBlock => Fits(past, tip, n)
  BY <1>5, <1>6, <1>8, <1>9
     DEF Same, Fits, Kept, TimesFit, OutputsFit, HeaderFits, BlocksFit, LifetimeFits, Blockless
<1>11. b # NoBlock => Fits(past, tip, z)
  <2>1. Subject(j) = b
    BY <1>1, <1>6 DEF Subject
  <2> QED BY <1>5, <1>6, <1>7, <2>1, AtTipFits
<1>12. Fits(past, tip, Done(job, "404")) /\ Fits(past, tip, Done(job, "500"))
  BY <1>3, DoneFits
<1> HIDE DEF z
<1> QED BY <1>4, <1>10, <1>11, <1>12

LEMMA MerkleblockHeaderFits ==
  ASSUME Following, MerkleblockHeader
  PROVE  Fits(past, tip, job')
<1>1. job.at = "header" /\ job.route = "merkleblock"
  BY DEF Following, IsJob, MerkleblockHeader, Stations
<1>2. Blockless(job.route)
  BY <1>1 DEF Blockless
<1>3. /\ DOMAIN job = Fields /\ Kept(past, job) /\ Current(past, tip, pool)
      /\ Anchored(past, job.found.height, job.block)
  BY <1>1, <1>2, FollowingKept DEF Following, IsJob, Fits, HeaderFits
<1> DEFINE h == job.found.height
           b == HashAt(tip, h)
           j == [job EXCEPT !.header = b]
           k == AtTip(j, "ok", h)
<1>4. b = job.block
  BY <1>3, AnchoredNow
<1>5. job' \in {Done(job, "404"), k}
  BY DEF MerkleblockHeader, Step
<1> HIDE DEF b
<1>6. /\ DOMAIN j = Fields /\ j.header = b /\ j.route = job.route /\ j.found = job.found
      /\ j.spender = job.spender /\ j.utxos = job.utxos /\ j.shown = job.shown
      /\ j.block = job.block /\ j.blocks = job.blocks /\ j.ttl = job.ttl
  BY <1>3 DEF Fields
<1> HIDE DEF j
<1>7. Same(j, k) /\ k.at = "tip" /\ k.height = h
  BY <1>6, AtTipSame
<1> HIDE DEF k
<1>8. Subject(k) = job.block
  BY <1>1, <1>6, <1>7 DEF Subject, Same
<1>9. Fits(past, tip, k)
  BY <1>1, <1>3, <1>4, <1>6, <1>7, <1>8
     DEF Same, Fits, Kept, TimesFit, OutputsFit, HeaderFits, BlocksFit, LifetimeFits, Blockless
<1> QED BY <1>3, <1>5, <1>9, DoneFits

LEMMA GetMerkleFits ==
  ASSUME Following, GetMerkle
  PROVE  Fits(past, tip, job')
<1>1. job.at = "get merkle" /\ job.route = "get merkle"
  BY DEF Following, IsJob, GetMerkle, Stations
<1>2. Blockless(job.route)
  BY <1>1 DEF Blockless
<1>3. DOMAIN job = Fields /\ Kept(past, job)
  BY <1>1, <1>2, FollowingKept DEF Following, IsJob
<1> DEFINE b == HashAt(tip, job.height)
           l == [InBlock(b, 1) EXCEPT !.tx = Head(job.todo)]
           p == Position(l, BlockTxs[b])
           m == BranchAndRoot(BlockTxs[b], p).branch
           j == [job EXCEPT !.block = b, !.found = l, !.pos = p, !.branch = m]
<1>4. job' \in {Done(job, "error"), Done(j, "ok")}
  BY DEF GetMerkle, Step
<1>5. Timed(l)
  BY DEF Timed, InBlock
<1> HIDE DEF b, l, p, m
<1>6. /\ DOMAIN j = Fields /\ j.route = job.route /\ j.found = l
      /\ j.spender = job.spender /\ j.utxos = job.utxos /\ j.shown = job.shown
      /\ j.header = job.header /\ j.blocks = job.blocks /\ j.ttl = job.ttl
  BY <1>3 DEF Fields
<1> HIDE DEF j
<1>7. Kept(past, j)
  BY <1>3, <1>5, <1>6 DEF Kept, OutputsFit
<1> QED BY <1>3, <1>4, <1>6, <1>7, DoneFits

LEMMA OutspendKept ==
  ASSUME Following, job.at \in {"spender", "refs", "check", "spent time"}
  PROVE  /\ DOMAIN job = Fields /\ Kept(past, job) /\ Current(past, tip, pool)
         /\ job.route = "outspend"
<1>1. job.route = "outspend" /\ DOMAIN job = Fields /\ Current(past, tip, pool)
  BY DEF Following, IsJob, Stations
<1>2. Blockless(job.route)
  BY <1>1 DEF Blockless
<1> QED BY <1>1, <1>2, FollowingKept

LEMMA SpenderKept ==
  ASSUME NEW P, NEW j, DOMAIN j = Fields, Kept(P, j), NEW l, Timed(l)
  PROVE  LET k == [j EXCEPT !.spender = l]
         IN  DOMAIN k = Fields /\ Kept(P, k) /\ k.spender = l /\ k.route = j.route
<1> DEFINE k == [j EXCEPT !.spender = l]
<1>1. /\ DOMAIN k = Fields /\ k.found = j.found /\ k.route = j.route /\ k.spender = l
      /\ k.utxos = j.utxos /\ k.shown = j.shown /\ k.header = j.header
      /\ k.blocks = j.blocks /\ k.ttl = j.ttl
  BY DEF Fields
<1> HIDE DEF k
<1>2. Kept(P, k)
  BY <1>1 DEF Kept, OutputsFit
<1> QED BY <1>1, <1>2 DEF k

LEMMA SpenderInPoolFits ==
  ASSUME Following, SpenderInPool
  PROVE  Fits(past, tip, job')
<1>1. DOMAIN job = Fields /\ Kept(past, job)
  BY OutspendKept DEF SpenderInPool
<1> DEFINE l == InPool(CHOOSE t \in { t \in pool : job.outpoint \in Inputs[t] } : TRUE)
           j == [job EXCEPT !.spender = l]
           n == [job EXCEPT !.at = "refs"]
<1>2. job' \in {AtTip(j, "spent", -1), AtTip(job, "unspent", -1), n}
  BY DEF SpenderInPool, Step
<1>3. Timed(l)
  BY PlacesTimed
<1> HIDE DEF l
<1>4. DOMAIN j = Fields /\ Kept(past, j)
  BY <1>1, <1>3, SpenderKept
<1>5. Same(job, n) /\ n.at = "refs"
  BY <1>1 DEF Fields, Same
<1> HIDE DEF j, n
<1>6. Fits(past, tip, AtTip(j, "spent", -1)) /\ Fits(past, tip, AtTip(job, "unspent", -1))
  BY <1>1, <1>4, AtTipFits
<1>7. Fits(past, tip, n)
  BY <1>1, <1>5, KeptSame, KeptQuiet DEF Quiet
<1> QED BY <1>2, <1>6, <1>7

LEMMA ScanRefsFits ==
  ASSUME Following, ScanRefs
  PROVE  Fits(past, tip, job')
<1>1. DOMAIN job = Fields /\ Kept(past, job) /\ Current(past, tip, pool) /\ tip \in Blocks
  BY OutspendKept DEF ScanRefs, Current
<1> DEFINE spends == Spends(tip, job.outpoint, job.found.height)
           l == IF spends = {} THEN Nowhere
                ELSE CHOOSE m \in spends : \A n \in spends : ~Before(n, m)
<1>2. job' = [job EXCEPT !.at = "check", !.tip = tip, !.spender = l]
  BY DEF ScanRefs, Step, Spends
<1>3. l = Nowhere \/ l \in Locations(tip)
  <2>1. SUFFICES ASSUME NEW m \in spends PROVE l \in Locations(tip)
    OBVIOUS
  <2> QED BY <1>1, <2>1, SpendsChosen
<1> HIDE DEF spends, l
<1>4. Timed(l) /\ (l = Nowhere \/ Spot(past, l))
  BY <1>1, <1>3, LocationSpot, PlacesTimed
<1>5. /\ job'.at = "check" /\ job'.spender = l /\ job'.route = job.route
      /\ job'.found = job.found /\ job'.utxos = job.utxos /\ job'.shown = job.shown
      /\ job'.header = job.header /\ job'.blocks = job.blocks /\ job'.ttl = job.ttl
  BY <1>1, <1>2 DEF Fields
<1> QED BY <1>1, <1>4, <1>5
     DEF Fits, Kept, TimesFit, OutputsFit, HeaderFits, BlocksFit, LifetimeFits, Blockless

LEMMA CheckTipFits ==
  ASSUME Following, CheckTip
  PROVE  Fits(past, tip, job')
<1>1. /\ DOMAIN job = Fields /\ Kept(past, job)
      /\ job.spender = Nowhere \/ Spot(past, job.spender)
  BY OutspendKept DEF CheckTip, Following, Fits, TimesFit
<1> DEFINE m == [job EXCEPT !.at = "refs", !.tries = @ + 1]
           n == [job EXCEPT !.at = "spent time"]
           u == AtTip(job, "unspent", -1)
           r == Done(job, "reorg")
<1>2. job' = CASE tip # job.tip /\ LastTry(job.tries) -> r
               [] tip # job.tip /\ ~LastTry(job.tries) -> m
               [] tip = job.tip /\ job.spender = Nowhere -> u
               [] OTHER -> n
  BY DEF CheckTip, Step
<1>3. Same(job, m) /\ m.at = "refs" /\ Same(job, n) /\ n.at = "spent time"
  BY <1>1 DEF Fields, Same
<1>4. Fits(past, tip, u) /\ Fits(past, tip, r)
  BY <1>1, AtTipFits, DoneFits
<1> HIDE DEF m, n, u, r
<1>5. Fits(past, tip, m)
  BY <1>1, <1>3, KeptSame, KeptQuiet DEF Quiet
<1>6. job.spender # Nowhere => Fits(past, tip, n)
  <2>1. Kept(past, n) /\ n.spender = job.spender
    BY <1>1, <1>3, KeptSame DEF Same
  <2> QED BY <1>1, <1>3, <2>1
       DEF Fits, Kept, TimesFit, HeaderFits, BlocksFit, LifetimeFits, Blockless
<1> QED BY <1>2, <1>4, <1>5, <1>6

LEMMA SpenderTimeFits ==
  ASSUME Following, SpenderTime
  PROVE  Fits(past, tip, job')
<1>1. /\ DOMAIN job = Fields /\ Kept(past, job) /\ Current(past, tip, pool)
      /\ job.route = "outspend" /\ Spot(past, job.spender)
  BY OutspendKept DEF SpenderTime, Following, Fits, TimesFit
<1> DEFINE b == BlockTime(tip, job.spender.height)
           h == job.spender.height
           l == [job.spender EXCEPT !.time = b]
           j == [job EXCEPT !.spender = l]
<1>2. [job EXCEPT !.spender.time = b] = j
  BY <1>1 DEF Fields
<1>3. job' \in {Done(job, "404"), AtTip(j, "spent", h)}
  BY <1>2 DEF SpenderTime, Step
<1>4. Timed(l) /\ Spot(past, l) /\ l.block = job.spender.block /\ l.height = h
  BY <1>1, TimeFits
<1> HIDE DEF b, l, h
<1>5. DOMAIN j = Fields /\ Kept(past, j) /\ j.spender = l /\ j.route = job.route
  BY <1>1, <1>4, SpenderKept
<1> HIDE DEF j
<1>6. Anchored(past, h, Subject(j))
  BY <1>1, <1>4, <1>5 DEF Subject, Spot
<1> QED BY <1>1, <1>3, <1>5, <1>6, AtTipFits, DoneFits

-----------------------------------------------------------------------------
(* Scripts *)

LEMMA ScriptKept ==
  ASSUME Following, job.at \in {"history", "mempool", "utxo block", "utxo time", "page", "more"}
  PROVE  /\ DOMAIN job = Fields /\ Kept(past, job) /\ Current(past, tip, pool)
         /\ job.route \in Lists \cup {"utxo", "listunspent", "mempool page"}
<1>1. /\ DOMAIN job = Fields /\ Current(past, tip, pool)
      /\ job.route \in Lists \cup {"utxo", "listunspent", "mempool page"}
  BY DEF Following, IsJob, Stations, Lists, Walks
<1>2. Blockless(job.route)
  BY <1>1 DEF Blockless, Lists
<1> QED BY <1>1, <1>2, FollowingKept

LEMMA OutputsKept ==
  ASSUME NEW P, NEW j, Kept(P, j), NEW k, k.route = j.route, k.found = j.found,
         k.spender = j.spender, k.header = j.header \/ k.route # "merkleblock",
         k.blocks = j.blocks, k.ttl = j.ttl, OutputsFit(P, k)
  PROVE  Kept(P, k)
BY DEF Kept

LEMMA HistoryFits ==
  ASSUME Following, History
  PROVE  Fits(past, tip, job')
<1>1. DOMAIN job = Fields /\ Kept(past, job) /\ Current(past, tip, pool) /\ job.at = "history"
  BY ScriptKept DEF History
<1> DEFINE s == Head(job.keys)
           ks == Only(job.keys, Scripts \ {s})
           rs == job.rows \cup { l \in Rows(tip, s) : \A m \in job.rows : m.tx # l.tx }
           us == job.utxos \cup Utxos(tip, s)
           j == [job EXCEPT !.keys = ks, !.rows = rs, !.utxos = us]
           many == Peak(tip, s) > UtxosLimit
           n == [j EXCEPT !.at = "mempool"]
           z == Select(j, <<>>)
           d == Done(j, "400")
<1>2. job' = CASE j.keys # <<>> -> j
               [] j.keys = <<>> /\ j.route = "txs chain" -> z
               [] j.keys = <<>> /\ j.route = "utxo" /\ many -> d
               [] OTHER -> n
  BY DEF History, Step
<1>3. \A u \in us : Timed(u[1]) /\ Spot(past, u[1])
  <2>1. ASSUME NEW u \in Utxos(tip, s) PROVE Timed(u[1]) /\ Spot(past, u[1])
    <3>1. PICK l \in Rows(tip, s) : u = <<l, s>>
      BY DEF Utxos
    <3>2. l \in Locations(tip) /\ u[1] = l
      BY <3>1 DEF Rows
    <3> QED BY <1>1, <3>2, LocationSpot
  <2> QED BY <1>1, <2>1 DEF Kept, OutputsFit
<1> HIDE DEF ks, rs, us, many
<1>4. /\ DOMAIN j = Fields /\ j.at = "history" /\ j.route = job.route /\ j.found = job.found
      /\ j.spender = job.spender /\ j.utxos = us /\ j.shown = job.shown
      /\ j.header = job.header /\ j.blocks = job.blocks /\ j.ttl = job.ttl
  BY <1>1 DEF Fields
<1> HIDE DEF j
<1>5. Kept(past, j)
  <2>1. OutputsFit(past, j)
    BY <1>1, <1>3, <1>4 DEF Kept, OutputsFit
  <2> QED BY <1>1, <1>4, <2>1, OutputsKept
<1>6. Same(j, n) /\ n.at = "mempool"
  BY <1>4 DEF Fields, Same
<1> HIDE DEF n
<1>7. Fits(past, tip, j) /\ Fits(past, tip, n)
  BY <1>4, <1>5, <1>6, KeptSame, KeptQuiet DEF Quiet
<1>8. Fits(past, tip, d)
  BY <1>4, <1>5, DoneFits
<1>9. j.route = "txs chain" => Fits(past, tip, z)
  BY <1>4, <1>5, SelectRests, RestsFits
<1> HIDE DEF z, d
<1> QED BY <1>2, <1>7, <1>8, <1>9

LEMMA MempoolFits ==
  ASSUME Following, Mempool
  PROVE  Fits(past, tip, job')
<1>1. /\ DOMAIN job = Fields /\ Kept(past, job)
      /\ job.route \in {"utxo", "listunspent", "txs", "txs mempool"}
  BY ScriptKept DEF Mempool, Following, IsJob, Stations
<1> DEFINE s == job.scripts[1]
           view == ScriptView(IndexOf(pool), s, { Outpoint(u) : u \in job.utxos },
                              { l.tx : l \in job.rows })
           us == { u \in job.utxos : ~SpentInPool(Outpoint(u)) }
           w == Unconfirmed(s)
           x == { u \in job.utxos : Outpoint(u) \notin view.spent_confirmed }
                \cup { <<InPool(o[1]), s>> : o \in view.utxos }
           k == Select(job, MempoolTxids(job))
           m == [job EXCEPT !.utxos = us, !.shown = w, !.at = "utxo block"]
           j == [job EXCEPT !.shown = x]
           n == Done(j, "ok")
<1>2. job' = CASE job.route \in Lists -> k
               [] job.route = "utxo" -> m
               [] job.route = "listunspent" -> n
  BY DEF Mempool, Step
<1>3. \A u \in job.utxos : Timed(u[1]) /\ Spot(past, u[1])
  BY <1>1 DEF Kept, OutputsFit
<1>4. \A t : Shown(past, <<InPool(t), s>>[1])
  BY PlacesTimed DEF Shown
<1>5. \A u \in w : Shown(past, u[1])
  <2>1. \A u \in w : \E t : u = <<InPool(t), s>>
    BY DEF Unconfirmed
  <2> QED BY <1>4, <2>1
<1>6. \A u \in x : Shown(past, u[1])
  <2>1. \A u \in x : u \in job.utxos \/ \E t : u = <<InPool(t), s>>
    OBVIOUS
  <2> QED BY <1>3, <1>4, <2>1 DEF Shown
<1>7. us \subseteq job.utxos
  OBVIOUS
<1> HIDE DEF us, w, x, s
<1>8. /\ m.at = "utxo block" /\ m.route = job.route /\ m.found = job.found
      /\ m.spender = job.spender /\ m.header = job.header /\ m.utxos = us /\ m.shown = w
      /\ m.blocks = job.blocks /\ m.ttl = job.ttl
  BY <1>1 DEF Fields
<1>9. /\ DOMAIN j = Fields /\ j.route = job.route /\ j.found = job.found
      /\ j.spender = job.spender /\ j.header = job.header /\ j.utxos = job.utxos
      /\ j.shown = x /\ j.blocks = job.blocks /\ j.ttl = job.ttl
  BY <1>1 DEF Fields
<1> HIDE DEF m, j
<1>10. Fits(past, tip, m)
  <2>1. OutputsFit(past, m)
    BY <1>3, <1>5, <1>7, <1>8 DEF OutputsFit
  <2>2. Kept(past, m)
    BY <1>1, <1>8, <2>1, OutputsKept
  <2> QED BY <1>8, <2>2, KeptQuiet DEF Quiet
<1>11. Fits(past, tip, n)
  <2>1. OutputsFit(past, j)
    BY <1>3, <1>6, <1>9 DEF OutputsFit
  <2>2. Kept(past, j)
    BY <1>1, <1>9, <2>1, OutputsKept
  <2> QED BY <1>9, <2>2, DoneFits
<1>12. job.route \in Lists => Fits(past, tip, k)
  BY <1>1, SelectRests, RestsFits DEF Lists
<1> HIDE DEF k, n
<1>13. \/ job.route \in Lists /\ job' = k
       \/ job.route = "utxo" /\ job' = m
       \/ job' = n
  BY <1>1, <1>2 DEF Lists
<1> QED BY <1>10, <1>11, <1>12, <1>13

\* The block and the time of an output are read after its height, and are those
\* of the block it was found in.
LEMMA UtxoFits ==
  ASSUME Following, UtxoBlock \/ UtxoTime
  PROVE  Fits(past, tip, job')
<1>1. /\ DOMAIN job = Fields /\ Kept(past, job) /\ Current(past, tip, pool) /\ job.route = "utxo"
  BY ScriptKept DEF UtxoBlock, UtxoTime, Following, IsJob, Stations
<1>2. \A a : Fits(past, tip, Done(job, a))
  BY <1>1, DoneFits
<1>3. Lowest = LowestOf(job)
  BY DEF Lowest, LowestOf
<1>4. CASE UtxoBlock
  <2> DEFINE b == HashAt(tip, Lowest)
             k == [job EXCEPT !.at = "utxo time", !.header = b]
  <2>1. \/ \E a : job' = Done(job, a)
        \/ b # NoBlock /\ job' = k
    BY <1>4 DEF UtxoBlock, Step
  <2>2. b # NoBlock => Anchored(past, LowestOf(job), b)
    BY <1>1, <1>3, AnchoredHere
  <2> HIDE DEF b
  <2>3. /\ k.at = "utxo time" /\ k.header = b /\ k.route = job.route /\ k.found = job.found
        /\ k.spender = job.spender /\ k.utxos = job.utxos /\ k.shown = job.shown
        /\ k.blocks = job.blocks /\ k.ttl = job.ttl
    BY <1>1 DEF Fields
  <2> HIDE DEF k
  <2>4. LowestOf(k) = LowestOf(job)
    BY <2>3 DEF LowestOf
  <2>5. b # NoBlock => Fits(past, tip, k)
    BY <1>1, <2>2, <2>3, <2>4
       DEF Fits, Kept, TimesFit, OutputsFit, HeaderFits, BlocksFit, LifetimeFits, Blockless
  <2> QED BY <1>2, <2>1, <2>5
<1>5. CASE UtxoTime
  <2> DEFINE now == { u \in job.utxos : u[1].height = Lowest }
             b == BlockTime(tip, Lowest)
             at(u) == [u[1] EXCEPT !.block = job.header, !.time = b]
             us == job.utxos \ now
             x == job.shown \cup { <<at(u), u[2]>> : u \in now }
             k == [job EXCEPT !.at = "utxo block", !.utxos = us, !.shown = x]
  <2>1. job' \in {Done(job, "404"), k}
    BY <1>5 DEF UtxoTime, Step
  <2>2. Anchored(past, Lowest, job.header)
    BY <1>3, <1>5 DEF UtxoTime, Following, Fits, HeaderFits
  <2>3. b = job.header
    BY <1>1, <2>2, AnchoredNow DEF BlockTime
  <2>4. ASSUME NEW u \in now PROVE Shown(past, at(u))
    <3>1. Spot(past, u[1]) /\ u[1].height = Lowest
      BY <1>1 DEF Kept, OutputsFit
    <3>2. u[1].block = job.header
      BY <1>1, <2>2, <3>1, AnchoredNow DEF Spot
    <3> DEFINE l == u[1]
               h == job.header
               m == [l EXCEPT !.block = h, !.time = b]
    <3> HIDE DEF l, b, h
    <3>3. /\ DOMAIN m = DOMAIN l /\ m.block = h /\ m.time = b
          /\ m.place = l.place /\ m.height = l.height /\ m.tx = l.tx /\ m.pos = l.pos
      BY <3>1 DEF l, Spot
    <3> HIDE DEF m
    <3>4. Spot(past, m) /\ Timed(m)
      BY <2>3, <3>1, <3>2, <3>3 DEF l, h, Spot, Timed
    <3>5. at(u) = m
      BY DEF m, l, h
    <3> QED BY <3>4, <3>5 DEF Shown
  <2> HIDE DEF at, b
  <2>5. \A u \in x : Shown(past, u[1])
    <3>1. \A u \in x : u \in job.shown \/ \E v \in now : u[1] = at(v)
      OBVIOUS
    <3> QED BY <1>1, <2>4, <3>1 DEF Kept, OutputsFit
  <2>6. us \subseteq job.utxos
    OBVIOUS
  <2> HIDE DEF us, x, now
  <2>7. /\ k.at = "utxo block" /\ k.header = job.header /\ k.route = job.route
        /\ k.found = job.found /\ k.spender = job.spender /\ k.utxos = us /\ k.shown = x
        /\ k.blocks = job.blocks /\ k.ttl = job.ttl
    BY <1>1 DEF Fields
  <2> HIDE DEF k
  <2>8. OutputsFit(past, k)
    BY <1>1, <2>5, <2>6, <2>7 DEF Kept, OutputsFit
  <2>9. Kept(past, k)
    BY <1>1, <2>7, <2>8, OutputsKept
  <2>10. Fits(past, tip, k)
    BY <2>7, <2>9, KeptQuiet DEF Quiet
  <2> QED BY <1>2, <2>1, <2>10
<1> QED BY <1>4, <1>5

LEMMA PageFits ==
  ASSUME Following, Page
  PROVE  Fits(past, tip, job')
<1>1. DOMAIN job = Fields /\ Kept(past, job)
  BY ScriptKept DEF Page
<1> DEFINE page == PagedTxids(job)
           x == job.list \o [i \in DOMAIN page |-> InPool(page[i])]
           j == [job EXCEPT !.list = x]
<1>2. job' \in {Take(job, page), PageDone(j)}
  BY DEF Page, Step
<1> HIDE DEF x, page
<1>3. DOMAIN j = Fields /\ Same(job, j)
  BY <1>1 DEF Fields, Same
<1> HIDE DEF j
<1>4. Kept(past, j)
  BY <1>1, <1>3, KeptSame
<1> QED BY <1>1, <1>2, <1>3, <1>4, PageDoneRests, TakeRests, RestsFits

LEMMA MoreFits ==
  ASSUME Following, More
  PROVE  Fits(past, tip, job')
<1>1. DOMAIN job = Fields /\ Kept(past, job)
  BY ScriptKept DEF More
<1> DEFINE a == IF job.route = "mempool page" THEN "page" ELSE "history"
<1>2. job' = [job EXCEPT !.at = a, !.keys = job.scripts, !.rows = {}, !.utxos = {}]
  BY DEF More, Step
<1>3. a \in Quiet
  BY DEF Quiet
<1> HIDE DEF a
<1>4. /\ job'.at = a /\ job'.header = job.header /\ job'.route = job.route
      /\ job'.found = job.found /\ job'.spender = job.spender /\ job'.utxos = {}
      /\ job'.shown = job.shown /\ job'.blocks = job.blocks /\ job'.ttl = job.ttl
  BY <1>1, <1>2 DEF Fields
<1>5. OutputsFit(past, job')
  BY <1>1, <1>4 DEF Kept, OutputsFit
<1>6. Kept(past, job')
  BY <1>1, <1>4, <1>5, OutputsKept
<1> QED BY <1>3, <1>4, <1>6, KeptQuiet

LEMMA StopFits ==
  ASSUME Following, HistoryFails \/ Deadline
  PROVE  Fits(past, tip, job')
<1>1. job.at \in {"history", "locate", "refs"} /\ DOMAIN job = Fields /\ \E a : job' = Done(job, a)
  BY DEF Following, IsJob, HistoryFails, Deadline, Step
<1>2. Blockless(job.route)
  BY <1>1 DEF Following, IsJob, Stations, Blockless, Lists
<1> QED BY <1>1, <1>2, FollowingKept, DoneFits

-----------------------------------------------------------------------------
(* Blocks *)

\* What a request for blocks has besides them.
Plainly(P, j) ==
  /\ Timed(j.found) /\ Timed(j.spender) /\ OutputsFit(P, j) /\ j.ttl = "none"
  /\ j.route \in {"blocks", "tip hash", "block height", "block status", "block txs", "headers"}

\* k differs from j in where it is, and in height and blocks.
Besides(j, k) ==
  /\ k.route = j.route /\ k.found = j.found /\ k.spender = j.spender
  /\ k.utxos = j.utxos /\ k.shown = j.shown /\ k.block = j.block /\ k.ttl = j.ttl

LEMMA PlainlyFits ==
  ASSUME NEW P, NEW n, NEW j, Plainly(P, j), NEW k, Besides(j, k), BlocksFit(P, k),
         k.at \in {"listing", "next", "tip", "done"},
         k.at = "tip" => k.height = -1 \/ Anchored(P, k.height, Subject(k))
  PROVE  Fits(P, n, k)
<1>1. TimesFit(P, k) /\ OutputsFit(P, k) /\ HeaderFits(P, k)
  BY DEF Plainly, Besides, TimesFit, OutputsFit, HeaderFits
<1>2. LifetimeFits(P, n, k)
  BY DEF Plainly, Besides, LifetimeFits
<1> QED BY <1>1, <1>2 DEF Fits

LEMMA BlocksFacts ==
  ASSUME Following,
         job.at \in {"headers", "first", "listing", "at height", "best", "next"}
  PROVE  /\ DOMAIN job = Fields /\ Plainly(past, job) /\ BlocksFit(past, job)
         /\ Current(past, tip, pool) /\ tip \in Blocks /\ <<tip, pool>> \in past
         /\ Height(tip) \in Nat /\ ~Blockless(job.route)
<1>1. /\ DOMAIN job = Fields /\ BlocksFit(past, job)
      /\ Current(past, tip, pool) /\ tip \in Blocks /\ <<tip, pool>> \in past
      /\ job.route \in {"blocks", "tip hash", "block height", "block status", "block txs", "headers"}
  BY DEF Following, IsJob, Stations, Current, Fits
<1>2. Plainly(past, job)
  BY <1>1 DEF Following, Fits, TimesFit, LifetimeFits, Plainly
<1>3. ~Blockless(job.route)
  BY <1>1 DEF Blockless
<1> QED BY <1>1, <1>2, <1>3, PathFacts

LEMMA DoneBesides ==
  ASSUME NEW j, DOMAIN j = Fields, NEW a
  PROVE  /\ Besides(j, Done(j, a)) /\ Done(j, a).at = "done"
         /\ Done(j, a).blocks = j.blocks /\ Done(j, a).height = j.height
BY DoneSame DEF Same, Besides

LEMMA AtTipBesides ==
  ASSUME NEW j, DOMAIN j = Fields, NEW a, NEW h
  PROVE  /\ Besides(j, AtTip(j, a, h)) /\ AtTip(j, a, h).at = "tip"
         /\ AtTip(j, a, h).blocks = j.blocks /\ AtTip(j, a, h).height = h
BY AtTipSame DEF Same, Besides

LEMMA BesidesOn ==
  ASSUME NEW i, NEW j, NEW k, Besides(i, j), Besides(j, k)
  PROVE  Besides(i, k)
BY DEF Besides

LEMMA BlockHeadersFits ==
  ASSUME Following, BlockHeaders
  PROVE  Fits(past, tip, job')
<1>1. DOMAIN job = Fields /\ Plainly(past, job) /\ job.route = "headers"
  BY BlocksFacts DEF BlockHeaders, Following, IsJob, Stations
<1> DEFINE count == Sets!Min({job.count, HeadersLimit, Height(tip) - job.height + 1})
           hashes == SubSeq(Path[tip], 1, Sets!Min({job.cp, Height(tip)}) + 1)
           p == Sets!Min({job.height, Len(hashes) - 1})
           x == SubSeq(Path[tip], job.height + 1, job.height + count)
           m == IF job.cp > 0 THEN BranchAndRoot(hashes, p).branch ELSE <<>>
           j == [job EXCEPT !.blocks = x, !.branch = m]
<1>2. job' \in {Done(job, "ok"), Done(j, "ok")}
  BY DEF BlockHeaders, Step
<1> HIDE DEF x, m
<1>3. DOMAIN j = Fields /\ Besides(job, j)
  BY <1>1 DEF Fields, Besides
<1> HIDE DEF j
<1>4. Besides(job, job') /\ job'.at = "done"
  BY <1>1, <1>2, <1>3, DoneBesides, BesidesOn
<1>5. BlocksFit(past, job')
  BY <1>1, <1>4 DEF BlocksFit, Besides, Blockless
<1> QED BY <1>1, <1>4, <1>5, PlainlyFits

LEMMA FirstTipFits ==
  ASSUME Following, FirstTip
  PROVE  Fits(past, tip, job')
<1>1. /\ DOMAIN job = Fields /\ Plainly(past, job) /\ <<tip, pool>> \in past
      /\ Height(tip) \in Nat /\ job.blocks = <<>> /\ ~Blockless(job.route)
  BY BlocksFacts DEF FirstTip, BlocksFit
<1>2. job' = [job EXCEPT !.at = "listing", !.height = Height(tip)]
  BY DEF FirstTip, Step
<1>3. /\ Besides(job, job') /\ job'.at = "listing" /\ job'.height = Height(tip)
      /\ job'.blocks = <<>>
  BY <1>1, <1>2 DEF Fields, Besides
<1>4. Listing(past, job')
  <2> DEFINE v == <<tip, pool>>
  <2>1. v \in past /\ v[1] = tip
    BY <1>1
  <2>2. /\ job'.blocks \in Seq(Blocks) /\ Len(job'.blocks) = 0
        /\ Len(job'.blocks) \in 0..Height(tip) /\ job'.height = Height(tip) - Len(job'.blocks)
    BY <1>1, <1>3
  <2>3. \A i \in 1..Len(job'.blocks) : job'.blocks[i] = HashAt(tip, Height(tip) + 1 - i)
    BY <2>2
  <2> HIDE DEF v
  <2> QED BY <2>1, <2>2, <2>3 DEF Listing
<1>5. BlocksFit(past, job')
  BY <1>1, <1>3, <1>4 DEF BlocksFit, Besides
<1> QED BY <1>1, <1>3, <1>5, PlainlyFits

\* x goes one block further than the list of j.
Continues(P, j, x) ==
  \E v \in P :
    /\ v[1] \in Blocks /\ Height(v[1]) \in Nat
    /\ Len(x) = Len(j.blocks) + 1
    /\ Len(j.blocks) \in 0..Height(v[1])
    /\ j.height = Height(v[1]) - Len(j.blocks)
    /\ \A i \in 1..(Len(j.blocks) + 1) : x[i] = HashAt(v[1], Height(v[1]) + 1 - i)

\* A list that was begun has its next block, and that is of the chain it began
\* with.
LEMMA NextListed ==
  ASSUME NEW P, NEW k, NEW S, Current(P, k, S), NEW j, Listing(P, j), NEW b,
         b = HashAt(k, j.height)
  PROVE  /\ b \in Blocks /\ b # NoBlock /\ j.height \in Nat
         /\ j.blocks \in Seq(Blocks)
         /\ Continues(P, j, Append(j.blocks, b))
<1>1. PICK v \in P :
        /\ j.blocks \in Seq(Blocks) /\ Len(j.blocks) \in 0..Height(v[1])
        /\ j.height = Height(v[1]) - Len(j.blocks)
        /\ \A i \in 1..Len(j.blocks) : j.blocks[i] = HashAt(v[1], Height(v[1]) + 1 - i)
  BY DEF Listing
<1> DEFINE x == j.blocks
           t == v[1]
           h == Height(t)
<1>2. k \in Blocks /\ Grown(t, k)
  BY DEF Current
<1>3. t \in Blocks /\ h \in Nat
  BY <1>2, PlaceOfBlock, PathFacts
<1>4. j.height \in 0..h /\ j.height \in Nat
  BY <1>1, <1>3
<1>5. HashAt(t, j.height) \in Blocks
  <2>1. Path[t] \in Seq(Blocks) /\ Len(Path[t]) \in Nat /\ h = Len(Path[t]) - 1
    BY <1>3, PathFacts
  <2>2. j.height + 1 \in 1..Len(Path[t])
    BY <1>4, <2>1
  <2>3. Path[t][j.height + 1] \in Blocks
    BY <2>1, <2>2
  <2> QED BY <1>4, <2>3 DEF HashAt
<1>6. HashAt(t, j.height) # NoBlock
  BY <1>5, QueriesAssumption DEF QueriesAssumption
<1>7. b = HashAt(t, j.height)
  BY <1>2, <1>6, GrownHash
<1>8. x \in Seq(Blocks) /\ Len(x) \in Nat /\ b \in Blocks
  BY <1>1, <1>5, <1>7
<1>9. /\ Len(Append(x, b)) = Len(x) + 1 /\ Append(x, b)[Len(x) + 1] = b
      /\ \A i \in 1..Len(x) : Append(x, b)[i] = x[i]
  BY <1>8
<1>10. h + 1 - (Len(x) + 1) = j.height
  BY <1>1, <1>3, <1>8
<1>11. \A i \in 1..(Len(x) + 1) : i \in 1..Len(x) \/ i = Len(x) + 1
  BY <1>8
<1>12. \A i \in 1..(Len(x) + 1) : Append(x, b)[i] = HashAt(t, h + 1 - i)
  BY <1>1, <1>7, <1>9, <1>10, <1>11
<1>13. Continues(P, j, Append(x, b))
  BY <1>1, <1>3, <1>9, <1>12 DEF Continues
<1> QED BY <1>4, <1>6, <1>7, <1>8, <1>13

LEMMA ListBlockFits ==
  ASSUME Following, ListBlock
  PROVE  Fits(past, tip, job')
<1>1. /\ DOMAIN job = Fields /\ Plainly(past, job) /\ Current(past, tip, pool)
      /\ Listing(past, job) /\ (job.route = "tip hash" => job.blocks = <<>>)
      /\ ~Blockless(job.route) /\ job.route \in {"blocks", "tip hash"}
      /\ job.at = "listing"
  BY BlocksFacts DEF ListBlock, BlocksFit, Following, IsJob, Stations
<1> DEFINE b == HashAt(tip, job.height)
           x == Append(job.blocks, b)
           g == job.height - 1
           j == [job EXCEPT !.blocks = x, !.height = g]
           limit == IF job.route = "blocks" THEN BlockLimit ELSE 1
           a == IF job.blocks = <<>> THEN "404" ELSE "ok"
           d == Done(job, a)
           e == Done(j, "ok")
           last == b # NoBlock /\ (job.height = 0 \/ Len(j.blocks) = limit)
<1>2. job' = CASE b = NoBlock -> d [] last -> e [] OTHER -> j
  BY DEF ListBlock, Step
<1>3. /\ b \in Blocks /\ b # NoBlock /\ job.height \in Nat /\ job.blocks \in Seq(Blocks)
      /\ Continues(past, job, x)
  BY <1>1, NextListed
<1>4. PICK v \in past :
        /\ v[1] \in Blocks /\ Height(v[1]) \in Nat
        /\ Len(x) = Len(job.blocks) + 1
        /\ Len(job.blocks) \in 0..Height(v[1])
        /\ job.height = Height(v[1]) - Len(job.blocks)
        /\ \A i \in 1..(Len(job.blocks) + 1) : x[i] = HashAt(v[1], Height(v[1]) + 1 - i)
  BY <1>3 DEF Continues
<1>5. x \in Seq(Blocks) /\ Len(x) \in Nat /\ DOMAIN x = 1..Len(x) /\ Len(job.blocks) \in Nat
  BY <1>3
<1>6. x[1] = v[1]
  <2>1. 1 \in 1..(Len(job.blocks) + 1) /\ Height(v[1]) + 1 - 1 = Height(v[1])
    BY <1>4, <1>5
  <2>2. HashAt(v[1], Height(v[1])) = v[1]
    BY <1>4, GrownSelf, PlaceOfBlock
  <2> QED BY <1>4, <2>1, <2>2
<1> HIDE DEF b, x, g, a
<1>7. /\ DOMAIN j = Fields /\ Besides(job, j) /\ j.blocks = x /\ j.height = g
      /\ j.at = "listing"
  BY <1>1 DEF Fields, Besides
<1>8. job' = e \/ (job' = j /\ job.height # 0 /\ Len(x) # limit)
  <2> HIDE DEF j, d, e, limit
  <2> QED BY <1>2, <1>3, <1>7
<1> HIDE DEF j
<1>9. ASSUME job.route = "tip hash" PROVE Len(job.blocks) = 0
  <2>1. job.blocks = <<>>
    BY <1>1, <1>9
  <2>2. Len(<<>>) = 0
    OBVIOUS
  <2> QED BY <2>1, <2>2
<1>10. CASE job' = e
  <2>1. Besides(job, e) /\ e.at = "done" /\ e.blocks = x
    BY <1>7, DoneBesides, BesidesOn
  <2> HIDE DEF e
  <2>2. e.route = job.route
    BY <2>1 DEF Besides
  <2>3. CASE job.route = "tip hash"
    <3>1. Len(x) = 1
      <4>1. Len(job.blocks) = 0
        BY <1>9, <2>3
      <4>2. Len(x) = Len(job.blocks) + 1
        BY <1>4
      <4> QED BY <4>1, <4>2
    <3>2. \A i \in DOMAIN e.blocks : e.blocks[i] = v[1]
      BY <1>5, <1>6, <2>1, <3>1
    <3>3. Piece(past, e)
      BY <2>2, <2>3, <3>2 DEF Piece, PieceFor
    <3>4. BlocksFit(past, e)
      BY <1>1, <2>1, <2>2, <3>3 DEF BlocksFit
    <3> QED BY <1>1, <1>10, <2>1, <3>4, PlainlyFits
  <2>4. CASE job.route = "blocks"
    <3>1. \A i \in DOMAIN e.blocks : e.blocks[i] = HashAt(v[1], Height(e.blocks[1]) + 1 - i)
      BY <1>4, <1>5, <1>6, <2>1
    <3>2. Piece(past, e)
      BY <2>2, <2>4, <3>1 DEF Piece, PieceFor
    <3>3. BlocksFit(past, e)
      BY <1>1, <2>1, <2>2, <3>2 DEF BlocksFit
    <3> QED BY <1>1, <1>10, <2>1, <3>3, PlainlyFits
  <2> QED BY <1>1, <2>3, <2>4
<1>11. CASE job' = j /\ job.height # 0 /\ Len(x) # limit
  <2>1. job.route = "blocks"
    <3>1. ASSUME job.route = "tip hash" PROVE FALSE
      <4>1. Len(job.blocks) = 0
        BY <1>9, <3>1
      <4>2. Len(x) = Len(job.blocks) + 1
        BY <1>4
      <4>3. limit = 1
        BY <3>1
      <4>4. Len(x) = 1
        BY <4>1, <4>2
      <4> QED BY <1>11, <4>3, <4>4
    <3> QED BY <1>1, <3>1
  <2>2. Len(x) \in 0..Height(v[1]) /\ g = Height(v[1]) - Len(x)
    BY <1>3, <1>4, <1>5, <1>11 DEF g
  <2>3. Listing(past, j)
    BY <1>4, <1>5, <1>7, <2>2 DEF Listing
  <2>4. BlocksFit(past, j)
    BY <1>1, <1>7, <2>1, <2>3 DEF BlocksFit, Besides
  <2> QED BY <1>1, <1>7, <1>11, <2>4, PlainlyFits
<1> QED BY <1>8, <1>10, <1>11

LEMMA BlockAtHeightFits ==
  ASSUME Following, BlockAtHeight
  PROVE  Fits(past, tip, job')
<1>1. /\ DOMAIN job = Fields /\ Plainly(past, job) /\ Current(past, tip, pool)
      /\ <<tip, pool>> \in past /\ job.route = "block height" /\ job.blocks = <<>>
      /\ ~Blockless(job.route)
  BY BlocksFacts DEF BlockAtHeight, Following, IsJob, Stations, BlocksFit
<1> DEFINE b == HashAt(tip, job.height)
           x == <<b>>
           j == [job EXCEPT !.blocks = x]
           k == AtTip(j, "ok", job.height)
           d == Done(job, "404")
<1>2. job' = d \/ (b # NoBlock /\ job' = k)
  BY DEF BlockAtHeight, Step
<1>3. b # NoBlock => Anchored(past, job.height, b)
  BY <1>1, AnchoredHere
<1>4. DOMAIN x = {1} /\ x[1] = b
  OBVIOUS
<1> HIDE DEF x
<1>5. DOMAIN j = Fields /\ Besides(job, j) /\ j.blocks = x
  BY <1>1 DEF Fields, Besides
<1> HIDE DEF j
<1>6. Besides(job, k) /\ k.at = "tip" /\ k.blocks = x /\ k.height = job.height
  BY <1>5, AtTipBesides, BesidesOn
<1>7. Besides(job, d) /\ d.at = "done" /\ d.blocks = <<>>
  BY <1>1, DoneBesides
<1> HIDE DEF k, d
<1>8. Fits(past, tip, d)
  <2>1. BlocksFit(past, d)
    BY <1>7 DEF BlocksFit
  <2> QED BY <1>1, <1>7, <2>1, PlainlyFits
<1>9. b # NoBlock => Fits(past, tip, k)
  <2>1. k.route = "block height"
    BY <1>1, <1>6 DEF Besides
  <2>2. <<tip, pool>>[1] = tip
    OBVIOUS
  <2>3. Piece(past, k)
    BY <1>1, <1>4, <1>6, <2>1, <2>2 DEF Piece, PieceFor
  <2>4. Subject(k) = b
    BY <1>4, <1>6, <2>1 DEF Subject
  <2>5. BlocksFit(past, k)
    BY <1>6, <2>1, <2>3 DEF BlocksFit, Blockless
  <2> QED BY <1>1, <1>3, <1>6, <2>4, <2>5, PlainlyFits
<1> QED BY <1>2, <1>8, <1>9

LEMMA InBestChainFits ==
  ASSUME Following, InBestChain
  PROVE  Fits(past, tip, job')
<1>1. /\ DOMAIN job = Fields /\ Plainly(past, job) /\ <<tip, pool>> \in past
      /\ job.route \in {"block status", "block txs"} /\ job.blocks = <<>>
      /\ job.block \in Blocks /\ ~Blockless(job.route)
  BY BlocksFacts DEF InBestChain, Following, IsJob, Stations, BlocksFit
<1> DEFINE h == Height(job.block)
           s == AtTip(job, "stale", -1)
           t == AtTip(job, "best", h)
           n == [job EXCEPT !.at = "next"]
<1>2. job' = s \/ (HashAt(tip, h) = job.block /\ job' \in {t, n})
  <2>1. job' = CASE HashAt(tip, h) # job.block -> s
                 [] HashAt(tip, h) = job.block /\ job.route = "block txs" -> t
                 [] OTHER -> n
    BY DEF InBestChain, Step
  <2> HIDE DEF s, t, n, h
  <2> QED BY <2>1
<1>3. HashAt(tip, h) = job.block => Anchored(past, h, job.block)
  <2>1. <<tip, pool>>[1] = tip
    OBVIOUS
  <2> QED BY <1>1, <2>1 DEF Anchored
<1> HIDE DEF h
<1>4. Besides(job, n) /\ n.at = "next" /\ n.blocks = <<>>
  BY <1>1 DEF Fields, Besides
<1>5. /\ Besides(job, s) /\ s.at = "tip" /\ s.blocks = <<>> /\ s.height = -1
      /\ Besides(job, t) /\ t.at = "tip" /\ t.blocks = <<>> /\ t.height = h
  <2>1. DOMAIN job = Fields
    BY <1>1
  <2>2. Besides(job, s) /\ s.at = "tip" /\ s.blocks = job.blocks /\ s.height = -1
    BY <2>1, AtTipBesides
  <2>3. Besides(job, t) /\ t.at = "tip" /\ t.blocks = job.blocks /\ t.height = h
    BY <2>1, AtTipBesides
  <2> HIDE DEF s, t
  <2> QED BY <1>1, <2>2, <2>3
<1> HIDE DEF s, t, n
<1>6. Fits(past, tip, s)
  <2>1. BlocksFit(past, s)
    BY <1>5 DEF BlocksFit
  <2> QED BY <1>1, <1>5, <2>1, PlainlyFits
<1>7. HashAt(tip, h) = job.block => Fits(past, tip, t)
  <2>1. BlocksFit(past, t)
    BY <1>5 DEF BlocksFit
  <2>2. Subject(t) = job.block
    BY <1>1, <1>5 DEF Subject, Besides
  <2> QED BY <1>1, <1>3, <1>5, <2>1, <2>2, PlainlyFits
<1>8. HashAt(tip, h) = job.block => Fits(past, tip, n)
  <2>1. n.block = job.block
    BY <1>4 DEF Besides
  <2>2. HashAt(tip, h) = job.block => BlocksFit(past, n)
    BY <1>3, <1>4, <2>1 DEF BlocksFit, h
  <2> QED BY <1>1, <1>4, <2>2, PlainlyFits
<1> QED BY <1>2, <1>6, <1>7, <1>8

LEMMA NextBestFits ==
  ASSUME Following, NextBest
  PROVE  Fits(past, tip, job')
<1>1. /\ DOMAIN job = Fields /\ Plainly(past, job) /\ Current(past, tip, pool)
      /\ <<tip, pool>> \in past /\ job.route \in {"block status", "block txs"}
      /\ Anchored(past, Height(job.block), job.block)
  BY BlocksFacts DEF NextBest, Following, IsJob, Stations, BlocksFit
<1> DEFINE h == Height(job.block)
           b == HashAt(tip, h + 1)
           x == <<b>>
           j == [job EXCEPT !.blocks = x]
           k == AtTip(j, "best", h)
<1>2. job' = k
  BY DEF NextBest, Step
<1>3. HashAt(tip, h) = job.block
  BY <1>1, AnchoredNow
<1>4. DOMAIN x = {1} /\ x[1] = b
  OBVIOUS
<1> HIDE DEF x
<1>5. DOMAIN j = Fields /\ Besides(job, j) /\ j.blocks = x
  BY <1>1 DEF Fields, Besides
<1> HIDE DEF j
<1>6. Besides(job, k) /\ k.at = "tip" /\ k.blocks = x /\ k.height = h
  BY <1>5, AtTipBesides, BesidesOn
<1> HIDE DEF k
<1>7. k.route = job.route /\ k.block = job.block
  BY <1>6 DEF Besides
<1>8. Piece(past, k)
  <2>1. <<tip, pool>>[1] = tip
    OBVIOUS
  <2> HIDE DEF h
  <2> QED BY <1>1, <1>3, <1>4, <1>6, <1>7, <2>1 DEF Piece, PieceFor
<1>9. Subject(k) = job.block
  BY <1>1, <1>7 DEF Subject
<1>10. BlocksFit(past, k)
  BY <1>1, <1>6, <1>7, <1>8 DEF BlocksFit, Blockless
<1> QED BY <1>1, <1>2, <1>6, <1>9, <1>10, PlainlyFits

\* An answer is kept for long only if its block is deep below the tip, which has
\* grown from the one it was read under.
LEMMA ReadTipFits ==
  ASSUME Following, ReadTip
  PROVE  Fits(past, tip, job')
<1> DEFINE k == Done(job, job.answer)
           x == TtlByDepth(job.height, Height(tip))
<1>1. DOMAIN job = Fields /\ job.at = "tip" /\ Current(past, tip, pool) /\ Fits(past, tip, job)
  BY DEF Following, IsJob, ReadTip
<1>2. job' = [k EXCEPT !.ttl = x]
  BY DEF ReadTip, Step
<1>3. DOMAIN k = Fields
  BY <1>1, DoneGoes DEF Goes, IsJob
<1> HIDE DEF k, x
<1>4. job'.ttl = x
  BY <1>2, <1>3 DEF Fields
<1>5. job'.at = "done" /\ \A f \in Fields \ {"at", "ttl"} : job'[f] = job[f]
  BY ReadTipGoes DEF Following
<1>6. /\ job'.route = job.route /\ job'.found = job.found /\ job'.spender = job.spender
      /\ job'.utxos = job.utxos /\ job'.shown = job.shown /\ job'.header = job.header
      /\ job'.block = job.block /\ job'.blocks = job.blocks /\ job'.height = job.height
  BY <1>5 DEF Fields
<1>7. TimesFit(past, job') /\ OutputsFit(past, job') /\ HeaderFits(past, job')
  BY <1>1, <1>5, <1>6 DEF Fits, TimesFit, OutputsFit, HeaderFits
<1>8. Piece(past, job) => Piece(past, job')
  BY <1>6 DEF Piece
<1>9. BlocksFit(past, job')
  BY <1>1, <1>5, <1>6, <1>8 DEF Fits, BlocksFit
<1>10. Subject(job') = Subject(job)
  BY <1>6 DEF Subject
<1>11. LifetimeFits(past, tip, job')
  <2>1. SUFFICES ASSUME x = "long"
                 PROVE  /\ HashAt(tip, job.height) = Subject(job)
                        /\ Height(tip) >= Height(Subject(job)) + CONF_FINAL
    BY <1>4, <1>5, <1>6, <1>10 DEF LifetimeFits
  <2>2. job.height >= 0 /\ Height(tip) - job.height >= CONF_FINAL
    BY <2>1 DEF x, TtlByDepth
  <2>3. Anchored(past, job.height, Subject(job))
    BY <1>1, <2>2 DEF Fits, LifetimeFits
  <2>4. /\ HashAt(tip, job.height) = Subject(job) /\ Height(Subject(job)) = job.height
        /\ job.height \in Nat
    BY <1>1, <2>3, AnchoredNow
  <2>5. Height(tip) \in Nat /\ CONF_FINAL \in Nat
    BY <1>1, PathFacts, QueriesAssumption DEF Current, QueriesAssumption
  <2> QED BY <2>2, <2>4, <2>5
<1> QED BY <1>7, <1>9, <1>11 DEF Fits

LEMMA ReadingFits ==
  ASSUME Following, Reading
  PROVE  Fits(past, tip, job')
BY LocateFits, FindTimeFits, FindFits, PrevoutFits, BlockPositionFits, MerkleblockHeaderFits,
   GetMerkleFits, BlockHeadersFits, SpenderInPoolFits, ScanRefsFits, CheckTipFits,
   SpenderTimeFits, HistoryFits, MempoolFits, UtxoFits, PageFits, MoreFits, StopFits,
   FirstTipFits, ListBlockFits, BlockAtHeightFits, InBestChainFits, NextBestFits, ReadTipFits
   DEF Reading

-----------------------------------------------------------------------------
(* Requests come, and the chain grows *)

Bare(j) ==
  /\ j.found = Nowhere /\ j.spender = Nowhere /\ j.utxos = {} /\ j.shown = {}
  /\ j.header = NoBlock /\ j.blocks = <<>> /\ j.ttl = "none"

FirstReads == {"locate", "get", "history", "page", "first", "at height", "get merkle", "headers"}

\* It begins with its first read, and one about a block names it.
Begins(j) == Bare(j) /\ (j.at \in FirstReads \/ (j.at = "best" /\ j.block \in Blocks))

LEMMA BareBuilders ==
  /\ \A r, at : Bare(Plain(r, at))
  /\ \A r, at, t : Bare(OfTx(r, at, t))
  /\ \A o : Bare(OfOutpoint(o)) /\ OfOutpoint(o).at = "locate"
  /\ \A r, keys, c : Bare(OfScripts(r, keys, c))
  /\ \A r, k : Bare(OfBlock(r, k)) /\ OfBlock(r, k).block = k
  /\ \A h : Bare(OfHeight(h))
  /\ \A t, h : Bare(OfTxAt(t, h))
  /\ \A h, n, cp : Bare(OfHeaders(h, n, cp))
<1>1. DOMAIN Idle = Fields /\ Bare(Idle)
  BY DEF Idle, Fields, Bare
<1>2. \A r, at : Bare(Plain(r, at))
  BY <1>1 DEF Plain, Bare, Fields
<1>3. \A r, at, t : Bare(OfTx(r, at, t))
  BY <1>1 DEF OfTx, Bare, Fields
<1>4. \A o : Bare(OfOutpoint(o)) /\ OfOutpoint(o).at = "locate"
  BY <1>1 DEF OfOutpoint, Bare, Fields
<1>5. \A r, keys, c : Bare(OfScripts(r, keys, c))
  BY <1>1 DEF OfScripts, Bare, Fields
<1>6. \A r, k : Bare(OfBlock(r, k)) /\ OfBlock(r, k).block = k
  BY <1>1 DEF OfBlock, Bare, Fields
<1>7. \A h : Bare(OfHeight(h))
  BY <1>1 DEF OfHeight, Bare, Fields
<1>8. \A t, h : Bare(OfTxAt(t, h))
  BY <1>1 DEF OfTxAt, Bare, Fields
<1>9. \A h, n, cp : Bare(OfHeaders(h, n, cp))
  BY <1>1 DEF OfHeaders, Bare, Fields
<1> QED BY <1>2, <1>3, <1>4, <1>5, <1>6, <1>7, <1>8, <1>9

LEMMA RequestsBegin ==
  ASSUME NEW j \in Requests
  PROVE  Begins(j)
<1>1. \/ \E r, t : j = OfTx(r, "locate", t)
      \/ \E t : j = OfTx("get", "get", t)
      \/ \E o : j = OfOutpoint(o)
      \/ \E r, keys, c : j = OfScripts(r, keys, c)
      \/ \E r : j = Plain(r, "page")
      \/ \E r : j = Plain(r, "first")
      \/ \E h : j = OfHeight(h)
      \/ \E r : \E k \in Blocks : j = OfBlock(r, k)
      \/ \E t, h : j = OfTxAt(t, h)
      \/ \E h, n, cp : j = OfHeaders(h, n, cp)
  BY DEF Requests
<1>2. Bare(j)
  BY <1>1, BareBuilders
<1>3. /\ \A r : Plain(r, "page").at \in FirstReads /\ Plain(r, "first").at \in FirstReads
      /\ \A r, t : OfTx(r, "locate", t).at \in FirstReads /\ OfTx(r, "get", t).at \in FirstReads
      /\ \A o : OfOutpoint(o).at \in FirstReads
      /\ \A r, keys, c : OfScripts(r, keys, c).at \in FirstReads
      /\ \A r, k : OfBlock(r, k).at = "best" /\ OfBlock(r, k).block = k
      /\ \A h : OfHeight(h).at \in FirstReads
      /\ \A t, h : OfTxAt(t, h).at \in FirstReads
      /\ \A h, n, cp : OfHeaders(h, n, cp).at \in FirstReads
  <2>1. "page" \in FirstReads /\ "first" \in FirstReads /\ "locate" \in FirstReads
    BY DEF FirstReads
  <2>2. "get" \in FirstReads /\ "history" \in FirstReads /\ "headers" \in FirstReads
    BY DEF FirstReads
  <2>3. "at height" \in FirstReads
    BY DEF FirstReads
  <2>4. "get merkle" \in FirstReads
    BY DEF FirstReads
  <2>5. \A r, at : New(Plain(r, at), r, at)
    BY NewRequests
  <2>6. \A r : Plain(r, "page").at \in FirstReads /\ Plain(r, "first").at \in FirstReads
    BY <2>1, <2>5 DEF New
  <2>7. \A r, at, t : New(OfTx(r, at, t), r, at)
    BY NewRequests
  <2>8. \A r, t : OfTx(r, "locate", t).at \in FirstReads /\ OfTx(r, "get", t).at \in FirstReads
    BY <2>1, <2>2, <2>7 DEF New
  <2>9. \A o : OfOutpoint(o).at \in FirstReads
    BY <2>1, BareBuilders
  <2>10. \A r, keys, c : New(OfScripts(r, keys, c), r, "history")
    BY NewRequests
  <2>11. \A r, keys, c : OfScripts(r, keys, c).at \in FirstReads
    BY <2>2, <2>10 DEF New
  <2>12. \A r, k : New(OfBlock(r, k), r, "best")
    BY NewRequests
  <2>13. \A r, k : OfBlock(r, k).at = "best" /\ OfBlock(r, k).block = k
    BY <2>12, BareBuilders DEF New
  <2>14. \A h : New(OfHeight(h), "block height", "at height")
    BY NewRequests
  <2>15. \A h : OfHeight(h).at \in FirstReads
    BY <2>3, <2>14 DEF New
  <2>16. \A t, h : New(OfTxAt(t, h), "get merkle", "get merkle")
    BY NewRequests
  <2>17. \A t, h : OfTxAt(t, h).at \in FirstReads
    BY <2>4, <2>16 DEF New
  <2>18. \A h, n, cp : New(OfHeaders(h, n, cp), "headers", "headers")
    BY NewRequests
  <2>19. \A h, n, cp : OfHeaders(h, n, cp).at \in FirstReads
    BY <2>2, <2>18 DEF New
  <2> QED BY <2>6, <2>8, <2>9, <2>11, <2>13, <2>15, <2>17, <2>19
<1>4. j.at \in FirstReads \/ (j.at = "best" /\ j.block \in Blocks)
  BY <1>1, <1>3
<1> QED BY <1>2, <1>4 DEF Begins

LEMMA BeginsFits ==
  ASSUME NEW j, Begins(j), NEW P, NEW k
  PROVE  Fits(P, k, j)
<1>1. TimesFit(P, j) /\ OutputsFit(P, j)
  BY PlacesTimed DEF Begins, Bare, TimesFit, OutputsFit, FirstReads
<1>2. HeaderFits(P, j) /\ BlocksFit(P, j) /\ LifetimeFits(P, k, j)
  BY DEF Begins, Bare, HeaderFits, BlocksFit, LifetimeFits, FirstReads
<1> QED BY <1>1, <1>2 DEF Fits

LEMMA FitsInit == Init => FitsInv
<1> SUFFICES ASSUME Init PROVE FitsInv
  OBVIOUS
<1>1. job = Idle /\ Idle.at = "idle"
  BY IdleFacts DEF Init
<1> QED BY <1>1, KnowsInit DEF FitsInv

LEMMA FitsNext == FitsInv /\ [Next]_vars => FitsInv'
<1> SUFFICES ASSUME FitsInv, [Next]_vars PROVE FitsInv'
  OBVIOUS
<1>1. KnowsInv'
  BY KnowsNext DEF FitsInv
<1>2. SUFFICES ASSUME job'.at # "idle", ~reorged' PROVE Fits(past', tip', job')
  BY <1>1 DEF FitsInv
<1>3. CASE UNCHANGED vars
  BY <1>2, <1>3 DEF vars, FitsInv
<1>4. CASE Begin
  <2>1. Begins(job')
    BY <1>4, RequestsBegin DEF Begin
  <2> QED BY <2>1, BeginsFits
<1>5. CASE Answered
  BY <1>2, <1>5, IdleFacts DEF Answered
<1>6. CASE Refresh
  <2>1. /\ job' = job /\ job.at \notin {"idle", "done"} /\ ~reorged /\ past \subseteq past'
    BY <1>2, <1>6 DEF Refresh, InHand
  <2>2. Fits(past, tip, job)
    BY <2>1 DEF FitsInv
  <2> QED BY <2>1, <2>2, FitsGrows
<1>7. CASE Poll
  <2>1. /\ job' = job /\ job.at \notin {"idle", "done"} /\ ~reorged /\ past \subseteq past'
    BY <1>2, <1>7 DEF Poll, InHand
  <2>2. Fits(past, tip, job)
    BY <2>1 DEF FitsInv
  <2> QED BY <2>1, <2>2, FitsGrows
<1>8. CASE Reading
  <2>1. /\ job.at # "idle" /\ tip' = tip /\ past' = past /\ ~reorged
    BY <1>2, <1>8, ReadingGoes DEF FitsInv, KnowsInv
  <2>2. Following
    BY <2>1 DEF Following, FitsInv, KnowsInv
  <2> QED BY <1>8, <2>1, <2>2, ReadingFits
<1>9. Next => Begin \/ Answered \/ Refresh \/ Poll \/ Reading
  BY DEF Next, Reading
<1> QED BY <1>3, <1>4, <1>5, <1>6, <1>7, <1>8, <1>9

LEMMA FitsAlways == Spec => []FitsInv
BY FitsInit, FitsNext, PTL DEF Spec

LEMMA FitsCoheres == FitsInv => ReadsCoherent
<1> SUFFICES ASSUME FitsInv, job.at = "done", ~reorged PROVE
      /\ \A l \in {job.found, job.spender} \cup { u[1] : u \in job.shown } :
           l.time \in {l.block, NoBlock}
      /\ \A u \in job.shown : u[1].place = "chain" => Was(u[1])
      /\ job.header # NoBlock /\ job.route = "merkleblock" => job.header = job.block
      /\ job.blocks # <<>> /\ job.route # "headers" => Piece(past, job)
      /\ job.ttl = "long" =>
           /\ HashAt(tip, job.height) = AboutBlock
           /\ Height(tip) >= Height(AboutBlock) + CONF_FINAL
  BY DEF ReadsCoherent, Piece, PieceFor
<1>1. Fits(past, tip, job)
  BY DEF FitsInv
<1>2. \A l \in {job.found, job.spender} \cup { u[1] : u \in job.shown } : Timed(l)
  BY <1>1 DEF Fits, TimesFit, OutputsFit, Shown
<1>3. \A u \in job.shown : u[1].place = "chain" => Was(u[1])
  <2>1. \A u \in job.shown : u[1].place = "chain" => Spot(past, u[1])
    BY <1>1 DEF Fits, OutputsFit, Shown
  <2>2. \A l : Spot(past, l) => Was(l)
    BY DEF Spot, Anchored, Was
  <2> QED BY <2>1, <2>2
<1>4. job.header # NoBlock /\ job.route = "merkleblock" => job.header = job.block
  BY <1>1 DEF Fits, HeaderFits
<1>5. job.blocks # <<>> /\ job.route # "headers" => Piece(past, job)
  BY <1>1 DEF Fits, BlocksFit
<1>6. AboutBlock = Subject(job)
  BY DEF AboutBlock, Subject
<1>7. job.ttl = "long" =>
        HashAt(tip, job.height) = AboutBlock /\ Height(tip) >= Height(AboutBlock) + CONF_FINAL
  BY <1>1, <1>6 DEF Fits, LifetimeFits
<1> QED BY <1>2, <1>3, <1>4, <1>5, <1>7 DEF Timed

\* As long as the chain only grows, the separate reads of a request fit together,
\* for any tree of blocks, any mempools and any number of refreshes and polls
\* between them: the times and headers of find_tx, find_spender, tx_merkleblock
\* and utxo are those of the block named, the blocks of `blocks` are a piece of
\* one chain, and ttl_by_depth gives a long lifetime only to what is deep below
\* the tip.
THEOREM ReadsStayCoherent == Spec => []ReadsCoherent
BY FitsAlways, FitsCoheres, PTL

-----------------------------------------------------------------------------
(* Merkle branches: by the least turn or level at which a claim fails *)

LEMMA LeastNumber ==
  ASSUME NEW T, T \subseteq Nat, T # {}
  PROVE  \E x \in T : \A y \in T : x <= y
<1>1. PICK x \in T : \A y \in T : ~(<<y, x>> \in OpToRel(<, Nat))
  BY WFMin, NatLessThanWellFounded
<1>2. \A y \in T : ~(y < x)
  BY <1>1 DEF OpToRel
<1> QED BY <1>2

\* The state of branch_and_root before its first turn.
Start(leaves, index) == [branch |-> <<>>, level |-> leaves, index |-> index]

\* f[n] is the state of branch_and_root after n turns, up to the m-th.
Climbs(f, leaves, index, m) ==
  f = [n \in 0..m |-> IF n = 0 THEN Start(leaves, index) ELSE Up(f[n - 1])]

LEMMA ClimbsAt ==
  ASSUME NEW f, NEW leaves, NEW index, NEW m \in Nat, Climbs(f, leaves, index, m), NEW n \in 0..m
  PROVE  f[n] = IF n = 0 THEN Start(leaves, index) ELSE Up(f[n - 1])
<1> DEFINE value(i) == IF i = 0 THEN Start(leaves, index) ELSE Up(f[i - 1])
<1>1. f = [i \in 0..m |-> value(i)]
  BY DEF Climbs
<1> HIDE DEF value
<1>2. f[n] = value(n)
  BY <1>1
<1> QED BY <1>2 DEF value

LEMMA ClimbsExist ==
  ASSUME NEW leaves, NEW index, NEW m \in Nat
  PROVE  \E f : Climbs(f, leaves, index, m)
<1> DEFINE bad == {k \in Nat : ~\E f : Climbs(f, leaves, index, k)}
<1>1. SUFFICES ASSUME bad # {} PROVE FALSE
  OBVIOUS
<1>2. PICK k \in bad : \A i \in bad : k <= i
  <2>1. bad \subseteq Nat
    OBVIOUS
  <2> HIDE DEF bad
  <2> QED BY <1>1, <2>1, LeastNumber
<1>3. k \in Nat /\ \A f : ~Climbs(f, leaves, index, k)
  OBVIOUS
<1>4. CASE k = 0
  <2> DEFINE f == [n \in 0..0 |-> Start(leaves, index)]
  <2>1. f = [n \in 0..0 |-> IF n = 0 THEN Start(leaves, index) ELSE Up(f[n - 1])]
    OBVIOUS
  <2>2. Climbs(f, leaves, index, 0)
    <3> HIDE DEF f
    <3> QED BY <2>1 DEF Climbs
  <2> QED BY <1>3, <1>4, <2>2
<1>5. CASE k # 0
  <2>1. k - 1 \in Nat /\ k - 1 \notin bad
    <3>1. k - 1 \in Nat /\ k - 1 < k
      BY <1>3, <1>5
    <3> HIDE DEF bad
    <3> QED BY <1>2, <1>3, <3>1
  <2>2. PICK g : Climbs(g, leaves, index, k - 1)
    BY <2>1
  <2> DEFINE last == Up(g[k - 1])
             f == [n \in 0..k |-> IF n = k THEN last ELSE g[n]]
  <2>3. ASSUME NEW n \in 0..k
        PROVE  f[n] = IF n = 0 THEN Start(leaves, index) ELSE Up(f[n - 1])
    <3>1. CASE n = k
      <4>1. f[k - 1] = g[k - 1]
        BY <1>3, <1>5
      <4>2. f[n] = last
        BY <3>1
      <4> HIDE DEF f
      <4> QED BY <1>5, <3>1, <4>1, <4>2
    <3>2. CASE n # k
      <4>1. n \in 0..(k - 1)
        BY <1>3, <3>2
      <4>2. g[n] = IF n = 0 THEN Start(leaves, index) ELSE Up(g[n - 1])
        BY <2>1, <2>2, <4>1, ClimbsAt
      <4>3. f[n] = g[n] /\ (n # 0 => f[n - 1] = g[n - 1])
        BY <1>3, <3>2, <4>1
      <4> HIDE DEF f
      <4> QED BY <4>2, <4>3
    <3> QED BY <3>1, <3>2
  <2>4. f = [n \in 0..k |-> f[n]]
    OBVIOUS
  <2> HIDE DEF f
  <2>5. Climbs(f, leaves, index, k)
    BY <2>3, <2>4 DEF Climbs
  <2> QED BY <1>3, <2>5
<1> QED BY <1>4, <1>5

LEMMA BranchClimbs ==
  ASSUME NEW leaves, Len(leaves) \in Nat, NEW index
  PROVE  \E f : /\ Climbs(f, leaves, index, Len(leaves))
                /\ BranchAndRoot(leaves, index) =
                     [branch |-> f[Len(leaves)].branch, root |-> f[Len(leaves)].level[1]]
<1>1. PICK f : /\ f = (CHOOSE g : Climbs(g, leaves, index, Len(leaves)))
               /\ Climbs(f, leaves, index, Len(leaves))
  BY ClimbsExist
<1>2. BranchAndRoot(leaves, index) =
        LET g == CHOOSE g : Climbs(g, leaves, index, Len(leaves))
        IN  [branch |-> g[Len(leaves)].branch, root |-> g[Len(leaves)].level[1]]
  BY DEF BranchAndRoot, Climbs, Start
<1> QED BY <1>1, <1>2

\* t[d] is level d of the tree, up to the m-th.
Rises(t, leaves, m) ==
  t = [d \in 0..m |-> IF d = 0 THEN leaves ELSE Parents(t[d - 1])]

LEMMA RisesAt ==
  ASSUME NEW t, NEW leaves, NEW m \in Nat, Rises(t, leaves, m), NEW n \in 0..m
  PROVE  t[n] = IF n = 0 THEN leaves ELSE Parents(t[n - 1])
<1> DEFINE value(i) == IF i = 0 THEN leaves ELSE Parents(t[i - 1])
<1>1. t = [i \in 0..m |-> value(i)]
  BY DEF Rises
<1> HIDE DEF value
<1>2. t[n] = value(n)
  BY <1>1
<1> QED BY <1>2 DEF value

\* g[n] is what a client has after n hashes of the branch b.
Joins(g, leaf, pos, b, m) ==
  g = [n \in 0..m |-> IF n = 0 THEN [hash |-> leaf, pos |-> pos] ELSE Join(g[n - 1], b[n])]

LEMMA JoinsAt ==
  ASSUME NEW g, NEW leaf, NEW pos, NEW b, NEW m \in Nat, Joins(g, leaf, pos, b, m), NEW n \in 0..m
  PROVE  g[n] = IF n = 0 THEN [hash |-> leaf, pos |-> pos] ELSE Join(g[n - 1], b[n])
<1> DEFINE value(i) == IF i = 0 THEN [hash |-> leaf, pos |-> pos] ELSE Join(g[i - 1], b[i])
<1>1. g = [i \in 0..m |-> value(i)]
  BY DEF Joins
<1> HIDE DEF value
<1>2. g[n] = value(n)
  BY <1>1
<1> QED BY <1>2 DEF value

LEMMA JoinsExist ==
  ASSUME NEW leaf, NEW pos, NEW b, NEW m \in Nat
  PROVE  \E f : Joins(f, leaf, pos, b, m)
<1> DEFINE bad == {k \in Nat : ~\E f : Joins(f, leaf, pos, b, k)}
<1>1. SUFFICES ASSUME bad # {} PROVE FALSE
  OBVIOUS
<1>2. PICK k \in bad : \A i \in bad : k <= i
  <2>1. bad \subseteq Nat
    OBVIOUS
  <2> HIDE DEF bad
  <2> QED BY <1>1, <2>1, LeastNumber
<1>3. k \in Nat /\ \A f : ~Joins(f, leaf, pos, b, k)
  OBVIOUS
<1>4. CASE k = 0
  <2> DEFINE f == [n \in 0..0 |-> [hash |-> leaf, pos |-> pos]]
  <2>1. f = [n \in 0..0 |-> IF n = 0 THEN [hash |-> leaf, pos |-> pos] ELSE Join(f[n - 1], b[n])]
    OBVIOUS
  <2>2. Joins(f, leaf, pos, b, 0)
    <3> HIDE DEF f
    <3> QED BY <2>1 DEF Joins
  <2> QED BY <1>3, <1>4, <2>2
<1>5. CASE k # 0
  <2>1. k - 1 \in Nat /\ k - 1 \notin bad
    <3>1. k - 1 \in Nat /\ k - 1 < k
      BY <1>3, <1>5
    <3> HIDE DEF bad
    <3> QED BY <1>2, <1>3, <3>1
  <2>2. PICK g : Joins(g, leaf, pos, b, k - 1)
    BY <2>1
  <2> DEFINE last == Join(g[k - 1], b[k])
             f == [n \in 0..k |-> IF n = k THEN last ELSE g[n]]
  <2>3. ASSUME NEW n \in 0..k
        PROVE  f[n] = IF n = 0 THEN [hash |-> leaf, pos |-> pos] ELSE Join(f[n - 1], b[n])
    <3>1. CASE n = k
      <4>1. f[k - 1] = g[k - 1]
        BY <1>3, <1>5
      <4>2. f[n] = last
        BY <3>1
      <4> HIDE DEF f
      <4> QED BY <1>5, <3>1, <4>1, <4>2
    <3>2. CASE n # k
      <4>1. n \in 0..(k - 1)
        BY <1>3, <3>2
      <4>2. g[n] = IF n = 0 THEN [hash |-> leaf, pos |-> pos] ELSE Join(g[n - 1], b[n])
        BY <2>1, <2>2, <4>1, JoinsAt
      <4>3. f[n] = g[n] /\ (n # 0 => f[n - 1] = g[n - 1])
        BY <1>3, <3>2, <4>1
      <4> HIDE DEF f
      <4> QED BY <4>2, <4>3
    <3> QED BY <3>1, <3>2
  <2>4. f = [n \in 0..k |-> f[n]]
    OBVIOUS
  <2> HIDE DEF f
  <2>5. Joins(f, leaf, pos, b, k)
    BY <2>3, <2>4 DEF Joins
  <2> QED BY <1>3, <2>5
<1> QED BY <1>4, <1>5

LEMMA RootJoins ==
  ASSUME NEW leaf, NEW pos, NEW b, Len(b) \in Nat
  PROVE  \E g : Joins(g, leaf, pos, b, Len(b)) /\ RootFromBranch(leaf, pos, b) = g[Len(b)].hash
<1>1. PICK g : /\ g = (CHOOSE h : Joins(h, leaf, pos, b, Len(b)))
               /\ Joins(g, leaf, pos, b, Len(b))
  BY JoinsExist
<1>2. RootFromBranch(leaf, pos, b) = (CHOOSE h : Joins(h, leaf, pos, b, Len(b)))[Len(b)].hash
  BY DEF RootFromBranch, Joins
<1> QED BY <1>1, <1>2

\* A level, of hashes from some set V, a place in it, and the branch so far.
Stands(s, V) ==
  /\ s.level \in Seq(V) /\ s.branch \in Seq(V)
  /\ s.index \in Nat /\ s.index < Len(s.level)

\* The hash there.
Node(s) == [hash |-> s.level[s.index + 1], pos |-> s.index]

Sibling(s) ==
  Pad(s.level)[(IF s.index % 2 = 0 THEN s.index + 1 ELSE s.index - 1) + 1]

LEMMA PadFacts ==
  ASSUME NEW V, NEW q \in Seq(V), Len(q) > 0
  PROVE  /\ Pad(q) \in Seq(V) /\ Len(Pad(q)) = 2 * ((Len(q) + 1) \div 2)
         /\ \A i \in 1..Len(q) : Pad(q)[i] = q[i]
         /\ Len(q) % 2 = 1 => Pad(q)[Len(q) + 1] = q[Len(q)]
<1>1. Len(q) \in Nat /\ q[Len(q)] \in V
  OBVIOUS
<1>2. CASE Len(q) % 2 = 1
  <2>1. Pad(q) = Append(q, q[Len(q)])
    BY <1>2 DEF Pad
  <2>2. Len(q) + 1 = 2 * ((Len(q) + 1) \div 2)
    BY <1>1, <1>2
  <2> QED BY <1>1, <2>1, <2>2
<1>3. CASE Len(q) % 2 # 1
  <2>1. Pad(q) = q
    BY <1>3 DEF Pad
  <2>2. Len(q) = 2 * ((Len(q) + 1) \div 2)
    BY <1>1, <1>3
  <2> QED BY <1>1, <1>3, <2>1, <2>2
<1> QED BY <1>2, <1>3

\* Pairing a padded level gives the parents of its nodes.
LEMMA PairsAreParents ==
  ASSUME NEW V, NEW q \in Seq(V), Len(q) > 1
  PROVE  LET p == Pad(q)
         IN  Parents(q) = [i \in 1..(Len(p) \div 2) |-> Hash(p[2 * i - 1], p[2 * i])]
<1> DEFINE p == Pad(q)
           n == (Len(q) + 1) \div 2
           par(i) == Hash(q[2 * i - 1], q[IF 2 * i <= Len(q) THEN 2 * i ELSE 2 * i - 1])
           pair(i) == Hash(p[2 * i - 1], p[2 * i])
<1>1. Len(q) \in Nat /\ n \in Nat /\ Len(p) \div 2 = n
  <2>1. Len(q) \in Nat /\ n \in Nat
    OBVIOUS
  <2>2. Len(p) = 2 * n
    BY PadFacts
  <2> QED BY <2>1, <2>2
<1>2. ASSUME NEW i \in 1..n
      PROVE  par(i) = pair(i)
  <2>1. 2 * i - 1 \in 1..Len(q) /\ (2 * i <= Len(q) \/ (Len(q) % 2 = 1 /\ 2 * i = Len(q) + 1))
    BY <1>1
  <2>2. p[2 * i - 1] = q[2 * i - 1]
    BY <2>1, PadFacts
  <2>3. CASE 2 * i <= Len(q)
    <3>1. p[2 * i] = q[2 * i]
      BY <1>1, <2>3, PadFacts
    <3> HIDE DEF p
    <3> QED BY <2>2, <2>3, <3>1
  <2>4. CASE ~(2 * i <= Len(q))
    <3>1. p[Len(q) + 1] = q[Len(q)] /\ 2 * i = Len(q) + 1 /\ 2 * i - 1 = Len(q)
      BY <1>1, <2>1, <2>4, PadFacts
    <3> HIDE DEF p
    <3> QED BY <2>2, <2>4, <3>1
  <2> QED BY <2>3, <2>4
<1>3. Parents(q) = [i \in 1..n |-> par(i)]
  BY <1>1 DEF Parents
<1> HIDE DEF par, pair, n
<1>4. [i \in 1..n |-> par(i)] = [i \in 1..n |-> pair(i)]
  BY <1>2
<1> QED BY <1>1, <1>3, <1>4 DEF pair

LEMMA ListedLen ==
  ASSUME NEW f, NEW n \in Nat, f = [i \in 1..n |-> f[i]]
  PROVE  f \in Seq({ f[i] : i \in 1..n }) /\ Len(f) = n
<1> DEFINE S == { f[i] : i \in 1..n }
<1>1. \A i \in 1..n : f[i] \in S
  OBVIOUS
<1> HIDE DEF S
<1>2. f \in [1..n -> S]
  BY <1>1
<1>3. f \in Seq(S) /\ Len(f) = n
  BY <1>2
<1> QED BY <1>3 DEF S

LEMMA SiblingThere ==
  ASSUME NEW s, NEW V, Stands(s, V), Len(s.level) > 1
  PROVE  Sibling(s) \in V
<1> DEFINE q == s.level
           i == s.index
           p == Pad(q)
<1>1. q \in Seq(V) /\ Len(q) \in Nat /\ Len(q) > 1 /\ i \in Nat /\ i < Len(q)
  BY DEF Stands
<1>2. Sibling(s) = p[(IF i % 2 = 0 THEN i + 1 ELSE i - 1) + 1]
  BY DEF Sibling
<1> HIDE DEF q, i
<1>3. p \in Seq(V) /\ Len(p) = 2 * ((Len(q) + 1) \div 2)
  BY <1>1, PadFacts
<1>4. (IF i % 2 = 0 THEN i + 1 ELSE i - 1) + 1 \in 1..Len(p)
  BY <1>1, <1>3
<1> HIDE DEF p
<1> QED BY <1>2, <1>3, <1>4

\* One turn: the level above, the place of the parent in it, and one hash more in
\* the branch, which takes the client from the node to the parent.
LEMMA UpStands ==
  ASSUME NEW s, NEW V, Stands(s, V), Len(s.level) > 1
  PROVE  /\ Up(s).level = Parents(s.level) /\ \E W : Stands(Up(s), W)
         /\ Up(s).branch = Append(s.branch, Sibling(s))
         /\ Len(Up(s).level) = (Len(s.level) + 1) \div 2
         /\ Join(Node(s), Sibling(s)) = Node(Up(s))
<1> DEFINE q == s.level
           n == (Len(q) + 1) \div 2
           p == Pad(q)
           i == s.index
           h == i \div 2
           b == Sibling(s)
           r == [j \in 1..(Len(p) \div 2) |-> Hash(p[2 * j - 1], p[2 * j])]
<1>1. /\ q \in Seq(V) /\ Len(q) \in Nat /\ Len(q) > 1 /\ s.branch \in Seq(V)
      /\ i \in Nat /\ i < Len(q)
  BY DEF Stands
<1>2. Up(s) = [branch |-> Append(s.branch, b), level |-> r, index |-> h]
  BY <1>1 DEF Up, Sibling
<1>3. b = p[(IF i % 2 = 0 THEN i + 1 ELSE i - 1) + 1] /\ Node(s) = [hash |-> q[i + 1], pos |-> i]
  BY DEF Sibling, Node
<1>4. Up(s).level = r /\ Up(s).branch = Append(s.branch, b) /\ Up(s).index = h
  BY <1>2
<1> HIDE DEF q, i, b
<1>5. p \in Seq(V) /\ Len(p) = 2 * n /\ n \in Nat /\ Len(p) \div 2 = n
  <2>1. n \in Nat
    BY <1>1
  <2>2. p \in Seq(V) /\ Len(p) = 2 * n
    BY <1>1, PadFacts
  <2> QED BY <2>1, <2>2
<1>6. r = Parents(q)
  BY <1>1, PairsAreParents
<1>7. h \in Nat /\ h < n /\ h + 1 \in 1..n
  BY <1>1, <1>5
<1>8. r = [j \in 1..n |-> Hash(p[2 * j - 1], p[2 * j])]
  BY <1>5
<1>9. r = [j \in 1..n |-> r[j]] /\ r[h + 1] = Hash(p[2 * h + 1], p[2 * h + 2])
  <2> DEFINE pair(j) == Hash(p[2 * j - 1], p[2 * j])
  <2>1. r = [j \in 1..n |-> pair(j)]
    BY <1>8
  <2> HIDE DEF pair, r, n
  <2>2. r = [j \in 1..n |-> r[j]] /\ r[h + 1] = pair(h + 1)
    BY <1>7, <2>1
  <2>3. 2 * (h + 1) - 1 = 2 * h + 1 /\ 2 * (h + 1) = 2 * h + 2
    BY <1>7
  <2> QED BY <2>2, <2>3 DEF pair
<1>10. b \in V
  BY SiblingThere DEF b
<1>11. Append(s.branch, b) \in Seq(V)
  BY <1>1, <1>10
<1>12. p[i + 1] = q[i + 1]
  BY <1>1, PadFacts
<1>13. \/ i % 2 = 0 /\ i = 2 * h /\ b = p[i + 2]
       \/ i % 2 = 1 /\ i = 2 * h + 1 /\ b = p[i]
  BY <1>1, <1>3
<1> HIDE DEF r, p
<1>14. Len(r) = n /\ \E W : r \in Seq(W)
  BY <1>5, <1>9, ListedLen
<1>15. \E W : r \in Seq(W) /\ Append(s.branch, b) \in Seq(W)
  <2>1. PICK W : r \in Seq(W)
    BY <1>14
  <2>2. r \in Seq(V \cup W) /\ Append(s.branch, b) \in Seq(V \cup W)
    BY <1>11, <2>1
  <2> QED BY <2>2
<1>16. \E W : Stands(Up(s), W)
  BY <1>4, <1>7, <1>14, <1>15 DEF Stands
<1>17. Join(Node(s), b) = [hash |-> r[h + 1], pos |-> h]
  <2>1. Node(s) = [hash |-> p[i + 1], pos |-> i]
    BY <1>12, <1>3
  <2>2. CASE i % 2 = 0
    <3>1. i = 2 * h /\ b = p[i + 2]
      BY <1>13, <2>2
    <3>2. r[h + 1] = Hash(p[i + 1], b)
      BY <1>9, <3>1
    <3> HIDE DEF h
    <3> QED BY <2>1, <2>2, <3>2 DEF Join, h
  <2>3. CASE i % 2 = 1
    <3>1. i = 2 * h + 1 /\ b = p[i]
      BY <1>13, <2>3
    <3>2. 2 * h + 2 = i + 1
      BY <1>1, <1>7, <3>1
    <3>3. r[h + 1] = Hash(b, p[i + 1])
      BY <1>9, <3>1, <3>2
    <3> HIDE DEF h
    <3> QED BY <2>1, <2>3, <3>3 DEF Join, h
  <2> QED BY <1>13, <2>2, <2>3
<1>18. Node(Up(s)) = [hash |-> r[h + 1], pos |-> h]
  BY <1>4 DEF Node
<1>19. b = Sibling(s) /\ q = s.level
  BY DEF b, q
<1> QED BY <1>4, <1>6, <1>14, <1>16, <1>17, <1>18, <1>19

LEMMA UpRests ==
  ASSUME NEW s, Len(s.level) <= 1
  PROVE  Up(s) = s /\ Parents(s.level) = s.level
BY DEF Up, Parents

\* After n turns there is one node left, or at most n less than there were leaves.
Reached(s, m, n) == (\E V : Stands(s, V)) /\ (Len(s.level) <= 1 \/ Len(s.level) <= m - n)

LEMMA ReachedNext ==
  ASSUME NEW s, NEW m \in Nat, NEW n \in Nat, Reached(s, m, n)
  PROVE  Reached(Up(s), m, n + 1) /\ Up(s).level = Parents(s.level)
<1>1. PICK V : Stands(s, V)
  BY DEF Reached
<1>2. Len(s.level) \in Nat
  BY <1>1 DEF Stands
<1>3. CASE Len(s.level) <= 1
  BY <1>1, <1>3, UpRests DEF Reached
<1>4. CASE Len(s.level) > 1
  <2>1. /\ Up(s).level = Parents(s.level) /\ (\E W : Stands(Up(s), W))
        /\ Len(Up(s).level) = (Len(s.level) + 1) \div 2
    BY <1>1, <1>4, UpStands
  <2> DEFINE k == Len(s.level)
             l == Len(Up(s).level)
  <2>2. k \in Nat /\ k > 1 /\ l = (k + 1) \div 2 /\ k <= m - n
    BY <1>2, <1>4, <2>1 DEF Reached
  <2> HIDE DEF k, l
  <2>3. l <= m - (n + 1)
    BY <2>2
  <2> QED BY <2>1, <2>3 DEF Reached, l
<1> QED BY <1>2, <1>3, <1>4

LEMMA ClimbsReach ==
  ASSUME NEW V, NEW leaves \in Seq(V), NEW index \in Nat, index < Len(leaves),
         NEW f, Climbs(f, leaves, index, Len(leaves)), NEW n \in 0..Len(leaves)
  PROVE  Reached(f[n], Len(leaves), n)
<1> DEFINE m == Len(leaves)
           bad == {k \in 0..m : ~Reached(f[k], m, k)}
<1>1. SUFFICES ASSUME bad # {} PROVE FALSE
  OBVIOUS
<1>2. PICK k \in bad : \A i \in bad : k <= i
  <2>1. bad \subseteq Nat
    OBVIOUS
  <2> HIDE DEF bad
  <2> QED BY <1>1, <2>1, LeastNumber
<1>3. m \in Nat /\ k \in 0..m /\ ~Reached(f[k], m, k)
  OBVIOUS
<1> HIDE DEF m
<1>4. f[k] = IF k = 0 THEN Start(leaves, index) ELSE Up(f[k - 1])
  BY <1>3, ClimbsAt DEF m
<1>5. CASE k = 0
  <2> DEFINE s == Start(leaves, index)
  <2>1. s.level = leaves /\ s.branch = <<>> /\ s.index = index
    BY DEF Start
  <2>2. Stands(s, V)
    BY <2>1 DEF Stands
  <2>3. Len(s.level) <= m - 0
    BY <1>3, <2>1 DEF m
  <2>4. f[k] = s
    BY <1>4, <1>5
  <2> HIDE DEF s
  <2>5. Reached(s, m, 0)
    BY <2>2, <2>3 DEF Reached
  <2> QED BY <1>3, <1>5, <2>4, <2>5
<1>6. CASE k # 0
  <2>1. k - 1 \in 0..m /\ k - 1 \notin bad /\ k - 1 \in Nat /\ (k - 1) + 1 = k
    <3>1. k - 1 \in 0..m /\ k - 1 < k /\ (k - 1) + 1 = k
      BY <1>3, <1>6
    <3> HIDE DEF bad
    <3> QED BY <1>2, <1>3, <3>1
  <2>2. Reached(f[k - 1], m, k - 1)
    BY <2>1
  <2> HIDE DEF bad
  <2>3. Reached(Up(f[k - 1]), m, (k - 1) + 1)
    BY <1>3, <2>1, <2>2, ReachedNext
  <2> QED BY <1>3, <1>4, <1>6, <2>1, <2>3
<1> QED BY <1>5, <1>6

\* The branch of an earlier turn is the beginning of that of a later one.
Extends(b, c) ==
  /\ Len(b) \in Nat /\ Len(c) \in Nat /\ Len(b) <= Len(c)
  /\ \A i \in 1..Len(b) : c[i] = b[i]

LEMMA ExtendsOn ==
  ASSUME NEW b, NEW V, NEW c \in Seq(V), NEW x \in V, Extends(b, c)
  PROVE  Extends(b, Append(c, x))
BY DEF Extends

LEMMA UpExtends ==
  ASSUME NEW s, NEW b, (\E V : Stands(s, V)), Extends(b, s.branch)
  PROVE  Extends(b, Up(s).branch)
<1>1. PICK V : Stands(s, V)
  OBVIOUS
<1>2. Len(s.level) \in Nat /\ s.branch \in Seq(V)
  BY <1>1 DEF Stands
<1>3. CASE Len(s.level) <= 1
  BY <1>3, UpRests
<1>4. CASE Len(s.level) > 1
  <2>1. Up(s).branch = Append(s.branch, Sibling(s))
    BY <1>1, <1>4, UpStands
  <2>2. Sibling(s) \in V
    BY <1>1, <1>4, SiblingThere
  <2> QED BY <1>2, <2>1, <2>2, ExtendsOn
<1> QED BY <1>2, <1>3, <1>4

LEMMA BranchesExtend ==
  ASSUME NEW V, NEW leaves \in Seq(V), NEW index \in Nat, index < Len(leaves),
         NEW f, Climbs(f, leaves, index, Len(leaves)), NEW n \in 0..Len(leaves)
  PROVE  Extends(f[n].branch, f[Len(leaves)].branch)
<1> DEFINE m == Len(leaves)
           b == f[n].branch
           bad == {k \in n..m : ~Extends(b, f[k].branch)}
<1>0. m \in Nat /\ m \in n..m /\ n \in Nat
  OBVIOUS
<1>1. SUFFICES ASSUME bad # {} PROVE FALSE
  BY <1>0
<1>2. PICK k \in bad : \A i \in bad : k <= i
  <2>1. bad \subseteq Nat
    OBVIOUS
  <2> HIDE DEF bad
  <2> QED BY <1>1, <2>1, LeastNumber
<1>3. k \in n..m /\ ~Extends(b, f[k].branch)
  OBVIOUS
<1>4. \A i \in 0..m : \E W : Stands(f[i], W)
  BY ClimbsReach DEF Reached
<1>5. Extends(b, b)
  <2>1. PICK W : Stands(f[n], W)
    BY <1>4
  <2>2. b \in Seq(W)
    BY <2>1 DEF Stands
  <2> HIDE DEF b
  <2> QED BY <2>2 DEF Extends
<1>6. k # n
  BY <1>3, <1>5
<1>7. k - 1 \in n..m /\ k - 1 < k /\ k - 1 \in 0..m /\ k \in 0..m /\ k # 0
  BY <1>0, <1>3, <1>6
<1>8. Extends(b, f[k - 1].branch)
  <2>1. k - 1 \notin bad
    <3> HIDE DEF bad
    <3> QED BY <1>2, <1>3, <1>7
  <2> QED BY <1>7, <2>1
<1>9. f[k] = Up(f[k - 1])
  <2> HIDE DEF m, b, bad
  <2> QED BY <1>0, <1>7, ClimbsAt DEF m
<1> HIDE DEF b
<1>10. Extends(b, Up(f[k - 1]).branch)
  BY <1>4, <1>7, <1>8, UpExtends
<1> QED BY <1>3, <1>9, <1>10

\* The tree's levels are those the turns go through.
LEMMA RootClimbed ==
  ASSUME NEW V, NEW leaves \in Seq(V), NEW index \in Nat, index < Len(leaves),
         NEW f, Climbs(f, leaves, index, Len(leaves))
  PROVE  MerkleRoot(leaves) = f[Len(leaves)].level[1]
<1> DEFINE m == Len(leaves)
           u == [d \in 0..m |-> f[d].level]
<1>1. m \in Nat
  OBVIOUS
<1>2. ASSUME NEW d \in 0..m
      PROVE  f[d].level = IF d = 0 THEN leaves ELSE Parents(f[d - 1].level)
  <2>1. f[d] = IF d = 0 THEN Start(leaves, index) ELSE Up(f[d - 1])
    BY ClimbsAt
  <2>2. CASE d = 0
    BY <2>1, <2>2 DEF Start
  <2>3. CASE d # 0
    <3>1. d - 1 \in 0..m /\ d - 1 \in Nat
      BY <2>3
    <3>2. Reached(f[d - 1], m, d - 1)
      BY <3>1, ClimbsReach
    <3>3. Up(f[d - 1]).level = Parents(f[d - 1].level)
      <4> HIDE DEF m
      <4> QED BY <1>1, <3>1, <3>2, ReachedNext
    <3> QED BY <2>1, <2>3, <3>3
  <2> QED BY <2>2, <2>3
<1> HIDE DEF m
<1>3. Rises(u, leaves, m)
  <2>1. \A d \in 0..m : u[d] = IF d = 0 THEN leaves ELSE Parents(u[d - 1])
    <3> SUFFICES ASSUME NEW d \in 0..m
                 PROVE  u[d] = IF d = 0 THEN leaves ELSE Parents(u[d - 1])
      OBVIOUS
    <3>1. u[d] = f[d].level /\ (d # 0 => u[d - 1] = f[d - 1].level)
      BY <1>1
    <3> HIDE DEF u
    <3> QED BY <1>2, <3>1
  <2>2. u = [d \in 0..m |-> u[d]]
    OBVIOUS
  <2> HIDE DEF u
  <2> QED BY <2>1, <2>2 DEF Rises
<1>4. PICK t : t = (CHOOSE r : Rises(r, leaves, m)) /\ Rises(t, leaves, m)
  BY <1>3
<1>5. MerkleRoot(leaves) = t[m][1]
  <2>1. MerkleRoot(leaves) = (CHOOSE r : Rises(r, leaves, m))[m][1]
    BY DEF MerkleRoot, Rises, m
  <2> QED BY <1>4, <2>1
<1>6. t[m] = f[m].level
  <2> DEFINE bad == {k \in 0..m : t[k] # f[k].level}
  <2>1. SUFFICES ASSUME bad # {} PROVE FALSE
    BY <1>1
  <2>2. PICK k \in bad : \A i \in bad : k <= i
    <3>1. bad \subseteq Nat
      OBVIOUS
    <3> HIDE DEF bad
    <3> QED BY <2>1, <3>1, LeastNumber
  <2>3. k \in 0..m /\ t[k] # f[k].level
    OBVIOUS
  <2>4. t[k] = IF k = 0 THEN leaves ELSE Parents(t[k - 1])
    BY <1>1, <1>4, <2>3, RisesAt
  <2>5. k # 0
    BY <1>2, <2>3, <2>4
  <2>6. k - 1 \in 0..m /\ k - 1 \notin bad
    <3>1. k - 1 \in 0..m /\ k - 1 < k
      BY <1>1, <2>3, <2>5
    <3> HIDE DEF bad
    <3> QED BY <2>2, <2>3, <3>1
  <2>7. t[k - 1] = f[k - 1].level
    BY <2>6
  <2> HIDE DEF bad
  <2> QED BY <1>2, <2>3, <2>4, <2>5, <2>7
<1> QED BY <1>5, <1>6 DEF m

\* A client that has come to the node of one turn comes to that of the next.
LEMMA JoinFollows ==
  ASSUME NEW s, (\E V : Stands(s, V)), NEW b, Extends(Up(s).branch, b),
         NEW g, NEW leaf, NEW pos, Joins(g, leaf, pos, b, Len(b)), g[Len(s.branch)] = Node(s)
  PROVE  g[Len(Up(s).branch)] = Node(Up(s))
<1>1. PICK V : Stands(s, V)
  OBVIOUS
<1>2. Len(s.level) \in Nat /\ s.branch \in Seq(V) /\ Len(s.branch) \in Nat
  BY <1>1 DEF Stands
<1>3. CASE Len(s.level) <= 1
  BY <1>3, UpRests
<1>4. CASE Len(s.level) > 1
  <2> DEFINE c == s.branch
             x == Sibling(s)
             k == Len(c) + 1
  <2>1. Up(s).branch = Append(c, x) /\ Join(Node(s), x) = Node(Up(s)) /\ x \in V
    BY <1>1, <1>4, UpStands, SiblingThere
  <2>2. c \in Seq(V) /\ k \in Nat /\ k # 0 /\ k - 1 = Len(c) /\ g[k - 1] = Node(s)
    BY <1>2
  <2> HIDE DEF c, x
  <2>3. Len(Append(c, x)) = k /\ Append(c, x)[k] = x
    BY <2>1, <2>2
  <2>4. Len(b) \in Nat /\ k <= Len(b) /\ b[k] = x
    BY <2>1, <2>2, <2>3 DEF Extends
  <2>5. g[k] = Join(g[k - 1], b[k])
    <3>1. k \in 0..Len(b)
      BY <2>2, <2>4
    <3> HIDE DEF k
    <3>2. g[k] = IF k = 0 THEN [hash |-> leaf, pos |-> pos] ELSE Join(g[k - 1], b[k])
      BY <2>4, <3>1, JoinsAt
    <3> QED BY <2>2, <3>2
  <2> QED BY <2>1, <2>2, <2>3, <2>4, <2>5
<1> QED BY <1>2, <1>3, <1>4

\* What branch_and_root returns (merkle.rs) is the root of the tree and the
\* branch that leads a client from the leaf at that index to it, for every number
\* of leaves.
THEOREM BranchLeadsToRoot ==
  ASSUME NEW V, NEW leaves \in Seq(V), NEW index \in 0..(Len(leaves) - 1)
  PROVE  LET proof == BranchAndRoot(leaves, index)
         IN  /\ proof.root = MerkleRoot(leaves)
             /\ RootFromBranch(leaves[index + 1], index, proof.branch) = MerkleRoot(leaves)
<1> DEFINE m == Len(leaves)
           proof == BranchAndRoot(leaves, index)
<1>1. m \in Nat /\ index \in Nat /\ index < Len(leaves) /\ m \in 0..m
  OBVIOUS
<1>2. PICK f : /\ Climbs(f, leaves, index, m)
               /\ proof = [branch |-> f[m].branch, root |-> f[m].level[1]]
  BY <1>1, BranchClimbs
<1> DEFINE b == f[m].branch
<1>3. proof.branch = b /\ proof.root = f[m].level[1]
  BY <1>2
<1>4. MerkleRoot(leaves) = f[m].level[1]
  BY <1>1, <1>2, RootClimbed
<1>5. \A n \in 0..m : Reached(f[n], m, n)
  BY <1>1, <1>2, ClimbsReach
<1>6. \A n \in 0..m : Extends(f[n].branch, b)
  BY <1>1, <1>2, BranchesExtend
<1> HIDE DEF proof
<1>7. Len(b) \in Nat
  BY <1>1, <1>6 DEF Extends
<1>8. PICK g : /\ Joins(g, leaves[index + 1], index, b, Len(b))
               /\ RootFromBranch(leaves[index + 1], index, b) = g[Len(b)].hash
  BY <1>7, RootJoins
<1> DEFINE bad == {n \in 0..m : g[Len(f[n].branch)] # Node(f[n])}
<1>9. bad = {}
  <2>1. SUFFICES ASSUME bad # {} PROVE FALSE
    OBVIOUS
  <2>2. PICK k \in bad : \A i \in bad : k <= i
    <3>1. bad \subseteq Nat
      OBVIOUS
    <3> HIDE DEF bad
    <3> QED BY <2>1, <3>1, LeastNumber
  <2>3. k \in 0..m /\ g[Len(f[k].branch)] # Node(f[k])
    OBVIOUS
  <2> HIDE DEF b
  <2>4. f[k] = IF k = 0 THEN Start(leaves, index) ELSE Up(f[k - 1])
    BY <1>1, <1>2, <2>3, ClimbsAt
  <2>5. k # 0
    <3>1. ASSUME k = 0 PROVE FALSE
      <4> DEFINE s == Start(leaves, index)
      <4>1. s.branch = <<>> /\ Len(s.branch) = 0 /\ Node(s) = [hash |-> leaves[index + 1], pos |-> index]
        BY DEF Start, Node
      <4>2. f[k] = s
        BY <2>4, <3>1
      <4> HIDE DEF s
      <4>3. g[0] = [hash |-> leaves[index + 1], pos |-> index]
        BY <1>7, <1>8, JoinsAt
      <4> QED BY <2>3, <4>1, <4>2, <4>3
    <3> QED BY <3>1
  <2>6. k - 1 \in 0..m /\ k - 1 \notin bad
    <3>1. k - 1 \in 0..m /\ k - 1 < k
      BY <1>1, <2>3, <2>5
    <3> HIDE DEF bad
    <3> QED BY <2>2, <2>3, <3>1
  <2> DEFINE s == f[k - 1]
  <2>7. g[Len(s.branch)] = Node(s)
    BY <2>6
  <2> HIDE DEF bad
  <2>8. (\E W : Stands(s, W)) /\ f[k] = Up(s) /\ Extends(Up(s).branch, b)
    <3>1. Reached(s, m, k - 1)
      BY <1>5, <2>6
    <3>2. f[k] = Up(s)
      BY <2>4, <2>5
    <3>3. Extends(f[k].branch, b)
      BY <1>6, <2>3
    <3> QED BY <3>1, <3>2, <3>3 DEF Reached
  <2> HIDE DEF s
  <2>9. g[Len(Up(s).branch)] = Node(Up(s))
    BY <1>8, <2>7, <2>8, JoinFollows
  <2> QED BY <2>3, <2>8, <2>9
<1>10. g[Len(b)] = Node(f[m])
  BY <1>1, <1>9
<1>11. f[m].index = 0
  <2>1. PICK W : Stands(f[m], W)
    BY <1>1, <1>5 DEF Reached
  <2> DEFINE k == Len(f[m].level)
             i == f[m].index
  <2>2. k \in Nat /\ i \in Nat /\ i < k
    BY <2>1 DEF Stands
  <2>3. Reached(f[m], m, m)
    BY <1>1, <1>5
  <2>4. k <= 1 \/ k <= m - m
    BY <2>3 DEF Reached
  <2> HIDE DEF k, i, m
  <2>5. i = 0
    BY <1>1, <2>2, <2>4
  <2> QED BY <2>5 DEF i
<1> HIDE DEF b, m
<1>12. Node(f[m]).hash = f[m].level[1]
  BY <1>11 DEF Node
<1> QED BY <1>3, <1>4, <1>8, <1>10, <1>12 DEF proof

-----------------------------------------------------------------------------
(* Sequences and numbers of the queries *)

\* f[n] is what is taken from the first n values of q.
Takes(f, q, S, m) ==
  f = [n \in 0..m |-> IF n = 0 THEN <<>>
                      ELSE IF q[n] \in S THEN Append(f[n - 1], q[n]) ELSE f[n - 1]]

LEMMA TakesAt ==
  ASSUME NEW f, NEW q, NEW S, NEW m \in Nat, Takes(f, q, S, m), NEW n \in 0..m
  PROVE  f[n] = IF n = 0 THEN <<>>
                ELSE IF q[n] \in S THEN Append(f[n - 1], q[n]) ELSE f[n - 1]
<1> DEFINE value(i) == IF i = 0 THEN <<>>
                       ELSE IF q[i] \in S THEN Append(f[i - 1], q[i]) ELSE f[i - 1]
<1>1. f = [i \in 0..m |-> value(i)]
  BY DEF Takes
<1> HIDE DEF value
<1>2. f[n] = value(n)
  BY <1>1
<1> QED BY <1>2 DEF value

LEMMA TakesExist ==
  ASSUME NEW q, NEW S, NEW m \in Nat
  PROVE  \E f : Takes(f, q, S, m)
<1> DEFINE bad == {k \in Nat : ~\E f : Takes(f, q, S, k)}
<1>1. SUFFICES ASSUME bad # {} PROVE FALSE
  OBVIOUS
<1>2. PICK k \in bad : \A i \in bad : k <= i
  <2>1. bad \subseteq Nat
    OBVIOUS
  <2> HIDE DEF bad
  <2> QED BY <1>1, <2>1, LeastNumber
<1>3. k \in Nat /\ \A f : ~Takes(f, q, S, k)
  OBVIOUS
<1>4. CASE k = 0
  <2> DEFINE f == [n \in 0..0 |-> <<>>]
  <2>1. f = [n \in 0..0 |-> IF n = 0 THEN <<>>
                            ELSE IF q[n] \in S THEN Append(f[n - 1], q[n]) ELSE f[n - 1]]
    OBVIOUS
  <2>2. Takes(f, q, S, 0)
    <3> HIDE DEF f
    <3> QED BY <2>1 DEF Takes
  <2> QED BY <1>3, <1>4, <2>2
<1>5. CASE k # 0
  <2>1. k - 1 \in Nat /\ k - 1 \notin bad
    <3>1. k - 1 \in Nat /\ k - 1 < k
      BY <1>3, <1>5
    <3> HIDE DEF bad
    <3> QED BY <1>2, <1>3, <3>1
  <2>2. PICK g : Takes(g, q, S, k - 1)
    BY <2>1
  <2> DEFINE last == IF q[k] \in S THEN Append(g[k - 1], q[k]) ELSE g[k - 1]
  <2>a. last = IF q[k] \in S THEN Append(g[k - 1], q[k]) ELSE g[k - 1]
    OBVIOUS
  <2> HIDE DEF last
  <2> DEFINE f == [n \in 0..k |-> IF n = k THEN last ELSE g[n]]
  <2>3. ASSUME NEW n \in 0..k
        PROVE  f[n] = IF n = 0 THEN <<>>
                      ELSE IF q[n] \in S THEN Append(f[n - 1], q[n]) ELSE f[n - 1]
    <3>1. CASE n = k
      <4>1. f[k - 1] = g[k - 1]
        BY <1>3, <1>5
      <4>2. f[n] = last
        BY <3>1
      <4> HIDE DEF f
      <4> QED BY <1>5, <2>a, <3>1, <4>1, <4>2
    <3>2. CASE n # k
      <4>1. n \in 0..(k - 1)
        BY <1>3, <3>2
      <4>2. g[n] = IF n = 0 THEN <<>>
                   ELSE IF q[n] \in S THEN Append(g[n - 1], q[n]) ELSE g[n - 1]
        BY <2>1, <2>2, <4>1, TakesAt
      <4>3. f[n] = g[n] /\ (n # 0 => f[n - 1] = g[n - 1])
        BY <1>3, <3>2, <4>1
      <4> HIDE DEF f
      <4> QED BY <4>2, <4>3
    <3> QED BY <3>1, <3>2
  <2>4. f = [n \in 0..k |-> f[n]]
    OBVIOUS
  <2> HIDE DEF f
  <2>5. Takes(f, q, S, k)
    BY <2>3, <2>4 DEF Takes
  <2> QED BY <1>3, <2>5
<1> QED BY <1>4, <1>5

\* Only keeps what is in S of a sequence, and nothing else.
LEMMA OnlyFacts ==
  ASSUME NEW T, NEW q \in Seq(T), NEW S
  PROVE  Only(q, S) \in Seq(T \cap S)
<1>1. Len(q) \in Nat /\ \A i \in 1..Len(q) : q[i] \in T
  OBVIOUS
<1>2. PICK f : f = (CHOOSE g : Takes(g, q, S, Len(q))) /\ Takes(f, q, S, Len(q))
  BY <1>1, TakesExist
<1>3. Only(q, S) = f[Len(q)]
  <2>1. Only(q, S) = LET g == CHOOSE g : Takes(g, q, S, Len(q)) IN g[Len(q)]
    BY DEF Only, Takes
  <2> QED BY <1>2, <2>1
<1> DEFINE bad == {k \in 0..Len(q) : f[k] \notin Seq(T \cap S)}
<1>4. SUFFICES ASSUME bad # {} PROVE FALSE
  BY <1>1, <1>3
<1>5. PICK k \in bad : \A i \in bad : k <= i
  <2>1. bad \subseteq Nat
    BY <1>1
  <2> HIDE DEF bad
  <2> QED BY <1>4, <2>1, LeastNumber
<1>6. k \in 0..Len(q) /\ f[k] \notin Seq(T \cap S)
  OBVIOUS
<1>7. f[k] = IF k = 0 THEN <<>>
             ELSE IF q[k] \in S THEN Append(f[k - 1], q[k]) ELSE f[k - 1]
  BY <1>1, <1>2, <1>6, TakesAt
<1>8. CASE k = 0
  BY <1>6, <1>7, <1>8
<1>9. CASE k # 0
  <2>1. k \in 1..Len(q) /\ k - 1 \in 0..Len(q) /\ k - 1 < k
    BY <1>1, <1>6, <1>9
  <2>2. k - 1 \notin bad
    <3> HIDE DEF bad
    <3> QED BY <1>1, <1>5, <1>6, <2>1
  <2>3. f[k - 1] \in Seq(T \cap S) /\ q[k] \in T
    BY <1>1, <2>1, <2>2
  <2>4. Append(f[k - 1], q[k]) \in Seq(T \cap S) \/ q[k] \notin S
    BY <2>3
  <2> QED BY <1>6, <1>7, <1>9, <2>3, <2>4
<1> QED BY <1>8, <1>9

LEMMA MinOfTwo ==
  ASSUME NEW a \in Int, NEW b \in Int
  PROVE  Sets!Min({a, b}) \in {a, b} /\ Sets!Min({a, b}) <= a /\ Sets!Min({a, b}) <= b
<1> DEFINE S == {a, b}
<1>1. \E x \in S : \A y \in S : x <= y
  <2>1. CASE a <= b
    BY <2>1
  <2>2. CASE ~(a <= b)
    <3>1. b <= a
      BY <2>2
    <3> QED BY <3>1
  <2> QED BY <2>1, <2>2
<1> HIDE DEF S
<1>2. Sets!Min(S) \in S /\ \A y \in S : Sets!Min(S) <= y
  BY <1>1 DEF Sets!Min
<1> QED BY <1>2 DEF S

LEMMA MinOfThree ==
  ASSUME NEW a \in Int, NEW b \in Int, NEW c \in Int
  PROVE  LET n == Sets!Min({a, b, c}) IN n \in {a, b, c} /\ n <= a /\ n <= b /\ n <= c
<1> DEFINE S == {a, b, c}
<1>1. \E x \in S : \A y \in S : x <= y
  <2>1. CASE a <= b /\ a <= c
    BY <2>1
  <2>2. CASE b <= a /\ b <= c
    BY <2>2
  <2>3. CASE c <= a /\ c <= b
    BY <2>3
  <2> QED BY <2>1, <2>2, <2>3
<1> HIDE DEF S
<1>2. Sets!Min(S) \in S /\ \A y \in S : Sets!Min(S) <= y
  BY <1>1 DEF Sets!Min
<1> QED BY <1>2 DEF S

-----------------------------------------------------------------------------
(* What was so *)

LEMMA WasGrows ==
  ASSUME NEW P, NEW Q, P \subseteq Q
  PROVE  /\ \A l : WasIn(P, l) => WasIn(Q, l)
         /\ \A h, b : StoodAt(P, h, b) => StoodAt(Q, h, b)
         /\ \A o, l : Names(P, o, l) => Names(Q, o, l)
BY DEF WasIn, StoodAt, Names

LEMMA HashesAreBlocks ==
  ASSUME NEW k \in Blocks, NEW h
  PROVE  HashAt(k, h) \in Blocks \cup {NoBlock}
<1>1. Path[k] \in Seq(Blocks) /\ Len(Path[k]) \in Nat /\ Height(k) = Len(Path[k]) - 1
  BY PathFacts
<1>2. CASE h \in 0..Height(k)
  <2>1. h + 1 \in 1..Len(Path[k])
    BY <1>1, <1>2
  <2>2. Path[k][h + 1] \in Blocks
    BY <1>1, <2>1
  <2> QED BY <1>2, <2>2 DEF HashAt
<1>3. CASE h \notin 0..Height(k)
  BY <1>3 DEF HashAt
<1> QED BY <1>2, <1>3

LEMMA PoolTxids ==
  ASSUME NEW S \in Pools
  PROVE  S \subseteq Txids
BY DEF Pools

LEMMA NowherePlace == Nowhere \in Places /\ Nowhere.place = "none"
BY DEF Nowhere, Places

LEMMA PoolPlace ==
  ASSUME NEW t \in Txids
  PROVE  InPool(t) \in Places /\ InPool(t).tx = t /\ InPool(t).place = "pool"
<1>1. InPool(t).tx = t /\ InPool(t).place = "pool"
  BY DEF InPool, Nowhere
<1>2. Nowhere \in Places
  BY NowherePlace
<1>3. InPool(t) \in Places
  BY <1>2 DEF InPool, Places
<1> QED BY <1>1, <1>3

LEMMA LocationPlace ==
  ASSUME NEW k \in Blocks, NEW l \in Locations(k)
  PROVE  l \in Places
<1>1. \E b, i : l = InBlock(b, i)
  BY DEF Locations
<1>2. l = [tx |-> l.tx, place |-> l.place, block |-> l.block, height |-> l.height,
           pos |-> l.pos, time |-> l.time]
  BY <1>1 DEF InBlock
<1>3. /\ l.tx \in Txids /\ l.place = "chain" /\ l.block \in Blocks /\ l.height \in Nat
      /\ l.pos \in Nat /\ l.time = NoBlock
  BY LocationFacts
<1> QED BY <1>2, <1>3 DEF Places

\* A place keeps being one when its block and time are set.
LEMMA PlaceSet ==
  ASSUME NEW l \in Places, NEW b \in Blocks \cup {NoBlock}, NEW c \in Blocks \cup {NoBlock}
  PROVE  /\ [l EXCEPT !.time = b] \in Places /\ [l EXCEPT !.block = c, !.time = b] \in Places
BY DEF Places

LEMMA TimeKeeps ==
  ASSUME NEW P, NEW l \in Places, NEW b
  PROVE  /\ [l EXCEPT !.time = b].tx = l.tx /\ [l EXCEPT !.time = b].height = l.height
         /\ [l EXCEPT !.time = b].place = l.place
         /\ WasIn(P, l) => WasIn(P, [l EXCEPT !.time = b])
<1> DEFINE m == [l EXCEPT !.time = b]
<1>1. /\ m.tx = l.tx /\ m.height = l.height /\ m.place = l.place /\ m.block = l.block
      /\ m.pos = l.pos
  BY DEF Places
<1> HIDE DEF m
<1>2. WasIn(P, l) => WasIn(P, m)
  BY <1>1 DEF WasIn
<1> QED BY <1>1, <1>2 DEF m

LEMMA LocationWas ==
  ASSUME NEW P, NEW k \in Blocks, NEW S, <<k, S>> \in P, NEW l \in Locations(k)
  PROVE  WasIn(P, l)
<1>1. l.place = "chain" /\ HashAt(k, l.height) = l.block /\ BlockTxs[l.block][l.pos + 1] = l.tx
  BY LocationFacts
<1>2. <<k, S>>[1] = k
  OBVIOUS
<1> QED BY <1>1, <1>2 DEF WasIn

LEMMA PoolWas ==
  ASSUME NEW P, NEW k, NEW S, <<k, S>> \in P, S \subseteq Txids, NEW t \in S
  PROVE  WasIn(P, InPool(t))
<1>1. InPool(t).place = "pool" /\ InPool(t).tx = t
  BY PoolPlace
<1>2. <<k, S>>[2] = S
  OBVIOUS
<1> QED BY <1>1, <1>2 DEF WasIn

\* The position of a proof is that of the transaction.
LEMMA PositionFacts ==
  ASSUME NEW l \in Places, NEW T, NEW txids \in Seq(T)
  PROVE  LET pos == Position(l, txids)
         IN  pos < 0 \/ (pos \in Nat /\ pos < Len(txids) /\ txids[pos + 1] = l.tx)
<1>1. l.pos \in Nat
  BY DEF Places
<1>2. CASE l.pos < Len(txids) /\ txids[l.pos + 1] = l.tx
  BY <1>1, <1>2 DEF Position
<1>3. CASE ~(l.pos < Len(txids) /\ txids[l.pos + 1] = l.tx) /\ l.tx \in Seqs!ToSet(txids)
  <2> DEFINE i == CHOOSE n \in DOMAIN txids : txids[n] = l.tx
  <2>1. i \in DOMAIN txids /\ txids[i] = l.tx
    BY <1>3 DEF Seqs!ToSet
  <2>2. Position(l, txids) = i - 1
    BY <1>3 DEF Position
  <2> HIDE DEF i
  <2> QED BY <2>1, <2>2
<1>4. CASE ~(l.pos < Len(txids) /\ txids[l.pos + 1] = l.tx) /\ l.tx \notin Seqs!ToSet(txids)
  BY <1>4 DEF Position
<1> QED BY <1>2, <1>3, <1>4

\* So the proof of a transaction that is found in a block leads to its root.
LEMMA PositionProves ==
  ASSUME NEW l \in Places, NEW b \in Blocks, NEW pos, pos = Position(l, BlockTxs[b]), ~(pos < 0)
  PROVE  /\ pos \in Nat
         /\ RootFromBranch(l.tx, pos, BranchAndRoot(BlockTxs[b], pos).branch) = MerkleRoot(BlockTxs[b])
<1>1. BlockTxs[b] \in Seq(Txids)
  BY QueriesAssumption DEF QueriesAssumption
<1>2. pos \in Nat /\ pos < Len(BlockTxs[b]) /\ BlockTxs[b][pos + 1] = l.tx
  BY <1>1, PositionFacts
<1>3. Len(BlockTxs[b]) \in Nat
  BY <1>1
<1>4. pos \in 0..(Len(BlockTxs[b]) - 1)
  BY <1>2, <1>3
<1> QED BY <1>1, <1>2, <1>4, BranchLeadsToRoot

-----------------------------------------------------------------------------
(* What a request has, and what its answer claims *)

LEMMA GenuineGrows ==
  ASSUME NEW P, NEW Q, P \subseteq Q, NEW j, Genuine(P, j)
  PROVE  Genuine(Q, j)
<1>0. /\ \A l : WasIn(P, l) => WasIn(Q, l)
      /\ \A h, b : StoodAt(P, h, b) => StoodAt(Q, h, b)
      /\ \A o, l : Names(P, o, l) => Names(Q, o, l)
  BY WasGrows
<1>1. Solid(Q, j)
  <2>1. Solid(P, j)
    BY DEF Genuine
  <2>2. j.list \in Seq(Places) /\ \A i \in 1..Len(j.list) : WasIn(Q, j.list[i])
    BY <1>0, <2>1 DEF Solid
  <2> QED BY <2>1, <2>2 DEF Solid
<1>2. OnTheWay(Q, j)
  <2>1. OnTheWay(P, j)
    BY DEF Genuine
  <2>2. j.at \in {"time", "prevout", "funding"} => WasIn(Q, j.found)
    BY <1>0, <2>1 DEF OnTheWay
  <2>3. /\ j.at = "check" => j.spender = Nowhere \/ Names(Q, j.outpoint, j.spender)
        /\ j.at = "spent time" => Names(Q, j.outpoint, j.spender)
    BY <1>0, <2>1 DEF OnTheWay
  <2>4. j.at = "header" => StoodAt(Q, j.found.height, j.block) /\ Proves(j)
    BY <1>0, <2>1 DEF OnTheWay
  <2>5. /\ j.at \notin {"tip", "done"} => j.answer = "none"
        /\ j.at = "get merkle" => MerkleArgs(j)
        /\ j.at = "headers" => HeadersArgs(j)
        /\ j.at = "history" => KeysArgs(j)
        /\ j.at = "tip" => j.route # "headers"
    BY <2>1 DEF OnTheWay
  <2> QED BY <2>2, <2>3, <2>4, <2>5 DEF OnTheWay
<1>3. ASSUME NEW b, NEW h, NEW cp, NEW branch, ProvesHeaders(P, b, h, cp, branch)
      PROVE  ProvesHeaders(Q, b, h, cp, branch)
  <2> DEFINE hashes(view) == SubSeq(Path[view[1]], 1, Sets!Min({cp, Height(view[1])}) + 1)
             Of(view) ==
               /\ \A i \in DOMAIN b : b[i] = HashAt(view[1], h + i - 1)
               /\ h < Len(hashes(view)) /\ cp > 0 =>
                    RootFromBranch(b[1], h, branch) = MerkleRoot(hashes(view))
  <2>1. /\ ProvesHeaders(P, b, h, cp, branch) => \E view \in P : Of(view)
        /\ (\E view \in Q : Of(view)) => ProvesHeaders(Q, b, h, cp, branch)
    BY Zenon DEF ProvesHeaders
  <2> HIDE DEF Of
  <2> QED BY <1>3, <2>1
<1>4. Claims(Q, j)
  BY <1>3, WasGrows DEF Genuine, Claims
<1> QED BY <1>1, <1>2, <1>4 DEF Genuine

Calm == {"locate", "pool", "get", "get chain", "more", "page", "mempool", "hash", "spender",
         "refs", "utxo block", "utxo time", "first", "listing", "at height", "best", "next"}

LEMMA NoClaim ==
  ASSUME NEW P, NEW j, j.answer \notin {"ok", "spent"}
  PROVE  Claims(P, j)
BY DEF Claims

LEMMA CalmGenuine ==
  ASSUME NEW P, NEW j, Solid(P, j), j.answer = "none", j.at \in Calm
  PROVE  Genuine(P, j)
<1>1. Claims(P, j)
  BY NoClaim
<1>2. OnTheWay(P, j)
  BY DEF OnTheWay, Calm
<1> QED BY <1>1, <1>2 DEF Genuine

\* k differs from j in nothing that is solid.
Alike(j, k) ==
  /\ k.route = j.route /\ k.scripts = j.scripts /\ k.found = j.found /\ k.tries = j.tries
  /\ k.spender = j.spender /\ k.rows = j.rows /\ k.utxos = j.utxos /\ k.shown = j.shown
  /\ k.list = j.list /\ k.blocks = j.blocks /\ k.header = j.header /\ k.ttl = j.ttl

LEMMA SolidAlike ==
  ASSUME NEW P, NEW j, NEW k, Solid(P, j), Alike(j, k)
  PROVE  Solid(P, k)
BY DEF Solid, Alike

\* k has the answer a, and besides what j has.
AnsweredAs(j, k, a) ==
  /\ Alike(j, k) /\ k.answer = a /\ k.outpoint = j.outpoint /\ k.block = j.block
  /\ k.cp = j.cp /\ k.pos = j.pos /\ k.branch = j.branch

LEMMA DoneAnswers ==
  ASSUME NEW j, DOMAIN j = Fields, NEW a
  PROVE  AnsweredAs(j, Done(j, a), a) /\ Done(j, a).at = "done" /\ Done(j, a).height = j.height
<1> DEFINE k == Done(j, a)
<1>1. k.at = "done" /\ k.answer = a /\ \A f \in Fields \ {"at", "answer"} : k[f] = j[f]
  BY DoneGoes
<1> HIDE DEF k
<1>2. Alike(j, k)
  BY <1>1 DEF Alike, Fields
<1>3. /\ k.outpoint = j.outpoint /\ k.block = j.block /\ k.height = j.height
      /\ k.cp = j.cp /\ k.pos = j.pos /\ k.branch = j.branch
  BY <1>1 DEF Fields
<1> QED BY <1>1, <1>2, <1>3 DEF k, AnsweredAs

LEMMA AtTipAnswers ==
  ASSUME NEW j, DOMAIN j = Fields, NEW a, NEW h
  PROVE  /\ AnsweredAs(j, AtTip(j, a, h), a) /\ AtTip(j, a, h).at = "tip"
         /\ AtTip(j, a, h).height = h
<1> DEFINE k == AtTip(j, a, h)
<1>1. /\ k.at = "tip" /\ k.answer = a /\ k.height = h
      /\ \A f \in Fields \ {"at", "answer", "height"} : k[f] = j[f]
  BY AtTipGoes
<1> HIDE DEF k
<1>2. Alike(j, k)
  BY <1>1 DEF Alike, Fields
<1>3. /\ k.outpoint = j.outpoint /\ k.block = j.block
      /\ k.cp = j.cp /\ k.pos = j.pos /\ k.branch = j.branch
  BY <1>1 DEF Fields
<1> QED BY <1>1, <1>2, <1>3 DEF k, AnsweredAs

\* An answer that claims nothing is genuine.
LEMMA DoneGenuine ==
  ASSUME NEW P, NEW j, DOMAIN j = Fields, Solid(P, j), NEW a, a \notin {"ok", "spent"}
  PROVE  Genuine(P, Done(j, a))
<1> DEFINE k == Done(j, a)
<1>1. AnsweredAs(j, k, a) /\ k.at = "done"
  BY DoneAnswers
<1> HIDE DEF k
<1>2. Solid(P, k) /\ Claims(P, k)
  BY <1>1, SolidAlike, NoClaim DEF AnsweredAs
<1>3. OnTheWay(P, k)
  BY <1>1 DEF OnTheWay
<1>4. Genuine(P, k)
  BY <1>2, <1>3 DEF Genuine
<1> QED BY <1>4 DEF k

LEMMA AtTipGenuine ==
  ASSUME NEW P, NEW j, DOMAIN j = Fields, Solid(P, j), j.route # "headers", NEW a, NEW h,
         a \notin {"ok", "spent"}
  PROVE  Genuine(P, AtTip(j, a, h))
<1> DEFINE k == AtTip(j, a, h)
<1>1. AnsweredAs(j, k, a) /\ k.at = "tip"
  BY AtTipAnswers
<1> HIDE DEF k
<1>2. Solid(P, k) /\ Claims(P, k)
  BY <1>1, SolidAlike, NoClaim DEF AnsweredAs
<1>3. OnTheWay(P, k)
  BY <1>1 DEF OnTheWay, AnsweredAs, Alike
<1>4. Genuine(P, k)
  BY <1>2, <1>3 DEF Genuine
<1> QED BY <1>4 DEF k

Claiming == TxClaims \cup ProofClaims \cup {"headers"}

\* An answer of the other routes says "ok" of what it lists.
LEMMA OkGenuine ==
  ASSUME NEW P, NEW j, DOMAIN j = Fields, Solid(P, j), j.route \notin Claiming
  PROVE  Genuine(P, Done(j, "ok"))
<1> DEFINE k == Done(j, "ok")
<1>1. AnsweredAs(j, k, "ok") /\ k.at = "done"
  BY DoneAnswers
<1> HIDE DEF k
<1>2. k.route = j.route /\ k.answer = "ok"
  BY <1>1 DEF AnsweredAs, Alike
<1>3. Solid(P, k)
  BY <1>1, SolidAlike DEF AnsweredAs
<1>4. Claims(P, k)
  BY <1>2 DEF Claims, Claiming
<1>5. OnTheWay(P, k)
  BY <1>1 DEF OnTheWay
<1>6. Genuine(P, k)
  BY <1>3, <1>4, <1>5 DEF Genuine
<1> QED BY <1>6 DEF k

\* So does one about a transaction that was found.
LEMMA FoundOk ==
  ASSUME NEW P, NEW j, DOMAIN j = Fields, Solid(P, j), WasIn(P, j.found), j.route \in TxClaims
  PROVE  Genuine(P, Done(j, "ok")) /\ \A h : Genuine(P, AtTip(j, "ok", h))
<1>1. j.route \notin ProofClaims \cup {"headers"}
  BY DEF TxClaims, ProofClaims
<1>2. ASSUME NEW k, AnsweredAs(j, k, "ok"), k.at \in {"tip", "done"} PROVE Genuine(P, k)
  <2>1. k.route = j.route /\ k.answer = "ok" /\ k.found = j.found
    BY <1>2 DEF AnsweredAs, Alike
  <2>2. Solid(P, k)
    BY <1>2, SolidAlike DEF AnsweredAs
  <2>3. Claims(P, k)
    BY <1>1, <2>1 DEF Claims
  <2>4. OnTheWay(P, k)
    BY <1>1, <1>2, <2>1 DEF OnTheWay
  <2> QED BY <2>2, <2>3, <2>4 DEF Genuine
<1>3. Genuine(P, Done(j, "ok"))
  BY <1>2, DoneAnswers
<1>4. ASSUME NEW h PROVE Genuine(P, AtTip(j, "ok", h))
  BY <1>2, AtTipAnswers
<1> QED BY <1>3, <1>4

-----------------------------------------------------------------------------
(* Lists, and finding a transaction *)

LEMMA PageDoneGenuine ==
  ASSUME NEW P, NEW j, DOMAIN j = Fields, Solid(P, j), j.answer = "none", j.route \notin Claiming
  PROVE  Genuine(P, PageDone(j))
<1>1. CASE j.route \notin Walks \/ Len(j.list) = j.from
  BY <1>1, OkGenuine DEF PageDone
<1>2. CASE ~(j.route \notin Walks \/ Len(j.list) = j.from)
  <2> DEFINE c == j.list[Len(j.list)].tx
             n == Len(j.list)
  <2> HIDE DEF c, n
  <2> DEFINE k == [j EXCEPT !.at = "more", !.cursor = c, !.from = n]
  <2>1. Alike(j, k) /\ k.at = "more" /\ k.answer = "none"
    BY DEF Fields, Alike
  <2>2. PageDone(j) = k
    BY <1>2 DEF PageDone, c, n
  <2> HIDE DEF k
  <2>3. k.at \in Calm
    BY <2>1 DEF Calm
  <2> QED BY <2>1, <2>2, <2>3, SolidAlike, CalmGenuine
<1> QED BY <1>1, <1>2

LEMMA NextValueGenuine ==
  ASSUME NEW P, NEW j, DOMAIN j = Fields, Solid(P, j), j.answer = "none", j.route \notin Claiming
  PROVE  Genuine(P, NextValue(j))
<1>1. CASE Len(j.todo) <= 1
  <2> DEFINE k == [j EXCEPT !.todo = <<>>]
  <2>1. DOMAIN k = Fields /\ Alike(j, k) /\ k.answer = "none"
    BY DEF Fields, Alike
  <2>2. NextValue(j) = PageDone(k)
    BY <1>1 DEF NextValue
  <2> HIDE DEF k
  <2>3. Solid(P, k) /\ k.route \notin Claiming
    BY <2>1, SolidAlike DEF Alike
  <2> QED BY <2>1, <2>2, <2>3, PageDoneGenuine
<1>2. CASE ~(Len(j.todo) <= 1)
  <2> DEFINE t == Tail(j.todo)
  <2> HIDE DEF t
  <2> DEFINE k == [j EXCEPT !.todo = t, !.at = "locate"]
  <2>1. Alike(j, k) /\ k.at = "locate" /\ k.answer = "none"
    BY DEF Fields, Alike
  <2>2. NextValue(j) = k
    BY <1>2 DEF NextValue, t, Fields
  <2> HIDE DEF k
  <2>3. k.at \in Calm
    BY <2>1 DEF Calm
  <2> QED BY <2>1, <2>2, <2>3, SolidAlike, CalmGenuine
<1> QED BY <1>1, <1>2

LEMMA TakeGenuine ==
  ASSUME NEW P, NEW j, DOMAIN j = Fields, Solid(P, j), j.answer = "none", j.route \notin Claiming,
         NEW txids
  PROVE  Genuine(P, Take(j, txids))
<1>1. CASE txids = <<>>
  BY <1>1, PageDoneGenuine DEF Take
<1>2. CASE txids # <<>>
  <2> DEFINE few == SubSeq(txids, 1, Sets!Min({Len(txids), PageLimit}))
  <2> HIDE DEF few
  <2> DEFINE k == [j EXCEPT !.todo = few, !.at = "locate"]
  <2>1. Take(j, txids) = k
    BY <1>2 DEF Take, few
  <2>2. Alike(j, k) /\ k.at = "locate" /\ k.answer = "none"
    BY DEF Fields, Alike
  <2> HIDE DEF k
  <2>3. k.at \in Calm
    BY <2>2 DEF Calm
  <2> QED BY <2>1, <2>2, <2>3, SolidAlike, CalmGenuine
<1> QED BY <1>1, <1>2

LEMMA SelectGenuine ==
  ASSUME NEW P, NEW j, DOMAIN j = Fields, Solid(P, j), j.answer = "none", j.route \notin Claiming,
         j.route \in {"txs", "txs chain", "txs mempool"}, NEW mempool
  PROVE  Genuine(P, Select(j, mempool))
<1>1. \A txids : Genuine(P, Take(j, txids))
  BY TakeGenuine
<1>2. Genuine(P, Done(j, "422"))
  BY DoneGenuine
<1> DEFINE chain == RowsDesc(j.rows)
           c == j.cursor
           x == Seqs!ToSet(chain)
           m == Seqs!ToSet(mempool)
           a == IF c = NoTx THEN chain ELSE IF c \in x THEN After(chain, c) ELSE <<>>
           u == mempool \o chain
           v == After(mempool, c) \o chain
           w == After(chain, c)
<1>3. Select(j, mempool) =
        CASE j.route = "txs mempool" -> Take(j, mempool)
          [] j.route = "txs chain" -> Take(j, a)
          [] j.route = "txs" /\ c = NoTx -> Take(j, u)
          [] j.route = "txs" /\ c \in m -> Take(j, v)
          [] j.route = "txs" /\ c \in x \ m -> Take(j, w)
          [] OTHER -> Done(j, "422")
  BY DEF Select
<1> HIDE DEF a, u, v, w, c, x, m
<1> QED BY <1>1, <1>2, <1>3

\* What has been found and resolved goes to the list.
LEMMA ListGrows ==
  ASSUME NEW P, NEW j, DOMAIN j = Fields, Solid(P, j), WasIn(P, j.found)
  PROVE  LET k == [j EXCEPT !.list = Append(@, j.found)]
         IN  Solid(P, k) /\ DOMAIN k = Fields /\ k.answer = j.answer /\ k.route = j.route
<1> DEFINE q == Append(j.list, j.found)
<1>1. q \in Seq(Places) /\ \A i \in 1..Len(q) : WasIn(P, q[i])
  <2>1. /\ j.list \in Seq(Places) /\ Len(j.list) \in Nat /\ j.found \in Places
        /\ \A i \in 1..Len(j.list) : WasIn(P, j.list[i])
    BY DEF Solid
  <2>2. Len(q) = Len(j.list) + 1 /\ q \in Seq(Places)
    BY <2>1
  <2>3. ASSUME NEW i \in 1..Len(q) PROVE WasIn(P, q[i])
    <3>1. CASE i = Len(j.list) + 1
      <4>1. q[i] = j.found
        BY <2>1, <3>1
      <4> QED BY <4>1
    <3>2. CASE i \in 1..Len(j.list)
      <4>1. q[i] = j.list[i]
        BY <2>1, <3>2
      <4> HIDE DEF q
      <4> QED BY <2>1, <3>2, <4>1
    <3>3. i = Len(j.list) + 1 \/ i \in 1..Len(j.list)
      <4> HIDE DEF q
      <4> QED BY <2>1, <2>2
    <3> QED BY <3>1, <3>2, <3>3
  <2> QED BY <2>2, <2>3
<1> HIDE DEF q
<1> DEFINE k == [j EXCEPT !.list = q]
<1>2. k = [j EXCEPT !.list = Append(@, j.found)]
  BY DEF q, Fields
<1>3. /\ DOMAIN k = Fields /\ k.answer = j.answer /\ k.route = j.route /\ k.list = q
      /\ k.scripts = j.scripts /\ k.found = j.found /\ k.tries = j.tries
      /\ k.spender = j.spender /\ k.rows = j.rows /\ k.utxos = j.utxos /\ k.shown = j.shown
      /\ k.blocks = j.blocks /\ k.header = j.header /\ k.ttl = j.ttl
  BY DEF Fields
<1> HIDE DEF k
<1>4. Solid(P, k)
  BY <1>1, <1>3 DEF Solid
<1> QED BY <1>2, <1>3, <1>4

LEMMA ListsClaimNothing == \A r \in Lists : r \notin Claiming
BY DEF Lists, Claiming, TxClaims, ProofClaims

LEMMA ResolveGenuine ==
  ASSUME NEW P, NEW j, DOMAIN j = Fields, Solid(P, j), j.answer = "none", WasIn(P, j.found),
         j.route \in Lists \cup {"tx"}
  PROVE  Genuine(P, Resolve(j))
<1>1. CASE j.inputs # {}
  <2> DEFINE k == [j EXCEPT !.at = "prevout"]
  <2>1. Alike(j, k) /\ k.at = "prevout" /\ k.answer = "none" /\ Resolve(j) = k
    BY <1>1 DEF Fields, Resolve, Alike
  <2> HIDE DEF k
  <2>2. Solid(P, k) /\ Claims(P, k)
    BY <2>1, SolidAlike, NoClaim
  <2>3. OnTheWay(P, k)
    BY <2>1 DEF OnTheWay, Alike
  <2> QED BY <2>1, <2>2, <2>3 DEF Genuine
<1>2. CASE j.inputs = {} /\ j.route = "tx"
  <2>1. j.route \in TxClaims
    BY <1>2 DEF TxClaims
  <2>2. Resolve(j) = AtTip(j, "ok", j.found.height)
    BY <1>2 DEF Resolve
  <2> QED BY <2>1, <2>2, FoundOk
<1>3. CASE j.inputs = {} /\ j.route \in Lists
  <2> DEFINE k == [j EXCEPT !.list = Append(@, j.found)]
  <2>1. Solid(P, k) /\ DOMAIN k = Fields /\ k.answer = "none" /\ k.route = j.route
    BY ListGrows
  <2>2. Resolve(j) = NextValue(k)
    BY <1>3 DEF Resolve, Lists
  <2> HIDE DEF k
  <2>3. k.route \notin Claiming
    BY <1>3, <2>1, ListsClaimNothing
  <2> QED BY <2>1, <2>2, <2>3, NextValueGenuine
<1> QED BY <1>1, <1>2, <1>3

LEMMA MissingGenuine ==
  ASSUME NEW P, NEW j, DOMAIN j = Fields, Solid(P, j), j.answer = "none",
         j.route \in Lists \cup {"tx"}
  PROVE  Genuine(P, Missing(j))
BY DoneGenuine, NextValueGenuine, ListsClaimNothing DEF Missing

LEMMA HoldingSolid ==
  ASSUME NEW P, NEW j, DOMAIN j = Fields, Solid(P, j), NEW l \in Places
  PROVE  /\ DOMAIN Holding(j, l) = Fields /\ Solid(P, Holding(j, l))
         /\ Holding(j, l).found = l /\ Holding(j, l).route = j.route
         /\ Holding(j, l).answer = j.answer
<1> DEFINE i == IF l.tx = NoTx THEN {} ELSE Inputs[l.tx]
           k == [j EXCEPT !.found = l, !.inputs = i]
<1>1. Holding(j, l) = k
  BY DEF Holding
<1> HIDE DEF i
<1>2. /\ DOMAIN k = Fields /\ k.answer = j.answer /\ k.route = j.route /\ k.list = j.list
      /\ k.scripts = j.scripts /\ k.found = l /\ k.tries = j.tries
      /\ k.spender = j.spender /\ k.rows = j.rows /\ k.utxos = j.utxos /\ k.shown = j.shown
      /\ k.blocks = j.blocks /\ k.header = j.header /\ k.ttl = j.ttl
  BY DEF Fields
<1> HIDE DEF k
<1>3. Solid(P, k)
  BY <1>2 DEF Solid
<1> QED BY <1>1, <1>2, <1>3

\* A found transaction was there.
Real(P, l) == l \in Places /\ (l.place # "none" => WasIn(P, l))

LEMMA FoundGenuine ==
  ASSUME NEW P, NEW j, DOMAIN j = Fields, Solid(P, j), j.answer = "none", NEW l, Real(P, l),
         j.route \in Lists \cup {"merkle", "merkleblock"} \cup Single
  PROVE  Genuine(P, Found(j, l))
<1> DEFINE k == Holding(j, l)
<1>1. DOMAIN k = Fields /\ Solid(P, k) /\ k.found = l /\ k.route = j.route /\ k.answer = "none"
  BY HoldingSolid DEF Real
<1> HIDE DEF k
<1>2. \A a : a \notin {"ok", "spent"} => Genuine(P, Done(k, a))
  BY <1>1, DoneGenuine
<1>3. j.route \in Lists => Genuine(P, NextValue(k))
  BY <1>1, NextValueGenuine, ListsClaimNothing
<1>4. j.route \in Lists \cup {"tx"} /\ l.place # "none" => Genuine(P, Resolve(k))
  BY <1>1, ResolveGenuine DEF Real
<1>5. /\ j.route = "status" /\ l.place # "none" => Genuine(P, AtTip(k, "ok", l.height))
      /\ j.route = "get" /\ l.place # "none" => Genuine(P, Done(k, "ok"))
  BY <1>1, FoundOk DEF Real, TxClaims
<1>6. j.route = "outspend" => Genuine(P, AtTip(k, "unspent", -1))
  BY <1>1, AtTipGenuine
<1>7. Genuine(P, [k EXCEPT !.at = "hash"]) /\ Genuine(P, [k EXCEPT !.at = "spender"])
  <2>1. ASSUME NEW a \in {"hash", "spender"} PROVE Genuine(P, [k EXCEPT !.at = a])
    <3> DEFINE m == [k EXCEPT !.at = a]
    <3>1. Alike(k, m) /\ m.at = a /\ m.answer = "none"
      BY <1>1 DEF Alike, Fields
    <3> HIDE DEF m
    <3>2. m.at \in Calm
      BY <3>1 DEF Calm
    <3>3. Genuine(P, m)
      BY <1>1, <3>1, <3>2, SolidAlike, CalmGenuine
    <3> QED BY <3>3 DEF m
  <2> QED BY <2>1
<1>8. CASE j.route \in Lists
  BY <1>3, <1>4, <1>8, FoundCases DEF k
<1>9. CASE j.route \in {"tx", "status", "get"}
  BY <1>2, <1>4, <1>5, <1>9, FoundCases DEF k
<1>10. CASE j.route \in {"merkle", "merkleblock"}
  BY <1>2, <1>7, <1>10, FoundCases DEF k
<1>11. CASE j.route = "outspend"
  BY <1>6, <1>7, <1>11, FoundCases DEF k
<1> QED BY <1>8, <1>9, <1>10, <1>11 DEF Single

-----------------------------------------------------------------------------
(* Every read keeps the request genuine *)

Serving ==
  /\ IsJob(job) /\ Genuine(past, job)
  /\ tip \in Blocks /\ pool \in Pools /\ <<tip, pool>> \in past

LEMMA ServingFacts ==
  ASSUME Serving, job.at \notin {"tip", "done"}
  PROVE  /\ DOMAIN job = Fields /\ Stations(job) /\ Solid(past, job) /\ OnTheWay(past, job)
         /\ job.answer = "none" /\ tip \in Blocks /\ pool \subseteq Txids
         /\ <<tip, pool>> \in past
BY PoolTxids DEF Serving, IsJob, Genuine, OnTheWay

\* What is served now is real.
LEMMA RealNow ==
  ASSUME Serving
  PROVE  /\ Real(past, Nowhere) /\ \A t \in pool : Real(past, InPool(t))
         /\ \A l \in Locations(tip) : Real(past, l) /\ WasIn(past, l)
<1>1. pool \subseteq Txids /\ tip \in Blocks /\ <<tip, pool>> \in past
  BY PoolTxids DEF Serving
<1>2. Real(past, Nowhere)
  BY NowherePlace DEF Real
<1>3. \A t \in pool : Real(past, InPool(t))
  BY <1>1, PoolPlace, PoolWas DEF Real
<1>4. \A l \in Locations(tip) : Real(past, l) /\ WasIn(past, l)
  BY <1>1, LocationPlace, LocationWas DEF Real
<1> QED BY <1>2, <1>3, <1>4

LEMMA LocateGenuine ==
  ASSUME Serving, Locate
  PROVE  Genuine(past, job')
<1>1. job.at = "locate" /\ job.at \notin {"tip", "done"}
  BY DEF Locate
<1>2. DOMAIN job = Fields /\ Solid(past, job) /\ job.answer = "none" /\ tip \in Blocks
  BY <1>1, ServingFacts
<1>3. ASSUME NEW l \in Locations(tip), job' = [job EXCEPT !.found = l, !.at = "time"]
      PROVE  Genuine(past, job')
  <2>1. l \in Places /\ WasIn(past, l)
    BY RealNow DEF Real
  <2>2. /\ job'.at = "time" /\ job'.found = l /\ job'.answer = job.answer /\ job'.route = job.route
        /\ job'.list = job.list /\ job'.scripts = job.scripts /\ job'.tries = job.tries
        /\ job'.spender = job.spender /\ job'.rows = job.rows /\ job'.utxos = job.utxos
        /\ job'.shown = job.shown /\ job'.blocks = job.blocks /\ job'.header = job.header
        /\ job'.ttl = job.ttl
    BY <1>2, <1>3 DEF Fields
  <2>3. Solid(past, job')
    BY <1>2, <2>1, <2>2 DEF Solid
  <2>4. OnTheWay(past, job')
    BY <1>2, <2>1, <2>2 DEF OnTheWay
  <2> QED BY <1>2, <2>2, <2>3, <2>4, NoClaim DEF Genuine
<1>4. ASSUME job' = [job EXCEPT !.at = "pool"] PROVE Genuine(past, job')
  <2>1. Alike(job, job') /\ job'.at = "pool" /\ job'.answer = "none"
    BY <1>2, <1>4 DEF Fields, Alike
  <2>2. job'.at \in Calm
    BY <2>1 DEF Calm
  <2> QED BY <1>2, <2>1, <2>2, SolidAlike, CalmGenuine
<1> QED BY <1>3, <1>4 DEF Locate, Step

LEMMA FindTimeGenuine ==
  ASSUME Serving, FindTime
  PROVE  Genuine(past, job')
<1>1. job.at = "time" /\ job.at \notin {"tip", "done"}
  BY DEF FindTime
<1>2. /\ DOMAIN job = Fields /\ Stations(job) /\ Solid(past, job) /\ OnTheWay(past, job)
      /\ job.answer = "none" /\ tip \in Blocks
  BY <1>1, ServingFacts
<1>3. job.route \in Lists \cup {"merkle", "merkleblock"} \cup Single
  BY <1>1, <1>2 DEF Stations, Single
<1>4. job.found \in Places /\ WasIn(past, job.found)
  BY <1>1, <1>2 DEF Solid, OnTheWay
<1> DEFINE b == BlockTime(tip, job.found.height)
           l == [job.found EXCEPT !.time = b]
<1>5. Real(past, l)
  <2>1. b \in Blocks \cup {NoBlock}
    BY <1>2, HashesAreBlocks DEF BlockTime
  <2> HIDE DEF b
  <2>2. l \in Places
    BY <1>4, <2>1, PlaceSet
  <2>3. WasIn(past, l)
    BY <1>4, TimeKeeps
  <2> QED BY <2>2, <2>3 DEF Real
<1>6. job' \in {Done(job, "404"), Found(job, l)}
  BY DEF FindTime, Step
<1> HIDE DEF b, l
<1>7. Genuine(past, Found(job, l))
  BY <1>2, <1>3, <1>5, FoundGenuine
<1> QED BY <1>2, <1>6, <1>7, DoneGenuine

LEMMA FindGenuine ==
  ASSUME Serving, FindInPool \/ GetFromPool \/ GetFromChain
  PROVE  Genuine(past, job')
<1>1. /\ job.at \in {"pool", "get", "get chain"} /\ job.at \notin {"tip", "done"}
      /\ job.route \in Lists \cup {"merkle", "merkleblock"} \cup Single
  BY DEF Serving, IsJob, Stations, FindInPool, GetFromPool, GetFromChain, Single
<1>2. DOMAIN job = Fields /\ Solid(past, job) /\ job.answer = "none"
  BY <1>1, ServingFacts
<1>3. \/ \E l : job' = Found(job, l) /\ Real(past, l)
      \/ job' = [job EXCEPT !.at = "get chain"]
  BY RealNow DEF FindInPool, GetFromPool, GetFromChain, Step
<1>4. ASSUME job' = [job EXCEPT !.at = "get chain"] PROVE Genuine(past, job')
  <2>1. Alike(job, job') /\ job'.at = "get chain" /\ job'.answer = "none"
    BY <1>2, <1>4 DEF Fields, Alike
  <2>2. job'.at \in Calm
    BY <2>1 DEF Calm
  <2> QED BY <1>2, <2>1, <2>2, SolidAlike, CalmGenuine
<1>5. ASSUME NEW l, job' = Found(job, l), Real(past, l) PROVE Genuine(past, job')
  BY <1>1, <1>2, <1>5, FoundGenuine
<1> QED BY <1>3, <1>4, <1>5

LEMMA PrevoutGenuine ==
  ASSUME Serving, PrevoutInPool \/ PrevoutInChain
  PROVE  Genuine(past, job')
<1>1. /\ job.at \in {"prevout", "funding"} /\ job.route \in Lists \cup {"tx"}
      /\ job.at \notin {"tip", "done"}
  BY DEF Serving, IsJob, PrevoutInPool, PrevoutInChain, Stations
<1>2. DOMAIN job = Fields /\ Solid(past, job) /\ job.answer = "none" /\ WasIn(past, job.found)
  BY <1>1, ServingFacts DEF OnTheWay
<1> DEFINE k == [job EXCEPT !.inputs = @ \ {Input}]
           n == [job EXCEPT !.at = "funding"]
<1>3. DOMAIN k = Fields /\ Alike(job, k) /\ k.answer = "none"
  BY <1>2 DEF Fields, Alike
<1>4. Alike(job, n) /\ n.at = "funding" /\ n.answer = "none"
  BY <1>2 DEF Fields, Alike
<1>5. job' \in {Resolve(k), n, Missing(job)}
  BY DEF PrevoutInPool, PrevoutInChain, Step
<1> HIDE DEF k, n
<1>6. Genuine(past, Resolve(k))
  <2>1. Solid(past, k) /\ WasIn(past, k.found) /\ k.route \in Lists \cup {"tx"}
    BY <1>1, <1>2, <1>3, SolidAlike DEF Alike
  <2> QED BY <1>3, <2>1, ResolveGenuine
<1>7. Genuine(past, n)
  <2>1. Solid(past, n) /\ Claims(past, n)
    BY <1>2, <1>4, SolidAlike, NoClaim
  <2>2. OnTheWay(past, n)
    BY <1>2, <1>4 DEF OnTheWay, Alike
  <2> QED BY <2>1, <2>2 DEF Genuine
<1>8. Genuine(past, Missing(job))
  BY <1>1, <1>2, MissingGenuine
<1> QED BY <1>5, <1>6, <1>7, <1>8

\* An answer with a proof that leads to the root of a block that was there.
LEMMA ProofOk ==
  ASSUME NEW P, NEW j, DOMAIN j = Fields, Solid(P, j), j.route \in ProofClaims, Proves(j),
         NEW h, StoodAt(P, h, j.block)
  PROVE  Genuine(P, AtTip(j, "ok", h)) /\ (j.height = h => Genuine(P, Done(j, "ok")))
<1>1. j.route \notin TxClaims \cup {"headers"}
  BY DEF TxClaims, ProofClaims
<1>2. ASSUME NEW k, AnsweredAs(j, k, "ok"), k.height = h, k.at \in {"tip", "done"}
      PROVE  Genuine(P, k)
  <2>1. /\ k.route = j.route /\ k.answer = "ok" /\ k.found = j.found /\ k.block = j.block
        /\ k.pos = j.pos /\ k.branch = j.branch
    BY <1>2 DEF AnsweredAs, Alike
  <2>2. Solid(P, k)
    BY <1>2, SolidAlike DEF AnsweredAs
  <2>3. Proves(k) /\ StoodAt(P, k.height, k.block)
    BY <1>2, <2>1 DEF Proves
  <2>4. Claims(P, k)
    BY <1>1, <2>1, <2>3 DEF Claims
  <2>5. OnTheWay(P, k)
    BY <1>1, <1>2, <2>1 DEF OnTheWay
  <2> QED BY <2>2, <2>4, <2>5 DEF Genuine
<1>3. Genuine(P, AtTip(j, "ok", h))
  BY <1>2, AtTipAnswers
<1>4. j.height = h => Genuine(P, Done(j, "ok"))
  BY <1>2, DoneAnswers
<1> QED BY <1>3, <1>4

LEMMA BlockPositionGenuine ==
  ASSUME Serving, BlockPosition
  PROVE  Genuine(past, job')
<1>1. job.at = "hash" /\ job.at \notin {"tip", "done"}
  BY DEF BlockPosition
<1>2. /\ DOMAIN job = Fields /\ Stations(job) /\ Solid(past, job) /\ job.answer = "none"
      /\ tip \in Blocks /\ <<tip, pool>> \in past
  BY <1>1, ServingFacts
<1>3. job.route \in {"merkle", "merkleblock"}
  BY <1>1, <1>2 DEF Stations
<1> DEFINE b == HashAt(tip, job.found.height)
           p == Position(job.found, BlockTxs[b])
           m == BranchAndRoot(BlockTxs[b], p).branch
           j == [job EXCEPT !.block = b, !.pos = p, !.branch = m]
           n == [j EXCEPT !.at = "header"]
           z == AtTip(j, "ok", job.found.height)
<1>4. job' = CASE b = NoBlock -> Done(job, "404")
               [] b # NoBlock /\ p < 0 -> Done(job, "500")
               [] OTHER -> IF job.route = "merkleblock" THEN n ELSE z
  BY DEF BlockPosition, Step
<1>5. StoodAt(past, job.found.height, b)
  BY <1>2 DEF StoodAt
<1>6. b # NoBlock /\ ~(p < 0) =>
        RootFromBranch(job.found.tx, p, m) = MerkleRoot(BlockTxs[b])
  <2>1. b \in Blocks \cup {NoBlock} /\ job.found \in Places
    BY <1>2, HashesAreBlocks DEF Solid
  <2> QED BY <2>1, PositionProves
<1> HIDE DEF b, p, m
<1>7. /\ DOMAIN j = Fields /\ j.block = b /\ j.pos = p /\ j.branch = m /\ Alike(job, j)
      /\ j.answer = "none"
  BY <1>2 DEF Fields, Alike
<1> HIDE DEF j
<1>8. Solid(past, j) /\ j.found = job.found /\ j.route = job.route
  BY <1>2, <1>7, SolidAlike DEF Alike
<1>9. b # NoBlock /\ ~(p < 0) => Proves(j)
  BY <1>6, <1>7, <1>8 DEF Proves
<1>10. /\ DOMAIN n = Fields /\ Alike(j, n) /\ n.at = "header" /\ n.block = b /\ n.pos = j.pos
       /\ n.branch = j.branch /\ n.answer = "none"
  BY <1>7 DEF Fields, Alike
<1> HIDE DEF n
<1>11. b # NoBlock /\ ~(p < 0) => Genuine(past, n)
  <2> SUFFICES ASSUME b # NoBlock, ~(p < 0) PROVE Genuine(past, n)
    OBVIOUS
  <2>1. Solid(past, n) /\ Claims(past, n) /\ n.found = job.found
    BY <1>8, <1>10, SolidAlike, NoClaim DEF Alike
  <2>2. Proves(n)
    BY <1>7, <1>8, <1>9, <1>10, <2>1 DEF Proves
  <2>3. StoodAt(past, n.found.height, n.block)
    BY <1>5, <1>10, <2>1
  <2>4. OnTheWay(past, n)
    BY <1>10, <2>2, <2>3 DEF OnTheWay
  <2> QED BY <2>1, <2>4 DEF Genuine
<1>12. b # NoBlock /\ ~(p < 0) => Genuine(past, z)
  <2>1. j.route \in ProofClaims
    BY <1>3, <1>8 DEF ProofClaims
  <2> QED BY <1>5, <1>7, <1>8, <1>9, <2>1, ProofOk
<1>13. Genuine(past, Done(job, "404")) /\ Genuine(past, Done(job, "500"))
  BY <1>2, DoneGenuine
<1> HIDE DEF z
<1> QED BY <1>4, <1>11, <1>12, <1>13

LEMMA MerkleblockHeaderGenuine ==
  ASSUME Serving, MerkleblockHeader
  PROVE  Genuine(past, job')
<1>1. job.at = "header" /\ job.at \notin {"tip", "done"}
  BY DEF MerkleblockHeader
<1>2. /\ DOMAIN job = Fields /\ Stations(job) /\ Solid(past, job) /\ OnTheWay(past, job)
      /\ tip \in Blocks
  BY <1>1, ServingFacts
<1>3. /\ job.route = "merkleblock" /\ StoodAt(past, job.found.height, job.block)
      /\ Proves(job)
  BY <1>1, <1>2 DEF Stations, OnTheWay
<1> DEFINE h == job.found.height
           b == HashAt(tip, h)
           j == [job EXCEPT !.header = b]
           k == AtTip(j, "ok", h)
<1>4. b \in Blocks \cup {NoBlock}
  BY <1>2, HashesAreBlocks
<1>5. job' \in {Done(job, "404"), k}
  BY DEF MerkleblockHeader, Step
<1> HIDE DEF b
<1>6. /\ DOMAIN j = Fields /\ j.route = job.route /\ j.list = job.list
      /\ j.scripts = job.scripts /\ j.found = job.found /\ j.tries = job.tries
      /\ j.spender = job.spender /\ j.rows = job.rows /\ j.utxos = job.utxos /\ j.shown = job.shown
      /\ j.blocks = job.blocks /\ j.header = b /\ j.ttl = job.ttl
      /\ j.block = job.block /\ j.pos = job.pos /\ j.branch = job.branch
  BY <1>2 DEF Fields
<1> HIDE DEF j, h
<1>7. Solid(past, j)
  BY <1>2, <1>4, <1>6 DEF Solid
<1>8. Proves(j) /\ StoodAt(past, h, j.block) /\ j.route \in ProofClaims
  BY <1>3, <1>6 DEF Proves, ProofClaims, h
<1>9. Genuine(past, k)
  BY <1>6, <1>7, <1>8, ProofOk
<1> HIDE DEF k
<1> QED BY <1>2, <1>5, <1>9, DoneGenuine

LEMMA GetMerkleGenuine ==
  ASSUME Serving, GetMerkle
  PROVE  Genuine(past, job')
<1>1. job.at = "get merkle" /\ job.at \notin {"tip", "done"}
  BY DEF GetMerkle
<1>2. /\ DOMAIN job = Fields /\ Stations(job) /\ Solid(past, job) /\ OnTheWay(past, job)
      /\ tip \in Blocks /\ <<tip, pool>> \in past
  BY <1>1, ServingFacts
<1>3. job.route \in ProofClaims /\ Head(job.todo) \in Txids
  BY <1>1, <1>2 DEF Stations, OnTheWay, MerkleArgs, ProofClaims
<1> DEFINE b == HashAt(tip, job.height)
           l == [InBlock(b, 1) EXCEPT !.tx = Head(job.todo)]
           p == Position(l, BlockTxs[b])
           m == BranchAndRoot(BlockTxs[b], p).branch
           j == [job EXCEPT !.block = b, !.found = l, !.pos = p, !.branch = m]
<1>4. job' = IF b = NoBlock THEN Done(job, "error")
             ELSE IF p < 0 THEN Done(job, "error") ELSE Done(j, "ok")
  BY DEF GetMerkle, Step
<1>5. StoodAt(past, job.height, b)
  BY <1>2 DEF StoodAt
<1>6. b \in Blocks \cup {NoBlock}
  BY <1>2, HashesAreBlocks
<1>7. b # NoBlock => l \in Places
  <2> HIDE DEF b
  <2> SUFFICES ASSUME b \in Blocks PROVE l \in Places
    BY <1>6
  <2>1. Height(b) \in Int /\ Head(job.todo) \in Txids
    BY <1>3, PathFacts
  <2> DEFINE t == BlockTxs[b][1]
  <2> HIDE DEF t
  <2>2. InBlock(b, 1) = [tx |-> t, place |-> "chain", block |-> b, height |-> Height(b),
                         pos |-> 0, time |-> NoBlock]
    BY DEF InBlock, t
  <2> QED BY <2>1, <2>2 DEF Places
<1>8. b # NoBlock /\ ~(p < 0) => RootFromBranch(l.tx, p, m) = MerkleRoot(BlockTxs[b])
  <2> HIDE DEF l, b
  <2> QED BY <1>6, <1>7, PositionProves
<1> HIDE DEF b, p, m, l
<1>9. /\ DOMAIN j = Fields /\ j.route = job.route /\ j.list = job.list
      /\ j.scripts = job.scripts /\ j.found = l /\ j.tries = job.tries
      /\ j.spender = job.spender /\ j.rows = job.rows /\ j.utxos = job.utxos /\ j.shown = job.shown
      /\ j.blocks = job.blocks /\ j.header = job.header /\ j.ttl = job.ttl
      /\ j.block = b /\ j.pos = p /\ j.branch = m /\ j.height = job.height
  BY <1>2 DEF Fields
<1> HIDE DEF j
<1>10. b # NoBlock /\ ~(p < 0) => Genuine(past, Done(j, "ok"))
  <2> SUFFICES ASSUME b # NoBlock, ~(p < 0) PROVE Genuine(past, Done(j, "ok"))
    OBVIOUS
  <2>1. Solid(past, j)
    BY <1>2, <1>7, <1>9 DEF Solid
  <2>2. Proves(j) /\ StoodAt(past, j.height, j.block) /\ j.route \in ProofClaims
    BY <1>3, <1>5, <1>8, <1>9 DEF Proves
  <2> QED BY <1>9, <2>1, <2>2, ProofOk
<1>11. Genuine(past, Done(job, "error"))
  BY <1>2, DoneGenuine
<1> QED BY <1>4, <1>10, <1>11

\* The headers of one chain, and the proof of the first of them.
LEMMA HeadersProved ==
  ASSUME NEW k \in Blocks, NEW S, NEW P, <<k, S>> \in P, NEW h \in Nat, ~(h > Height(k)),
         NEW n \in Int, n <= Height(k) - h + 1, NEW cp \in Nat, NEW branch,
         LET hashes == SubSeq(Path[k], 1, Sets!Min({cp, Height(k)}) + 1)
         IN  branch = IF cp > 0
                      THEN BranchAndRoot(hashes, Sets!Min({h, Len(hashes) - 1})).branch ELSE <<>>
  PROVE  LET blocks == SubSeq(Path[k], h + 1, h + n)
         IN  /\ blocks \in Seq(Blocks)
             /\ blocks # <<>> => ProvesHeaders(P, blocks, h, cp, branch)
<1> DEFINE hashes == SubSeq(Path[k], 1, Sets!Min({cp, Height(k)}) + 1)
           blocks == SubSeq(Path[k], h + 1, h + n)
           top == Sets!Min({cp, Height(k)})
<1>1. Path[k] \in Seq(Blocks) /\ Len(Path[k]) \in Nat /\ Height(k) = Len(Path[k]) - 1 /\ Height(k) \in Nat
  BY PathFacts
<1>2. top \in Nat /\ top <= cp /\ top <= Height(k)
  <2>1. cp \in Int /\ Height(k) \in Int
    BY <1>1
  <2>2. top \in {cp, Height(k)} /\ top <= cp /\ top <= Height(k)
    BY <2>1, MinOfTwo
  <2> HIDE DEF top
  <2> QED BY <1>1, <2>2
<1> HIDE DEF top
<1>3. /\ hashes \in Seq(Blocks) /\ Len(hashes) = top + 1
      /\ \A i \in 1..(top + 1) : hashes[i] = Path[k][i]
  <2>1. hashes = SubSeq(Path[k], 1, top + 1)
    BY DEF top
  <2> HIDE DEF hashes
  <2>2. top + 1 \in 1..Len(Path[k])
    BY <1>1, <1>2
  <2> QED BY <1>1, <2>1, <2>2
<1>4. /\ blocks \in Seq(Blocks) /\ (blocks # <<>> => n > 0)
      /\ n > 0 => DOMAIN blocks = 1..n /\ \A i \in 1..n : blocks[i] = Path[k][h + i]
  <2>1. CASE n > 0
    <3>1. h + 1 \in 1..Len(Path[k]) /\ h + n \in 1..Len(Path[k]) /\ n \in Nat
      BY <1>1, <2>1
    <3>2. blocks \in Seq(Blocks) /\ Len(blocks) = n
      BY <1>1, <3>1
    <3>3. ASSUME NEW i \in 1..n PROVE blocks[i] = Path[k][h + i]
      <4>1. blocks[i] = Path[k][h + 1 + i - 1]
        BY <1>1, <3>1
      <4> QED BY <4>1
    <3> HIDE DEF blocks
    <3> QED BY <2>1, <3>2, <3>3
  <2>2. CASE ~(n > 0)
    <3>1. h + n < h + 1
      BY <2>2
    <3>2. blocks = <<>>
      BY <1>1, <3>1
    <3> HIDE DEF blocks
    <3> QED BY <2>2, <3>2
  <2> QED BY <2>1, <2>2
<1> HIDE DEF blocks, hashes
<1>5. ASSUME blocks # <<>> PROVE ProvesHeaders(P, blocks, h, cp, branch)
  <2>1. n > 0 /\ DOMAIN blocks = 1..n /\ \A i \in 1..n : blocks[i] = Path[k][h + i]
    BY <1>4, <1>5
  <2>2. ASSUME NEW i \in DOMAIN blocks PROVE blocks[i] = HashAt(k, h + i - 1)
    <3>1. i \in 1..n
      BY <2>1
    <3>2. h + i - 1 \in 0..Height(k) /\ (h + i - 1) + 1 = h + i
      <4> DEFINE last == Height(k)
      <4>1. last \in Nat /\ n \in Int /\ (n > 0 => h + n <= last + 1)
        BY <1>1
      <4> HIDE DEF last
      <4>2. h + i - 1 \in 0..last /\ (h + i - 1) + 1 = h + i
        BY <3>1, <4>1
      <4> QED BY <4>2 DEF last
    <3> QED BY <2>1, <3>1, <3>2 DEF HashAt
  <2>3. ASSUME h < Len(hashes), cp > 0
        PROVE  RootFromBranch(blocks[1], h, branch) = MerkleRoot(hashes)
    <3>1. h <= Len(hashes) - 1 /\ Len(hashes) \in Nat /\ h \in 0..(Len(hashes) - 1)
      BY <1>2, <1>3, <2>3
    <3>2. Sets!Min({h, Len(hashes) - 1}) = h
      <4> DEFINE c == Len(hashes) - 1
                 least == Sets!Min({h, c})
      <4>1. h \in Int /\ c \in Int /\ h <= c
        BY <3>1
      <4> HIDE DEF c
      <4>2. least \in {h, c} /\ least <= h
        BY <4>1, MinOfTwo
      <4> HIDE DEF least
      <4>3. least = h
        BY <4>1, <4>2
      <4> QED BY <4>3 DEF least, c
    <3>3. branch = BranchAndRoot(hashes, h).branch
      BY <2>3, <3>2 DEF hashes
    <3>4. blocks[1] = hashes[h + 1]
      <4>1. 1 \in 1..n /\ h + 1 \in 1..(top + 1)
        BY <1>2, <1>3, <2>1, <3>1
      <4> QED BY <1>3, <2>1, <4>1
    <3> QED BY <1>3, <3>1, <3>3, <3>4, BranchLeadsToRoot
  <2>4. <<k, S>>[1] = k
    OBVIOUS
  <2> QED BY <2>2, <2>3, <2>4 DEF ProvesHeaders, hashes
<1> QED BY <1>4, <1>5 DEF blocks

LEMMA BlockHeadersGenuine ==
  ASSUME Serving, BlockHeaders
  PROVE  Genuine(past, job')
<1>1. job.at = "headers" /\ job.at \notin {"tip", "done"}
  BY DEF BlockHeaders
<1>2. /\ DOMAIN job = Fields /\ Stations(job) /\ Solid(past, job) /\ OnTheWay(past, job)
      /\ tip \in Blocks /\ <<tip, pool>> \in past
  BY <1>1, ServingFacts
<1>3. job.route = "headers" /\ HeadersArgs(job)
  BY <1>1, <1>2 DEF Stations, OnTheWay
<1> DEFINE n == Sets!Min({job.count, HeadersLimit, Height(tip) - job.height + 1})
           hashes == SubSeq(Path[tip], 1, Sets!Min({job.cp, Height(tip)}) + 1)
           p == Sets!Min({job.height, Len(hashes) - 1})
           x == SubSeq(Path[tip], job.height + 1, job.height + n)
           m == IF job.cp > 0 THEN BranchAndRoot(hashes, p).branch ELSE <<>>
           j == [job EXCEPT !.blocks = x, !.branch = m]
<1>4. job' = IF job.height > Height(tip) THEN Done(job, "ok") ELSE Done(j, "ok")
  BY DEF BlockHeaders, Step
<1>5. Height(tip) \in Int /\ job.height \in Nat /\ job.count \in Nat /\ job.cp \in Nat
  BY <1>2, <1>3, PathFacts DEF HeadersArgs
<1>6. n \in Int /\ n <= Height(tip) - job.height + 1
  <2>1. HeadersLimit \in Int /\ job.count \in Int /\ Height(tip) - job.height + 1 \in Int
    BY <1>5, QueriesAssumption DEF QueriesAssumption
  <2> HIDE DEF n
  <2>2. /\ n \in {job.count, HeadersLimit, Height(tip) - job.height + 1}
        /\ n <= Height(tip) - job.height + 1
    BY <2>1, MinOfThree DEF n
  <2> QED BY <2>1, <2>2
<1>7. ~(job.height > Height(tip)) =>
        x \in Seq(Blocks) /\ (x # <<>> => ProvesHeaders(past, x, job.height, job.cp, m))
  <2> HIDE DEF n
  <2> SUFFICES ASSUME ~(job.height > Height(tip))
               PROVE  x \in Seq(Blocks) /\ (x # <<>> => ProvesHeaders(past, x, job.height, job.cp, m))
    OBVIOUS
  <2> QED BY <1>2, <1>5, <1>6, HeadersProved
<1> HIDE DEF x, m
<1>8. /\ DOMAIN j = Fields /\ j.route = job.route /\ j.list = job.list
      /\ j.scripts = job.scripts /\ j.found = job.found /\ j.tries = job.tries
      /\ j.spender = job.spender /\ j.rows = job.rows /\ j.utxos = job.utxos /\ j.shown = job.shown
      /\ j.blocks = x /\ j.header = job.header /\ j.ttl = job.ttl
      /\ j.branch = m /\ j.height = job.height /\ j.cp = job.cp
  BY <1>2 DEF Fields
<1> HIDE DEF j
<1>9. ASSUME NEW i, DOMAIN i = Fields, Solid(past, i), i.route = "headers",
             i.blocks # <<>> => ProvesHeaders(past, i.blocks, i.height, i.cp, i.branch)
      PROVE  Genuine(past, Done(i, "ok"))
  <2> DEFINE k == Done(i, "ok")
  <2>1. AnsweredAs(i, k, "ok") /\ k.at = "done" /\ k.height = i.height
    BY <1>9, DoneAnswers
  <2> HIDE DEF k
  <2>2. k.route = "headers" /\ k.blocks = i.blocks /\ k.cp = i.cp /\ k.branch = i.branch /\ k.answer = "ok"
    BY <1>9, <2>1 DEF AnsweredAs, Alike
  <2>3. Solid(past, k)
    BY <1>9, <2>1, SolidAlike DEF AnsweredAs
  <2>4. Claims(past, k)
    BY <1>9, <2>1, <2>2 DEF Claims, TxClaims, ProofClaims
  <2>5. OnTheWay(past, k)
    BY <2>1 DEF OnTheWay
  <2>6. Genuine(past, k)
    BY <2>3, <2>4, <2>5 DEF Genuine
  <2> QED BY <2>6 DEF k
<1>10. Genuine(past, Done(job, "ok"))
  BY <1>2, <1>3, <1>9 DEF HeadersArgs
<1>11. ~(job.height > Height(tip)) => Genuine(past, Done(j, "ok"))
  <2> SUFFICES ASSUME ~(job.height > Height(tip)) PROVE Genuine(past, Done(j, "ok"))
    OBVIOUS
  <2>1. x \in Seq(Blocks \cup {NoBlock})
    BY <1>7
  <2>2. Solid(past, j)
    BY <1>2, <1>8, <2>1 DEF Solid
  <2> QED BY <1>3, <1>7, <1>8, <1>9, <2>2
<1> QED BY <1>4, <1>10, <1>11

LEMMA OutspendServing ==
  ASSUME Serving, job.at \in {"spender", "refs", "check", "spent time"}
  PROVE  /\ DOMAIN job = Fields /\ Solid(past, job) /\ OnTheWay(past, job)
         /\ job.answer = "none" /\ job.route = "outspend" /\ job.route # "headers"
         /\ tip \in Blocks /\ pool \subseteq Txids /\ <<tip, pool>> \in past
<1>1. job.at \notin {"tip", "done"}
  OBVIOUS
<1>2. Stations(job)
  BY <1>1, ServingFacts
<1>3. job.route = "outspend"
  BY <1>2 DEF Stations
<1> QED BY <1>1, <1>3, ServingFacts

\* An answer that names a spender.
LEMMA SpentOk ==
  ASSUME NEW P, NEW j, DOMAIN j = Fields, Solid(P, j), j.route = "outspend",
         Names(P, j.outpoint, j.spender), NEW h
  PROVE  Genuine(P, AtTip(j, "spent", h))
<1> DEFINE k == AtTip(j, "spent", h)
<1>1. AnsweredAs(j, k, "spent") /\ k.at = "tip"
  BY AtTipAnswers
<1> HIDE DEF k
<1>2. /\ k.route = "outspend" /\ k.answer = "spent" /\ k.spender = j.spender
      /\ k.outpoint = j.outpoint
  BY <1>1 DEF AnsweredAs, Alike
<1>3. Solid(P, k)
  BY <1>1, SolidAlike DEF AnsweredAs
<1>4. Claims(P, k)
  BY <1>2 DEF Claims
<1>5. OnTheWay(P, k)
  BY <1>1, <1>2 DEF OnTheWay
<1>6. Genuine(P, k)
  BY <1>3, <1>4, <1>5 DEF Genuine
<1> QED BY <1>6 DEF k

LEMMA SpenderSolid ==
  ASSUME NEW P, NEW j, DOMAIN j = Fields, Solid(P, j), NEW l \in Places
  PROVE  LET k == [j EXCEPT !.spender = l]
         IN  /\ DOMAIN k = Fields /\ Solid(P, k) /\ k.spender = l /\ k.route = j.route
             /\ k.outpoint = j.outpoint
<1> DEFINE k == [j EXCEPT !.spender = l]
<1>1. /\ DOMAIN k = Fields /\ k.route = j.route /\ k.list = j.list
      /\ k.scripts = j.scripts /\ k.found = j.found /\ k.tries = j.tries
      /\ k.spender = l /\ k.rows = j.rows /\ k.utxos = j.utxos /\ k.shown = j.shown
      /\ k.blocks = j.blocks /\ k.header = j.header /\ k.ttl = j.ttl
      /\ k.outpoint = j.outpoint
  BY DEF Fields
<1> HIDE DEF k
<1>2. Solid(P, k)
  BY <1>1 DEF Solid
<1> QED BY <1>1, <1>2 DEF k

LEMMA SpenderInPoolGenuine ==
  ASSUME Serving, SpenderInPool
  PROVE  Genuine(past, job')
<1>1. /\ DOMAIN job = Fields /\ Solid(past, job) /\ job.answer = "none"
      /\ job.route = "outspend" /\ job.route # "headers"
      /\ pool \subseteq Txids /\ <<tip, pool>> \in past
  BY OutspendServing DEF SpenderInPool
<1> DEFINE spenders == { t \in pool : job.outpoint \in Inputs[t] }
           t == CHOOSE t \in spenders : TRUE
           l == InPool(t)
           j == [job EXCEPT !.spender = l]
           n == [job EXCEPT !.at = "refs"]
<1>2. \/ spenders # {} /\ job' = AtTip(j, "spent", -1)
      \/ job' \in {AtTip(job, "unspent", -1), n}
  BY DEF SpenderInPool, Step
<1>3. spenders # {} => l \in Places /\ Names(past, job.outpoint, l)
  <2> SUFFICES ASSUME spenders # {} PROVE l \in Places /\ Names(past, job.outpoint, l)
    OBVIOUS
  <2>1. t \in pool /\ job.outpoint \in Inputs[t] /\ t \in Txids
    BY <1>1
  <2> HIDE DEF t
  <2>2. l \in Places /\ l.tx = t
    BY <2>1, PoolPlace
  <2>3. WasIn(past, l)
    BY <1>1, <2>1, PoolWas
  <2> HIDE DEF l
  <2> QED BY <2>1, <2>2, <2>3 DEF Names
<1> HIDE DEF l, t, spenders
<1>4. spenders # {} => Genuine(past, AtTip(j, "spent", -1))
  <2> SUFFICES ASSUME spenders # {} PROVE Genuine(past, AtTip(j, "spent", -1))
    OBVIOUS
  <2>1. DOMAIN j = Fields /\ Solid(past, j) /\ j.spender = l /\ j.route = job.route
        /\ j.outpoint = job.outpoint
    BY <1>1, <1>3, SpenderSolid
  <2> HIDE DEF j
  <2> QED BY <1>1, <1>3, <2>1, SpentOk
<1>5. Alike(job, n) /\ n.at = "refs" /\ n.answer = "none"
  BY <1>1 DEF Fields, Alike
<1> HIDE DEF j, n
<1>6. Genuine(past, AtTip(job, "unspent", -1))
  BY <1>1, AtTipGenuine
<1>7. Genuine(past, n)
  <2>1. n.at \in Calm
    BY <1>5 DEF Calm
  <2> QED BY <1>1, <1>5, <2>1, SolidAlike, CalmGenuine
<1> QED BY <1>2, <1>4, <1>6, <1>7

LEMMA ScanRefsGenuine ==
  ASSUME Serving, ScanRefs
  PROVE  Genuine(past, job')
<1>1. /\ DOMAIN job = Fields /\ Solid(past, job) /\ job.answer = "none" /\ tip \in Blocks
  BY OutspendServing DEF ScanRefs
<1> DEFINE spends == Spends(tip, job.outpoint, job.found.height)
           l == IF spends = {} THEN Nowhere
                ELSE CHOOSE m \in spends : \A n \in spends : ~Before(n, m)
<1>2. job' = [job EXCEPT !.at = "check", !.tip = tip, !.spender = l]
  BY DEF ScanRefs, Step, Spends
<1>3. l = Nowhere \/ (l \in Locations(tip) /\ job.outpoint \in Inputs[l.tx])
  <2>1. SUFFICES ASSUME NEW m \in spends
                 PROVE  l \in Locations(tip) /\ job.outpoint \in Inputs[l.tx]
    OBVIOUS
  <2>2. l \in spends /\ l \in Locations(tip)
    BY <1>1, <2>1, SpendsChosen
  <2> HIDE DEF l
  <2> QED BY <2>2 DEF Spends
<1> HIDE DEF spends, l
<1>4. l \in Places /\ (l = Nowhere \/ Names(past, job.outpoint, l))
  BY <1>3, RealNow DEF Real, Names
<1>5. /\ job'.at = "check" /\ job'.answer = "none" /\ job'.route = job.route
      /\ job'.list = job.list /\ job'.outpoint = job.outpoint
      /\ job'.scripts = job.scripts /\ job'.found = job.found /\ job'.tries = job.tries
      /\ job'.spender = l /\ job'.rows = job.rows /\ job'.utxos = job.utxos
      /\ job'.shown = job.shown
      /\ job'.blocks = job.blocks /\ job'.header = job.header /\ job'.ttl = job.ttl
  BY <1>1, <1>2 DEF Fields
<1>6. Solid(past, job')
  BY <1>1, <1>4, <1>5 DEF Solid
<1>7. OnTheWay(past, job')
  BY <1>4, <1>5 DEF OnTheWay
<1> QED BY <1>5, <1>6, <1>7, NoClaim DEF Genuine

LEMMA CheckTipGenuine ==
  ASSUME Serving, CheckTip
  PROVE  Genuine(past, job')
<1>1. /\ DOMAIN job = Fields /\ Solid(past, job) /\ job.answer = "none" /\ job.route # "headers"
      /\ job.spender = Nowhere \/ Names(past, job.outpoint, job.spender)
  BY OutspendServing DEF CheckTip, OnTheWay
<1> DEFINE t == job.tries + 1
           m == [job EXCEPT !.at = "refs", !.tries = t]
           n == [job EXCEPT !.at = "spent time"]
           u == AtTip(job, "unspent", -1)
           r == Done(job, "reorg")
<1>2. job' = CASE tip # job.tip /\ LastTry(job.tries) -> r
               [] tip # job.tip /\ ~LastTry(job.tries) -> m
               [] tip = job.tip /\ job.spender = Nowhere -> u
               [] OTHER -> n
  BY <1>1 DEF CheckTip, Step, Fields
<1>3. ~LastTry(job.tries) => t \in 0..(REORG_RETRIES - 1)
  <2>1. job.tries \in 0..(REORG_RETRIES - 1) /\ REORG_RETRIES \in Nat
    BY <1>1, QueriesAssumption DEF Solid, QueriesAssumption
  <2> QED BY <2>1 DEF LastTry
<1> HIDE DEF t
<1>4. /\ m.at = "refs" /\ m.answer = "none" /\ m.route = job.route /\ m.list = job.list
      /\ m.scripts = job.scripts /\ m.found = job.found /\ m.tries = t
      /\ m.spender = job.spender /\ m.rows = job.rows /\ m.utxos = job.utxos
      /\ m.shown = job.shown
      /\ m.blocks = job.blocks /\ m.header = job.header /\ m.ttl = job.ttl
  BY <1>1 DEF Fields
<1>5. /\ Alike(job, n) /\ n.at = "spent time" /\ n.answer = "none" /\ n.outpoint = job.outpoint
  BY <1>1 DEF Fields, Alike
<1>6. Genuine(past, u) /\ Genuine(past, r)
  BY <1>1, AtTipGenuine, DoneGenuine
<1> HIDE DEF m, n, u, r
<1>7. ~LastTry(job.tries) => Genuine(past, m)
  <2>1. ~LastTry(job.tries) => Solid(past, m)
    BY <1>1, <1>3, <1>4 DEF Solid
  <2>2. m.at \in Calm
    BY <1>4 DEF Calm
  <2> QED BY <1>4, <2>1, <2>2, CalmGenuine
<1>8. job.spender # Nowhere => Genuine(past, n)
  <2>1. Solid(past, n) /\ Claims(past, n) /\ n.spender = job.spender
    BY <1>1, <1>5, SolidAlike, NoClaim DEF Alike
  <2>2. job.spender # Nowhere => OnTheWay(past, n)
    BY <1>1, <1>5, <2>1 DEF OnTheWay
  <2> QED BY <2>1, <2>2 DEF Genuine
<1> QED BY <1>2, <1>6, <1>7, <1>8

LEMMA SpenderTimeGenuine ==
  ASSUME Serving, SpenderTime
  PROVE  Genuine(past, job')
<1>1. /\ DOMAIN job = Fields /\ Solid(past, job) /\ tip \in Blocks
      /\ job.route = "outspend" /\ Names(past, job.outpoint, job.spender)
  BY OutspendServing DEF SpenderTime, OnTheWay
<1> DEFINE b == BlockTime(tip, job.spender.height)
           h == job.spender.height
           l == [job.spender EXCEPT !.time = b]
           j == [job EXCEPT !.spender = l]
<1>2. [job EXCEPT !.spender.time = b] = j
  BY <1>1 DEF Fields
<1>3. job' \in {Done(job, "404"), AtTip(j, "spent", h)}
  BY <1>2 DEF SpenderTime, Step
<1>4. l \in Places /\ Names(past, job.outpoint, l)
  <2>1. b \in Blocks \cup {NoBlock} /\ job.spender \in Places
    BY <1>1, HashesAreBlocks DEF BlockTime, Solid
  <2> HIDE DEF b
  <2>2. l \in Places
    BY <2>1, PlaceSet
  <2>3. l.tx = job.spender.tx /\ (WasIn(past, job.spender) => WasIn(past, l))
    BY <2>1, TimeKeeps
  <2> HIDE DEF l
  <2> QED BY <1>1, <2>2, <2>3 DEF Names
<1> HIDE DEF b, l, h
<1>5. /\ DOMAIN j = Fields /\ Solid(past, j) /\ j.spender = l /\ j.route = job.route
      /\ j.outpoint = job.outpoint
  BY <1>1, <1>4, SpenderSolid
<1> HIDE DEF j
<1>6. Genuine(past, AtTip(j, "spent", h))
  BY <1>1, <1>4, <1>5, SpentOk
<1> QED BY <1>1, <1>3, <1>6, DoneGenuine

-----------------------------------------------------------------------------
(* Scripts and pages *)

LEMMA ScriptServing ==
  ASSUME Serving, job.at \in {"history", "mempool", "utxo block", "utxo time", "page", "more"}
  PROVE  /\ DOMAIN job = Fields /\ Stations(job) /\ Solid(past, job) /\ OnTheWay(past, job)
         /\ job.answer = "none" /\ job.route \notin Claiming
         /\ tip \in Blocks /\ pool \subseteq Txids /\ <<tip, pool>> \in past
<1>1. job.at \notin {"tip", "done"}
  OBVIOUS
<1>2. Stations(job)
  BY <1>1, ServingFacts
<1>3. job.route \in Lists \cup {"utxo", "listunspent", "mempool page"}
  BY <1>2 DEF Stations, Lists, Walks
<1>4. job.route \notin Claiming
  BY <1>3, ListsClaimNothing DEF Claiming, TxClaims, ProofClaims
<1> QED BY <1>1, <1>4, ServingFacts

LEMMA HistoryGenuine ==
  ASSUME Serving, History
  PROVE  Genuine(past, job')
<1>1. /\ DOMAIN job = Fields /\ Stations(job) /\ Solid(past, job) /\ OnTheWay(past, job)
      /\ job.answer = "none" /\ job.route \notin Claiming /\ tip \in Blocks
      /\ job.at = "history"
  BY ScriptServing DEF History
<1>2. job.keys \in Seq(Scripts) /\ job.keys # <<>>
  BY <1>1 DEF OnTheWay, KeysArgs
<1> DEFINE s == Head(job.keys)
           ks == Only(job.keys, Scripts \ {s})
           rs == job.rows \cup { l \in Rows(tip, s) : \A m \in job.rows : m.tx # l.tx }
           us == job.utxos \cup Utxos(tip, s)
           j == [job EXCEPT !.keys = ks, !.rows = rs, !.utxos = us]
           many == Peak(tip, s) > UtxosLimit
           n == [j EXCEPT !.at = "mempool"]
           z == Select(j, <<>>)
           d == Done(j, "400")
<1>3. job' = CASE j.keys # <<>> -> j
               [] j.keys = <<>> /\ j.route = "txs chain" -> z
               [] j.keys = <<>> /\ j.route = "utxo" /\ many -> d
               [] OTHER -> n
  BY DEF History, Step
<1>4. s \in Scripts /\ ks \in Seq(Scripts)
  <2>1. s \in Scripts
    BY <1>2
  <2>2. ks \in Seq(Scripts \cap (Scripts \ {s}))
    <3> HIDE DEF s
    <3> QED BY <1>2, OnlyFacts
  <2> HIDE DEF s, ks
  <2>3. ks \in Seq(Scripts)
    BY <2>2
  <2> QED BY <2>1, <2>3
<1>5. \A l \in Rows(tip, s) : l \in Places /\ l.tx \in Txids
  BY <1>1, LocationPlace, LocationFacts DEF Rows
<1>6. rs \subseteq Places
  BY <1>1, <1>5 DEF Solid
<1>7. \A u \in us : u[1] \in Places /\ u[1].tx \in Txids /\ u[2] \in Scripts
  <2>1. ASSUME NEW u \in Utxos(tip, s) PROVE u[1] \in Places /\ u[1].tx \in Txids /\ u[2] \in Scripts
    <3>1. PICK l \in Rows(tip, s) : u = <<l, s>>
      BY DEF Utxos
    <3>2. u[1] = l /\ u[2] = s
      BY <3>1
    <3> QED BY <1>4, <1>5, <3>2
  <2> QED BY <1>1, <2>1 DEF Solid
<1> HIDE DEF ks, rs, us, many, s
<1>8. /\ DOMAIN j = Fields /\ j.at = "history" /\ j.answer = "none" /\ j.route = job.route
      /\ j.keys = ks
      /\ j.scripts = job.scripts /\ j.found = job.found /\ j.tries = job.tries
      /\ j.spender = job.spender /\ j.rows = rs /\ j.utxos = us /\ j.shown = job.shown
      /\ j.list = job.list /\ j.blocks = job.blocks /\ j.header = job.header /\ j.ttl = job.ttl
  BY <1>1 DEF Fields
<1> HIDE DEF j
<1>9. Solid(past, j)
  BY <1>1, <1>6, <1>7, <1>8 DEF Solid
<1>10. Alike(j, n) /\ n.at = "mempool" /\ n.answer = "none"
  BY <1>8 DEF Fields, Alike
<1> HIDE DEF n
<1>11. j.keys # <<>> => Genuine(past, j)
  <2>1. j.keys # <<>> => KeysArgs(j)
    BY <1>4, <1>8 DEF KeysArgs
  <2>2. Claims(past, j)
    BY <1>8, NoClaim
  <2>3. j.keys # <<>> => OnTheWay(past, j)
    BY <1>8, <2>1 DEF OnTheWay
  <2> QED BY <1>9, <2>2, <2>3 DEF Genuine
<1>12. Genuine(past, n)
  <2>1. n.at \in Calm
    BY <1>10 DEF Calm
  <2> QED BY <1>9, <1>10, <2>1, SolidAlike, CalmGenuine
<1>13. Genuine(past, d)
  BY <1>8, <1>9, DoneGenuine
<1>14. j.route = "txs chain" => Genuine(past, z)
  BY <1>1, <1>8, <1>9, SelectGenuine
<1> HIDE DEF z, d
<1> QED BY <1>3, <1>11, <1>12, <1>13, <1>14

\* script_view names transactions of the mempool.
LEMMA ViewTxids ==
  ASSUME NEW S, S \subseteq Txids, NEW s \in Scripts, NEW C, C \subseteq Outpoints, NEW M,
         NEW o \in ScriptView(IndexOf(S), s, C, M).utxos
  PROVE  o[1] \in Txids
<1> DEFINE ix == IndexOf(S)
           T == ScriptTxids(ix, s, C)
<1>1. \E t \in T : o = <<t, s>>
  BY DEF ScriptView
<1>2. T \subseteq Txids
  <2>1. ix.by_scripthash[s] \subseteq S
    BY DEF IndexOf
  <2>2. \A p \in Outpoints : ix.spent_prevouts[p] \in S \cup {NoTx}
    <3>1. ASSUME NEW p \in Outpoints PROVE ix.spent_prevouts[p] \in S \cup {NoTx}
      <4>1. ix.spent_prevouts[p] = IF \E t \in S : p \in Inputs[t]
                                     THEN CHOOSE t \in S : p \in Inputs[t] ELSE NoTx
        BY DEF IndexOf
      <4> QED BY <4>1
    <3> QED BY <3>1
  <2>3. \A t \in ix.by_scripthash[s] : <<t, s>> \in Outpoints
    BY <2>1 DEF Outpoints
  <2> HIDE DEF ix
  <2> QED BY <2>1, <2>2, <2>3 DEF ScriptTxids
<1>3. o[1] \in T
  BY <1>1
<1> QED BY <1>2, <1>3

LEMMA MempoolGenuine ==
  ASSUME Serving, Mempool
  PROVE  Genuine(past, job')
<1>1. /\ DOMAIN job = Fields /\ Stations(job) /\ Solid(past, job) /\ OnTheWay(past, job)
      /\ job.answer = "none" /\ job.route \notin Claiming /\ pool \subseteq Txids
  BY ScriptServing DEF Mempool
<1>2. job.route \in {"utxo", "listunspent", "txs", "txs mempool"}
  BY <1>1 DEF Mempool, Stations
<1> DEFINE s == job.scripts[1]
           C == { Outpoint(u) : u \in job.utxos }
           view == ScriptView(IndexOf(pool), s, C, { l.tx : l \in job.rows })
           us == { u \in job.utxos : ~SpentInPool(Outpoint(u)) }
           w == Unconfirmed(s)
           x == { u \in job.utxos : Outpoint(u) \notin view.spent_confirmed }
                \cup { <<InPool(o[1]), s>> : o \in view.utxos }
           k == Select(job, MempoolTxids(job))
           m == [job EXCEPT !.utxos = us, !.shown = w, !.at = "utxo block"]
           j == [job EXCEPT !.shown = x]
           n == Done(j, "ok")
<1>3. job' = CASE job.route \in Lists -> k
               [] job.route = "utxo" -> m
               [] job.route = "listunspent" -> n
  BY DEF Mempool, Step
<1>4. s \in Scripts
  <2>1. job.route \in ByScript
    BY <1>2 DEF ByScript
  <2>2. job.scripts \in Seq(Scripts) /\ job.scripts # <<>>
    BY <1>1, <2>1 DEF Solid
  <2> QED BY <2>2
<1>5. \A u \in job.utxos : u[1] \in Places /\ u[1].tx \in Txids /\ u[2] \in Scripts
  BY <1>1 DEF Solid
<1>6. \A t \in Txids : <<InPool(t), s>>[1] \in Places /\ <<InPool(t), s>>[2] \in Scripts
  BY <1>4, PoolPlace
<1>7. \A u \in w : u[1] \in Places /\ u[2] \in Scripts
  <2>1. \A u \in w : \E t \in Txids : u = <<InPool(t), s>>
    BY <1>1 DEF Unconfirmed
  <2> QED BY <1>6, <2>1
<1>8. \A u \in x : u[1] \in Places /\ u[2] \in Scripts
  <2>1. C \subseteq Outpoints
    BY <1>5 DEF Outpoint, Outpoints
  <2>2. \A o \in view.utxos : o[1] \in Txids
    <3> HIDE DEF C, s
    <3> QED BY <1>1, <1>4, <2>1, ViewTxids
  <2> HIDE DEF view, s
  <2>3. \A u \in x : u \in job.utxos \/ \E t \in Txids : u = <<InPool(t), s>>
    BY <2>2
  <2> QED BY <1>5, <1>6, <2>3
<1>9. us \subseteq job.utxos
  OBVIOUS
<1> HIDE DEF us, w, x, s
<1>10. /\ m.at = "utxo block" /\ m.answer = "none" /\ m.route = job.route
       /\ m.scripts = job.scripts /\ m.found = job.found /\ m.tries = job.tries
       /\ m.spender = job.spender /\ m.rows = job.rows /\ m.utxos = us /\ m.shown = w
       /\ m.list = job.list /\ m.blocks = job.blocks /\ m.header = job.header /\ m.ttl = job.ttl
  BY <1>1 DEF Fields
<1>11. /\ DOMAIN j = Fields /\ j.route = job.route
       /\ j.scripts = job.scripts /\ j.found = job.found /\ j.tries = job.tries
       /\ j.spender = job.spender /\ j.rows = job.rows /\ j.utxos = job.utxos /\ j.shown = x
       /\ j.list = job.list /\ j.blocks = job.blocks /\ j.header = job.header /\ j.ttl = job.ttl
  BY <1>1 DEF Fields
<1> HIDE DEF m, j
<1>12. Genuine(past, m)
  <2>1. Solid(past, m)
    BY <1>1, <1>5, <1>7, <1>9, <1>10 DEF Solid
  <2>2. m.at \in Calm
    BY <1>10 DEF Calm
  <2> QED BY <1>10, <2>1, <2>2, CalmGenuine
<1>13. Genuine(past, n)
  <2>1. Solid(past, j)
    BY <1>1, <1>8, <1>11 DEF Solid
  <2>2. j.route \notin Claiming
    BY <1>1, <1>11
  <2> HIDE DEF view, k
  <2> QED BY <1>11, <2>1, <2>2, OkGenuine
<1>14. job.route \in Lists => Genuine(past, k)
  <2>1. job.route \in Lists => job.route \in {"txs", "txs chain", "txs mempool"}
    BY <1>2 DEF Lists
  <2> QED BY <1>1, <2>1, SelectGenuine
<1> HIDE DEF k, n
<1>15. \/ job.route \in Lists /\ job' = k
       \/ job.route = "utxo" /\ job' = m
       \/ job' = n
  BY <1>2, <1>3 DEF Lists
<1> QED BY <1>12, <1>13, <1>14, <1>15

LEMMA UtxoGenuine ==
  ASSUME Serving, UtxoBlock \/ UtxoTime
  PROVE  Genuine(past, job')
<1>1. /\ DOMAIN job = Fields /\ Solid(past, job) /\ job.answer = "none"
      /\ job.route \notin Claiming /\ tip \in Blocks
  BY ScriptServing DEF UtxoBlock, UtxoTime
<1>2. /\ Genuine(past, Done(job, "ok")) /\ Genuine(past, Done(job, "500"))
      /\ Genuine(past, Done(job, "404"))
  BY <1>1, DoneGenuine, OkGenuine
<1>3. HashAt(tip, Lowest) \in Blocks \cup {NoBlock} /\ BlockTime(tip, Lowest) \in Blocks \cup {NoBlock}
  BY <1>1, HashesAreBlocks DEF BlockTime
<1>4. CASE UtxoBlock
  <2> DEFINE b == HashAt(tip, Lowest)
             k == [job EXCEPT !.at = "utxo time", !.header = b]
  <2>1. job' \in {Done(job, "ok"), Done(job, "500"), k}
    BY <1>4 DEF UtxoBlock, Step
  <2> HIDE DEF b
  <2>2. /\ k.at = "utxo time" /\ k.answer = "none" /\ k.route = job.route
        /\ k.scripts = job.scripts /\ k.found = job.found /\ k.tries = job.tries
        /\ k.spender = job.spender /\ k.rows = job.rows /\ k.utxos = job.utxos /\ k.shown = job.shown
        /\ k.list = job.list /\ k.blocks = job.blocks /\ k.header = b /\ k.ttl = job.ttl
    BY <1>1 DEF Fields
  <2> HIDE DEF k
  <2>3. Solid(past, k)
    BY <1>1, <1>3, <2>2 DEF Solid, b
  <2>4. k.at \in Calm
    BY <2>2 DEF Calm
  <2> QED BY <1>2, <2>1, <2>2, <2>3, <2>4, CalmGenuine
<1>5. CASE UtxoTime
  <2> DEFINE now == { u \in job.utxos : u[1].height = Lowest }
             b == BlockTime(tip, Lowest)
             at(u) == [u[1] EXCEPT !.block = job.header, !.time = b]
             us == job.utxos \ now
             x == job.shown \cup { <<at(u), u[2]>> : u \in now }
             k == [job EXCEPT !.at = "utxo block", !.utxos = us, !.shown = x]
  <2>1. job' \in {Done(job, "404"), k}
    BY <1>5 DEF UtxoTime, Step
  <2>2. job.header \in Blocks \cup {NoBlock} /\ b \in Blocks \cup {NoBlock}
    BY <1>1, <1>3 DEF Solid
  <2>3. \A u \in now : at(u) \in Places /\ u[2] \in Scripts
    <3> HIDE DEF b
    <3>1. \A u \in now : u[1] \in Places /\ u[2] \in Scripts
      BY <1>1 DEF Solid
    <3> HIDE DEF now
    <3> QED BY <2>2, <3>1, PlaceSet
  <2> HIDE DEF at, b
  <2>4. \A u \in x : u[1] \in Places /\ u[2] \in Scripts
    <3>1. \A u \in x : u \in job.shown \/ \E v \in now : u[1] = at(v) /\ u[2] = v[2]
      OBVIOUS
    <3>2. \A u \in job.shown : u[1] \in Places /\ u[2] \in Scripts
      BY <1>1 DEF Solid
    <3> HIDE DEF x, now
    <3> QED BY <2>3, <3>1, <3>2
  <2>5. us \subseteq job.utxos
    OBVIOUS
  <2> HIDE DEF us, x, now
  <2>6. /\ k.at = "utxo block" /\ k.answer = "none" /\ k.route = job.route
        /\ k.scripts = job.scripts /\ k.found = job.found /\ k.tries = job.tries
        /\ k.spender = job.spender /\ k.rows = job.rows /\ k.utxos = us /\ k.shown = x
        /\ k.list = job.list /\ k.blocks = job.blocks /\ k.header = job.header /\ k.ttl = job.ttl
    BY <1>1 DEF Fields
  <2> HIDE DEF k
  <2>7. Solid(past, k)
    BY <1>1, <2>4, <2>5, <2>6 DEF Solid
  <2>8. k.at \in Calm
    BY <2>6 DEF Calm
  <2> QED BY <1>2, <2>1, <2>6, <2>7, <2>8, CalmGenuine
<1> QED BY <1>4, <1>5

\* A page of the mempool has transactions of the mempool.
LEMMA PagedPool ==
  ASSUME NEW j
  PROVE  PagedTxids(j) \in Seq(Txids \cap pool)
<1> DEFINE sorted == Only(Order, pool)
           later == IF j.cursor = NoTx THEN sorted
                    ELSE Only(sorted, Seqs!ToSet(After(Order, j.cursor)))
           n == Sets!Min({PageLimit, Len(later)})
           V == Txids \cap pool
<1>1. sorted \in Seq(V)
  <2>1. Order \in Seq(Txids)
    BY QueriesAssumption DEF QueriesAssumption
  <2> QED BY <2>1, OnlyFacts
<1> HIDE DEF sorted, V
<1>2. later \in Seq(V)
  <2> DEFINE T == Seqs!ToSet(After(Order, j.cursor))
  <2> HIDE DEF T
  <2>1. Only(sorted, T) \in Seq(V \cap T)
    BY <1>1, OnlyFacts
  <2>2. Only(sorted, T) \in Seq(V)
    BY <2>1
  <2> QED BY <1>1, <2>2 DEF T
<1> HIDE DEF later
<1>3. n \in Nat /\ n <= Len(later)
  <2> DEFINE c == Len(later)
  <2>1. PageLimit \in Nat /\ PageLimit \in Int /\ c \in Nat /\ c \in Int
    BY <1>2, QueriesAssumption DEF QueriesAssumption
  <2> HIDE DEF c
  <2>2. Sets!Min({PageLimit, c}) \in {PageLimit, c} /\ Sets!Min({PageLimit, c}) <= c
    BY <2>1, MinOfTwo
  <2>3. n = Sets!Min({PageLimit, c})
    BY DEF c
  <2> HIDE DEF n
  <2>4. n \in Nat /\ n <= c
    BY <2>1, <2>2, <2>3
  <2> QED BY <2>4 DEF c
<1>4. PagedTxids(j) = SubSeq(later, 1, n)
  BY DEF PagedTxids, later, sorted
<1> HIDE DEF n
<1>5. SubSeq(later, 1, n) \in Seq(V)
  BY <1>2, <1>3
<1> QED BY <1>4, <1>5 DEF V

LEMMA PageGenuine ==
  ASSUME Serving, Page
  PROVE  Genuine(past, job')
<1>1. /\ DOMAIN job = Fields /\ Solid(past, job) /\ job.answer = "none"
      /\ job.route \notin Claiming /\ pool \subseteq Txids /\ <<tip, pool>> \in past
  BY ScriptServing DEF Page
<1> DEFINE page == PagedTxids(job)
           y == [i \in DOMAIN page |-> InPool(page[i])]
           x == job.list \o y
           j == [job EXCEPT !.list = x]
<1>2. job' \in {Take(job, page), PageDone(j)}
  BY DEF Page, Step
<1>3. page \in Seq(Txids \cap pool)
  BY PagedPool
<1> HIDE DEF page
<1>4. y \in Seq(Places) /\ \A i \in 1..Len(y) : WasIn(past, y[i])
  <2>1. DOMAIN page = 1..Len(page) /\ Len(page) \in Nat /\ \A i \in 1..Len(page) : page[i] \in Txids \cap pool
    BY <1>3
  <2>2. \A t \in Txids \cap pool : InPool(t) \in Places /\ WasIn(past, InPool(t))
    BY <1>1, PoolPlace, PoolWas
  <2>3. y = [i \in 1..Len(page) |-> InPool(page[i])]
    BY <2>1
  <2> HIDE DEF y
  <2>4. y \in Seq(Places) /\ Len(y) = Len(page)
    BY <2>1, <2>2, <2>3
  <2>5. \A i \in 1..Len(page) : WasIn(past, y[i])
    BY <2>1, <2>2, <2>3
  <2> QED BY <2>4, <2>5
<1> HIDE DEF y
<1>5. x \in Seq(Places) /\ \A i \in 1..Len(x) : WasIn(past, x[i])
  <2> DEFINE q == job.list
  <2>1. q \in Seq(Places) /\ \A i \in 1..Len(q) : WasIn(past, q[i])
    BY <1>1 DEF Solid
  <2>2. x = q \o y
    OBVIOUS
  <2> HIDE DEF q, x
  <2>3. x \in Seq(Places) /\ Len(x) = Len(q) + Len(y) /\ Len(q) \in Nat /\ Len(y) \in Nat
    BY <1>4, <2>1, <2>2
  <2>4. ASSUME NEW i \in 1..Len(x) PROVE WasIn(past, x[i])
    <3>1. CASE i <= Len(q)
      <4>1. i \in 1..Len(q) /\ x[i] = q[i]
        BY <1>4, <2>1, <2>2, <2>3, <3>1
      <4> QED BY <2>1, <4>1
    <3>2. CASE ~(i <= Len(q))
      <4>1. i - Len(q) \in 1..Len(y) /\ x[i] = y[i - Len(q)]
        BY <1>4, <2>1, <2>2, <2>3, <3>2
      <4> QED BY <1>4, <4>1
    <3> QED BY <3>1, <3>2
  <2> QED BY <2>3, <2>4
<1> HIDE DEF x
<1>6. /\ DOMAIN j = Fields /\ j.answer = "none" /\ j.route = job.route
      /\ j.scripts = job.scripts /\ j.found = job.found /\ j.tries = job.tries
      /\ j.spender = job.spender /\ j.rows = job.rows /\ j.utxos = job.utxos /\ j.shown = job.shown
      /\ j.list = x /\ j.blocks = job.blocks /\ j.header = job.header /\ j.ttl = job.ttl
  BY <1>1 DEF Fields
<1> HIDE DEF j
<1>7. Solid(past, j)
  BY <1>1, <1>5, <1>6 DEF Solid
<1>8. Genuine(past, PageDone(j))
  BY <1>1, <1>6, <1>7, PageDoneGenuine
<1>9. Genuine(past, Take(job, page))
  BY <1>1, TakeGenuine
<1> QED BY <1>2, <1>8, <1>9

LEMMA MoreGenuine ==
  ASSUME Serving, More
  PROVE  Genuine(past, job')
<1>1. /\ DOMAIN job = Fields /\ Stations(job) /\ Solid(past, job) /\ job.answer = "none"
  BY ScriptServing DEF More
<1>2. job.route \in {"txs chain", "mempool page"}
  BY <1>1 DEF More, Stations, Walks
<1> DEFINE a == IF job.route = "mempool page" THEN "page" ELSE "history"
<1>3. job' = [job EXCEPT !.at = a, !.keys = job.scripts, !.rows = {}, !.utxos = {}]
  BY DEF More, Step
<1>4. a = "page" \/ (a = "history" /\ job.route \in ByScript)
  BY <1>2 DEF ByScript
<1> HIDE DEF a
<1>5. /\ job'.at = a /\ job'.answer = "none" /\ job'.route = job.route /\ job'.keys = job.scripts
      /\ job'.scripts = job.scripts /\ job'.found = job.found /\ job'.tries = job.tries
      /\ job'.spender = job.spender /\ job'.rows = {} /\ job'.utxos = {}
      /\ job'.shown = job.shown /\ job'.list = job.list
      /\ job'.blocks = job.blocks /\ job'.header = job.header /\ job'.ttl = job.ttl
  BY <1>1, <1>3 DEF Fields
<1>6. Solid(past, job')
  BY <1>1, <1>5 DEF Solid
<1>7. CASE a = "page"
  <2>1. job'.at \in Calm
    BY <1>5, <1>7 DEF Calm
  <2> QED BY <1>5, <1>6, <2>1, CalmGenuine
<1>8. CASE a = "history" /\ job.route \in ByScript
  <2>1. KeysArgs(job')
    BY <1>1, <1>5, <1>8 DEF Solid, KeysArgs
  <2>2. OnTheWay(past, job')
    BY <1>5, <1>8, <2>1 DEF OnTheWay
  <2>3. Claims(past, job')
    BY <1>5, NoClaim
  <2> QED BY <1>6, <2>2, <2>3 DEF Genuine
<1> QED BY <1>4, <1>7, <1>8

LEMMA StopGenuine ==
  ASSUME Serving, HistoryFails \/ Deadline
  PROVE  Genuine(past, job')
<1>1. job.at \in {"history", "locate", "refs"} /\ job' \in {Done(job, "reorg"), Done(job, "504")}
  BY DEF HistoryFails, Deadline, Step
<1>2. DOMAIN job = Fields /\ Solid(past, job)
  BY <1>1, ServingFacts
<1> QED BY <1>1, <1>2, DoneGenuine

-----------------------------------------------------------------------------
(* Blocks *)

LEMMA BlocksServing ==
  ASSUME Serving, job.at \in {"first", "listing", "at height", "best", "next"}
  PROVE  /\ DOMAIN job = Fields /\ Solid(past, job) /\ job.answer = "none"
         /\ job.route \notin Claiming /\ job.route # "headers" /\ tip \in Blocks
<1>1. job.at \notin {"tip", "done"}
  OBVIOUS
<1>2. Stations(job)
  BY <1>1, ServingFacts
<1>3. job.route \in {"blocks", "tip hash", "block height", "block status", "block txs"}
  BY <1>2 DEF Stations
<1>4. job.route \notin Claiming
  BY <1>3 DEF Claiming, TxClaims, ProofClaims
<1>5. job.route # "headers"
  BY <1>4 DEF Claiming
<1> QED BY <1>1, <1>4, <1>5, ServingFacts

LEMMA BlocksSolid ==
  ASSUME NEW P, NEW j, DOMAIN j = Fields, Solid(P, j), NEW x \in Seq(Blocks \cup {NoBlock})
  PROVE  LET k == [j EXCEPT !.blocks = x]
         IN  DOMAIN k = Fields /\ Solid(P, k) /\ k.route = j.route
<1> DEFINE k == [j EXCEPT !.blocks = x]
<1>1. /\ DOMAIN k = Fields /\ k.route = j.route
      /\ k.scripts = j.scripts /\ k.found = j.found /\ k.tries = j.tries
      /\ k.spender = j.spender /\ k.rows = j.rows /\ k.utxos = j.utxos /\ k.shown = j.shown
      /\ k.list = j.list /\ k.blocks = x /\ k.header = j.header /\ k.ttl = j.ttl
  BY DEF Fields
<1> HIDE DEF k
<1>2. Solid(P, k)
  BY <1>1 DEF Solid
<1> QED BY <1>1, <1>2 DEF k

\* An answer of these routes claims nothing.
LEMMA BlocksOk ==
  ASSUME NEW P, NEW j, DOMAIN j = Fields, Solid(P, j), j.route \notin Claiming,
         j.route # "headers", NEW h
  PROVE  Genuine(P, AtTip(j, "ok", h))
<1> DEFINE k == AtTip(j, "ok", h)
<1>1. AnsweredAs(j, k, "ok") /\ k.at = "tip"
  BY AtTipAnswers
<1> HIDE DEF k
<1>2. k.route = j.route /\ k.answer = "ok"
  BY <1>1 DEF AnsweredAs, Alike
<1>3. Solid(P, k)
  BY <1>1, SolidAlike DEF AnsweredAs
<1>4. Claims(P, k)
  BY <1>2 DEF Claims, Claiming
<1>5. OnTheWay(P, k)
  BY <1>1, <1>2 DEF OnTheWay
<1>6. Genuine(P, k)
  BY <1>3, <1>4, <1>5 DEF Genuine
<1> QED BY <1>6 DEF k

LEMMA FirstTipGenuine ==
  ASSUME Serving, FirstTip
  PROVE  Genuine(past, job')
<1>1. DOMAIN job = Fields /\ Solid(past, job) /\ job.answer = "none"
  BY BlocksServing DEF FirstTip
<1> DEFINE h == Height(tip)
<1>2. job' = [job EXCEPT !.at = "listing", !.height = h]
  BY DEF FirstTip, Step
<1> HIDE DEF h
<1>3. Alike(job, job') /\ job'.at = "listing" /\ job'.answer = "none"
  BY <1>1, <1>2 DEF Fields, Alike
<1>4. job'.at \in Calm
  BY <1>3 DEF Calm
<1> QED BY <1>1, <1>3, <1>4, SolidAlike, CalmGenuine

LEMMA ListBlockGenuine ==
  ASSUME Serving, ListBlock
  PROVE  Genuine(past, job')
<1>1. /\ DOMAIN job = Fields /\ Solid(past, job) /\ job.answer = "none" /\ job.at = "listing"
      /\ job.route \notin Claiming /\ tip \in Blocks
  BY BlocksServing DEF ListBlock
<1> DEFINE b == HashAt(tip, job.height)
           x == Append(job.blocks, b)
           g == job.height - 1
           j == [job EXCEPT !.blocks = x, !.height = g]
<1>2. job' \in {Done(job, "404"), Done(job, "ok"), Done(j, "ok"), j}
  <2> DEFINE last == b # NoBlock /\ (job.height = 0 \/ Len(j.blocks) = IF job.route = "blocks" THEN BlockLimit ELSE 1)
             a == IF job.blocks = <<>> THEN "404" ELSE "ok"
  <2>1. job' = CASE b = NoBlock -> Done(job, a) [] last -> Done(j, "ok") [] OTHER -> j
    BY DEF ListBlock, Step
  <2>2. a \in {"404", "ok"}
    OBVIOUS
  <2> HIDE DEF last, a, j
  <2> QED BY <2>1, <2>2
<1>3. x \in Seq(Blocks \cup {NoBlock})
  <2>1. b \in Blocks \cup {NoBlock}
    BY <1>1, HashesAreBlocks
  <2>2. job.blocks \in Seq(Blocks \cup {NoBlock})
    BY <1>1 DEF Solid
  <2> HIDE DEF b
  <2> QED BY <2>1, <2>2
<1> HIDE DEF x, g, b
<1>4. /\ DOMAIN j = Fields /\ j.at = "listing" /\ j.answer = "none" /\ j.route = job.route
      /\ j.scripts = job.scripts /\ j.found = job.found /\ j.tries = job.tries
      /\ j.spender = job.spender /\ j.rows = job.rows /\ j.utxos = job.utxos /\ j.shown = job.shown
      /\ j.list = job.list /\ j.blocks = x /\ j.header = job.header /\ j.ttl = job.ttl
  BY <1>1 DEF Fields
<1> HIDE DEF j
<1>5. Solid(past, j)
  BY <1>1, <1>3, <1>4 DEF Solid
<1>6. Genuine(past, j)
  <2>1. j.at \in Calm
    BY <1>4 DEF Calm
  <2> QED BY <1>4, <1>5, <2>1, CalmGenuine
<1>7. /\ Genuine(past, Done(job, "404")) /\ Genuine(past, Done(job, "ok"))
      /\ Genuine(past, Done(j, "ok"))
  BY <1>1, <1>4, <1>5, DoneGenuine, OkGenuine
<1> QED BY <1>2, <1>6, <1>7

LEMMA BlockAtHeightGenuine ==
  ASSUME Serving, BlockAtHeight
  PROVE  Genuine(past, job')
<1>1. /\ DOMAIN job = Fields /\ Solid(past, job)
      /\ job.route \notin Claiming /\ job.route # "headers" /\ tip \in Blocks
  BY BlocksServing DEF BlockAtHeight
<1> DEFINE b == HashAt(tip, job.height)
           x == <<b>>
           j == [job EXCEPT !.blocks = x]
<1>2. job' \in {Done(job, "404"), AtTip(j, "ok", job.height)}
  BY DEF BlockAtHeight, Step
<1>3. x \in Seq(Blocks \cup {NoBlock})
  <2>1. b \in Blocks \cup {NoBlock}
    BY <1>1, HashesAreBlocks
  <2> HIDE DEF b
  <2> QED BY <2>1
<1> HIDE DEF x
<1>4. DOMAIN j = Fields /\ Solid(past, j) /\ j.route = job.route
  BY <1>1, <1>3, BlocksSolid
<1> HIDE DEF j
<1>5. Genuine(past, AtTip(j, "ok", job.height))
  BY <1>1, <1>4, BlocksOk
<1> QED BY <1>1, <1>2, <1>5, DoneGenuine

LEMMA BestGenuine ==
  ASSUME Serving, InBestChain \/ NextBest
  PROVE  Genuine(past, job')
<1>1. /\ DOMAIN job = Fields /\ Solid(past, job) /\ job.answer = "none"
      /\ job.route # "headers" /\ tip \in Blocks
  BY BlocksServing DEF InBestChain, NextBest
<1> DEFINE h == Height(job.block)
           b == HashAt(tip, h + 1)
           x == <<b>>
           j == [job EXCEPT !.blocks = x]
           n == [job EXCEPT !.at = "next"]
<1>2. job' \in {AtTip(job, "stale", -1), AtTip(job, "best", h), n, AtTip(j, "best", h)}
  BY DEF InBestChain, NextBest, Step
<1>3. x \in Seq(Blocks \cup {NoBlock})
  <2>1. b \in Blocks \cup {NoBlock}
    BY <1>1, HashesAreBlocks
  <2> HIDE DEF b
  <2> QED BY <2>1
<1> HIDE DEF x, h
<1>4. DOMAIN j = Fields /\ Solid(past, j) /\ j.route = job.route
  BY <1>1, <1>3, BlocksSolid
<1>5. Alike(job, n) /\ n.at = "next" /\ n.answer = "none"
  BY <1>1 DEF Fields, Alike
<1> HIDE DEF j, n
<1>6. Genuine(past, n)
  <2>1. n.at \in Calm
    BY <1>5 DEF Calm
  <2> QED BY <1>1, <1>5, <2>1, SolidAlike, CalmGenuine
<1>7. /\ Genuine(past, AtTip(job, "stale", -1)) /\ Genuine(past, AtTip(job, "best", h))
      /\ Genuine(past, AtTip(j, "best", h))
  BY <1>1, <1>4, AtTipGenuine
<1> QED BY <1>2, <1>6, <1>7

LEMMA ReadTipGenuine ==
  ASSUME Serving, ReadTip
  PROVE  Genuine(past, job')
<1> DEFINE k == Done(job, job.answer)
           x == TtlByDepth(job.height, Height(tip))
<1>1. DOMAIN job = Fields /\ job.at = "tip" /\ Genuine(past, job) /\ IsJob(job)
  BY DEF Serving, IsJob, ReadTip
<1>2. job' = [k EXCEPT !.ttl = x]
  BY DEF ReadTip, Step
<1>3. DOMAIN k = Fields
  BY <1>1, DoneGoes DEF Goes, IsJob
<1>4. x \in {"none", "short", "long"}
  BY DEF TtlByDepth
<1> HIDE DEF k, x
<1>5. job'.ttl = x
  BY <1>2, <1>3 DEF Fields
<1>6. job'.at = "done" /\ \A f \in Fields \ {"at", "ttl"} : job'[f] = job[f]
  BY <1>1, ReadTipGoes
<1>7. /\ job'.answer = job.answer /\ job'.route = job.route /\ job'.height = job.height
      /\ job'.scripts = job.scripts /\ job'.found = job.found /\ job'.tries = job.tries
      /\ job'.spender = job.spender /\ job'.rows = job.rows /\ job'.utxos = job.utxos
      /\ job'.shown = job.shown /\ job'.list = job.list /\ job'.outpoint = job.outpoint
      /\ job'.blocks = job.blocks /\ job'.header = job.header /\ job'.block = job.block
      /\ job'.pos = job.pos /\ job'.branch = job.branch /\ job'.cp = job.cp
  BY <1>6 DEF Fields
<1>8. Solid(past, job')
  BY <1>1, <1>4, <1>5, <1>7 DEF Genuine, Solid
<1>9. Proves(job) => Proves(job')
  BY <1>7 DEF Proves
<1>10. Claims(past, job')
  BY <1>1, <1>7, <1>9 DEF Genuine, Claims
<1>11. OnTheWay(past, job')
  BY <1>6 DEF OnTheWay
<1> QED BY <1>8, <1>10, <1>11 DEF Genuine

LEMMA ReadingGenuine ==
  ASSUME Serving, Reading
  PROVE  Genuine(past, job')
BY LocateGenuine, FindTimeGenuine, FindGenuine, PrevoutGenuine, BlockPositionGenuine,
   MerkleblockHeaderGenuine, GetMerkleGenuine, BlockHeadersGenuine, SpenderInPoolGenuine,
   ScanRefsGenuine, CheckTipGenuine, SpenderTimeGenuine, HistoryGenuine, MempoolGenuine,
   UtxoGenuine, PageGenuine, MoreGenuine, StopGenuine, FirstTipGenuine, ListBlockGenuine,
   BlockAtHeightGenuine, BestGenuine, ReadTipGenuine
   DEF Reading

-----------------------------------------------------------------------------
(* Requests come, and the views change *)

\* A request has found and listed nothing yet.
Blank(j) ==
  /\ j.list = <<>> /\ j.found = Nowhere /\ j.spender = Nowhere /\ j.rows = {} /\ j.tries = 0
  /\ j.utxos = {} /\ j.shown = {} /\ j.blocks = <<>> /\ j.header = NoBlock /\ j.ttl = "none"
  /\ j.answer = "none"

ScriptsGiven(j) == j.scripts \in Seq(Scripts) /\ j.scripts # <<>>

LEMMA BlankSolid ==
  ASSUME NEW P, NEW j, Blank(j), j.route \in ByScript => ScriptsGiven(j)
  PROVE  Solid(P, j)
<1>1. j.list \in Seq(Places) /\ \A i \in 1..Len(j.list) : WasIn(P, j.list[i])
  <2>1. j.list = <<>>
    BY DEF Blank
  <2>2. <<>> \in Seq(Places) /\ \A i \in 1..Len(<<>>) : WasIn(P, <<>>[i])
    OBVIOUS
  <2> QED BY <2>1, <2>2
<1>2. j.blocks \in Seq(Blocks \cup {NoBlock})
  <2>1. j.blocks = <<>>
    BY DEF Blank
  <2>2. <<>> \in Seq(Blocks \cup {NoBlock})
    OBVIOUS
  <2> QED BY <2>1, <2>2
<1>3. j.tries \in 0..(REORG_RETRIES - 1)
  <2>1. j.tries = 0
    BY DEF Blank
  <2> QED BY <2>1, QueriesAssumption DEF QueriesAssumption
<1>4. /\ j.found \in Places /\ j.spender \in Places /\ j.rows \subseteq Places
      /\ \A u \in j.utxos : u[1] \in Places /\ u[1].tx \in Txids /\ u[2] \in Scripts
      /\ \A u \in j.shown : u[1] \in Places /\ u[2] \in Scripts
      /\ j.header \in Blocks \cup {NoBlock} /\ j.ttl \in {"none", "short", "long"}
  BY NowherePlace DEF Blank
<1> QED BY <1>1, <1>2, <1>3, <1>4 DEF Solid, ScriptsGiven

LEMMA BlankIdle == Blank(Idle) /\ DOMAIN Idle = Fields
BY DEF Idle, Blank, Fields

LEMMA BlankRequests ==
  /\ \A r, at : Blank(Plain(r, at))
  /\ \A r, at, t : Blank(OfTx(r, at, t))
  /\ \A o : Blank(OfOutpoint(o)) /\ OfOutpoint(o).at = "locate" /\ OfOutpoint(o).route = "outspend"
  /\ \A r, keys, c : Blank(OfScripts(r, keys, c)) /\ OfScripts(r, keys, c).scripts = keys
                     /\ OfScripts(r, keys, c).keys = keys
  /\ \A r, k : Blank(OfBlock(r, k))
  /\ \A h : Blank(OfHeight(h))
  /\ \A t, h : Blank(OfTxAt(t, h)) /\ OfTxAt(t, h).todo = <<t>>
  /\ \A h, n, cp : /\ Blank(OfHeaders(h, n, cp)) /\ OfHeaders(h, n, cp).height = h
                   /\ OfHeaders(h, n, cp).count = n /\ OfHeaders(h, n, cp).cp = cp
<1>1. \A r, at : Blank(Plain(r, at))
  BY BlankIdle DEF Plain, Blank, Fields
<1>2. \A r, at, t : Blank(OfTx(r, at, t))
  BY BlankIdle DEF OfTx, Blank, Fields
<1>3. \A o : Blank(OfOutpoint(o)) /\ OfOutpoint(o).at = "locate" /\ OfOutpoint(o).route = "outspend"
  BY BlankIdle DEF OfOutpoint, Blank, Fields
<1>4. \A r, keys, c : Blank(OfScripts(r, keys, c)) /\ OfScripts(r, keys, c).scripts = keys
                      /\ OfScripts(r, keys, c).keys = keys
  BY BlankIdle DEF OfScripts, Blank, Fields
<1>5. \A r, k : Blank(OfBlock(r, k))
  BY BlankIdle DEF OfBlock, Blank, Fields
<1>6. \A h : Blank(OfHeight(h))
  BY BlankIdle DEF OfHeight, Blank, Fields
<1>7. \A t, h : Blank(OfTxAt(t, h))
  BY BlankIdle DEF OfTxAt, Blank, Fields
<1>8. \A t, h : OfTxAt(t, h).todo = <<t>>
  BY BlankIdle DEF OfTxAt, Fields
<1>9. \A h, n, cp : Blank(OfHeaders(h, n, cp))
  BY BlankIdle DEF OfHeaders, Blank, Fields
<1>10. \A h, n, cp : /\ OfHeaders(h, n, cp).height = h
                     /\ OfHeaders(h, n, cp).count = n /\ OfHeaders(h, n, cp).cp = cp
  BY BlankIdle DEF OfHeaders, Fields
<1> QED BY <1>1, <1>2, <1>3, <1>4, <1>5, <1>6, <1>7, <1>8, <1>9, <1>10

\* The first read of a request that is not by script has no arguments to check,
\* or those of a proof.
LEMMA BlankGenuine ==
  ASSUME NEW P, NEW j, Blank(j), j.route \in ByScript => ScriptsGiven(j),
         \/ j.at \in Calm
         \/ j.at = "history" /\ KeysArgs(j)
         \/ j.at = "get merkle" /\ MerkleArgs(j)
         \/ j.at = "headers" /\ HeadersArgs(j)
  PROVE  Genuine(P, j)
<1>1. Solid(P, j) /\ Claims(P, j) /\ j.answer = "none"
  BY BlankSolid, NoClaim DEF Blank
<1>2. CASE j.at \in Calm
  BY <1>1, <1>2, CalmGenuine
<1>3. CASE j.at = "history" /\ KeysArgs(j)
  BY <1>1, <1>3 DEF Genuine, OnTheWay
<1>4. CASE j.at = "get merkle" /\ MerkleArgs(j)
  BY <1>1, <1>4 DEF Genuine, OnTheWay
<1>5. CASE j.at = "headers" /\ HeadersArgs(j)
  BY <1>1, <1>5 DEF Genuine, OnTheWay
<1> QED BY <1>2, <1>3, <1>4, <1>5

LEMMA RequestsGenuine ==
  ASSUME NEW j \in Requests, NEW P
  PROVE  Genuine(P, j)
<1>1. \/ \E r \in TxRoutes, t \in Txids : j = OfTx(r, "locate", t)
      \/ \E t \in Txids : j = OfTx("get", "get", t)
      \/ \E o \in Outpoints : j = OfOutpoint(o)
      \/ \E r, c : \E keys \in OneScript \cup TwoScripts : j = OfScripts(r, keys, c)
      \/ \E r \in PageRoutes : j = Plain(r, "page")
      \/ \E r \in TipRoutes : j = Plain(r, "first")
      \/ \E h \in Heights : j = OfHeight(h)
      \/ \E r \in BlockRoutes, k \in Blocks : j = OfBlock(r, k)
      \/ \E t \in Txids, h \in Heights : j = OfTxAt(t, h)
      \/ \E h \in Heights, n \in Counts, cp \in Counts : j = OfHeaders(h, n, cp)
  BY DEF Requests
<1>2. ASSUME NEW r, NEW at, New(j, r, at), Blank(j), at \in Calm, r \notin ByScript
      PROVE  Genuine(P, j)
  BY <1>2, BlankGenuine DEF New
<1>3. CASE \E r \in TxRoutes, t \in Txids : j = OfTx(r, "locate", t)
  <2>1. PICK r \in TxRoutes, t \in Txids : j = OfTx(r, "locate", t)
    BY <1>3
  <2>2. r \notin ByScript /\ "locate" \in Calm
    BY DEF TxRoutes, ByScript, Calm
  <2>3. New(OfTx(r, "locate", t), r, "locate")
    BY NewRequests
  <2>4. Blank(OfTx(r, "locate", t))
    BY BlankRequests
  <2> QED BY <1>2, <2>1, <2>2, <2>3, <2>4
<1>4. CASE \E t \in Txids : j = OfTx("get", "get", t)
  <2>1. "get" \notin ByScript
    BY DEF ByScript
  <2>2. "get" \in Calm
    BY DEF Calm
  <2>3. PICK t \in Txids : j = OfTx("get", "get", t)
    BY <1>4
  <2>4. New(OfTx("get", "get", t), "get", "get")
    BY NewRequests
  <2>5. Blank(OfTx("get", "get", t))
    BY BlankRequests
  <2>6. New(j, "get", "get") /\ Blank(j)
    BY <2>3, <2>4, <2>5
  <2> QED BY <1>2, <2>1, <2>2, <2>6
<1>5. CASE \E o \in Outpoints : j = OfOutpoint(o)
  <2>1. "outspend" \notin ByScript /\ "locate" \in Calm
    BY DEF ByScript, Calm
  <2>2. Blank(j) /\ j.at = "locate" /\ j.route = "outspend"
    <3>1. PICK o \in Outpoints : j = OfOutpoint(o)
      BY <1>5
    <3>2. Blank(OfOutpoint(o)) /\ OfOutpoint(o).at = "locate" /\ OfOutpoint(o).route = "outspend"
      BY BlankRequests
    <3> QED BY <3>1, <3>2
  <2> QED BY <2>1, <2>2, BlankGenuine
<1>6. CASE \E r, c : \E keys \in OneScript \cup TwoScripts : j = OfScripts(r, keys, c)
  <2>1. PICK r, c : \E keys \in OneScript \cup TwoScripts : j = OfScripts(r, keys, c)
    BY <1>6
  <2>2. PICK keys \in OneScript \cup TwoScripts : j = OfScripts(r, keys, c)
    BY <2>1
  <2>3. keys \in Seq(Scripts) /\ keys # <<>>
    <3>1. ASSUME NEW s \in Scripts
          PROVE  <<s>> \in Seq(Scripts) /\ <<s>> # <<>>
      OBVIOUS
    <3>2. ASSUME NEW u \in Scripts, NEW s \in Scripts
          PROVE  <<u, s>> \in Seq(Scripts) /\ <<u, s>> # <<>>
      OBVIOUS
    <3>3. CASE keys \in OneScript
      <4>1. PICK s \in Scripts : keys = <<s>>
        BY <3>3 DEF OneScript
      <4> QED BY <3>1, <4>1
    <3>4. CASE keys \in TwoScripts
      <4>1. PICK u \in Scripts, s \in Scripts : keys = <<u, s>>
        BY <3>4 DEF TwoScripts
      <4> QED BY <3>2, <4>1
    <3> QED BY <3>3, <3>4
  <2>4. Blank(j) /\ j.scripts = keys /\ j.keys = keys
    <3>1. /\ Blank(OfScripts(r, keys, c)) /\ OfScripts(r, keys, c).scripts = keys
          /\ OfScripts(r, keys, c).keys = keys
      BY BlankRequests
    <3> QED BY <2>2, <3>1
  <2>5. j.at = "history"
    <3>1. New(OfScripts(r, keys, c), r, "history")
      BY NewRequests
    <3> QED BY <2>2, <3>1 DEF New
  <2>6. ScriptsGiven(j) /\ KeysArgs(j)
    BY <2>3, <2>4 DEF ScriptsGiven, KeysArgs
  <2> QED BY <2>4, <2>5, <2>6, BlankGenuine
<1>7. CASE \E r \in PageRoutes : j = Plain(r, "page")
  <2>1. PICK r \in PageRoutes : j = Plain(r, "page")
    BY <1>7
  <2>2. r \notin ByScript /\ "page" \in Calm
    BY DEF PageRoutes, ByScript, Calm
  <2>3. New(Plain(r, "page"), r, "page")
    BY NewRequests
  <2>4. Blank(Plain(r, "page"))
    BY BlankRequests
  <2> QED BY <1>2, <2>1, <2>2, <2>3, <2>4
<1>8. CASE \E r \in TipRoutes : j = Plain(r, "first")
  <2>1. PICK r \in TipRoutes : j = Plain(r, "first")
    BY <1>8
  <2>2. r \notin ByScript /\ "first" \in Calm
    BY DEF TipRoutes, ByScript, Calm
  <2>3. New(Plain(r, "first"), r, "first")
    BY NewRequests
  <2>4. Blank(Plain(r, "first"))
    BY BlankRequests
  <2> QED BY <1>2, <2>1, <2>2, <2>3, <2>4
<1>9. CASE \E h \in Heights : j = OfHeight(h)
  <2>1. Blank(j) /\ New(j, "block height", "at height")
    <3>1. PICK h \in Heights : j = OfHeight(h)
      BY <1>9
    <3>2. New(OfHeight(h), "block height", "at height")
      <4>1. \A n : New(OfHeight(n), "block height", "at height")
        BY NewRequests, Zenon
      <4> QED BY <4>1, Zenon
    <3>3. Blank(OfHeight(h))
      BY BlankRequests
    <3> QED BY <3>1, <3>2, <3>3
  <2>2. "block height" \notin ByScript
    BY DEF ByScript
  <2>3. "at height" \in Calm
    BY DEF Calm
  <2> QED BY <1>2, <2>1, <2>2, <2>3
<1>10. CASE \E r \in BlockRoutes, k \in Blocks : j = OfBlock(r, k)
  <2>1. PICK r \in BlockRoutes, k \in Blocks : j = OfBlock(r, k)
    BY <1>10
  <2>2. r \notin ByScript /\ "best" \in Calm
    BY DEF BlockRoutes, ByScript, Calm
  <2>3. New(OfBlock(r, k), r, "best")
    BY NewRequests
  <2>4. Blank(OfBlock(r, k))
    BY BlankRequests
  <2> QED BY <1>2, <2>1, <2>2, <2>3, <2>4
<1>11. CASE \E t \in Txids, h \in Heights : j = OfTxAt(t, h)
  <2>1. PICK t \in Txids, h \in Heights : j = OfTxAt(t, h)
    BY <1>11
  <2>2. Blank(j) /\ New(j, "get merkle", "get merkle") /\ j.todo = <<t>>
    <3>1. New(OfTxAt(t, h), "get merkle", "get merkle")
      <4>1. \A u, n : New(OfTxAt(u, n), "get merkle", "get merkle")
        BY NewRequests, Zenon
      <4> QED BY <4>1, Zenon
    <3>2. Blank(OfTxAt(t, h)) /\ OfTxAt(t, h).todo = <<t>>
      BY BlankRequests
    <3> QED BY <2>1, <3>1, <3>2
  <2>3. MerkleArgs(j)
    <3>1. j.todo = <<t>>
      BY <2>2
    <3> QED BY <3>1 DEF MerkleArgs
  <2>4. "get merkle" \notin ByScript
    BY DEF ByScript
  <2>5. j.route \notin ByScript /\ j.at = "get merkle"
    BY <2>2, <2>4 DEF New
  <2> QED BY <2>2, <2>3, <2>5, BlankGenuine
<1>12. CASE \E h \in Heights, n \in Counts, cp \in Counts : j = OfHeaders(h, n, cp)
  <2>1. PICK h \in Heights, n \in Counts, cp \in Counts : j = OfHeaders(h, n, cp)
    BY <1>12
  <2>2. Blank(j) /\ New(j, "headers", "headers") /\ j.height = h /\ j.count = n /\ j.cp = cp
    <3>1. New(OfHeaders(h, n, cp), "headers", "headers")
      BY NewRequests
    <3>2. Blank(OfHeaders(h, n, cp))
      BY BlankRequests
    <3>3. /\ OfHeaders(h, n, cp).height = h /\ OfHeaders(h, n, cp).count = n
          /\ OfHeaders(h, n, cp).cp = cp
      BY BlankRequests
    <3> QED BY <2>1, <3>1, <3>2, <3>3
  <2>3. h \in Nat /\ n \in Nat /\ cp \in Nat
    BY ArgumentsAssumption DEF ArgumentsAssumption
  <2>4. HeadersArgs(j)
    BY <2>2, <2>3 DEF HeadersArgs, Blank
  <2>5. "headers" \notin ByScript
    BY DEF ByScript
  <2>6. j.route \notin ByScript /\ j.at = "headers"
    BY <2>2, <2>5 DEF New
  <2> QED BY <2>2, <2>4, <2>6, BlankGenuine
<1> QED BY <1>1, <1>3, <1>4, <1>5, <1>6, <1>7, <1>8, <1>9, <1>10, <1>11, <1>12

LEMMA IdleGenuine == Genuine({}, Idle)
<1>1. Blank(Idle) /\ Idle.route = "none" /\ Idle.at = "idle"
  <2>1. Idle.route = "none" /\ Idle.at = "idle"
    BY DEF Idle
  <2> QED BY <2>1, BlankIdle
<1>2. Idle.route \notin ByScript
  BY <1>1 DEF ByScript
<1>3. Solid({}, Idle) /\ Claims({}, Idle)
  BY <1>1, <1>2, BlankSolid, NoClaim DEF Blank
<1>4. OnTheWay({}, Idle)
  BY <1>1 DEF OnTheWay, Blank
<1> QED BY <1>3, <1>4 DEF Genuine

LEMMA GenuineInit == Init => GenuineInv
<1> SUFFICES ASSUME Init PROVE GenuineInv
  OBVIOUS
<1>1. job = Idle /\ past = {} /\ Idle.at = "idle"
  BY IdleFacts DEF Init
<1>2. IsJob(job)
  BY KnowsInit DEF KnowsInv
<1>3. World
  <2>1. 0 \in 0..MaxMoves
    BY QueriesAssumption DEF QueriesAssumption
  <2> QED BY <1>1, <2>1 DEF Init, World
<1> QED BY <1>1, <1>2, <1>3, IdleGenuine DEF GenuineInv

LEMMA RefreshGenuine ==
  ASSUME GenuineInv, Refresh
  PROVE  World' /\ Genuine(past', job')
<1>1. PICK k \in Blocks : tip' = k /\ past' = past \cup {<<k, pool>>}
                          /\ reorged' = (reorged \/ tip \notin Seqs!ToSet(Path[k]))
  BY DEF Refresh
<1>2. moves' = moves + 1 /\ moves < MaxMoves /\ pool' = pool /\ job' = job
  BY DEF Refresh, InHand
<1>3. /\ tip \in Blocks /\ pool \in Pools /\ reorged \in BOOLEAN /\ moves \in 0..MaxMoves
      /\ past \subseteq Blocks \X Pools
  BY DEF GenuineInv, World
<1>4. moves' \in 0..MaxMoves
  BY <1>2, <1>3, QueriesAssumption DEF QueriesAssumption
<1>5. reorged' \in BOOLEAN
  BY <1>1
<1>6. World'
  BY <1>1, <1>2, <1>3, <1>4, <1>5 DEF World
<1>7. past \subseteq past' /\ Genuine(past, job)
  BY <1>1 DEF GenuineInv
<1>8. Genuine(past', job)
  BY <1>7, GenuineGrows
<1> QED BY <1>2, <1>6, <1>8

LEMMA PollGenuine ==
  ASSUME GenuineInv, Poll
  PROVE  World' /\ Genuine(past', job')
<1>1. PICK S \in Pools : pool' = S /\ past' = past \cup {<<tip, S>>}
  BY DEF Poll
<1>2. moves' = moves + 1 /\ moves < MaxMoves /\ tip' = tip /\ job' = job /\ reorged' = reorged
  BY DEF Poll, InHand
<1>3. /\ tip \in Blocks /\ pool \in Pools /\ reorged \in BOOLEAN /\ moves \in 0..MaxMoves
      /\ past \subseteq Blocks \X Pools
  BY DEF GenuineInv, World
<1>4. moves' \in 0..MaxMoves
  BY <1>2, <1>3, QueriesAssumption DEF QueriesAssumption
<1>5. World'
  BY <1>1, <1>2, <1>3, <1>4 DEF World
<1>6. past \subseteq past' /\ Genuine(past, job)
  BY <1>1 DEF GenuineInv
<1>7. Genuine(past', job)
  BY <1>6, GenuineGrows
<1> QED BY <1>2, <1>5, <1>7

LEMMA GenuineNext == KnowsInv /\ GenuineInv /\ [Next]_vars => GenuineInv'
<1> SUFFICES ASSUME KnowsInv, GenuineInv, [Next]_vars PROVE GenuineInv'
  OBVIOUS
<1>1. IsJob(job)'
  BY KnowsNext DEF KnowsInv
<1>2. SUFFICES World' /\ Genuine(past', job')
  BY <1>1 DEF GenuineInv
<1>3. CASE UNCHANGED vars
  BY <1>3 DEF vars, GenuineInv, World
<1>4. CASE Begin
  <2>1. job' \in Requests /\ past' = {<<tip, pool>>} /\ tip' = tip /\ pool' = pool
        /\ reorged' = reorged /\ moves' = moves
    BY <1>4 DEF Begin
  <2>2. Genuine(past', job')
    BY <2>1, RequestsGenuine
  <2> QED BY <2>1, <2>2 DEF GenuineInv, World
<1>5. CASE Answered
  <2>1. job' = Idle /\ past' = {} /\ reorged' = FALSE /\ moves' = 0 /\ tip' = tip /\ pool' = pool
    BY <1>5 DEF Answered
  <2>2. Genuine(past', job') /\ job'.at = "idle"
    BY <2>1, IdleGenuine, IdleFacts
  <2>3. 0 \in 0..MaxMoves
    BY QueriesAssumption DEF QueriesAssumption
  <2> QED BY <2>1, <2>2, <2>3 DEF GenuineInv, World
<1>6. CASE Refresh
  BY <1>6, RefreshGenuine
<1>7. CASE Poll
  BY <1>7, PollGenuine
<1>8. CASE Reading
  <2>1. /\ job.at # "idle" /\ tip' = tip /\ pool' = pool /\ past' = past
        /\ reorged' = reorged /\ moves' = moves
    BY <1>8, ReadingGoes DEF KnowsInv
  <2>2. Serving
    BY <2>1 DEF Serving, GenuineInv, World
  <2>3. Genuine(past', job')
    BY <1>8, <2>1, <2>2, ReadingGenuine
  <2> QED BY <2>1, <2>3 DEF GenuineInv, World
<1>9. Next => Begin \/ Answered \/ Refresh \/ Poll \/ Reading
  BY DEF Next, Reading
<1> QED BY <1>3, <1>4, <1>5, <1>6, <1>7, <1>8, <1>9

LEMMA GenuineAlways == Spec => [](KnowsInv /\ GenuineInv)
<1>1. Init => KnowsInv /\ GenuineInv
  BY KnowsInit, GenuineInit
<1>2. KnowsInv /\ GenuineInv /\ [Next]_vars => (KnowsInv /\ GenuineInv)'
  BY KnowsNext, GenuineNext
<1> QED BY <1>1, <1>2, PTL DEF Spec

LEMMA GenuineTyped == GenuineInv => TypeOK
<1> SUFFICES ASSUME GenuineInv PROVE TypeOK
  OBVIOUS
<1>1. Solid(past, job)
  BY DEF GenuineInv, Genuine
<1>2. \A i \in DOMAIN job.list : job.list[i] \in Places
  BY <1>1 DEF Solid
<1>3. \A i \in DOMAIN job.blocks : job.blocks[i] \in Blocks \cup {NoBlock}
  BY <1>1 DEF Solid
<1>4. \A u \in job.utxos \cup job.shown : u[1] \in Places /\ u[2] \in Scripts
  BY <1>1 DEF Solid
<1>5. /\ tip \in Blocks /\ pool \in Pools /\ reorged \in BOOLEAN /\ moves \in 0..MaxMoves
      /\ past \subseteq Blocks \X Pools
      /\ job.at \notin {"idle"} => <<tip, pool>> \in past
  BY DEF GenuineInv, World
<1>6. /\ job.found \in Places /\ job.spender \in Places
      /\ job.rows \subseteq Places /\ job.tries \in 0..(REORG_RETRIES - 1)
      /\ job.ttl \in {"none", "short", "long"}
  BY <1>1 DEF Solid
<1> QED BY <1>2, <1>3, <1>4, <1>5, <1>6 DEF TypeOK

LEMMA GenuineAnswers == GenuineInv => AnswersGenuine
<1> SUFFICES ASSUME GenuineInv PROVE AnswersGenuine
  OBVIOUS
<1>1. Solid(past, job) /\ Claims(past, job)
  BY DEF GenuineInv, Genuine
<1>2. \A l : WasIn(past, l) <=> Was(l)
  BY DEF WasIn, Was
<1>3. \A i \in DOMAIN job.list : Was(job.list[i])
  <2>1. DOMAIN job.list = 1..Len(job.list) /\ \A i \in 1..Len(job.list) : WasIn(past, job.list[i])
    BY <1>1 DEF Solid
  <2> QED BY <1>2, <2>1
<1>4. job.answer = "ok" /\ job.route \in {"tx", "status", "get"} => Was(job.found)
  BY <1>1, <1>2 DEF Claims, TxClaims
<1>5. job.answer = "spent" => Was(job.spender) /\ job.outpoint \in Inputs[job.spender.tx]
  BY <1>1, <1>2 DEF Claims, Names
<1>6. job.answer = "ok" /\ job.route \in {"merkle", "merkleblock", "get merkle"} =>
        /\ \E view \in past : HashAt(view[1], job.height) = job.block
        /\ RootFromBranch(job.found.tx, job.pos, job.branch) = MerkleRoot(BlockTxs[job.block])
  <2>1. job.answer = "ok" /\ job.route \in ProofClaims =>
          StoodAt(past, job.height, job.block) /\ Proves(job)
    BY <1>1 DEF Claims
  <2>2. /\ StoodAt(past, job.height, job.block) =>
             \E view \in past : HashAt(view[1], job.height) = job.block
        /\ Proves(job) =>
             RootFromBranch(job.found.tx, job.pos, job.branch) = MerkleRoot(BlockTxs[job.block])
    BY DEF StoodAt, Proves
  <2> QED BY <2>1, <2>2 DEF ProofClaims
<1>7. job.answer = "ok" /\ job.route = "headers" /\ job.blocks # <<>> =>
        ProvesHeaders(past, job.blocks, job.height, job.cp, job.branch)
  BY <1>1 DEF Claims
<1> DEFINE Proven ==
      \E view \in past :
        LET hashes == SubSeq(Path[view[1]], 1, Sets!Min({job.cp, Height(view[1])}) + 1)
        IN  /\ \A i \in DOMAIN job.blocks : job.blocks[i] = HashAt(view[1], job.height + i - 1)
            /\ job.height < Len(hashes) /\ job.cp > 0 =>
                 RootFromBranch(job.blocks[1], job.height, job.branch) = MerkleRoot(hashes)
<1>8. ProvesHeaders(past, job.blocks, job.height, job.cp, job.branch) => Proven
  BY Zenon DEF ProvesHeaders
<1>9. AnswersGenuine <=>
        /\ TypeOK
        /\ \A i \in DOMAIN job.list : Was(job.list[i])
        /\ job.at = "done" /\ job.answer = "ok" /\ job.route \in {"tx", "status", "get"} => Was(job.found)
        /\ Answers("outspend", "spent") =>
             Was(job.spender) /\ job.outpoint \in Inputs[job.spender.tx]
        /\ job.answer = "ok" /\ job.route \in {"merkle", "merkleblock", "get merkle"} =>
             /\ \E view \in past : HashAt(view[1], job.height) = job.block
             /\ RootFromBranch(job.found.tx, job.pos, job.branch) = MerkleRoot(BlockTxs[job.block])
        /\ Answers("headers", "ok") /\ job.blocks # <<>> => Proven
  BY Zenon DEF AnswersGenuine
<1> HIDE DEF Proven
<1>10. Answers("outspend", "spent") => job.answer = "spent"
  BY DEF Answers
<1>11. Answers("headers", "ok") => job.answer = "ok" /\ job.route = "headers"
  BY DEF Answers
<1>12. TypeOK
  BY GenuineTyped
<1> QED BY <1>3, <1>4, <1>5, <1>6, <1>7, <1>8, <1>9, <1>10, <1>11, <1>12, Zenon

\* For any tree of blocks, any mempools and any number of refreshes, reorgs and
\* polls between the reads of a request, what its answer says was so during the
\* request: find_tx and the lists name transactions that were in the mempool or
\* in a block of the chain with that hash, height and position, find_spender
\* names a transaction that spends the output, and the branches of
\* tx_merkle_proof, transaction_get_merkle and block_headers lead to the root
\* they are meant to prove.
THEOREM AnswersStayGenuine == Spec => []AnswersGenuine
BY GenuineAlways, GenuineAnswers, PTL

-----------------------------------------------------------------------------
(* What is unspent *)

\* t is paid to s and nothing of S spends it.
Left(S, s, t) == t \in S /\ s \in Outputs[t] /\ \A v \in S : <<t, s>> \notin Inputs[v]

LEMMA InUnspent ==
  ASSUME NEW S, NEW s, NEW o
  PROVE  o \in Unspent(S, s) <=> \E t : o = <<t, s>> /\ Left(S, s, t)
BY DEF Unspent, Left

LEMMA PairInUnspent ==
  ASSUME NEW S, NEW s, NEW t
  PROVE  <<t, s>> \in Unspent(S, s) <=> Left(S, s, t)
<1>1. \A u : <<t, s>> = <<u, s>> => t = u
  OBVIOUS
<1> QED BY <1>1, InUnspent

\* What is left unspent depends only on the transactions of the script.
LEMMA LeftSame ==
  ASSUME NEW S, NEW T, S \subseteq Txids, T \subseteq Txids, NEW s,
         Touching(Txids, s) \cap S \subseteq T, Touching(Txids, s) \cap T \subseteq S, NEW t,
         Left(S, s, t)
  PROVE  Left(T, s, t)
<1>1. t \in Txids /\ s \in Outputs[t]
  BY DEF Left
<1>2. t \in T
  BY <1>1 DEF Left, Touching
<1>3. ASSUME NEW v \in T, <<t, s>> \in Inputs[v] PROVE FALSE
  <2>1. <<t, s>>[2] = s
    OBVIOUS
  <2>2. v \in Touching(Txids, s)
    BY <1>3, <2>1 DEF Touching
  <2> QED BY <1>3, <2>2 DEF Left
<1> QED BY <1>1, <1>2, <1>3 DEF Left

LEMMA UnspentSame ==
  ASSUME NEW S, NEW T, S \subseteq Txids, T \subseteq Txids, NEW s,
         Touching(Txids, s) \cap S = Touching(Txids, s) \cap T
  PROVE  Unspent(S, s) = Unspent(T, s)
<1>1. \A t : Left(S, s, t) <=> Left(T, s, t)
  BY LeftSame
<1>2. \A o : o \in Unspent(S, s) <=> o \in Unspent(T, s)
  BY <1>1, InUnspent
<1> QED BY <1>2, Zenon DEF Unspent

\* A confirmed output is where its transaction is.
LEMMA UtxosOf ==
  ASSUME NEW k \in Blocks, NEW s
  PROVE  /\ \A u \in Utxos(k, s) : /\ u[1] \in Locations(k) /\ u = <<u[1], s>>
                                   /\ Outpoint(u) = <<u[1].tx, s>>
                                   /\ Left(Mined(k), s, u[1].tx)
         /\ \A t : Left(Mined(k), s, t) => \E u \in Utxos(k, s) : Outpoint(u) = <<t, s>>
<1>1. ASSUME NEW u \in Utxos(k, s)
      PROVE  /\ u[1] \in Locations(k) /\ u = <<u[1], s>> /\ Outpoint(u) = <<u[1].tx, s>>
             /\ Left(Mined(k), s, u[1].tx)
  <2>1. PICK l \in Rows(k, s) : u = <<l, s>> /\ <<l.tx, s>> \in Unspent(Mined(k), s)
    BY DEF Utxos
  <2>2. u[1] = l /\ u[2] = s /\ l \in Locations(k)
    BY <2>1 DEF Rows
  <2>3. Left(Mined(k), s, l.tx)
    BY <2>1, PairInUnspent
  <2> QED BY <2>1, <2>2, <2>3 DEF Outpoint
<1>2. ASSUME NEW t, Left(Mined(k), s, t)
      PROVE  \E u \in Utxos(k, s) : Outpoint(u) = <<t, s>>
  <2>1. t \in Mined(k) /\ s \in Outputs[t] /\ <<t, s>> \in Unspent(Mined(k), s)
    BY <1>2, PairInUnspent DEF Left
  <2>2. PICK l \in Locations(k) : l.tx = t
    BY <2>1, MinedFacts
  <2>3. l \in Rows(k, s)
    BY <2>1, <2>2 DEF Rows, Touching
  <2>4. <<l, s>> \in Utxos(k, s)
    BY <2>1, <2>2, <2>3 DEF Utxos
  <2>5. Outpoint(<<l, s>>) = <<t, s>>
    BY <2>2 DEF Outpoint
  <2> QED BY <2>4, <2>5
<1> QED BY <1>1, <1>2

LEMMA RowsTxids ==
  ASSUME NEW k \in Blocks, NEW s
  PROVE  \A t : t \in { l.tx : l \in Rows(k, s) } <=> t \in Mined(k) /\ t \in Touching(Txids, s)
<1>1. ASSUME NEW t, t \in Mined(k), t \in Touching(Txids, s)
      PROVE  t \in { l.tx : l \in Rows(k, s) }
  <2>1. PICK l \in Locations(k) : l.tx = t
    BY <1>1, MinedFacts
  <2>2. t \in Touching(Mined(k), s)
    BY <1>1 DEF Touching
  <2> QED BY <2>1, <2>2 DEF Rows
<1>2. ASSUME NEW l \in Rows(k, s)
      PROVE  l.tx \in Mined(k) /\ l.tx \in Touching(Txids, s)
  <2>1. l \in Locations(k) /\ l.tx \in Touching(Mined(k), s)
    BY DEF Rows
  <2>2. l.tx \in Mined(k) /\ l.tx \in Txids
    BY <2>1, LocationFacts
  <2> QED BY <2>1, <2>2 DEF Touching
<1> QED BY <1>1, <1>2

\* Outputs to s of the transactions T of the mempool.
Offers(T, s) == { <<InPool(t), s>> : t \in T }

\* Confirmed outputs and outputs of mempool transactions that are not confirmed
\* are different, and each is listed once.
LEMMA ListedOnce ==
  ASSUME NEW k \in Blocks, NEW s, NEW us, us \subseteq Utxos(k, s), NEW T, T \subseteq Txids,
         \A t \in T : ~(t \in Mined(k))
  PROVE  EachOnce(us, Offers(T, s))
<1> DEFINE x == Offers(T, s)
<1>1. ASSUME NEW u \in us
      PROVE  /\ u[1] \in Locations(k) /\ u = <<u[1], s>> /\ Outpoint(u) = <<u[1].tx, s>>
             /\ u[1].tx \in Mined(k) /\ u[1].place = "chain"
  <2>1. u[1] \in Locations(k) /\ u = <<u[1], s>> /\ Outpoint(u) = <<u[1].tx, s>>
    BY UtxosOf
  <2> QED BY <2>1, LocationFacts
<1>2. ASSUME NEW u \in x
      PROVE  \E t \in T : u = <<InPool(t), s>> /\ Outpoint(u) = <<t, s>>
                          /\ u[1].place = "pool"
  <2>1. PICK t \in T : u = <<InPool(t), s>>
    BY DEF Offers
  <2>2. u[1] = InPool(t) /\ u[2] = s
    BY <2>1
  <2>3. InPool(t).tx = t /\ InPool(t).place = "pool"
    BY PoolPlace
  <2> QED BY <2>1, <2>2, <2>3 DEF Outpoint
<1> HIDE DEF x
<1>3. us \cap x = {}
  <2>1. SUFFICES ASSUME NEW u \in us \cap x PROVE FALSE
    OBVIOUS
  <2> QED BY <1>1, <1>2
<1>4. ASSUME NEW u \in us, NEW v \in us, Outpoint(u) = Outpoint(v) PROVE u = v
  <2>1. u[1].tx = v[1].tx
    BY <1>1, <1>4
  <2>2. u[1] = v[1]
    BY <1>1, <2>1, ChainAssumption DEF ChainAssumption
  <2> QED BY <1>1, <2>2
<1>5. ASSUME NEW u \in x, NEW v \in x, Outpoint(u) = Outpoint(v) PROVE u = v
  <2>1. PICK t \in T : u = <<InPool(t), s>> /\ Outpoint(u) = <<t, s>>
    BY <1>2
  <2>2. PICK r \in T : v = <<InPool(r), s>> /\ Outpoint(v) = <<r, s>>
    BY <1>2
  <2>3. t = r
    BY <1>5, <2>1, <2>2
  <2> QED BY <2>1, <2>2, <2>3
<1>6. ASSUME NEW u \in us, NEW v \in x PROVE Outpoint(u) # Outpoint(v)
  <2>1. PICK t \in T : Outpoint(v) = <<t, s>>
    BY <1>2
  <2>2. Outpoint(u) = <<u[1].tx, s>> /\ u[1].tx \in Mined(k)
    BY <1>1
  <2> QED BY <2>1, <2>2
<1> QED BY <1>3, <1>4, <1>5, <1>6 DEF EachOnce, x

\* The confirmed outputs that the pool does not spend.
Remaining(k, p, s) == { u \in Utxos(k, s) : ~\E v \in p : Outpoint(u) \in Inputs[v] }

\* T are the transactions of the pool that are not confirmed and have an output to
\* s that nothing there spends.
Offering(k, p, s, T) ==
  /\ T \subseteq p
  /\ \A t \in p : t \in T <=> /\ ~(t \in Mined(k)) /\ s \in Outputs[t]
                              /\ ~\E v \in p : <<t, s>> \in Inputs[v]

\* Together they are what chain and pool leave.
LEMMA BothLeft ==
  ASSUME NEW k \in Blocks, NEW p, p \subseteq Txids, NEW s, NEW T, Offering(k, p, s, T)
  PROVE  Exactly(k, p, s, Remaining(k, p, s), Offers(T, s))
<1> DEFINE M == Mined(k)
           us == Remaining(k, p, s)
           x == Offers(T, s)
<1>1. EachOnce(us, x)
  <2>1. us \subseteq Utxos(k, s) /\ T \subseteq Txids /\ \A t \in T : ~(t \in Mined(k))
    BY DEF Remaining, Offering
  <2> QED BY <2>1, ListedOnce
<1>2. ASSUME NEW t, NEW v \in M, <<t, s>> \in Inputs[v] PROVE t \in M
  <2>1. <<t, s>>[1] = t
    OBVIOUS
  <2> QED BY <1>2, <2>1, MinedFacts
<1>3. ASSUME NEW u \in us PROVE Outpoint(u) \in Unspent(M \cup p, s)
  <2>1. u \in Utxos(k, s) /\ ~\E v \in p : Outpoint(u) \in Inputs[v]
    BY DEF Remaining
  <2>2. Outpoint(u) = <<u[1].tx, s>> /\ Left(M, s, u[1].tx)
    BY <2>1, UtxosOf
  <2>3. Left(M \cup p, s, u[1].tx)
    BY <2>1, <2>2 DEF Left
  <2> QED BY <2>2, <2>3, PairInUnspent
<1>4. ASSUME NEW t \in T
      PROVE  <<t, s>> \in Unspent(M \cup p, s) /\ Outpoint(<<InPool(t), s>>) = <<t, s>>
  <2>1. t \in p /\ ~(t \in M) /\ s \in Outputs[t] /\ ~\E v \in p : <<t, s>> \in Inputs[v]
    BY DEF Offering
  <2>2. Left(M \cup p, s, t)
    BY <1>2, <2>1 DEF Left
  <2>3. InPool(t).tx = t
    BY <2>1, PoolPlace
  <2> QED BY <2>2, <2>3, PairInUnspent DEF Outpoint
<1>5. ASSUME NEW o \in Unspent(M \cup p, s) PROVE \E u \in us \cup x : Outpoint(u) = o
  <2>1. PICK t : o = <<t, s>> /\ Left(M \cup p, s, t)
    BY InUnspent
  <2>2. CASE t \in M
    <3>1. Left(M, s, t)
      BY <2>1, <2>2 DEF Left
    <3>2. PICK u \in Utxos(k, s) : Outpoint(u) = <<t, s>>
      BY <3>1, UtxosOf
    <3>3. ~\E v \in p : Outpoint(u) \in Inputs[v]
      BY <2>1, <3>2 DEF Left
    <3> QED BY <2>1, <3>2, <3>3 DEF Remaining
  <2>3. CASE ~(t \in M)
    <3>1. t \in p /\ s \in Outputs[t] /\ ~\E v \in p : <<t, s>> \in Inputs[v]
      BY <2>1, <2>3 DEF Left
    <3>2. t \in T
      BY <2>3, <3>1 DEF Offering
    <3>3. <<InPool(t), s>> \in x
      BY <3>2 DEF Offers
    <3> QED BY <1>4, <2>1, <3>2, <3>3
  <2> QED BY <2>2, <2>3
<1>6. ASSUME NEW u \in x PROVE Outpoint(u) \in Unspent(M \cup p, s)
  <2>1. PICK t \in T : u = <<InPool(t), s>>
    BY DEF Offers
  <2> QED BY <1>4, <2>1
<1> HIDE DEF M, us, x
<1>7. { Outpoint(u) : u \in us \cup x } = Unspent(M \cup p, s)
  BY <1>3, <1>5, <1>6
<1> QED BY <1>1, <1>7 DEF M, us, x, Exactly

\* utxo: what is found between the chain and the mempool.
LEMMA UtxoSettles ==
  ASSUME NEW k \in Blocks, NEW p, p \subseteq Txids, NEW s
  PROVE  LET T == { u \in p : s \in Outputs[u] /\ ~\E v \in p : <<u, s>> \in Inputs[v] }
         IN  Twice(k, p, s) \/ Exactly(k, p, s, Remaining(k, p, s), Offers(T, s))
<1> DEFINE T == { u \in p : s \in Outputs[u] /\ ~\E v \in p : <<u, s>> \in Inputs[v] }
<1> SUFFICES ASSUME ~Twice(k, p, s) PROVE Exactly(k, p, s, Remaining(k, p, s), Offers(T, s))
  OBVIOUS
<1>1. ASSUME NEW t \in p, s \in Outputs[t] PROVE ~(t \in Mined(k))
  <2>1. t \in Touching(Txids, s)
    BY <1>1 DEF Touching
  <2> QED BY <2>1 DEF Twice
<1>2. Offering(k, p, s, T)
  BY <1>1 DEF Offering
<1> HIDE DEF T
<1> QED BY <1>2, BothLeft

\* The index of the pool names a spender of an output if there is one.
LEMMA SpenderOf ==
  ASSUME NEW p, p \subseteq Txids, NEW o \in Outpoints
  PROVE  LET v == IndexOf(p).spent_prevouts[o]
         IN  IF \E t \in p : o \in Inputs[t] THEN v \in p /\ o \in Inputs[v] ELSE v = NoTx
<1>1. IndexOf(p).spent_prevouts[o] = IF \E t \in p : o \in Inputs[t]
                                       THEN CHOOSE t \in p : o \in Inputs[t] ELSE NoTx
  BY DEF IndexOf
<1> QED BY <1>1

\* listunspent: what the view of the mempool makes of the confirmed outputs.
LEMMA ViewSettles ==
  ASSUME NEW k \in Blocks, NEW p, p \subseteq Txids, NEW s \in Scripts, NEW view,
         view = ScriptView(IndexOf(p), s, { Outpoint(u) : u \in Utxos(k, s) },
                           { l.tx : l \in Rows(k, s) }),
         NEW x, x = { u \in Utxos(k, s) : Outpoint(u) \notin view.spent_confirmed }
                    \cup { <<InPool(o[1]), s>> : o \in view.utxos }
  PROVE  Exactly(k, p, s, {}, x)
<1> DEFINE M == Mined(k)
           all == Touching(Txids, s)
           ix == IndexOf(p)
           mined == { l.tx : l \in Rows(k, s) }
           confirmed == { Outpoint(u) : u \in Utxos(k, s) }
           Spent(o) == ix.spent_prevouts[o] \notin mined \cup {NoTx}
           txs == ScriptTxids(ix, s, confirmed) \ mined
           T == { t \in txs : s \in Outputs[t] /\ ~Spent(<<t, s>>) }
           us == Remaining(k, p, s)
           y == Offers(T, s)
<1>1. \A t : t \in mined <=> t \in M /\ t \in all
  BY RowsTxids
<1>2. M \subseteq Txids
  BY MinedFacts
<1>3. ASSUME NEW t \in Txids, \A v \in M : <<t, s>> \notin Inputs[v]
      PROVE  Spent(<<t, s>>) <=> \E v \in p : <<t, s>> \in Inputs[v]
  <2>1. <<t, s>> \in Outpoints
    BY DEF Outpoints
  <2> DEFINE v == ix.spent_prevouts[<<t, s>>]
  <2>2. IF \E r \in p : <<t, s>> \in Inputs[r] THEN v \in p /\ <<t, s>> \in Inputs[v] ELSE v = NoTx
    BY <2>1, SpenderOf
  <2> HIDE DEF v, mined
  <2>3. v \in p /\ <<t, s>> \in Inputs[v] => v # NoTx /\ ~(v \in mined)
    BY <1>1, <1>3, TxidsAssumption DEF TxidsAssumption
  <2>4. Spent(<<t, s>>) <=> v \notin mined \cup {NoTx}
    BY DEF v
  <2> HIDE DEF Spent
  <2> QED BY <2>2, <2>3, <2>4
<1>4. \A t : t \in p /\ s \in Outputs[t] => t \in ScriptTxids(ix, s, confirmed)
  <2>1. ix.by_scripthash[s] = { t \in p : s \in Outputs[t] }
    BY DEF IndexOf
  <2> QED BY <2>1 DEF ScriptTxids
<1>5. ScriptTxids(ix, s, confirmed) \subseteq p
  <2>1. ix.by_scripthash[s] = { t \in p : s \in Outputs[t] }
    BY DEF IndexOf
  <2>2. ASSUME NEW u \in Utxos(k, s) PROVE Outpoint(u) \in Outpoints
    <3> HIDE DEF M, all, confirmed, ix, mined
    <3>1. Outpoint(u) = <<u[1].tx, s>>
      BY UtxosOf
    <3>2. Left(Mined(k), s, u[1].tx)
      BY UtxosOf
    <3>3. u[1].tx \in M
      BY <3>2 DEF Left, M
    <3> QED BY <1>2, <3>1, <3>3 DEF Outpoints
  <2>3. confirmed \subseteq Outpoints
    BY <2>2
  <2> HIDE DEF confirmed, ix
  <2>4. { <<t, s>> : t \in ix.by_scripthash[s] } \subseteq Outpoints
    BY <2>1 DEF Outpoints
  <2>5. ASSUME NEW o \in Outpoints, ix.spent_prevouts[o] # NoTx PROVE ix.spent_prevouts[o] \in p
    BY <2>5, SpenderOf DEF ix
  <2> QED BY <2>1, <2>3, <2>4, <2>5 DEF ScriptTxids
<1>6. view.utxos = { o \in { <<t, s>> : t \in { u \in txs : s \in Outputs[u] } } : ~Spent(o) }
      /\ view.spent_confirmed = { o \in confirmed : Spent(o) }
  BY DEF ScriptView
<1> HIDE DEF txs, Spent, mined, ix
<1>7. view.utxos = { <<t, s>> : t \in T }
  BY <1>6
<1>8. \A t \in p : t \in txs /\ s \in Outputs[t] <=> ~(t \in M) /\ s \in Outputs[t]
  <2>1. \A t \in p : s \in Outputs[t] => t \in all
    BY DEF Touching
  <2> QED BY <1>1, <1>4, <2>1 DEF txs
<1>9. ASSUME NEW t, ~(t \in M) PROVE \A v \in M : <<t, s>> \notin Inputs[v]
  <2>1. <<t, s>>[1] = t
    OBVIOUS
  <2> QED BY <1>9, <2>1, MinedFacts
<1>10. Offering(k, p, s, T)
  <2>1. T \subseteq p
    BY <1>5 DEF txs
  <2>2. ASSUME NEW t \in p
        PROVE  t \in T <=> /\ ~(t \in M) /\ s \in Outputs[t]
                           /\ ~\E v \in p : <<t, s>> \in Inputs[v]
    <3>1. t \in T <=> ~(t \in M) /\ s \in Outputs[t] /\ ~Spent(<<t, s>>)
      BY <1>8
    <3>2. ~(t \in M) => (Spent(<<t, s>>) <=> \E v \in p : <<t, s>> \in Inputs[v])
      <4>1. t \in Txids
        OBVIOUS
      <4> HIDE DEF M
      <4> QED BY <1>3, <1>9, <4>1
    <3> HIDE DEF T, M
    <3> QED BY <3>1, <3>2
  <2> HIDE DEF T
  <2> QED BY <2>1, <2>2 DEF Offering
<1>11. us = { u \in Utxos(k, s) : Outpoint(u) \notin view.spent_confirmed }
  <2>1. ASSUME NEW u \in Utxos(k, s)
        PROVE  Outpoint(u) \notin view.spent_confirmed <=> ~\E v \in p : Outpoint(u) \in Inputs[v]
    <3> DEFINE t == u[1].tx
    <3>1. Outpoint(u) = <<t, s>> /\ Left(M, s, t) /\ Outpoint(u) \in confirmed
      BY UtxosOf
    <3>2. t \in Txids /\ \A v \in M : <<t, s>> \notin Inputs[v]
      BY <1>2, <3>1 DEF Left
    <3> HIDE DEF t, confirmed, M
    <3>3. Spent(<<t, s>>) <=> \E v \in p : <<t, s>> \in Inputs[v]
      BY <1>3, <3>2
    <3> QED BY <1>6, <3>1, <3>3
  <2> QED BY <2>1 DEF Remaining
<1>12. y = { <<InPool(o[1]), s>> : o \in view.utxos }
  <2>1. \A t : <<t, s>>[1] = t
    OBVIOUS
  <2> HIDE DEF T
  <2>2. \A t \in T : <<t, s>> \in view.utxos
    BY <1>7
  <2>3. \A o \in view.utxos : o[1] \in T
    BY <1>7, <2>1
  <2>4. ASSUME NEW o \in view.utxos PROVE <<InPool(o[1]), s>> \in Offers(T, s)
    BY <2>3 DEF Offers
  <2>5. ASSUME NEW u \in Offers(T, s) PROVE u \in { <<InPool(o[1]), s>> : o \in view.utxos }
    <3>1. PICK t \in T : u = <<InPool(t), s>>
      BY DEF Offers
    <3>2. <<t, s>> \in view.utxos /\ <<t, s>>[1] = t
      BY <2>1, <2>2
    <3> QED BY <3>1, <3>2
  <2> QED BY <2>4, <2>5
<1>13. x = us \cup y /\ {} \cup x = us \cup y
  BY <1>11, <1>12
<1>14. Exactly(k, p, s, us, y)
  <2> HIDE DEF T
  <2> QED BY <1>10, BothLeft
<1> HIDE DEF us, y
<1> QED BY <1>13, <1>14 DEF Exactly, EachOnce

\* An output that gets its block and time stays the same one.
LEMMA ExactlyMoves ==
  ASSUME NEW k, NEW p, NEW s, NEW us, NEW x, Exactly(k, p, s, us, x),
         NEW now, now \subseteq us, NEW f, \A u \in now : Outpoint(f[u]) = Outpoint(u)
  PROVE  Exactly(k, p, s, us \ now, x \cup { f[u] : u \in now })
<1> DEFINE U == Unspent(Mined(k) \cup p, s)
           n == { f[u] : u \in now }
           y == x \cup n
           vs == us \ now
<1>1. /\ { Outpoint(u) : u \in us \cup x } = U /\ us \cap x = {}
      /\ \A u, v \in us \cup x : Outpoint(u) = Outpoint(v) => u = v
  BY DEF Exactly, EachOnce
<1> HIDE DEF U
<1>2. \A u \in vs \cup y : Outpoint(u) \in U
  BY <1>1
<1>3. \A o \in U : \E u \in vs \cup y : Outpoint(u) = o
  <2> SUFFICES ASSUME NEW o \in U PROVE \E u \in vs \cup y : Outpoint(u) = o
    OBVIOUS
  <2>1. PICK u \in us \cup x : Outpoint(u) = o
    BY <1>1
  <2>2. CASE u \in now
    <3>1. f[u] \in n /\ Outpoint(f[u]) = o
      BY <2>1, <2>2
    <3> HIDE DEF n, vs
    <3> QED BY <3>1
  <2>3. CASE u \notin now
    <3>1. u \in vs \cup y
      BY <2>3
    <3> QED BY <2>1, <3>1
  <2> QED BY <2>2, <2>3
<1>4. ASSUME NEW u \in n PROVE \E v \in now : u = f[v] /\ Outpoint(u) = Outpoint(v)
  OBVIOUS
<1>5. ASSUME NEW u \in n, NEW w \in vs \cup x PROVE Outpoint(u) # Outpoint(w)
  <2>1. PICK v \in now : Outpoint(u) = Outpoint(v)
    BY <1>4
  <2>2. v \in us /\ v \notin vs /\ v \notin x /\ w \in us \cup x
    BY <1>1
  <2> HIDE DEF n, vs
  <2> QED BY <1>1, <1>5, <2>1, <2>2
<1>6. ASSUME NEW u \in n, NEW w \in n, Outpoint(u) = Outpoint(w) PROVE u = w
  <2>1. PICK v \in now : u = f[v] /\ Outpoint(u) = Outpoint(v)
    BY <1>4
  <2>2. PICK z \in now : w = f[z] /\ Outpoint(w) = Outpoint(z)
    BY <1>4
  <2>3. v = z
    BY <1>1, <1>6, <2>1, <2>2
  <2> QED BY <2>1, <2>2, <2>3
<1>7. vs \subseteq us
  OBVIOUS
<1> HIDE DEF n, vs
<1>8. vs \cap y = {}
  BY <1>1, <1>5, <1>7
<1>9. \A u, v \in vs \cup y : Outpoint(u) = Outpoint(v) => u = v
  BY <1>1, <1>5, <1>6, <1>7
<1>10. { Outpoint(u) : u \in vs \cup y } = U
  BY <1>2, <1>3
<1> QED BY <1>8, <1>9, <1>10 DEF Exactly, EachOnce, U, n, vs

LEMMA SettledMoves ==
  ASSUME NEW P, NEW s, NEW us, NEW x, Settled(P, s, us, x),
         NEW now, now \subseteq us, NEW f, \A u \in now : Outpoint(f[u]) = Outpoint(u)
  PROVE  Settled(P, s, us \ now, x \cup { f[u] : u \in now })
<1>1. PICK v \in P, w \in P : Twice(v[1], w[2], s) \/ Exactly(v[1], w[2], s, us, x)
  BY DEF Settled
<1> DEFINE z == us \ now
           y == x \cup { f[u] : u \in now }
<1>2. Exactly(v[1], w[2], s, us, x) => Exactly(v[1], w[2], s, z, y)
  BY ExactlyMoves
<1> HIDE DEF z, y
<1>3. Settled(P, s, z, y)
  BY <1>1, <1>2 DEF Settled
<1> QED BY <1>3 DEF z, y

LEMMA TalliesGrow ==
  ASSUME NEW P, NEW Q, P \subseteq Q, NEW j, Tallies(P, j)
  PROVE  Tallies(Q, j)
<1>1. SUFFICES ASSUME NEW s \in Scripts, Tallied(P, j, s) PROVE Tallied(Q, j, s)
  BY DEF Tallies
<1>2. HasRows(P, j, s) => HasRows(Q, j, s)
  BY DEF HasRows
<1>3. \A us, x : Settled(P, s, us, x) => Settled(Q, s, us, x)
  BY DEF Settled
<1>4. \A x : SettledOnce(P, s, x) => SettledOnce(Q, s, x)
  BY DEF SettledOnce
<1> QED BY <1>1, <1>2, <1>3, <1>4 DEF Tallied

\* A request that ends without an answer tells of nothing.
LEMMA DoneTallied ==
  ASSUME NEW P, NEW j, DOMAIN j = Fields, NEW s, j.scripts = <<s>>, NEW a, a # "ok"
  PROVE  Tallied(P, Done(j, a), s)
<1> DEFINE k == Done(j, a)
<1>1. k.at = "done" /\ k.answer = a /\ \A f \in Fields \ {"at", "answer"} : k[f] = j[f]
  BY DoneGoes
<1>2. "scripts" \in Fields \ {"at", "answer"}
  BY DEF Fields
<1> HIDE DEF k
<1>3. k.scripts = <<s>>
  BY <1>1, <1>2
<1>4. Tallied(P, k, s)
  BY <1>1, <1>3 DEF Tallied
<1> QED BY <1>4 DEF k

\* The request is one for the outputs of s, and the views are what is served.
Tallying(s) ==
  /\ Serving /\ past \subseteq Blocks \X Pools /\ s \in Scripts /\ job.route \in UtxoRoutes
  /\ Tallied(past, job, s)

LEMMA OnlyOther ==
  ASSUME NEW s \in Scripts
  PROVE  Only(<<s>>, Scripts \ {s}) = <<>>
<1> DEFINE q == <<s>>
           S == Scripts \ {s}
           r == Only(q, S)
<1>1. q \in Seq({s}) /\ {s} \cap S = {}
  OBVIOUS
<1> HIDE DEF q, S
<1>2. r \in Seq({s} \cap S)
  BY <1>1, OnlyFacts
<1> HIDE DEF r
<1>3. r \in Seq({})
  BY <1>1, <1>2
<1>4. r = <<>>
  BY <1>3
<1> QED BY <1>4 DEF r, q, S

LEMMA HistoryTallied ==
  ASSUME NEW s, Tallying(s), History
  PROVE  Tallied(past, job', s)
<1>1. /\ DOMAIN job = Fields /\ job.at = "history" /\ s \in Scripts
      /\ job.route \in {"utxo", "listunspent"} /\ <<tip, pool>> \in past
  BY DEF Tallying, Serving, IsJob, History, UtxoRoutes
<1>2. job.scripts = <<s>> /\ job.keys = <<s>> /\ job.rows = {} /\ job.utxos = {}
  BY <1>1 DEF Tallying, Tallied
<1> DEFINE h == Head(job.keys)
           ks == Only(job.keys, Scripts \ {h})
           rs == job.rows \cup { l \in Rows(tip, h) : \A m \in job.rows : m.tx # l.tx }
           us == job.utxos \cup Utxos(tip, h)
           j == [job EXCEPT !.keys = ks, !.rows = rs, !.utxos = us]
           many == Peak(tip, h) > UtxosLimit
           n == [j EXCEPT !.at = "mempool"]
           z == Select(j, <<>>)
           d == Done(j, "400")
<1>3. job' = CASE j.keys # <<>> -> j
               [] j.keys = <<>> /\ j.route = "txs chain" -> z
               [] j.keys = <<>> /\ j.route = "utxo" /\ many -> d
               [] OTHER -> n
  BY DEF History, Step
<1>4. h = s
  BY <1>2
<1>5. ks = <<>>
  <2>1. ks = Only(<<s>>, Scripts \ {s})
    BY <1>2, <1>4
  <2> HIDE DEF ks
  <2> QED BY <1>1, <2>1, OnlyOther
<1>6. rs = Rows(tip, s) /\ us = Utxos(tip, s)
  <2> HIDE DEF h
  <2> QED BY <1>2, <1>4
<1> HIDE DEF ks, rs, us, many, h
<1>7. /\ DOMAIN j = Fields /\ j.scripts = job.scripts /\ j.keys = ks /\ j.route = job.route
  BY <1>1 DEF Fields
<1>8. /\ n.at = "mempool" /\ n.scripts = job.scripts /\ n.rows = rs /\ n.utxos = us
  BY <1>1 DEF Fields
<1> HIDE DEF j, n, z, d
<1>9. job' \in {n, d}
  BY <1>1, <1>3, <1>5, <1>7
<1>10. Tallied(past, d, s)
  BY <1>2, <1>7, DoneTallied DEF d
<1>11. HasRows(past, n, s)
  <2>1. <<tip, pool>>[1] = tip
    OBVIOUS
  <2> QED BY <1>1, <1>6, <1>8, <2>1 DEF HasRows
<1>12. Tallied(past, n, s)
  BY <1>2, <1>8, <1>11 DEF Tallied
<1> QED BY <1>9, <1>10, <1>12

LEMMA MempoolTallied ==
  ASSUME NEW s, Tallying(s), Mempool
  PROVE  Tallied(past, job', s)
<1>1. /\ DOMAIN job = Fields /\ job.at = "mempool" /\ s \in Scripts /\ job.scripts = <<s>>
      /\ job.route \in {"utxo", "listunspent"} /\ <<tip, pool>> \in past /\ pool \in Pools
  BY DEF Tallying, Serving, IsJob, Mempool, UtxoRoutes, Tallied
<1>2. PICK v \in past : job.rows = Rows(v[1], s) /\ job.utxos = Utxos(v[1], s)
  BY <1>1 DEF Tallying, Tallied, HasRows
<1>3. v[1] \in Blocks /\ pool \subseteq Txids /\ <<tip, pool>>[2] = pool
  <2>1. v \in Blocks \X Pools
    BY DEF Tallying
  <2> QED BY <1>1, <2>1, PoolTxids
<1> DEFINE r == job.scripts[1]
           view == ScriptView(IndexOf(pool), r, { Outpoint(u) : u \in job.utxos },
                              { l.tx : l \in job.rows })
           us == { u \in job.utxos : ~SpentInPool(Outpoint(u)) }
           w == Unconfirmed(r)
           x == { u \in job.utxos : Outpoint(u) \notin view.spent_confirmed }
                \cup { <<InPool(o[1]), r>> : o \in view.utxos }
           k == Select(job, MempoolTxids(job))
           m == [job EXCEPT !.utxos = us, !.shown = w, !.at = "utxo block"]
           j == [job EXCEPT !.shown = x]
           n == Done(j, "ok")
<1>4. job' = CASE job.route \in Lists -> k
               [] job.route = "utxo" -> m
               [] job.route = "listunspent" -> n
  BY DEF Mempool, Step
<1>5. r = s
  BY <1>1
<1>6. Settled(past, s, us, w)
  <2> DEFINE T == { u \in pool : s \in Outputs[u] /\ ~\E t \in pool : <<u, s>> \in Inputs[t] }
  <2>1. us = Remaining(v[1], pool, s)
    BY <1>2 DEF Remaining, SpentInPool
  <2>2. w = Offers(T, s)
    <3> HIDE DEF r
    <3> QED BY <1>5 DEF Unconfirmed, Offers, SpentInPool
  <2>3. Twice(v[1], pool, s) \/ Exactly(v[1], pool, s, Remaining(v[1], pool, s), Offers(T, s))
    BY <1>3, UtxoSettles
  <2> HIDE DEF us, w, T
  <2> QED BY <1>1, <1>3, <2>1, <2>2, <2>3 DEF Settled
<1>7. SettledOnce(past, s, x)
  <2>1. view = ScriptView(IndexOf(pool), s, { Outpoint(u) : u \in Utxos(v[1], s) },
                          { l.tx : l \in Rows(v[1], s) })
    <3> HIDE DEF r
    <3> QED BY <1>2, <1>5
  <2> HIDE DEF view
  <2>2. x = { u \in Utxos(v[1], s) : Outpoint(u) \notin view.spent_confirmed }
            \cup { <<InPool(o[1]), s>> : o \in view.utxos }
    <3> HIDE DEF r
    <3> QED BY <1>2, <1>5
  <2> HIDE DEF x
  <2>3. Exactly(v[1], pool, s, {}, x)
    BY <1>1, <1>3, <2>1, <2>2, ViewSettles
  <2> QED BY <1>1, <1>3, <2>3 DEF SettledOnce
<1> HIDE DEF r, us, w, x
<1>8. /\ m.at = "utxo block" /\ m.scripts = job.scripts /\ m.utxos = us /\ m.shown = w
  BY <1>1 DEF Fields
<1>9. DOMAIN j = Fields /\ j.scripts = job.scripts /\ j.shown = x /\ j.route = job.route
  BY <1>1 DEF Fields
<1> HIDE DEF m, j
<1>10. /\ n.at = "done" /\ n.scripts = job.scripts /\ n.shown = x /\ n.route = job.route
  <2>1. n.at = "done" /\ \A f \in Fields \ {"at", "answer"} : n[f] = j[f]
    BY <1>9, DoneGoes
  <2>2. {"scripts", "shown", "route"} \subseteq Fields \ {"at", "answer"}
    BY DEF Fields
  <2> HIDE DEF n
  <2> QED BY <1>9, <2>1, <2>2
<1> HIDE DEF k, n
<1>11. \/ job.route = "utxo" /\ job' = m
       \/ job.route = "listunspent" /\ job' = n
  <2>1. job.route \notin Lists
    BY <1>1 DEF Lists
  <2> QED BY <1>1, <1>4, <2>1
<1>12. Tallied(past, m, s)
  BY <1>1, <1>6, <1>8 DEF Tallied
<1>13. job.route = "listunspent" => Tallied(past, n, s)
  BY <1>1, <1>7, <1>10 DEF Tallied
<1> QED BY <1>11, <1>12, <1>13

LEMMA UtxoTallied ==
  ASSUME NEW s, Tallying(s), UtxoBlock \/ UtxoTime
  PROVE  Tallied(past, job', s)
<1>1. /\ DOMAIN job = Fields /\ s \in Scripts /\ job.scripts = <<s>>
      /\ job.at \in {"utxo block", "utxo time"} /\ job.route = "utxo"
      /\ Settled(past, s, job.utxos, job.shown)
  BY DEF Tallying, Serving, IsJob, Stations, UtxoBlock, UtxoTime, Tallied
<1>0. DOMAIN job = Fields /\ Settled(past, s, job.utxos, job.shown)
  BY <1>1
<1>2. \A a : a # "ok" => Tallied(past, Done(job, a), s)
  BY <1>1, DoneTallied
<1>3. CASE UtxoBlock
  <2> DEFINE b == HashAt(tip, Lowest)
             k == [job EXCEPT !.at = "utxo time", !.header = b]
             n == Done(job, "ok")
  <2>1. \/ job.utxos = {} /\ job' = n
        \/ job' = Done(job, "500")
        \/ job' = k
    BY <1>3 DEF UtxoBlock, Step
  <2> HIDE DEF b
  <2>2. /\ k.at = "utxo time" /\ k.scripts = job.scripts /\ k.utxos = job.utxos
        /\ k.shown = job.shown
    BY <1>1 DEF Fields
  <2> HIDE DEF k
  <2>3. /\ n.at = "done" /\ n.scripts = job.scripts /\ n.shown = job.shown /\ n.route = job.route
    <3>1. n.at = "done" /\ \A f \in Fields \ {"at", "answer"} : n[f] = job[f]
      BY <1>0, DoneGoes
    <3>2. {"scripts", "shown", "route"} \subseteq Fields \ {"at", "answer"}
      BY DEF Fields
    <3> HIDE DEF n
    <3> QED BY <3>1, <3>2
  <2> HIDE DEF n
  <2>4. Tallied(past, k, s)
    BY <1>1, <2>2 DEF Tallied
  <2>5. job.utxos = {} => Tallied(past, n, s)
    BY <1>1, <2>3 DEF Tallied
  <2> QED BY <1>2, <2>1, <2>4, <2>5
<1>4. CASE UtxoTime
  <2> DEFINE now == { u \in job.utxos : u[1].height = Lowest }
             b == BlockTime(tip, Lowest)
             f == [u \in now |-> <<[u[1] EXCEPT !.block = job.header, !.time = b], u[2]>>]
             us == job.utxos \ now
             x == job.shown \cup { f[u] : u \in now }
             k == [job EXCEPT !.at = "utxo block", !.utxos = us, !.shown = x]
  <2>1. job' \in {Done(job, "404"), k}
    <3>1. { <<[u[1] EXCEPT !.block = job.header, !.time = b], u[2]>> : u \in now } = { f[u] : u \in now }
      OBVIOUS
    <3> QED BY <1>4, <3>1 DEF UtxoTime, Step
  <2>2. ASSUME NEW u \in now PROVE Outpoint(f[u]) = Outpoint(u)
    <3> DEFINE l == u[1]
               h == job.header
               m == [l EXCEPT !.block = h, !.time = b]
    <3>1. l \in Places
      BY DEF Tallying, Serving, Genuine, Solid
    <3> HIDE DEF l, h, b
    <3>2. m.tx = l.tx
      BY <3>1 DEF Places
    <3> HIDE DEF m
    <3>3. f[u] = <<m, u[2]>>
      BY DEF m, l, h
    <3>4. f[u][1] = m /\ f[u][2] = u[2]
      BY <3>3
    <3> HIDE DEF f
    <3> QED BY <3>2, <3>4 DEF Outpoint, l
  <2>3. now \subseteq job.utxos
    OBVIOUS
  <2> HIDE DEF now, f
  <2>4. Settled(past, s, us, x)
    BY <1>0, <2>2, <2>3, SettledMoves
  <2> HIDE DEF us, x
  <2>5. k.at = "utxo block" /\ k.scripts = job.scripts /\ k.utxos = us /\ k.shown = x
    BY <1>1 DEF Fields
  <2> HIDE DEF k
  <2>6. Tallied(past, k, s)
    BY <1>1, <2>4, <2>5 DEF Tallied
  <2> QED BY <1>2, <2>1, <2>6
<1> QED BY <1>3, <1>4

\* The stations of the other routes.
Elsewhere ==
  {"locate", "time", "pool", "get", "get chain", "prevout", "funding", "hash", "header",
   "get merkle", "headers", "spender", "refs", "check", "spent time", "page", "more", "first",
   "listing", "at height", "best", "next", "tip"}

LEMMA ElsewhereRoutes ==
  ASSUME NEW j, Stations(j), j.at \in Elsewhere, j.at # "tip"
  PROVE  j.route \notin UtxoRoutes
<1>1. \A r \in Lists \cup {"tx", "status", "merkle", "merkleblock", "outspend"} : r \notin UtxoRoutes
  BY DEF Lists, UtxoRoutes
<1>2. CASE j.at \in {"locate", "time", "pool", "prevout", "funding", "hash", "header"}
  BY <1>1, <1>2 DEF Stations
<1>3. CASE j.at \in {"get", "get chain", "get merkle", "headers"}
  BY <1>3 DEF Stations, UtxoRoutes
<1>4. CASE j.at \in {"spender", "refs", "check", "spent time"}
  BY <1>4 DEF Stations, UtxoRoutes
<1>5. CASE j.at \in {"page", "more", "first", "listing", "at height", "best", "next"}
  BY <1>5 DEF Stations, UtxoRoutes, Walks
<1> QED BY <1>2, <1>3, <1>4, <1>5 DEF Elsewhere

LEMMA ReadingWhere ==
  ASSUME Reading
  PROVE  History \/ HistoryFails \/ Mempool \/ UtxoBlock \/ UtxoTime \/ job.at \in Elsewhere
<1>1. Locate \/ FindTime \/ FindInPool \/ GetFromPool \/ GetFromChain => job.at \in Elsewhere
  BY DEF Locate, FindTime, FindInPool, GetFromPool, GetFromChain, Elsewhere
<1>2. PrevoutInPool \/ PrevoutInChain \/ BlockPosition \/ MerkleblockHeader => job.at \in Elsewhere
  BY DEF PrevoutInPool, PrevoutInChain, BlockPosition, MerkleblockHeader, Elsewhere
<1>3. GetMerkle \/ BlockHeaders \/ SpenderInPool \/ ScanRefs => job.at \in Elsewhere
  BY DEF GetMerkle, BlockHeaders, SpenderInPool, ScanRefs, Elsewhere
<1>4. CheckTip \/ SpenderTime \/ Page \/ More \/ Deadline => job.at \in Elsewhere
  BY DEF CheckTip, SpenderTime, Page, More, Deadline, Elsewhere
<1>5. FirstTip \/ ListBlock \/ BlockAtHeight => job.at \in Elsewhere
  BY DEF FirstTip, ListBlock, BlockAtHeight, Elsewhere
<1>6. InBestChain \/ NextBest \/ ReadTip => job.at \in Elsewhere
  BY DEF InBestChain, NextBest, ReadTip, Elsewhere
<1> QED BY <1>1, <1>2, <1>3, <1>4, <1>5, <1>6 DEF Reading

LEMMA ReadingTallies ==
  ASSUME Serving, past \subseteq Blocks \X Pools, Tallies(past, job), Reading
  PROVE  Tallies(past, job')
<1>1. IsJob(job) /\ job'.route = job.route
  BY ReadingGoes DEF Serving, Goes
<1>2. SUFFICES ASSUME job.route \in UtxoRoutes
               PROVE  \E s \in Scripts : Tallied(past, job', s)
  BY <1>1 DEF Tallies
<1>3. PICK s \in Scripts : Tallied(past, job, s)
  BY <1>2 DEF Tallies
<1>4. Tallying(s)
  BY <1>2, <1>3 DEF Tallying
<1>5. job.at \notin Elsewhere
  <2>1. job.at # "tip" /\ Stations(job)
    BY <1>1, <1>3 DEF Tallied, IsJob
  <2> QED BY <1>2, <2>1, ElsewhereRoutes
<1>6. HistoryFails => Tallied(past, job', s)
  <2>1. DOMAIN job = Fields /\ job.scripts = <<s>>
    BY <1>1, <1>3 DEF IsJob, Tallied
  <2>2. Tallied(past, Done(job, "reorg"), s)
    BY <2>1, DoneTallied
  <2> QED BY <2>2 DEF HistoryFails, Step
<1>7. Tallied(past, job', s)
  BY <1>4, <1>5, <1>6, ReadingWhere, HistoryTallied, MempoolTallied, UtxoTallied
<1> QED BY <1>7

\* Only requests for a list or for outputs begin in these two ways.
LEMMA ListRequests ==
  ASSUME NEW j \in Requests, j.route \in Walks \cup UtxoRoutes
  PROVE  \/ \E r \in ScriptRoutes, s \in Scripts : j = OfScripts(r, <<s>>, NoTx)
         \/ \E r \in PageRoutes : j = Plain(r, "page")
<1>1. \/ \E r \in TxRoutes, t \in Txids : j = OfTx(r, "locate", t)
      \/ \E t \in Txids : j = OfTx("get", "get", t)
      \/ \E o \in Outpoints : j = OfOutpoint(o)
      \/ \E r \in ScriptRoutes, s \in Scripts : j = OfScripts(r, <<s>>, NoTx)
      \/ \E keys, c : j = OfScripts("txs", keys, c)
      \/ \E r \in PageRoutes : j = Plain(r, "page")
      \/ \E r \in TipRoutes : j = Plain(r, "first")
      \/ \E h : j = OfHeight(h)
      \/ \E r \in BlockRoutes, k \in Blocks : j = OfBlock(r, k)
      \/ \E t, h : j = OfTxAt(t, h)
      \/ \E h, n, cp : j = OfHeaders(h, n, cp)
  BY DEF Requests, OneScript
<1>2. \A r, at : New(j, r, at) => r \in Walks \cup UtxoRoutes
  BY DEF New
<1>3. \A r \in TxRoutes \cup {"get", "txs", "headers", "outspend"} \cup TipRoutes :
        r \notin Walks \cup UtxoRoutes
  BY DEF TxRoutes, TipRoutes, Walks, UtxoRoutes
<1>4. \A r \in BlockRoutes : r \notin Walks \cup UtxoRoutes
  BY DEF BlockRoutes, Walks, UtxoRoutes
<1>5. "block height" \notin Walks \cup UtxoRoutes /\ "get merkle" \notin Walks \cup UtxoRoutes
  BY DEF Walks, UtxoRoutes
<1>6. ~\E r \in TxRoutes, t \in Txids : j = OfTx(r, "locate", t)
  <2> SUFFICES ASSUME NEW r \in TxRoutes, NEW t \in Txids, j = OfTx(r, "locate", t) PROVE FALSE
    OBVIOUS
  <2>1. New(OfTx(r, "locate", t), r, "locate")
    BY NewRequests
  <2> QED BY <1>2, <1>3, <2>1
<1>7. ~\E t \in Txids : j = OfTx("get", "get", t)
  BY <1>2, <1>3, NewRequests
<1>8. ~\E o \in Outpoints : j = OfOutpoint(o)
  BY <1>3, BlankRequests
<1>9. ~\E keys, c : j = OfScripts("txs", keys, c)
  BY <1>2, <1>3, NewRequests
<1>10. ~\E r \in TipRoutes : j = Plain(r, "first")
  BY <1>2, <1>3, NewRequests
<1>11. ~\E h : j = OfHeight(h)
  BY <1>2, <1>5, NewRequests, Zenon
<1>12. ~\E r \in BlockRoutes, k \in Blocks : j = OfBlock(r, k)
  BY <1>2, <1>4, NewRequests
<1>13. ~\E t, h : j = OfTxAt(t, h)
  BY <1>2, <1>5, NewRequests, Zenon
<1>14. ~\E h, n, cp : j = OfHeaders(h, n, cp)
  BY <1>2, <1>3, NewRequests
<1> QED BY <1>1, <1>6, <1>7, <1>8, <1>9, <1>10, <1>11, <1>12, <1>13, <1>14

LEMMA RequestsTallied ==
  ASSUME NEW j \in Requests, NEW P
  PROVE  Tallies(P, j)
<1>1. CASE j.route \notin UtxoRoutes
  BY <1>1 DEF Tallies
<1>2. CASE \E r \in ScriptRoutes, s \in Scripts : j = OfScripts(r, <<s>>, NoTx)
  <2>1. PICK r \in ScriptRoutes, s \in Scripts : j = OfScripts(r, <<s>>, NoTx)
    BY <1>2
  <2>2. New(OfScripts(r, <<s>>, NoTx), r, "history")
    BY NewRequests
  <2>3. /\ Blank(OfScripts(r, <<s>>, NoTx)) /\ OfScripts(r, <<s>>, NoTx).scripts = <<s>>
        /\ OfScripts(r, <<s>>, NoTx).keys = <<s>>
    BY BlankRequests
  <2>4. Blank(j) /\ j.scripts = <<s>> /\ j.keys = <<s>> /\ j.at = "history"
    BY <2>1, <2>2, <2>3 DEF New
  <2>5. Tallied(P, j, s)
    BY <2>4 DEF Tallied, Blank
  <2> QED BY <2>5 DEF Tallies
<1>3. CASE \E r \in PageRoutes : j = Plain(r, "page")
  <2>1. PICK r \in PageRoutes : j = Plain(r, "page")
    BY <1>3
  <2>2. New(Plain(r, "page"), r, "page")
    BY NewRequests
  <2>3. j.route \notin UtxoRoutes
    BY <2>1, <2>2 DEF New, PageRoutes, UtxoRoutes
  <2> QED BY <1>1, <2>3
<1> QED BY <1>1, <1>2, <1>3, ListRequests

LEMMA TalliesInit == Init => TalliesInv
<1> SUFFICES ASSUME Init PROVE TalliesInv
  OBVIOUS
<1>1. job = Idle /\ Idle.route = "none"
  BY DEF Init, Idle
<1>2. Tallies(past, job)
  BY <1>1 DEF Tallies, UtxoRoutes
<1> QED BY <1>2, GenuineInit DEF TalliesInv

LEMMA TalliesNext == KnowsInv /\ TalliesInv /\ [Next]_vars => TalliesInv'
<1> SUFFICES ASSUME KnowsInv, TalliesInv, [Next]_vars PROVE TalliesInv'
  OBVIOUS
<1>1. GenuineInv' /\ GenuineInv /\ Tallies(past, job)
  BY GenuineNext DEF TalliesInv
<1>2. SUFFICES Tallies(past', job')
  BY <1>1 DEF TalliesInv
<1>3. CASE UNCHANGED vars
  BY <1>1, <1>3 DEF vars
<1>4. CASE Begin
  BY <1>4, RequestsTallied DEF Begin
<1>5. CASE Answered
  <2>1. job' = Idle /\ Idle.route = "none"
    BY <1>5 DEF Answered, Idle
  <2> QED BY <2>1 DEF Tallies, UtxoRoutes
<1>6. CASE Refresh \/ Poll
  <2>1. job' = job /\ past \subseteq past'
    BY <1>6 DEF Refresh, Poll
  <2> QED BY <1>1, <2>1, TalliesGrow
<1>7. CASE Reading
  <2>1. job.at # "idle" /\ past' = past
    BY <1>1, <1>7, ReadingGoes DEF GenuineInv
  <2>2. Serving /\ past \subseteq Blocks \X Pools
    BY <1>1, <2>1 DEF Serving, GenuineInv, World
  <2> QED BY <1>1, <1>7, <2>1, <2>2, ReadingTallies
<1>8. Next => Begin \/ Answered \/ Refresh \/ Poll \/ Reading
  BY DEF Next, Reading
<1> QED BY <1>3, <1>4, <1>5, <1>6, <1>7, <1>8

LEMMA TalliesAlways == Spec => [](KnowsInv /\ TalliesInv)
<1>1. Init => KnowsInv /\ TalliesInv
  BY KnowsInit, TalliesInit
<1>2. KnowsInv /\ TalliesInv /\ [Next]_vars => (KnowsInv /\ TalliesInv)'
  BY KnowsNext, TalliesNext
<1> QED BY <1>1, <1>2, PTL DEF Spec

\* x lists what the chain to n and the mempool q leave unspent of s, each output once.
ListsExactly(n, q, s, x) ==
  /\ { Outpoint(u) : u \in x } = Unspent(Mined(n) \cup q, s)
  /\ \A u, v \in x : Outpoint(u) = Outpoint(v) => u = v

\* If no transaction of the script moved between the views, what was unspent in
\* the chain of one and the pool of another is what is unspent now.
LEMMA SteadyExact ==
  ASSUME NEW k \in Blocks, NEW n \in Blocks, NEW p, NEW q, p \subseteq Txids, q \subseteq Txids,
         NEW s, Touching(Txids, s) \cap Mined(k) = Touching(Txids, s) \cap Mined(n),
         Touching(Txids, s) \cap p = Touching(Txids, s) \cap q, NEW x, Exactly(k, p, s, {}, x)
  PROVE  ListsExactly(n, q, s, x)
<1> DEFINE S == Mined(k) \cup p
           T == Mined(n) \cup q
<1>1. S \subseteq Txids /\ T \subseteq Txids
  BY MinedFacts
<1>2. Touching(Txids, s) \cap S = Touching(Txids, s) \cap T
  OBVIOUS
<1> HIDE DEF S, T
<1>3. Unspent(S, s) = Unspent(T, s)
  BY <1>1, <1>2, UnspentSame
<1>4. {} \cup x = x
  OBVIOUS
<1>5. { Outpoint(u) : u \in x } = Unspent(S, s) /\ \A u, v \in x : Outpoint(u) = Outpoint(v) => u = v
  BY <1>4 DEF Exactly, EachOnce, S
<1> QED BY <1>3, <1>5 DEF T, ListsExactly

LEMMA TalliesExact == TalliesInv => UtxosExact
<1> SUFFICES ASSUME TalliesInv PROVE UtxosExact
  OBVIOUS
<1> DEFINE s == job.scripts[1]
           all == Touching(Txids, s)
           steady == \A v, w \in past : /\ all \cap Mined(v[1]) = all \cap Mined(w[1])
                                        /\ all \cap v[2] = all \cap w[2]
           both == all \cap Mined(tip) \cap pool
           exact == /\ { Outpoint(u) : u \in job.shown } = Unspent(Mined(tip) \cup pool, s)
                    /\ \A u, v \in job.shown : Outpoint(u) = Outpoint(v) => u = v
<1>1. UtxosExact <=>
        /\ Answers("utxo", "ok") /\ ~reorged /\ steady /\ both = {} => exact
        /\ Answers("listunspent", "ok") /\ ~reorged /\ steady => exact
  BY Zenon DEF UtxosExact
<1>2. ASSUME job.route \in UtxoRoutes, job.at = "done", job.answer = "ok", steady,
             job.route = "utxo" => both = {}
      PROVE  exact
  <2>1. PICK r \in Scripts : Tallied(past, job, r)
    BY <1>2 DEF TalliesInv, Tallies
  <2>2. r = s
    <3>1. job.scripts = <<r>>
      BY <2>1 DEF Tallied
    <3> QED BY <3>1
  <2>3. /\ job.route = "utxo" => Settled(past, s, {}, job.shown)
        /\ job.route # "utxo" => SettledOnce(past, s, job.shown)
    <3> HIDE DEF s
    <3> QED BY <1>2, <2>1, <2>2 DEF Tallied
  <2>4. PICK v \in past, w \in past :
          \/ job.route = "utxo" /\ Twice(v[1], w[2], s)
          \/ Exactly(v[1], w[2], s, {}, job.shown)
    <3> HIDE DEF s
    <3> QED BY <2>3 DEF Settled, SettledOnce
  <2>5. /\ past \subseteq Blocks \X Pools /\ <<tip, pool>> \in past
        /\ tip \in Blocks /\ pool \in Pools
    BY <1>2 DEF TalliesInv, GenuineInv, World
  <2>6. v[1] \in Blocks /\ w[2] \subseteq Txids /\ pool \subseteq Txids
    <3>1. v \in Blocks \X Pools /\ w \in Blocks \X Pools
      BY <2>5
    <3> QED BY <2>5, <3>1, PoolTxids
  <2>7. all \cap Mined(v[1]) = all \cap Mined(tip) /\ all \cap w[2] = all \cap pool
    <3>1. <<tip, pool>>[1] = tip /\ <<tip, pool>>[2] = pool
      OBVIOUS
    <3> HIDE DEF all
    <3> QED BY <1>2, <2>5, <3>1
  <2> HIDE DEF s
  <2>8. ASSUME job.route = "utxo", Twice(v[1], w[2], s) PROVE FALSE
    <3>1. both = {}
      BY <1>2, <2>8
    <3>2. all \cap Mined(v[1]) \cap w[2] = both
      <4> HIDE DEF all
      <4> QED BY <2>7
    <3>3. all \cap Mined(v[1]) \cap w[2] # {}
      BY <2>8 DEF Twice
    <3> HIDE DEF all, both
    <3> QED BY <3>1, <3>2, <3>3
  <2>9. Exactly(v[1], w[2], s, {}, job.shown)
    BY <2>4, <2>8
  <2> DEFINE k == v[1]
             p == w[2]
             x == job.shown
  <2>10. k \in Blocks /\ p \subseteq Txids /\ Exactly(k, p, s, {}, x)
    BY <2>6, <2>9
  <2>11. /\ Touching(Txids, s) \cap Mined(k) = Touching(Txids, s) \cap Mined(tip)
         /\ Touching(Txids, s) \cap p = Touching(Txids, s) \cap pool
    BY <2>7
  <2>12. ListsExactly(tip, pool, s, x)
    <3> HIDE DEF k, p, x, all
    <3> QED BY <2>5, <2>6, <2>10, <2>11, SteadyExact
  <2> QED BY <2>12 DEF ListsExactly
<1> HIDE DEF steady, both, exact
<1>3. /\ Answers("utxo", "ok") => job.at = "done" /\ job.route = "utxo" /\ job.answer = "ok"
      /\ Answers("listunspent", "ok") =>
           job.at = "done" /\ job.route = "listunspent" /\ job.answer = "ok"
  BY DEF Answers
<1> QED BY <1>1, <1>2, <1>3 DEF UtxoRoutes

\* If no transaction of a script moved during the request, utxo and listunspent
\* list exactly what chain and mempool leave unspent of the script, each output
\* once, for any tree of blocks, any mempools and any refreshes and polls between
\* the reads: the confirmed outputs that the mempool does not spend, and those of
\* mempool transactions that are not spent there, though the mempool may still
\* have what is mined (listunspent) and the blocks and times of the outputs are
\* read one after the other (utxo).
THEOREM UtxosStayExact == Spec => []UtxosExact
BY TalliesAlways, TalliesExact, PTL

-----------------------------------------------------------------------------
(* Walks through pages *)

\* R is a strict order.
Ordering(R) ==
  /\ \A a, b, c : <<a, b>> \in R /\ <<b, c>> \in R => <<a, c>> \in R
  /\ \A a : <<a, a>> \notin R

LEMMA SetOf ==
  ASSUME NEW T, NEW q \in Seq(T)
  PROVE  /\ \A t : t \in Seqs!ToSet(q) <=> \E i \in 1..Len(q) : q[i] = t
         /\ Seqs!ToSet(q) \subseteq T
BY DEF Seqs!ToSet

LEMMA InTurnOnce ==
  ASSUME NEW R, Ordering(R), NEW T, NEW q \in Seq(T), InTurn(R, q)
  PROVE  \A i, n \in 1..Len(q) : q[i] = q[n] => i = n
<1> SUFFICES ASSUME NEW i \in 1..Len(q), NEW n \in 1..Len(q), q[i] = q[n], i # n PROVE FALSE
  OBVIOUS
<1>1. i < n \/ n < i
  OBVIOUS
<1>2. DOMAIN q = 1..Len(q)
  OBVIOUS
<1>3. <<q[i], q[i]>> \in R
  BY <1>1, <1>2 DEF InTurn
<1> QED BY <1>3 DEF Ordering

LEMMA ConcatFacts ==
  ASSUME NEW T, NEW q \in Seq(T), NEW r \in Seq(T)
  PROVE  /\ q \o r \in Seq(T) /\ Len(q \o r) = Len(q) + Len(r)
         /\ \A i \in 1..Len(q) : (q \o r)[i] = q[i]
         /\ \A i \in 1..Len(r) : (q \o r)[Len(q) + i] = r[i]
         /\ \A i \in 1..(Len(q) + Len(r)) :
              i \in 1..Len(q) \/ \E n \in 1..Len(r) : i = Len(q) + n
<1>1. /\ q \o r \in Seq(T) /\ Len(q \o r) = Len(q) + Len(r)
      /\ \A i \in 1..Len(q) : (q \o r)[i] = q[i]
      /\ \A i \in 1..Len(r) : (q \o r)[Len(q) + i] = r[i]
  OBVIOUS
<1>2. \A i \in 1..(Len(q) + Len(r)) :
        i \in 1..Len(q) \/ \E n \in 1..Len(r) : i = Len(q) + n
  <2> SUFFICES ASSUME NEW i \in 1..(Len(q) + Len(r)), i \notin 1..Len(q)
               PROVE  \E n \in 1..Len(r) : i = Len(q) + n
    OBVIOUS
  <2>1. i - Len(q) \in 1..Len(r) /\ i = Len(q) + (i - Len(q))
    OBVIOUS
  <2> QED BY <2>1
<1> QED BY <1>1, <1>2, Zenon

\* The same, of a sequence with a name.
Joined(q, r, c) ==
  /\ Len(c) = Len(q) + Len(r)
  /\ \A i \in 1..Len(q) : c[i] = q[i]
  /\ \A i \in 1..Len(r) : c[Len(q) + i] = r[i]
  /\ \A i \in 1..(Len(q) + Len(r)) :
       i \in 1..Len(q) \/ \E n \in 1..Len(r) : i = Len(q) + n

LEMMA ConcatJoined ==
  ASSUME NEW T, NEW q \in Seq(T), NEW r \in Seq(T), NEW c, c = q \o r
  PROVE  c \in Seq(T) /\ Joined(q, r, c)
<1>1. /\ q \o r \in Seq(T) /\ Len(q \o r) = Len(q) + Len(r)
      /\ \A i \in 1..Len(q) : (q \o r)[i] = q[i]
      /\ \A i \in 1..Len(r) : (q \o r)[Len(q) + i] = r[i]
      /\ \A i \in 1..(Len(q) + Len(r)) :
           i \in 1..Len(q) \/ \E n \in 1..Len(r) : i = Len(q) + n
  BY ConcatFacts, Zenon
<1>2. q \o r \in Seq(T) /\ Joined(q, r, q \o r)
  BY <1>1, Zenon DEF Joined
<1> QED BY <1>2, Zenon

LEMMA ConcatSet ==
  ASSUME NEW T, NEW q \in Seq(T), NEW r \in Seq(T)
  PROVE  Seqs!ToSet(q \o r) = Seqs!ToSet(q) \cup Seqs!ToSet(r)
<1> DEFINE c == q \o r
<1>1. /\ c \in Seq(T) /\ Len(c) = Len(q) + Len(r) /\ Len(q) \in Nat /\ Len(r) \in Nat
      /\ \A i \in 1..Len(q) : c[i] = q[i]
      /\ \A i \in 1..Len(r) : c[Len(q) + i] = r[i]
      /\ \A i \in 1..(Len(q) + Len(r)) :
           i \in 1..Len(q) \/ \E n \in 1..Len(r) : i = Len(q) + n
  BY ConcatFacts
<1> HIDE DEF c
<1>2. ASSUME NEW t \in Seqs!ToSet(c) PROVE t \in Seqs!ToSet(q) \cup Seqs!ToSet(r)
  <2>1. PICK i \in 1..Len(c) : c[i] = t
    BY <1>1, SetOf
  <2>2. CASE i \in 1..Len(q)
    BY <1>1, <2>1, <2>2, SetOf
  <2>3. CASE i \notin 1..Len(q)
    <3>1. PICK n \in 1..Len(r) : i = Len(q) + n
      BY <1>1, <2>1, <2>3
    <3>2. r[n] = t
      BY <1>1, <2>1, <3>1
    <3> QED BY <3>2, SetOf
  <2> QED BY <2>2, <2>3
<1>3. ASSUME NEW t \in Seqs!ToSet(q) PROVE t \in Seqs!ToSet(c)
  <2>1. PICK i \in 1..Len(q) : q[i] = t
    BY SetOf
  <2>2. i \in 1..Len(c) /\ c[i] = t
    BY <1>1, <2>1
  <2> QED BY <1>1, <2>2, SetOf
<1>4. ASSUME NEW t \in Seqs!ToSet(r) PROVE t \in Seqs!ToSet(c)
  <2>1. PICK i \in 1..Len(r) : r[i] = t
    BY SetOf
  <2>2. Len(q) + i \in 1..Len(c) /\ c[Len(q) + i] = t
    BY <1>1, <2>1
  <2> QED BY <1>1, <2>2, SetOf
<1>5. Seqs!ToSet(c) = Seqs!ToSet(q) \cup Seqs!ToSet(r)
  BY <1>2, <1>3, <1>4
<1> QED BY <1>5 DEF c

\* What is behind the last of a list is behind all of it.
LEMMA BehindAll ==
  ASSUME NEW R, Ordering(R), NEW T, NEW q \in Seq(T), InTurn(R, q), NEW t, Behind(R, q, t)
  PROVE  \A i \in 1..Len(q) : <<q[i], t>> \in R
<1> SUFFICES ASSUME NEW i \in 1..Len(q) PROVE <<q[i], t>> \in R
  OBVIOUS
<1>1. q # <<>> /\ Len(q) \in 1..Len(q) /\ DOMAIN q = 1..Len(q)
  OBVIOUS
<1>2. <<q[Len(q)], t>> \in R
  BY <1>1 DEF Behind
<1>3. CASE i = Len(q)
  BY <1>2, <1>3
<1>4. CASE i # Len(q)
  <2>1. i < Len(q)
    BY <1>4
  <2>2. <<q[i], q[Len(q)]>> \in R
    BY <1>1, <2>1 DEF InTurn
  <2> QED BY <1>2, <2>2 DEF Ordering
<1> QED BY <1>3, <1>4

LEMMA ConcatInTurn ==
  ASSUME NEW R, Ordering(R), NEW T, NEW q \in Seq(T), NEW r \in Seq(T),
         InTurn(R, q), InTurn(R, r), \A t \in Seqs!ToSet(r) : Behind(R, q, t)
  PROVE  InTurn(R, q \o r)
<1> DEFINE c == q \o r
<1>1. /\ c \in Seq(T) /\ Len(c) = Len(q) + Len(r) /\ Len(q) \in Nat /\ Len(r) \in Nat
      /\ \A i \in 1..Len(q) : c[i] = q[i]
      /\ \A i \in 1..Len(r) : c[Len(q) + i] = r[i]
      /\ \A i \in 1..(Len(q) + Len(r)) :
           i \in 1..Len(q) \/ \E n \in 1..Len(r) : i = Len(q) + n
  BY ConcatFacts
<1> HIDE DEF c
<1>2. DOMAIN c = 1..(Len(q) + Len(r)) /\ DOMAIN q = 1..Len(q) /\ DOMAIN r = 1..Len(r)
  BY <1>1
<1>3. ASSUME NEW i \in DOMAIN c, NEW n \in DOMAIN c, i < n PROVE <<c[i], c[n]>> \in R
  <2>1. CASE n \in 1..Len(q)
    <3>1. i \in 1..Len(q)
      BY <1>1, <1>2, <1>3, <2>1
    <3> QED BY <1>1, <1>2, <1>3, <2>1, <3>1 DEF InTurn
  <2>2. CASE n \notin 1..Len(q)
    <3>1. PICK m \in 1..Len(r) : n = Len(q) + m
      BY <1>1, <1>2, <2>2
    <3>2. c[n] = r[m] /\ r[m] \in Seqs!ToSet(r)
      BY <1>1, <3>1, SetOf
    <3>3. CASE i \in 1..Len(q)
      <4>1. <<q[i], r[m]>> \in R
        BY <3>2, <3>3, BehindAll
      <4> QED BY <1>1, <3>2, <3>3, <4>1
    <3>4. CASE i \notin 1..Len(q)
      <4>1. PICK h \in 1..Len(r) : i = Len(q) + h
        BY <1>1, <1>2, <3>4
      <4>2. h < m /\ c[i] = r[h]
        BY <1>1, <1>3, <3>1, <4>1
      <4> QED BY <1>2, <3>2, <4>2 DEF InTurn
    <3> QED BY <3>3, <3>4
  <2> QED BY <2>1, <2>2
<1>4. InTurn(R, c)
  BY <1>3 DEF InTurn
<1> QED BY <1>4 DEF c

\* A page is as much of what is left as the limit allows.
PageOf(rest) == SubSeq(rest, 1, Sets!Min({Len(rest), PageLimit}))

LEMMA PageOfFacts ==
  ASSUME NEW T, NEW rest \in Seq(T)
  PROVE  /\ PageOf(rest) \in Seq(T) /\ Len(PageOf(rest)) <= Len(rest)
         /\ \A i \in 1..Len(PageOf(rest)) : PageOf(rest)[i] = rest[i]
         /\ Len(PageOf(rest)) = 0 => Len(rest) = 0
<1>1. Len(rest) \in Nat /\ PageLimit \in Nat /\ PageLimit > 0
  BY QueriesAssumption DEF QueriesAssumption
<1> DEFINE n == Len(rest)
           m == Sets!Min({n, PageLimit})
           page == SubSeq(rest, 1, m)
<1>2. m \in {n, PageLimit} /\ m <= n /\ m <= PageLimit
  <2> HIDE DEF n
  <2>1. n \in Int /\ PageLimit \in Int
    BY <1>1 DEF n
  <2> QED BY <2>1, MinOfTwo
<1>3. PageOf(rest) = page
  BY DEF PageOf
<1> HIDE DEF m
<1>4. m \in Nat /\ m <= Len(rest) /\ (m = 0 => Len(rest) = 0)
  BY <1>1, <1>2
<1>5. page \in Seq(T) /\ Len(page) = m /\ \A i \in 1..m : page[i] = rest[i]
  BY <1>4
<1> HIDE DEF page
<1> QED BY <1>3, <1>4, <1>5

\* Of A, what q does not list is in rest, which is in turn behind it.
Leaves(R, T, A, q, rest) ==
  /\ Ordering(R) /\ q \in Seq(T) /\ rest \in Seq(T) /\ InTurn(R, q) /\ InTurn(R, rest)
  /\ \A t \in Seqs!ToSet(rest) : Behind(R, q, t)
  /\ A \subseteq Seqs!ToSet(q) \cup Seqs!ToSet(rest)

Adds(R, T, A, q, rest, page) ==
  /\ page \in Seq(T) /\ Seqs!ToSet(page) \subseteq Seqs!ToSet(rest)
  /\ page = <<>> <=> rest = <<>>
  /\ InTurn(R, q \o page) /\ Reaches(R, A, q \o page)
  /\ page = <<>> => A \subseteq Seqs!ToSet(q)

\* A page: the first few of what is left, in their turn behind what was listed.
LEMMA PageTurned ==
  ASSUME NEW R, NEW T, NEW A, NEW q, NEW rest, Leaves(R, T, A, q, rest)
  PROVE  Adds(R, T, A, q, rest, PageOf(rest))
<1> DEFINE page == PageOf(rest)
<1>0. /\ Ordering(R) /\ q \in Seq(T) /\ rest \in Seq(T) /\ InTurn(R, q) /\ InTurn(R, rest)
      /\ \A t \in Seqs!ToSet(rest) : Behind(R, q, t)
      /\ A \subseteq Seqs!ToSet(q) \cup Seqs!ToSet(rest)
  BY DEF Leaves
<1> DEFINE n == Len(rest)
           m == Len(page)
<1>1. page \in Seq(T) /\ m <= n /\ (\A i \in 1..m : page[i] = rest[i]) /\ (m = 0 => n = 0)
  BY <1>0, PageOfFacts
<1> HIDE DEF page
<1>2. n \in Nat /\ m \in Nat
  BY <1>0, <1>1
<1>6. page = <<>> <=> rest = <<>>
  <2>1. page = <<>> <=> m = 0
    BY <1>0, <1>1, <1>2
  <2>2. rest = <<>> <=> n = 0
    BY <1>0, <1>2
  <2>3. m = 0 <=> n = 0
    BY <1>0, <1>1, <1>2
  <2> QED BY <2>1, <2>2, <2>3
<1>7. Seqs!ToSet(page) \subseteq Seqs!ToSet(rest)
  <2> SUFFICES ASSUME NEW t \in Seqs!ToSet(page) PROVE t \in Seqs!ToSet(rest)
    OBVIOUS
  <2>1. PICK i \in 1..Len(page) : page[i] = t
    BY <1>0, <1>1, SetOf
  <2>2. i \in 1..n /\ rest[i] = t
    BY <1>0, <1>1, <1>2, <2>1
  <2> QED BY <1>0, <2>2, SetOf
<1>8. DOMAIN page = 1..m /\ DOMAIN rest = 1..Len(rest)
  BY <1>0, <1>1
<1>9. InTurn(R, page)
  <2>1. \A i \in 1..m : i \in 1..Len(rest)
    BY <1>0, <1>1, <1>2
  <2> QED BY <1>0, <1>1, <1>8, <2>1 DEF InTurn
<1>10. InTurn(R, q \o page)
  BY <1>0, <1>1, <1>7, <1>9, ConcatInTurn
<1>11. page = <<>> => A \subseteq Seqs!ToSet(q)
  <2>1. rest = <<>> => Seqs!ToSet(rest) = {}
    BY DEF Seqs!ToSet
  <2> QED BY <1>0, <1>6, <2>1
<1>12. ASSUME NEW t \in A
       PROVE  t \in Seqs!ToSet(q \o page) \/ Behind(R, q \o page, t)
  <2>1. CASE t \in Seqs!ToSet(q) \cup Seqs!ToSet(page)
    BY <1>0, <1>1, <2>1, ConcatSet
  <2>2. CASE t \notin Seqs!ToSet(q) \cup Seqs!ToSet(page)
    <3>1. PICK i \in 1..Len(rest) : rest[i] = t
      BY <1>0, <2>2, SetOf
    <3>2. ASSUME i \in 1..m PROVE FALSE
      <4>1. i \in 1..Len(page) /\ page[i] = t
        BY <1>0, <1>1, <3>1, <3>2
      <4> QED BY <1>0, <1>1, <2>2, <4>1, SetOf
    <3>3. m < i /\ m \in 1..Len(rest) /\ m \in 1..m
      BY <1>0, <1>1, <1>2, <3>1, <3>2
    <3>4. <<page[m], t>> \in R
      BY <1>0, <1>1, <1>8, <3>1, <3>3 DEF InTurn
    <3>5. Len(q \o page) = Len(q) + m /\ (q \o page)[Len(q) + m] = page[m]
      BY <1>0, <1>1, <3>3, ConcatFacts
    <3> QED BY <3>4, <3>5 DEF Behind
  <2> QED BY <2>1, <2>2
<1> QED BY <1>0, <1>1, <1>6, <1>7, <1>10, <1>11, <1>12 DEF Reaches, Adds, page

\* The txids are as many as their order has places: each has one.
LEMMA OrderFacts ==
  /\ IsFiniteSet(Txids) /\ Order \in Seq(Txids)
  /\ \A t \in Txids : \E i \in 1..Len(Order) : Order[i] = t
  /\ \A i, n \in 1..Len(Order) : Order[i] = Order[n] => i = n
<1> DEFINE D == 1..Len(Order)
<1>1. Order \in Seq(Txids) /\ Seqs!ToSet(Order) = Txids /\ Len(Order) = Cardinality(Txids)
  BY QueriesAssumption DEF QueriesAssumption
<1>2. \A t \in Txids : \E i \in 1..Len(Order) : Order[i] = t
  BY <1>1, SetOf
<1>3. Order \in [D -> Txids] /\ Len(Order) \in Nat
  BY <1>1
<1>4. IsFiniteSet(D) /\ Cardinality(D) = Len(Order)
  <2>1. 1 \in Int /\ Len(Order) \in Int
    BY <1>3
  <2>2. IsFiniteSet(D) /\ Cardinality(D) = IF 1 > Len(Order) THEN 0 ELSE Len(Order) - 1 + 1
    BY <2>1, FS_Interval
  <2> QED BY <1>3, <2>2
<1>5. Order \in Surjection(D, Txids)
  BY <1>2, <1>3 DEF Surjection
<1> HIDE DEF D
<1>6. IsFiniteSet(Txids) /\ Order \in Injection(D, Txids)
  BY <1>1, <1>4, <1>5, FS_Surjection
<1>7. \A i, n \in D : Order[i] = Order[n] => i = n
  BY <1>6 DEF Injection, IsInjective
<1> QED BY <1>1, <1>2, <1>6, <1>7 DEF D

LEMMA ArrivalsOrder ==
  /\ Ordering(Arrivals) /\ InTurn(Arrivals, Order)
  /\ \A i, n \in 1..Len(Order) : <<Order[i], Order[n]>> \in Arrivals => i < n
<1>1. Order \in Seq(Txids) /\ DOMAIN Order = 1..Len(Order)
  BY OrderFacts
<1>2. ASSUME NEW a, NEW b, <<a, b>> \in Arrivals
      PROVE  \E i, n \in DOMAIN Order : i < n /\ Order[i] = a /\ Order[n] = b
  <2>1. PICK i \in DOMAIN Order, n \in DOMAIN Order : i < n /\ <<a, b>> = <<Order[i], Order[n]>>
    BY <1>2 DEF Arrivals
  <2> QED BY <2>1
<1>3. ASSUME NEW i \in DOMAIN Order, NEW n \in DOMAIN Order, i < n
      PROVE  <<Order[i], Order[n]>> \in Arrivals
  <2>1. <<Order[i], Order[n]>> \in Txids \X Txids
    BY <1>1
  <2> QED BY <1>3, <2>1 DEF Arrivals
<1>4. InTurn(Arrivals, Order)
  BY <1>3 DEF InTurn
<1>5. \A i, n \in DOMAIN Order : Order[i] = Order[n] => i = n
  BY <1>1, OrderFacts
<1>6. ASSUME NEW i \in DOMAIN Order, NEW n \in DOMAIN Order, <<Order[i], Order[n]>> \in Arrivals
      PROVE  i < n
  BY <1>2, <1>5, <1>6
<1>7. ASSUME NEW a, NEW b, NEW c, <<a, b>> \in Arrivals, <<b, c>> \in Arrivals
      PROVE  <<a, c>> \in Arrivals
  <2>1. PICK i \in DOMAIN Order, n \in DOMAIN Order : i < n /\ Order[i] = a /\ Order[n] = b
    BY <1>2, <1>7
  <2>2. PICK m \in DOMAIN Order, h \in DOMAIN Order : m < h /\ Order[m] = b /\ Order[h] = c
    BY <1>2, <1>7
  <2>3. n = m
    BY <1>5, <2>1, <2>2
  <2>4. i < h
    BY <1>1, <2>1, <2>2, <2>3
  <2> QED BY <1>3, <2>1, <2>2, <2>4
<1>8. ASSUME NEW a, <<a, a>> \in Arrivals PROVE FALSE
  <2>1. PICK i \in DOMAIN Order, n \in DOMAIN Order : i < n /\ Order[i] = a /\ Order[n] = a
    BY <1>2, <1>8
  <2>2. i = n
    BY <1>5, <2>1
  <2> QED BY <1>1, <2>1, <2>2
<1>9. Ordering(Arrivals)
  BY <1>7, <1>8 DEF Ordering
<1> QED BY <1>1, <1>4, <1>6, <1>9

LEMMA AfterFacts ==
  ASSUME NEW R, Ordering(R), NEW T, NEW q \in Seq(T), InTurn(R, q), NEW c \in Seqs!ToSet(q)
  PROVE  /\ After(q, c) \in Seq(T) /\ InTurn(R, After(q, c))
         /\ \A t : t \in Seqs!ToSet(After(q, c)) <=> t \in Seqs!ToSet(q) /\ <<c, t>> \in R
<1> DEFINE i == CHOOSE n \in DOMAIN q : q[n] = c
           r == SubSeq(q, i + 1, Len(q))
<1>1. After(q, c) = r
  BY DEF After
<1>2. DOMAIN q = 1..Len(q) /\ Len(q) \in Nat
  OBVIOUS
<1>3. i \in 1..Len(q) /\ q[i] = c
  <2>1. \E n \in DOMAIN q : q[n] = c
    BY <1>2, SetOf
  <2> QED BY <1>2, <2>1
<1> HIDE DEF i
<1>4. /\ r \in Seq(T) /\ Len(r) = Len(q) - i
      /\ \A n \in 1..(Len(q) - i) : r[n] = q[n + i]
  <2> DEFINE a == i + 1
             b == Len(q)
  <2>1. a \in 1..(b + 1) /\ b \in Nat /\ (b + 1) - a = Len(q) - i
    BY <1>2, <1>3
  <2>2. r = SubSeq(q, a, b)
    OBVIOUS
  <2>3. \A n \in 1..(Len(q) - i) : (a + n) - 1 = n + i
    BY <1>2, <1>3
  <2> HIDE DEF a, r
  <2>4. Len(r) = IF a <= b THEN (b + 1) - a ELSE 0
    BY <2>1, <2>2
  <2>5. Len(r) = Len(q) - i
    BY <2>1, <2>4
  <2>6. \A n \in a..b : q[n] \in T
    BY <2>1
  <2>7. r \in Seq(T)
    BY <2>1, <2>2, <2>6
  <2>8. \A n \in 1..Len(r) : r[n] = q[(a + n) - 1]
    BY <2>1, <2>2
  <2> QED BY <2>3, <2>5, <2>7, <2>8
<1> HIDE DEF r
<1>5. InTurn(R, r)
  <2> SUFFICES ASSUME NEW m \in DOMAIN r, NEW n \in DOMAIN r, m < n PROVE <<r[m], r[n]>> \in R
    BY DEF InTurn
  <2>1. m \in 1..(Len(q) - i) /\ n \in 1..(Len(q) - i)
    BY <1>4
  <2>2. m + i \in DOMAIN q /\ n + i \in DOMAIN q /\ m + i < n + i
    BY <1>2, <1>3, <2>1
  <2> QED BY <1>4, <2>1, <2>2 DEF InTurn
<1>6. ASSUME NEW t \in Seqs!ToSet(r) PROVE t \in Seqs!ToSet(q) /\ <<c, t>> \in R
  <2>1. PICK n \in 1..Len(r) : r[n] = t
    BY <1>4, SetOf
  <2>2. n + i \in 1..Len(q) /\ i < n + i /\ q[n + i] = t
    BY <1>2, <1>3, <1>4, <2>1
  <2> QED BY <1>2, <1>3, <2>2, SetOf DEF InTurn
<1>7. ASSUME NEW t \in Seqs!ToSet(q), <<c, t>> \in R PROVE t \in Seqs!ToSet(r)
  <2>1. PICK n \in 1..Len(q) : q[n] = t
    BY SetOf
  <2>2. ASSUME n <= i PROVE FALSE
    <3>1. n = i \/ n < i
      BY <1>3, <2>2
    <3>2. n < i => <<t, c>> \in R
      BY <1>2, <1>3, <2>1 DEF InTurn
    <3> QED BY <1>3, <1>7, <2>1, <3>1, <3>2 DEF Ordering
  <2>3. n - i \in 1..(Len(q) - i) /\ (n - i) + i = n
    BY <1>2, <1>3, <2>1, <2>2
  <2>4. n - i \in 1..Len(r) /\ r[n - i] = t
    BY <1>4, <2>1, <2>3
  <2> QED BY <1>4, <2>4, SetOf
<1> QED BY <1>1, <1>4, <1>5, <1>6, <1>7

\* r is what the first k values of q have in S, in their turn.
Taken(R, T, q, S, r, k) ==
  /\ r \in Seq(T) /\ InTurn(R, r)
  /\ \A t : t \in Seqs!ToSet(r) <=> t \in S /\ \E i \in 1..k : q[i] = t

LEMMA TakenNext ==
  ASSUME NEW R, NEW T, NEW q \in Seq(T), InTurn(R, q), NEW S, NEW k \in 1..Len(q), q[k] \in S,
         NEW r, Taken(R, T, q, S, r, k - 1)
  PROVE  Taken(R, T, q, S, Append(r, q[k]), k)
<1> DEFINE z == q[k]
           a == Append(r, z)
           m == Len(r)
<1>1. r \in Seq(T) /\ z \in T /\ m \in Nat /\ k \in Nat /\ DOMAIN q = 1..Len(q)
  BY DEF Taken
<1> HIDE DEF z
<1>2. /\ a \in Seq(T) /\ Len(a) = m + 1 /\ a[m + 1] = z /\ \A i \in 1..m : a[i] = r[i]
  BY <1>1
<1> HIDE DEF a
<1>3. \A i \in 1..(m + 1) : i = m + 1 \/ i \in 1..m
  BY <1>1
<1>4. \A i \in 1..k : i = k \/ i \in 1..(k - 1)
  BY <1>1
<1>5. ASSUME NEW i \in 1..m PROVE <<r[i], z>> \in R
  <2>1. r[i] \in Seqs!ToSet(r)
    BY <1>1, SetOf
  <2>2. PICK n \in 1..(k - 1) : q[n] = r[i]
    BY <2>1 DEF Taken
  <2>3. n \in DOMAIN q /\ k \in DOMAIN q /\ n < k
    BY <1>1
  <2> QED BY <2>2, <2>3 DEF InTurn, z
<1>6. InTurn(R, a)
  <2> SUFFICES ASSUME NEW i \in DOMAIN a, NEW n \in DOMAIN a, i < n PROVE <<a[i], a[n]>> \in R
    BY DEF InTurn
  <2>1. i \in 1..(m + 1) /\ n \in 1..(m + 1) /\ i \in 1..m
    BY <1>1, <1>2
  <2>2. CASE n = m + 1
    BY <1>2, <1>5, <2>1, <2>2
  <2>3. CASE n \in 1..m
    <3>1. <<r[i], r[n]>> \in R
      BY <1>1, <2>1, <2>3 DEF Taken, InTurn
    <3> QED BY <1>2, <2>1, <2>3, <3>1
  <2> QED BY <1>3, <2>1, <2>2, <2>3
<1>7. ASSUME NEW t \in Seqs!ToSet(a) PROVE t \in S /\ \E i \in 1..k : q[i] = t
  <2>1. PICK n \in 1..(m + 1) : a[n] = t
    BY <1>2, SetOf
  <2>2. CASE n = m + 1
    BY <1>1, <1>2, <2>1, <2>2 DEF z
  <2>3. CASE n \in 1..m
    <3>1. t \in Seqs!ToSet(r)
      BY <1>1, <1>2, <2>1, <2>3, SetOf
    <3>2. t \in S /\ \E i \in 1..(k - 1) : q[i] = t
      BY <3>1 DEF Taken
    <3> QED BY <1>1, <3>2
  <2> QED BY <1>3, <2>2, <2>3
<1>8. ASSUME NEW t \in S, NEW i \in 1..k, q[i] = t PROVE t \in Seqs!ToSet(a)
  <2>1. CASE i = k
    <3>1. m + 1 \in 1..Len(a) /\ a[m + 1] = t
      BY <1>1, <1>2, <1>8, <2>1 DEF z
    <3> QED BY <1>2, <3>1, SetOf
  <2>2. CASE i \in 1..(k - 1)
    <3>1. t \in Seqs!ToSet(r)
      BY <1>8, <2>2 DEF Taken
    <3>2. PICK n \in 1..m : r[n] = t
      BY <1>1, <3>1, SetOf
    <3>3. n \in 1..Len(a) /\ a[n] = t
      BY <1>1, <1>2, <3>2
    <3> QED BY <1>2, <3>3, SetOf
  <2> QED BY <1>4, <2>1, <2>2
<1>9. Taken(R, T, q, S, a, k)
  BY <1>2, <1>6, <1>7, <1>8 DEF Taken
<1> QED BY <1>9 DEF a, z

\* Only keeps the turn.
LEMMA OnlyInTurn ==
  ASSUME NEW R, NEW T, NEW q \in Seq(T), InTurn(R, q), NEW S
  PROVE  Taken(R, T, q, S, Only(q, S), Len(q))
<1>1. Len(q) \in Nat
  OBVIOUS
<1>2. PICK f : f = (CHOOSE g : Takes(g, q, S, Len(q))) /\ Takes(f, q, S, Len(q))
  BY <1>1, TakesExist
<1>3. Only(q, S) = f[Len(q)]
  <2>1. Only(q, S) = LET g == CHOOSE g : Takes(g, q, S, Len(q)) IN g[Len(q)]
    BY DEF Only, Takes
  <2> QED BY <1>2, <2>1
<1> DEFINE bad == {k \in 0..Len(q) : ~Taken(R, T, q, S, f[k], k)}
<1>4. SUFFICES ASSUME bad # {} PROVE FALSE
  BY <1>1, <1>3
<1>5. PICK k \in bad : \A i \in bad : k <= i
  <2>1. bad \subseteq Nat
    BY <1>1
  <2> HIDE DEF bad
  <2> QED BY <1>4, <2>1, LeastNumber
<1>6. k \in 0..Len(q) /\ ~Taken(R, T, q, S, f[k], k)
  OBVIOUS
<1>7. f[k] = IF k = 0 THEN <<>>
             ELSE IF q[k] \in S THEN Append(f[k - 1], q[k]) ELSE f[k - 1]
  BY <1>1, <1>2, <1>6, TakesAt
<1>8. CASE k = 0
  <2>1. f[k] = <<>>
    BY <1>7, <1>8
  <2>2. <<>> \in Seq(T) /\ InTurn(R, <<>>) /\ Seqs!ToSet(<<>>) = {}
    BY DEF InTurn, Seqs!ToSet
  <2>3. Taken(R, T, q, S, <<>>, 0)
    BY <2>2 DEF Taken
  <2> QED BY <1>6, <1>8, <2>1, <2>3
<1>9. CASE k # 0
  <2>1. k \in 1..Len(q) /\ k - 1 \in 0..Len(q) /\ k - 1 < k
    BY <1>1, <1>6, <1>9
  <2>2. k - 1 \notin bad
    <3> HIDE DEF bad
    <3> QED BY <1>1, <1>5, <1>6, <2>1
  <2>3. Taken(R, T, q, S, f[k - 1], k - 1)
    BY <2>1, <2>2
  <2>4. CASE q[k] \in S
    <3>1. Taken(R, T, q, S, Append(f[k - 1], q[k]), k)
      BY <2>1, <2>3, <2>4, TakenNext
    <3> QED BY <1>6, <1>7, <1>9, <2>4, <3>1
  <2>5. CASE q[k] \notin S
    <3>1. \A i \in 1..k : i = k \/ i \in 1..(k - 1)
      BY <1>1, <2>1
    <3>2. \A i \in 1..(k - 1) : i \in 1..k
      BY <1>1, <2>1
    <3>3. Taken(R, T, q, S, f[k - 1], k)
      BY <2>3, <2>5, <3>1, <3>2 DEF Taken
    <3> QED BY <1>6, <1>7, <1>9, <2>5, <3>3
  <2> QED BY <2>4, <2>5
<1> QED BY <1>8, <1>9

LEMMA OnlySet ==
  ASSUME NEW R, NEW T, NEW q \in Seq(T), InTurn(R, q), NEW S
  PROVE  /\ Only(q, S) \in Seq(T) /\ InTurn(R, Only(q, S))
         /\ \A t : t \in Seqs!ToSet(Only(q, S)) <=> t \in Seqs!ToSet(q) /\ t \in S
<1>1. Taken(R, T, q, S, Only(q, S), Len(q))
  BY OnlyInTurn
<1> QED BY <1>1, SetOf DEF Taken

\* What the mempool has left to list after the cursor of j.
LaterIn(p, c) ==
  IF c = NoTx THEN Only(Order, p) ELSE Only(Only(Order, p), Seqs!ToSet(After(Order, c)))

LEMMA PagedIsPage ==
  ASSUME NEW j
  PROVE  PagedTxids(j) = PageOf(LaterIn(pool, j.cursor))
<1> DEFINE later == LaterIn(pool, j.cursor)
<1>1. PagedTxids(j) = SubSeq(later, 1, Sets!Min({PageLimit, Len(later)}))
  BY DEF PagedTxids, LaterIn
<1> HIDE DEF later
<1>2. {PageLimit, Len(later)} = {Len(later), PageLimit}
  OBVIOUS
<1>3. PagedTxids(j) = PageOf(later)
  BY <1>1, <1>2 DEF PageOf
<1> QED BY <1>3 DEF later

LEMMA LaterFacts ==
  ASSUME NEW p, p \subseteq Txids, NEW c \in Txids \cup {NoTx}
  PROVE  /\ LaterIn(p, c) \in Seq(Txids) /\ InTurn(Arrivals, LaterIn(p, c))
         /\ \A t : t \in Seqs!ToSet(LaterIn(p, c)) <=> t \in p /\ (c # NoTx => <<c, t>> \in Arrivals)
<1>1. /\ Order \in Seq(Txids) /\ InTurn(Arrivals, Order) /\ Ordering(Arrivals)
      /\ Seqs!ToSet(Order) = Txids
  BY OrderFacts, ArrivalsOrder, QueriesAssumption DEF QueriesAssumption
<1> DEFINE q == Only(Order, p)
           A == After(Order, c)
           S == Seqs!ToSet(A)
           r == Only(q, S)
<1>2. /\ q \in Seq(Txids) /\ InTurn(Arrivals, q)
      /\ \A t : t \in Seqs!ToSet(q) <=> t \in Seqs!ToSet(Order) /\ t \in p
  BY <1>1, OnlySet
<1>3. CASE c = NoTx
  <2>1. LaterIn(p, c) = q
    BY <1>3 DEF LaterIn
  <2> HIDE DEF q
  <2> QED BY <1>1, <1>2, <1>3, <2>1
<1>4. CASE c # NoTx
  <2>1. LaterIn(p, c) = r
    BY <1>4 DEF LaterIn
  <2> HIDE DEF q
  <2>2. \A t : t \in Seqs!ToSet(A) <=> t \in Seqs!ToSet(Order) /\ <<c, t>> \in Arrivals
    BY <1>1, <1>4, AfterFacts
  <2> HIDE DEF A
  <2>3. \A t : t \in S <=> t \in Txids /\ <<c, t>> \in Arrivals
    BY <1>1, <2>2
  <2> HIDE DEF S
  <2>4. /\ r \in Seq(Txids) /\ InTurn(Arrivals, r)
        /\ \A t : t \in Seqs!ToSet(r) <=> t \in Seqs!ToSet(q) /\ t \in S
    BY <1>2, OnlySet
  <2> HIDE DEF r
  <2> QED BY <1>1, <1>2, <1>4, <2>1, <2>3, <2>4
<1> QED BY <1>3, <1>4

\* A finite set that B puts in order can be listed in that order: by how many
\* come before each.
LEMMA Sortable ==
  ASSUME NEW S, IsFiniteSet(S), NEW B, Ordering(B),
         \A l, m \in S : l = m \/ <<l, m>> \in B \/ <<m, l>> \in B
  PROVE  \E q \in [1..Cardinality(S) -> S] :
           \A i, n \in 1..Cardinality(S) : i < n => q[i] # q[n] /\ <<q[n], q[i]>> \notin B
<1> DEFINE c == Cardinality(S)
           D == 1..c
           Ahead(l) == { m \in S : <<m, l>> \in B }
           r == [l \in S |-> Cardinality(Ahead(l)) + 1]
<1>1. c \in Nat
  BY FS_CardinalityType
<1>2. IsFiniteSet(D) /\ Cardinality(D) = c
  <2>1. 1 \in Int /\ c \in Int
    BY <1>1
  <2> HIDE DEF c
  <2>2. IsFiniteSet(1..c) /\ Cardinality(1..c) = IF 1 > c THEN 0 ELSE c - 1 + 1
    BY <2>1, FS_Interval
  <2> QED BY <1>1, <2>2
<1>3. ASSUME NEW l \in S
      PROVE  IsFiniteSet(Ahead(l)) /\ Cardinality(Ahead(l)) \in Nat /\ Cardinality(Ahead(l)) < c
  <2> DEFINE A == Ahead(l)
  <2>1. A \subseteq S /\ l \notin A
    BY DEF Ordering
  <2> HIDE DEF A
  <2>2. IsFiniteSet(A) /\ Cardinality(A) <= c /\ (c = Cardinality(A) => S = A)
    BY <2>1, FS_Subset
  <2>3. Cardinality(A) \in Nat
    BY <2>2, FS_CardinalityType
  <2>4. Cardinality(A) < c
    BY <1>1, <2>1, <2>2, <2>3
  <2> QED BY <2>2, <2>3, <2>4 DEF A
<1>4. ASSUME NEW l \in S, NEW m \in S, <<l, m>> \in B
      PROVE  Cardinality(Ahead(l)) < Cardinality(Ahead(m))
  <2> DEFINE K == Ahead(l)
             M == Ahead(m)
  <2>1. K \subseteq M
    BY <1>4 DEF Ordering
  <2>2. l \in M /\ l \notin K
    BY <1>4 DEF Ordering
  <2>3. IsFiniteSet(M) /\ Cardinality(M) \in Nat /\ Cardinality(K) \in Nat
    BY <1>3
  <2> HIDE DEF K, M
  <2>4. Cardinality(K) <= Cardinality(M) /\ (Cardinality(M) = Cardinality(K) => M = K)
    BY <2>1, <2>3, FS_Subset
  <2>5. Cardinality(K) < Cardinality(M)
    BY <2>2, <2>3, <2>4
  <2> QED BY <2>5 DEF K, M
<1> HIDE DEF Ahead
<1>5. \A l \in S : r[l] = Cardinality(Ahead(l)) + 1
  OBVIOUS
<1>6. r \in [S -> D]
  <2>1. \A l \in S : Cardinality(Ahead(l)) + 1 \in D
    BY <1>1, <1>3
  <2> QED BY <2>1
<1> HIDE DEF r
<1>7. \A l, m \in S : <<l, m>> \in B => r[l] < r[m]
  BY <1>3, <1>4, <1>5
<1>8. ASSUME NEW l \in S, NEW m \in S, r[l] = r[m] PROVE l = m
  <2>1. r[l] \in Int
    BY <1>3, <1>5
  <2>2. <<l, m>> \notin B
    BY <1>7, <1>8, <2>1
  <2>3. <<m, l>> \notin B
    BY <1>7, <1>8, <2>1
  <2> QED BY <2>2, <2>3
<1>9. r \in Injection(S, D)
  BY <1>6, <1>8 DEF Injection, IsInjective
<1> HIDE DEF D
<1>10. r \in Surjection(S, D)
  BY <1>2, <1>9, FS_Injection
<1>11. \A i \in D : \E l \in S : r[l] = i
  BY <1>10 DEF Surjection
<1> DEFINE q == [i \in D |-> CHOOSE l \in S : r[l] = i]
<1>12. \A i \in D : q[i] \in S /\ r[q[i]] = i
  BY <1>11
<1>13. q \in [D -> S]
  BY <1>11
<1> HIDE DEF q
<1>14. \A i, n \in D : i # n => q[i] # q[n]
  BY <1>12
<1>15. \A i \in D : i \in Nat
  BY <1>1 DEF D
<1>16. ASSUME NEW i \in D, NEW n \in D, i < n, <<q[n], q[i]>> \in B PROVE FALSE
  <2>1. r[q[n]] < r[q[i]]
    BY <1>7, <1>12, <1>16
  <2>2. n < i
    BY <1>12, <2>1
  <2> QED BY <1>15, <1>16, <2>2
<1>17. \A i, n \in D : i < n => q[i] # q[n]
  BY <1>14, <1>15
<1> QED BY <1>13, <1>16, <1>17 DEF D

LEMMA RowsFacts ==
  ASSUME NEW k \in Blocks, NEW s
  PROVE  /\ Rows(k, s) \subseteq Locations(k)
         /\ \A l \in Rows(k, s) : l.tx \in Txids /\ l.height \in Nat /\ l.pos \in Nat
         /\ \A l, m \in Rows(k, s) : l.tx = m.tx => l = m
         /\ \A l, m \in Rows(k, s) : l = m \/ Before(l, m) \/ Before(m, l)
         /\ \A l \in Rows(k, s) : ~Before(l, l)
         /\ \A l, m, n \in Rows(k, s) : Before(l, m) /\ Before(m, n) => Before(l, n)
<1> DEFINE S == Rows(k, s)
<1>1. S \subseteq Locations(k)
  BY DEF Rows
<1>2. \A l, m \in Locations(k) : l.tx = m.tx => l = m
  BY ChainAssumption DEF ChainAssumption
<1> HIDE DEF S
<1>3. \A l \in S : /\ l.tx \in Txids /\ l.height \in Nat /\ l.pos \in Nat
                   /\ HashAt(k, l.height) = l.block /\ BlockTxs[l.block][l.pos + 1] = l.tx
  BY <1>1, LocationFacts
<1>4. ASSUME NEW l \in S, NEW m \in S, l.height = m.height, l.pos = m.pos PROVE l = m
  <2>1. l.block = m.block
    BY <1>3, <1>4
  <2>2. l.tx = m.tx
    BY <1>3, <1>4, <2>1
  <2> QED BY <1>1, <1>2, <2>2
<1>5. ASSUME NEW l \in S, NEW m \in S, ~Before(l, m), ~Before(m, l) PROVE l = m
  <2>1. l.height = m.height /\ l.pos = m.pos
    BY <1>3, <1>5 DEF Before
  <2> QED BY <1>4, <2>1
<1>6. \A l \in S : ~Before(l, l)
  BY <1>3 DEF Before
<1>7. ASSUME NEW l \in S, NEW m \in S, NEW n \in S, Before(l, m), Before(m, n)
      PROVE  Before(l, n)
  BY <1>3, <1>7 DEF Before
<1>8. \A l, m \in S : l.tx = m.tx => l = m
  BY <1>1, <1>2
<1> QED BY <1>1, <1>3, <1>5, <1>6, <1>7, <1>8 DEF S

LEMMA NewerOrder ==
  ASSUME NEW k \in Blocks, NEW s
  PROVE  Ordering(Newer(k, s))
<1> DEFINE S == Rows(k, s)
           N == Newer(k, s)
<1>1. ASSUME NEW a, NEW b, <<a, b>> \in N
      PROVE  \E l, m \in S : Before(m, l) /\ l.tx = a /\ m.tx = b
  <2>1. PICK l \in S, m \in S : Before(m, l) /\ <<a, b>> = <<l.tx, m.tx>>
    BY <1>1 DEF Newer
  <2> QED BY <2>1
<1>2. ASSUME NEW l \in S, NEW m \in S, Before(m, l) PROVE <<l.tx, m.tx>> \in N
  <2>1. <<l.tx, m.tx>> \in Txids \X Txids
    BY RowsFacts
  <2> QED BY <1>2, <2>1 DEF Newer
<1>3. /\ \A l, m \in S : l.tx = m.tx => l = m
      /\ \A l \in S : ~Before(l, l)
      /\ \A l, m, n \in S : Before(l, m) /\ Before(m, n) => Before(l, n)
  BY RowsFacts
<1> HIDE DEF S, N
<1>4. ASSUME NEW a, NEW b, NEW c, <<a, b>> \in N, <<b, c>> \in N PROVE <<a, c>> \in N
  <2>1. PICK l \in S, m \in S : Before(m, l) /\ l.tx = a /\ m.tx = b
    BY <1>1, <1>4
  <2>2. PICK n \in S, h \in S : Before(h, n) /\ n.tx = b /\ h.tx = c
    BY <1>1, <1>4
  <2>3. m = n
    BY <1>3, <2>1, <2>2
  <2>4. Before(h, l)
    BY <1>3, <2>1, <2>2, <2>3
  <2> QED BY <1>2, <2>1, <2>2, <2>4
<1>5. ASSUME NEW a, <<a, a>> \in N PROVE FALSE
  <2>1. PICK l \in S, m \in S : Before(m, l) /\ l.tx = a /\ m.tx = a
    BY <1>1, <1>5
  <2>2. l = m
    BY <1>3, <2>1
  <2> QED BY <1>3, <2>1, <2>2
<1>6. Ordering(N)
  BY <1>4, <1>5 DEF Ordering
<1> QED BY <1>6 DEF N

LEMMA RowsFinite ==
  ASSUME NEW k \in Blocks, NEW s
  PROVE  IsFiniteSet(Rows(k, s))
<1> DEFINE S == Rows(k, s)
           f == [l \in S |-> l.tx]
<1>1. (\A l \in S : l.tx \in Txids) /\ \A l, m \in S : l.tx = m.tx => l = m
  BY RowsFacts
<1> HIDE DEF S
<1>2. f \in [S -> Txids] /\ \A l \in S : f[l] = l.tx
  BY <1>1
<1> HIDE DEF f
<1>3. f \in Injection(S, Txids)
  BY <1>1, <1>2 DEF Injection, IsInjective
<1>4. IsFiniteSet(S)
  BY <1>3, OrderFacts, FS_Injection
<1> QED BY <1>4 DEF S

\* The rows of a script, newest first.
LEMMA RowsInTurn ==
  ASSUME NEW k \in Blocks, NEW s
  PROVE  /\ RowsDesc(Rows(k, s)) \in Seq(Txids) /\ InTurn(Newer(k, s), RowsDesc(Rows(k, s)))
         /\ \A t : t \in Seqs!ToSet(RowsDesc(Rows(k, s))) <=> \E l \in Rows(k, s) : l.tx = t
<1> DEFINE S == Rows(k, s)
           c == Cardinality(S)
           Sorts(q) == \A i, n \in DOMAIN q : i < n => q[i] # q[n] /\ ~Before(q[i], q[n])
           z == CHOOSE q \in [1..c -> S] : Sorts(q)
           r == [i \in DOMAIN z |-> z[i].tx]
           B == { p \in S \X S : Before(p[2], p[1]) }
<1>1. RowsDesc(S) = r
  BY DEF RowsDesc
<1>2. /\ \A l \in S : l.tx \in Txids
      /\ \A l, m \in S : l = m \/ Before(l, m) \/ Before(m, l)
      /\ \A l \in S : ~Before(l, l)
      /\ \A l, m, n \in S : Before(l, m) /\ Before(m, n) => Before(l, n)
  BY RowsFacts
<1>3. IsFiniteSet(S) /\ c \in Nat
  BY RowsFinite, FS_CardinalityType
<1>4. ASSUME NEW l \in S, NEW m \in S, Before(m, l) PROVE <<l.tx, m.tx>> \in Newer(k, s)
  <2>1. <<l.tx, m.tx>> \in Txids \X Txids
    BY <1>2
  <2> QED BY <1>4, <2>1 DEF Newer
<1>a. RowsDesc(Rows(k, s)) = r
  BY <1>1
<1> HIDE DEF S, r
<1>5. \A l, m : <<l, m>> \in B <=> l \in S /\ m \in S /\ Before(m, l)
  OBVIOUS
<1> HIDE DEF B
<1>6. Ordering(B)
  BY <1>2, <1>5 DEF Ordering
<1>7. \A l, m \in S : l = m \/ <<l, m>> \in B \/ <<m, l>> \in B
  BY <1>2, <1>5
<1>8. PICK q \in [1..c -> S] : \A i, n \in 1..c : i < n => q[i] # q[n] /\ <<q[n], q[i]>> \notin B
  BY <1>3, <1>6, <1>7, Sortable
<1>9. Sorts(q)
  <2>1. DOMAIN q = 1..c /\ \A i \in 1..c : q[i] \in S
    OBVIOUS
  <2> QED BY <1>5, <1>8, <2>1
<1> HIDE DEF c, Sorts
<1>10. z \in [1..c -> S] /\ Sorts(z)
  BY <1>9
<1> HIDE DEF z
<1>11. DOMAIN z = 1..c /\ \A i \in 1..c : z[i] \in S
  BY <1>10
<1>12. \A i, n \in 1..c : i < n => z[i] # z[n] /\ ~Before(z[i], z[n])
  BY <1>10, <1>11 DEF Sorts
<1>13. DOMAIN r = 1..c /\ \A i \in 1..c : r[i] = z[i].tx
  BY <1>11 DEF r
<1>14. r \in Seq(Txids) /\ Len(r) = c
  <2>1. r = [i \in 1..c |-> r[i]]
    BY <1>11 DEF r
  <2>2. \A i \in 1..c : r[i] \in Txids
    BY <1>2, <1>11, <1>13
  <2> QED BY <1>3, <2>1, <2>2
<1>15. InTurn(Newer(k, s), r)
  <2> SUFFICES ASSUME NEW i \in 1..c, NEW n \in 1..c, i < n PROVE <<r[i], r[n]>> \in Newer(k, s)
    BY <1>13 DEF InTurn
  <2>1. Before(z[n], z[i])
    BY <1>2, <1>11, <1>12
  <2> QED BY <1>4, <1>11, <1>13, <2>1
<1>16. \A l \in S : \E i \in 1..c : z[i] = l
  <2>1. \A i, n \in 1..c : z[i] = z[n] => i = n
    BY <1>3, <1>12
  <2>2. z \in Injection(1..c, S)
    BY <1>10, <1>11, <2>1 DEF Injection, IsInjective
  <2>3. Cardinality(1..c) = c
    <3>1. 1 \in Int /\ c \in Int
      BY <1>3
    <3>2. Cardinality(1..c) = IF 1 > c THEN 0 ELSE c - 1 + 1
      BY <3>1, FS_Interval
    <3> QED BY <1>3, <3>2
  <2>4. z \in Surjection(1..c, S)
    <3>1. Cardinality(1..c) = Cardinality(S)
      BY <2>3 DEF c
    <3> QED BY <1>3, <2>2, <3>1, FS_Injection
  <2> QED BY <2>4 DEF Surjection
<1>17. \A t : t \in Seqs!ToSet(r) <=> \E i \in 1..c : r[i] = t
  BY <1>14, SetOf
<1>18. \A t : t \in Seqs!ToSet(r) <=> \E l \in S : l.tx = t
  BY <1>11, <1>13, <1>16, <1>17
<1> QED BY <1>a, <1>14, <1>15, <1>18 DEF S

LEMMA TxsFacts ==
  ASSUME NEW list \in Seq(Places)
  PROVE  /\ Len(Txs(list)) = Len(list) /\ DOMAIN Txs(list) = 1..Len(list)
         /\ Txs(list) \in Seq(Txids \cup {NoTx})
         /\ \A i \in 1..Len(list) : Txs(list)[i] = list[i].tx
         /\ Txs(list) = <<>> <=> list = <<>>
<1> DEFINE q == Txs(list)
<1>1. DOMAIN list = 1..Len(list) /\ Len(list) \in Nat /\ \A i \in 1..Len(list) : list[i] \in Places
  OBVIOUS
<1>2. \A l \in Places : l.tx \in Txids \cup {NoTx}
  BY DEF Places
<1>3. q = [i \in 1..Len(list) |-> list[i].tx]
  BY <1>1 DEF Txs
<1>4. q \in Seq(Txids \cup {NoTx}) /\ Len(q) = Len(list) /\ \A i \in 1..Len(list) : q[i] = list[i].tx
  BY <1>1, <1>2, <1>3
<1> HIDE DEF q
<1>5. q = <<>> <=> list = <<>>
  BY <1>1, <1>4
<1> QED BY <1>3, <1>4, <1>5 DEF q

\* Two lists of as many txids that agree are one.
LEMMA SameSeq ==
  ASSUME NEW T, NEW q \in Seq(T), NEW U, NEW r \in Seq(U), Len(q) = Len(r),
         \A i \in 1..Len(q) : q[i] = r[i]
  PROVE  q = r
OBVIOUS

LEMMA TxsConcat ==
  ASSUME NEW list \in Seq(Places), NEW more \in Seq(Places)
  PROVE  Txs(list \o more) = Txs(list) \o Txs(more)
<1> DEFINE T == Txids \cup {NoTx}
           a == list \o more
           q == Txs(list)
           r == Txs(more)
           c == q \o r
<1>1. /\ a \in Seq(Places) /\ Len(a) = Len(list) + Len(more)
      /\ \A i \in 1..Len(list) : a[i] = list[i]
      /\ \A i \in 1..Len(more) : a[Len(list) + i] = more[i]
      /\ \A i \in 1..(Len(list) + Len(more)) :
           i \in 1..Len(list) \/ \E n \in 1..Len(more) : i = Len(list) + n
  BY ConcatFacts
<1>2. /\ q \in Seq(T) /\ Len(q) = Len(list) /\ \A i \in 1..Len(list) : q[i] = list[i].tx
  BY TxsFacts
<1>3. /\ r \in Seq(T) /\ Len(r) = Len(more) /\ \A i \in 1..Len(more) : r[i] = more[i].tx
  BY TxsFacts
<1> HIDE DEF a, q, r, T
<1>4. /\ c \in Seq(T) /\ Len(c) = Len(q) + Len(r)
      /\ \A i \in 1..Len(q) : c[i] = q[i]
      /\ \A i \in 1..Len(r) : c[Len(q) + i] = r[i]
      /\ \A i \in 1..(Len(q) + Len(r)) :
           i \in 1..Len(q) \/ \E n \in 1..Len(r) : i = Len(q) + n
  <2>1. q \in Seq(T) /\ r \in Seq(T)
    BY <1>2, <1>3
  <2>2. c \in Seq(T) /\ Joined(q, r, c)
    BY <2>1, ConcatJoined
  <2> QED BY <2>2 DEF Joined
<1> HIDE DEF c
<1>5. /\ Txs(a) \in Seq(T) /\ Len(Txs(a)) = Len(a) /\ \A i \in 1..Len(a) : Txs(a)[i] = a[i].tx
  BY <1>1, TxsFacts DEF T
<1>6. ASSUME NEW i \in 1..Len(Txs(a)) PROVE Txs(a)[i] = c[i]
  <2>1. i \in 1..(Len(list) + Len(more)) /\ Txs(a)[i] = a[i].tx
    BY <1>1, <1>5
  <2>2. CASE i \in 1..Len(list)
    BY <1>1, <1>2, <1>4, <2>1, <2>2
  <2>3. CASE i \notin 1..Len(list)
    <3>1. PICK n \in 1..Len(more) : i = Len(list) + n
      BY <1>1, <2>1, <2>3
    <3>2. a[i] = more[n] /\ c[i] = r[n] /\ r[n] = more[n].tx
      BY <1>1, <1>2, <1>3, <1>4, <3>1
    <3> QED BY <2>1, <3>2
  <2> QED BY <2>2, <2>3
<1>7. Len(Txs(a)) = Len(c)
  BY <1>1, <1>2, <1>3, <1>4, <1>5
<1>8. Txs(a) = c
  BY <1>4, <1>5, <1>6, <1>7, SameSeq
<1> QED BY <1>8 DEF a, c, q, r

\* What follows a page: the end of the walk, which then has listed all of A, or
\* another page.
Turned(R, A, j, k) ==
  /\ k.list = j.list /\ k.todo = j.todo /\ k.scripts = j.scripts
  /\ \/ k.at = "done" /\ k.answer = "ok" /\ A \subseteq Seqs!ToSet(Txs(j.list))
     \/ k.at = "more" /\ Turning(R, A, k)

LEMMA PageDoneTurned ==
  ASSUME NEW j, DOMAIN j = Fields, j.route \in Walks, NEW R, NEW A, j.list \in Seq(Places),
         j.from \in Nat, j.from <= Len(j.list), Reaches(R, A, Txs(j.list)),
         j.from = Len(j.list) => A \subseteq Seqs!ToSet(Txs(j.list))
  PROVE  Turned(R, A, j, PageDone(j))
<1>1. CASE Len(j.list) = j.from
  <2> DEFINE k == Done(j, "ok")
  <2>1. PageDone(j) = k
    BY <1>1 DEF PageDone
  <2>2. k.at = "done" /\ k.answer = "ok" /\ \A f \in Fields \ {"at", "answer"} : k[f] = j[f]
    BY DoneGoes
  <2>3. "list" \in Fields \ {"at", "answer"} /\ "todo" \in Fields \ {"at", "answer"}
        /\ "scripts" \in Fields \ {"at", "answer"}
    BY DEF Fields
  <2> HIDE DEF k
  <2>4. k.list = j.list /\ k.todo = j.todo /\ k.scripts = j.scripts
    BY <2>2, <2>3
  <2> QED BY <1>1, <2>1, <2>2, <2>4 DEF Turned
<1>2. CASE Len(j.list) # j.from
  <2> DEFINE c == j.list[Len(j.list)].tx
             n == Len(j.list)
             k == [j EXCEPT !.at = "more", !.cursor = c, !.from = n]
  <2>1. PageDone(j) = k
    BY <1>2 DEF PageDone
  <2>2. n > 0 /\ j.list # <<>>
    BY <1>2
  <2> HIDE DEF c, n
  <2>3. /\ k.at = "more" /\ k.list = j.list /\ k.todo = j.todo /\ k.scripts = j.scripts
        /\ k.from = n /\ k.cursor = c
    BY DEF Fields
  <2> HIDE DEF k
  <2>4. Turning(R, A, k)
    BY <2>2, <2>3 DEF Turning, n, c
  <2> QED BY <2>1, <2>3, <2>4 DEF Turned
<1> QED BY <1>1, <1>2

\* The request walks through the mempool.
WalksPool == Serving /\ job.route = "mempool page" /\ PoolWalk(past, job)

\* A page of the mempool goes on where the last one ended.
LEMMA PageWalks ==
  ASSUME WalksPool, Page
  PROVE  PoolWalk(past, job')
<1>1. /\ DOMAIN job = Fields /\ job.at = "page" /\ job.list \in Seq(Places)
      /\ pool \subseteq Txids /\ <<tip, pool>> \in past
  BY ServingFacts DEF WalksPool, Page, Solid
<1> DEFINE A == AlwaysPooled(past)
           R == Arrivals
           q == Txs(job.list)
           c == job.cursor
           rest == LaterIn(pool, c)
           page == PagedTxids(job)
           new == [i \in DOMAIN page |-> InPool(page[i])]
           all == job.list \o new
           j == [job EXCEPT !.list = all]
<1>2. job' = PageDone(j)
  <2>1. job' = IF job.route = "mempool txs" THEN Take(job, page) ELSE PageDone(j)
    BY DEF Page, Step
  <2> QED BY <2>1 DEF WalksPool
<1>3. q \in Seq(Txids) /\ InTurn(R, q) /\ Turning(R, A, job) /\ Len(q) = Len(job.list)
      /\ (q = <<>> <=> job.list = <<>>)
  BY <1>1, TxsFacts DEF WalksPool, PoolWalk
<1>4. c = IF q = <<>> THEN NoTx ELSE q[Len(q)]
  BY <1>1, <1>3, TxsFacts DEF Turning
<1>5. Reaches(R, A, q) /\ job.from = Len(q)
  BY <1>3 DEF Turning
<1> HIDE DEF q, c
<1>6. c \in Txids \cup {NoTx} /\ (q # <<>> => c # NoTx)
  BY <1>3, <1>4, TxidsAssumption DEF TxidsAssumption
<1>7. /\ rest \in Seq(Txids) /\ InTurn(R, rest)
      /\ \A t : t \in Seqs!ToSet(rest) <=> t \in pool /\ (c # NoTx => <<c, t>> \in R)
  BY <1>1, <1>6, LaterFacts
<1>8. page = PageOf(rest)
  BY PagedIsPage DEF c
<1> HIDE DEF rest, page
<1>9. \A t \in Seqs!ToSet(rest) : Behind(R, q, t)
  BY <1>4, <1>6, <1>7 DEF Behind
<1>10. A \subseteq Seqs!ToSet(q) \cup Seqs!ToSet(rest)
  <2> SUFFICES ASSUME NEW t \in A, t \notin Seqs!ToSet(q) PROVE t \in Seqs!ToSet(rest)
    OBVIOUS
  <2>1. Behind(R, q, t)
    BY <1>5 DEF Reaches
  <2>2. t \in pool
    <3>1. <<tip, pool>>[2] = pool
      OBVIOUS
    <3> QED BY <1>1, <3>1 DEF AlwaysPooled
  <2> QED BY <1>4, <1>7, <2>1, <2>2 DEF Behind
<1>o. Ordering(R)
  BY ArrivalsOrder
<1> HIDE DEF A, R
<1>l. Leaves(R, Txids, A, q, rest)
  BY <1>3, <1>7, <1>9, <1>10, <1>o DEF Leaves
<1>11. /\ page \in Seq(Txids) /\ InTurn(R, q \o page) /\ Reaches(R, A, q \o page)
       /\ page = <<>> => A \subseteq Seqs!ToSet(q)
  <2>1. Adds(R, Txids, A, q, rest, page)
    BY <1>8, <1>l, PageTurned
  <2> QED BY <2>1 DEF Adds
<1>12. new \in Seq(Places) /\ Len(new) = Len(page) /\ Txs(new) = page
  <2>1. Len(page) \in Nat /\ DOMAIN page = 1..Len(page) /\ \A i \in 1..Len(page) : page[i] \in Txids
    BY <1>11
  <2>2. \A t \in Txids : InPool(t) \in Places /\ InPool(t).tx = t
    BY PoolPlace
  <2>3. new = [i \in 1..Len(page) |-> InPool(page[i])]
    BY <2>1
  <2>4. new \in Seq(Places) /\ Len(new) = Len(page) /\ \A i \in 1..Len(page) : new[i] = InPool(page[i])
    BY <2>1, <2>2, <2>3
  <2> HIDE DEF new
  <2>5. /\ Txs(new) \in Seq(Txids \cup {NoTx}) /\ Len(Txs(new)) = Len(page)
        /\ \A i \in 1..Len(page) : Txs(new)[i] = new[i].tx
    BY <2>4, TxsFacts
  <2>6. \A i \in 1..Len(Txs(new)) : Txs(new)[i] = page[i]
    BY <2>1, <2>2, <2>4, <2>5
  <2>7. Txs(new) = page
    BY <1>11, <2>5, <2>6, SameSeq
  <2> QED BY <2>4, <2>7
<1> HIDE DEF new
<1>13. all \in Seq(Places) /\ Len(all) = Len(job.list) + Len(page) /\ Txs(all) = q \o page
  <2>1. all \in Seq(Places) /\ Len(all) = Len(job.list) + Len(new)
    BY <1>1, <1>12, ConcatFacts
  <2>2. Txs(all) = Txs(job.list) \o Txs(new)
    BY <1>1, <1>12, TxsConcat
  <2> QED BY <1>12, <2>1, <2>2 DEF q
<1> HIDE DEF all
<1>14. /\ DOMAIN j = Fields /\ j.route = job.route /\ j.list = all /\ j.from = job.from
  BY <1>1 DEF Fields
<1> HIDE DEF j
<1>15. /\ Len(q) \in Nat /\ Len(page) \in Nat /\ j.from = Len(q) /\ Len(all) = Len(q) + Len(page)
  BY <1>3, <1>5, <1>11, <1>13, <1>14
<1>16. j.from = Len(all) => A \subseteq Seqs!ToSet(Txs(all))
  <2>1. ASSUME j.from = Len(all) PROVE A \subseteq Seqs!ToSet(Txs(all))
    <3>1. Len(page) = 0
      BY <1>15, <2>1
    <3>2. page = <<>>
      BY <1>11, <3>1
    <3> QED BY <1>3, <1>11, <1>13, <3>2, ConcatSet
  <2> QED BY <2>1
<1>17. Turned(R, A, j, job')
  <2>0. j.route \in Walks
    BY <1>14 DEF WalksPool, Walks
  <2>1. j.from \in Nat /\ j.from <= Len(j.list)
    BY <1>14, <1>15
  <2> QED BY <2>0, <1>2, <1>11, <1>13, <1>14, <1>16, <2>1, PageDoneTurned
<1>18. Txs(job'.list) \in Seq(Txids) /\ InTurn(R, Txs(job'.list))
  <2>1. q \o page \in Seq(Txids)
    BY <1>3, <1>11
  <2> QED BY <1>11, <1>13, <1>14, <1>17, <2>1 DEF Turned
<1> QED BY <1>14, <1>17, <1>18 DEF PoolWalk, Turned, R, A

LEMMA MoreWalks ==
  ASSUME WalksPool, More
  PROVE  PoolWalk(past, job')
<1>1. DOMAIN job = Fields /\ job.at = "more"
  BY ServingFacts DEF WalksPool, More
<1> DEFINE a == IF job.route = "mempool page" THEN "page" ELSE "history"
           k == [job EXCEPT !.at = a, !.keys = job.scripts, !.rows = {}, !.utxos = {}]
<1>2. job' = k /\ a = "page"
  BY DEF WalksPool, More, Step
<1> HIDE DEF a
<1>3. k.at = a /\ k.list = job.list /\ k.from = job.from /\ k.cursor = job.cursor
  BY <1>1 DEF Fields
<1> HIDE DEF k
<1> QED BY <1>1, <1>2, <1>3 DEF WalksPool, PoolWalk, Turning

\* One transaction of the page is listed: the piece of the rows stays as it was.
LEMMA HeadMoves ==
  ASSUME NEW T, NEW q \in Seq(T), NEW r \in Seq(T), r # <<>>
  PROVE  /\ Head(r) \in T /\ Tail(r) \in Seq(T) /\ Append(q, Head(r)) \in Seq(T)
         /\ Append(q, Head(r)) \o Tail(r) = q \o r
         /\ Len(r) <= 1 => Append(q, Head(r)) = q \o r
         /\ Head(r) \in Seqs!ToSet(q \o r)
         /\ Tail(r) = <<>> => Len(r) <= 1
<1> DEFINE h == Head(r)
           t == Tail(r)
           a == Append(q, h)
           b == a \o t
           c == q \o r
<1>1. /\ Len(r) \in Nat /\ Len(r) > 0 /\ h \in T /\ h = r[1] /\ t \in Seq(T) /\ Len(t) = Len(r) - 1
      /\ \A i \in 1..Len(t) : t[i] = r[i + 1]
  OBVIOUS
<1> HIDE DEF h, t
<1>2. /\ Len(q) \in Nat /\ a \in Seq(T) /\ Len(a) = Len(q) + 1 /\ a[Len(q) + 1] = h
      /\ \A i \in 1..Len(q) : a[i] = q[i]
  BY <1>1
<1> HIDE DEF a
<1>3. /\ b \in Seq(T) /\ Len(b) = Len(a) + Len(t)
      /\ \A i \in 1..Len(a) : b[i] = a[i]
      /\ \A i \in 1..Len(t) : b[Len(a) + i] = t[i]
      /\ \A i \in 1..(Len(a) + Len(t)) :
           i \in 1..Len(a) \/ \E n \in 1..Len(t) : i = Len(a) + n
  <2>1. a \in Seq(T) /\ t \in Seq(T)
    BY <1>1, <1>2
  <2>2. b \in Seq(T) /\ Joined(a, t, b)
    BY <2>1, ConcatJoined
  <2> QED BY <2>2 DEF Joined
<1>4. /\ c \in Seq(T) /\ Len(c) = Len(q) + Len(r)
      /\ \A i \in 1..Len(q) : c[i] = q[i]
      /\ \A i \in 1..Len(r) : c[Len(q) + i] = r[i]
  BY ConcatFacts
<1> HIDE DEF b, c
<1>5. c[Len(q) + 1] = h /\ Len(q) + 1 \in 1..Len(c)
  BY <1>1, <1>2, <1>4
<1>6. ASSUME NEW i \in 1..Len(b) PROVE b[i] = c[i]
  <2>1. CASE i <= Len(q)
    BY <1>2, <1>3, <1>4, <2>1
  <2>2. CASE i = Len(q) + 1
    BY <1>2, <1>3, <1>5, <2>2
  <2>3. CASE i > Len(q) + 1
    <3> DEFINE n == i - Len(a)
    <3>1. n \in 1..Len(t) /\ i = Len(a) + n /\ n + 1 \in 1..Len(r) /\ i = Len(q) + (n + 1)
      BY <1>1, <1>2, <1>3, <2>3
    <3> HIDE DEF n
    <3>2. b[Len(a) + n] = t[n] /\ t[n] = r[n + 1] /\ c[Len(q) + (n + 1)] = r[n + 1]
      BY <1>1, <1>3, <1>4, <3>1
    <3> QED BY <3>1, <3>2
  <2> QED BY <1>2, <1>3, <2>1, <2>2, <2>3
<1>7. Len(b) = Len(c)
  BY <1>1, <1>2, <1>3, <1>4
<1>8. b = c
  BY <1>3, <1>4, <1>6, <1>7, SameSeq
<1>9. ASSUME Len(r) <= 1 PROVE a = c
  <2>1. Len(r) = 1 /\ Len(a) = Len(c)
    BY <1>1, <1>2, <1>4, <1>9
  <2>2. ASSUME NEW i \in 1..Len(a) PROVE a[i] = c[i]
    BY <1>2, <1>4, <1>5
  <2> QED BY <1>2, <1>4, <2>1, <2>2, SameSeq
<1>10. h \in Seqs!ToSet(c)
  BY <1>4, <1>5, SetOf
<1>11. ASSUME t = <<>> PROVE Len(r) <= 1
  <2>1. Len(t) = 0
    BY <1>11
  <2> DEFINE n == Len(r)
             m == Len(t)
  <2>2. n \in Nat /\ m = n - 1
    BY <1>1
  <2> HIDE DEF n, m
  <2>3. m = 0
    BY <2>1 DEF m
  <2>4. n <= 1
    BY <2>2, <2>3
  <2> QED BY <2>4 DEF n
<1> QED BY <1>1, <1>2, <1>8, <1>9, <1>10, <1>11 DEF a, b, c, h, t

LEMMA TxsAppend ==
  ASSUME NEW list \in Seq(Places), NEW l \in Places
  PROVE  /\ Append(list, l) \in Seq(Places) /\ Len(Append(list, l)) = Len(list) + 1
         /\ Txs(Append(list, l)) = Append(Txs(list), l.tx)
<1> DEFINE T == Txids \cup {NoTx}
           a == Append(list, l)
           q == Txs(list)
           c == Append(q, l.tx)
<1>1. /\ Len(list) \in Nat /\ a \in Seq(Places) /\ Len(a) = Len(list) + 1 /\ a[Len(list) + 1] = l
      /\ \A i \in 1..Len(list) : a[i] = list[i]
  OBVIOUS
<1>2. /\ q \in Seq(T) /\ Len(q) = Len(list) /\ \A i \in 1..Len(list) : q[i] = list[i].tx
  BY TxsFacts
<1>3. l.tx \in T
  BY DEF Places
<1> HIDE DEF a, q, T
<1>4. /\ c \in Seq(T) /\ Len(c) = Len(q) + 1 /\ c[Len(q) + 1] = l.tx
      /\ \A i \in 1..Len(q) : c[i] = q[i]
  BY <1>2, <1>3
<1> HIDE DEF c
<1>5. /\ Txs(a) \in Seq(T) /\ Len(Txs(a)) = Len(a) /\ \A i \in 1..Len(a) : Txs(a)[i] = a[i].tx
  BY <1>1, TxsFacts DEF T
<1>6. ASSUME NEW i \in 1..Len(Txs(a)) PROVE Txs(a)[i] = c[i]
  <2>1. CASE i = Len(list) + 1
    BY <1>1, <1>2, <1>4, <1>5, <2>1
  <2>2. CASE i # Len(list) + 1
    <3>1. i \in 1..Len(list)
      BY <1>1, <1>5, <2>2
    <3> QED BY <1>1, <1>2, <1>4, <1>5, <3>1
  <2> QED BY <2>1, <2>2
<1>7. Txs(a) = c
  BY <1>1, <1>2, <1>4, <1>5, <1>6, SameSeq
<1> QED BY <1>1, <1>7 DEF a, c, q

\* The same piece of the walk, at another station.
SameWalk(j, k) ==
  /\ DOMAIN k = Fields /\ k.route = j.route
  /\ k.scripts = j.scripts /\ k.list = j.list /\ k.todo = j.todo /\ k.from = j.from

\* A walk in the middle of a page, at a block k.
Amid(P, k, j, s) ==
  /\ DOMAIN j = Fields /\ j.route \in Walks /\ j.scripts = <<s>> /\ j.list \in Seq(Places)
  /\ Rowed(k, s, j.list, j.todo) /\ UnderWay(P, k, s, j)

LEMMA AmidSame ==
  ASSUME NEW P, NEW k, NEW j, NEW s, Amid(P, k, j, s), NEW m, SameWalk(j, m)
  PROVE  Amid(P, k, m, s)
BY DEF Amid, SameWalk, UnderWay

LEMMA AmidWalks ==
  ASSUME NEW P, NEW k, NEW j, NEW s, Amid(P, k, j, s), j.at \in Resolving,
         j.at # "locate" => FoundNext(j),
         j.at \in {"prevout", "funding"} => j.inputs \subseteq Inputs[j.found.tx] /\ j.inputs # {}
  PROVE  ChainWalk(P, k, j, s)
BY DEF Amid, ChainWalk, Resolving

\* A transaction of the page is found, but for some of its inputs.
LEMMA ResolveWalks ==
  ASSUME NEW P, NEW b, NEW j, NEW s, Amid(P, b, j, s), FoundNext(j), j.found \in Places,
         j.route # "tx", j.inputs \subseteq Inputs[j.found.tx]
  PROVE  ChainWalk(P, b, Resolve(j), s)
<1> DEFINE R == Newer(b, s)
           A == AlwaysMined(P, s)
           q == Txs(j.list)
           r == j.todo
           all == Append(j.list, j.found)
           k == [j EXCEPT !.list = all]
           p == [j EXCEPT !.at = "prevout"]
<1>1. /\ DOMAIN j = Fields /\ j.scripts = <<s>> /\ j.list \in Seq(Places) /\ j.route \in Walks
      /\ r \in Seq(Txids) /\ q \in Seq(Txids) /\ InTurn(R, q \o r)
      /\ Seqs!ToSet(q \o r) \subseteq RowTxids(b, s)
      /\ r # <<>> /\ j.from \in Nat /\ j.from <= Len(j.list) /\ Reaches(R, A, q \o r)
      /\ j.found.tx = Head(r)
  BY DEF Amid, Rowed, UnderWay, FoundNext
<1>2. /\ j.inputs # {} => Resolve(j) = p
      /\ j.inputs = {} => Resolve(j) = NextValue(k)
  BY DEF Resolve
<1>3. CASE j.inputs # {}
  <2>1. SameWalk(j, p) /\ p.at = "prevout" /\ p.found = j.found /\ p.inputs = j.inputs
    BY <1>1 DEF SameWalk, Fields
  <2> HIDE DEF p
  <2>2. Amid(P, b, p, s)
    BY <2>1, AmidSame
  <2>3. FoundNext(p)
    BY <2>1 DEF FoundNext, SameWalk
  <2>4. ChainWalk(P, b, p, s)
    BY <1>3, <2>1, <2>2, <2>3, AmidWalks DEF Resolving
  <2> QED BY <1>2, <1>3, <2>4
<1>4. CASE j.inputs = {}
  <2>1. /\ all \in Seq(Places) /\ Len(all) = Len(j.list) + 1 /\ Txs(all) = Append(q, Head(r))
    BY <1>1, TxsAppend
  <2> HIDE DEF all, q, r
  <2>0. /\ Head(r) \in Txids /\ Tail(r) \in Seq(Txids) /\ Append(q, Head(r)) \in Seq(Txids)
        /\ Append(q, Head(r)) \o Tail(r) = q \o r
        /\ Len(r) <= 1 => Append(q, Head(r)) = q \o r
        /\ Head(r) \in Seqs!ToSet(q \o r)
        /\ Tail(r) = <<>> => Len(r) <= 1
    BY <1>1, HeadMoves
  <2>2. /\ Tail(r) \in Seq(Txids) /\ Txs(all) \in Seq(Txids) /\ Txs(all) \o Tail(r) = q \o r
        /\ Len(r) <= 1 => Txs(all) = q \o r
    BY <2>0, <2>1
  <2>3. /\ DOMAIN k = Fields /\ k.route = j.route /\ k.scripts = j.scripts /\ k.list = all
        /\ k.todo = r /\ k.from = j.from
    BY <1>1 DEF Fields, r
  <2> HIDE DEF k
  <2>4. CASE Len(r) <= 1
    <3> DEFINE z == [k EXCEPT !.todo = <<>>]
    <3>1. NextValue(k) = PageDone(z)
      BY <2>3, <2>4 DEF NextValue
    <3>2. /\ DOMAIN z = Fields /\ z.route = j.route /\ z.scripts = j.scripts /\ z.list = all
          /\ z.todo = <<>> /\ z.from = j.from
      BY <2>3 DEF Fields
    <3> HIDE DEF z
    <3> HIDE DEF R, A
    <3>3. /\ z.from \in Nat /\ z.from <= Len(z.list) /\ z.from # Len(z.list)
          /\ Reaches(R, A, Txs(z.list))
      <4>1. z.from <= Len(z.list) /\ z.from # Len(z.list)
        BY <1>1, <2>1, <3>2
      <4> QED BY <1>1, <2>2, <2>4, <3>2, <4>1
    <3>4. Turned(R, A, z, PageDone(z))
      BY <1>1, <2>1, <3>2, <3>3, PageDoneTurned
    <3> DEFINE y == PageDone(z)
    <3>5. y.list = all /\ y.todo = <<>> /\ y.scripts = <<s>>
      BY <1>1, <3>2, <3>4 DEF Turned
    <3>6. /\ y.at \in {"done", "more"}
          /\ y.at = "done" => A \subseteq Seqs!ToSet(Txs(all))
          /\ y.at = "more" => Turning(R, A, y)
      BY <3>2, <3>4 DEF Turned
    <3> HIDE DEF y
    <3>7. Rowed(b, s, y.list, y.todo)
      <4>1. Txs(all) \o <<>> = Txs(all) /\ <<>> \in Seq(Txids)
        BY <2>2
      <4> QED BY <1>1, <2>2, <2>4, <3>5, <4>1 DEF Rowed, R
    <3>8. ChainWalk(P, b, y, s)
      BY <3>5, <3>6, <3>7 DEF ChainWalk, Resolving, R, A
    <3> QED BY <1>2, <1>4, <3>1, <3>8 DEF y
  <2>5. CASE ~(Len(r) <= 1)
    <3> DEFINE z == [k EXCEPT !.todo = Tail(r), !.at = "locate"]
    <3>1. NextValue(k) = z
      BY <2>3, <2>5 DEF NextValue
    <3>2. Tail(r) # <<>>
      BY <2>0, <2>5
    <3>3. /\ DOMAIN z = Fields /\ z.route = j.route /\ z.scripts = j.scripts /\ z.list = all
          /\ z.todo = Tail(r) /\ z.from = j.from /\ z.at = "locate"
      BY <2>3 DEF Fields
    <3> HIDE DEF z
    <3>4. Rowed(b, s, z.list, z.todo)
      BY <1>1, <2>2, <3>3 DEF Rowed, R
    <3>5. UnderWay(P, b, s, z)
      <4>1. z.from <= Len(z.list)
        BY <1>1, <2>1, <3>3
      <4> QED BY <1>1, <2>2, <3>2, <3>3, <4>1 DEF UnderWay, R, A
    <3>6. Amid(P, b, z, s)
      BY <1>1, <2>1, <3>3, <3>4, <3>5 DEF Amid
    <3>7. ChainWalk(P, b, z, s)
      BY <3>3, <3>6, AmidWalks DEF Resolving
    <3> QED BY <1>2, <1>4, <3>1, <3>7
  <2> QED BY <2>4, <2>5
<1> QED BY <1>3, <1>4

-----------------------------------------------------------------------------
(* A walk through the chain *)

\* The request walks through the confirmed transactions of s.
Walking(s) ==
  /\ Serving /\ Current(past, tip, pool) /\ s \in Scripts /\ job.route = "txs chain"
  /\ ChainWalk(past, tip, job, s)

LEMMA WalkingFacts ==
  ASSUME NEW s, Walking(s)
  PROVE  /\ DOMAIN job = Fields /\ job.route \in Walks /\ job.route \in Lists /\ job.route # "tx"
         /\ job.list \in Seq(Places) /\ job.found \in Places /\ tip \in Blocks /\ s \in Scripts
         /\ Current(past, tip, pool) /\ ChainWalk(past, tip, job, s)
         /\ job.at \in Resolving => Amid(past, tip, job, s)
<1>1. /\ DOMAIN job = Fields /\ job.list \in Seq(Places) /\ job.found \in Places
      /\ tip \in Blocks /\ s \in Scripts
      /\ Current(past, tip, pool) /\ ChainWalk(past, tip, job, s)
  BY DEF Walking, Serving, IsJob, Genuine, Solid
<1>2. job.route \in Walks /\ job.route \in Lists /\ job.route # "tx"
  BY DEF Walking, Walks, Lists
<1>3. job.at \in Resolving => Amid(past, tip, job, s)
  BY <1>1, <1>2 DEF ChainWalk, Amid
<1> QED BY <1>1, <1>2, <1>3

\* What comes next is in the chain, and so is what it spends from.
LEMMA NextMined ==
  ASSUME NEW s, Walking(s), job.at \in Resolving
  PROVE  /\ Head(job.todo) \in Mined(tip) /\ Head(job.todo) \in Txids
         /\ \A o \in Inputs[Head(job.todo)] : o[1] \in Mined(tip)
<1>1. tip \in Blocks /\ Amid(past, tip, job, s)
  BY WalkingFacts
<1> DEFINE q == Txs(job.list)
           r == job.todo
<1>2. /\ q \in Seq(Txids) /\ r \in Seq(Txids) /\ r # <<>>
      /\ Seqs!ToSet(q \o r) \subseteq RowTxids(tip, s)
  BY <1>1 DEF Amid, Rowed, UnderWay
<1> HIDE DEF q, r
<1>3. Head(r) \in Seqs!ToSet(q \o r)
  BY <1>2, HeadMoves
<1>4. Head(r) \in Mined(tip)
  BY <1>1, <1>2, <1>3, RowsTxids DEF RowTxids
<1>5. Head(r) \in Txids /\ \A o \in Inputs[Head(r)] : o[1] \in Mined(tip)
  BY <1>1, <1>4, MinedFacts
<1> QED BY <1>4, <1>5 DEF r

LEMMA StopWalks ==
  ASSUME NEW P, NEW k, NEW j, DOMAIN j = Fields, NEW s, ChainWalk(P, k, j, s), NEW a, a # "ok"
  PROVE  ChainWalk(P, k, Done(j, a), s)
<1> DEFINE z == Done(j, a)
<1>1. z.at = "done" /\ z.answer = a /\ \A f \in Fields \ {"at", "answer"} : z[f] = j[f]
  BY DoneGoes
<1>2. {"scripts", "list", "todo"} \subseteq Fields \ {"at", "answer"}
  BY DEF Fields
<1> HIDE DEF z
<1>3. z.scripts = j.scripts /\ z.list = j.list /\ z.todo = j.todo
  BY <1>1, <1>2
<1>4. ChainWalk(P, k, z, s)
  BY <1>1, <1>3 DEF ChainWalk, Resolving
<1> QED BY <1>4 DEF z

LEMMA LocateWalks ==
  ASSUME NEW s, Walking(s), Locate
  PROVE  ChainWalk(past, tip, job', s)
<1>1. DOMAIN job = Fields /\ tip \in Blocks /\ job.at = "locate" /\ Amid(past, tip, job, s)
  BY WalkingFacts DEF Locate, Resolving
<1>2. Head(job.todo) \in Mined(tip)
  BY <1>1, NextMined DEF Resolving
<1>3. PICK l \in Locations(tip) : l.tx = Head(job.todo)
                                  /\ job' = [job EXCEPT !.found = l, !.at = "time"]
  BY <1>2 DEF Locate, Step
<1> DEFINE k == [job EXCEPT !.found = l, !.at = "time"]
<1>4. SameWalk(job, k) /\ k.found = l /\ k.at = "time"
  BY <1>1 DEF SameWalk, Fields
<1> HIDE DEF k
<1>5. l.place = "chain"
  BY <1>1, LocationFacts
<1>6. FoundNext(k)
  BY <1>3, <1>4, <1>5 DEF FoundNext, SameWalk
<1>7. Amid(past, tip, k, s)
  BY <1>1, <1>4, AmidSame
<1>8. ChainWalk(past, tip, k, s)
  BY <1>4, <1>6, <1>7, AmidWalks DEF Resolving
<1> QED BY <1>3, <1>8 DEF k

LEMMA FindTimeWalks ==
  ASSUME NEW s, Walking(s), FindTime
  PROVE  ChainWalk(past, tip, job', s)
<1>1. /\ DOMAIN job = Fields /\ tip \in Blocks /\ job.at = "time" /\ Amid(past, tip, job, s)
      /\ ChainWalk(past, tip, job, s) /\ job.found \in Places /\ job.route \in Lists
      /\ job.route # "tx"
  BY WalkingFacts DEF FindTime, Resolving
<1>2. FoundNext(job) /\ Head(job.todo) \in Txids
  BY <1>1, NextMined DEF ChainWalk, Resolving
<1> DEFINE b == BlockTime(tip, job.found.height)
           l == [job.found EXCEPT !.time = b]
           k == Holding(job, l)
<1>3. job' = IF b = NoBlock THEN Done(job, "404") ELSE Found(job, l)
  BY DEF FindTime, Step
<1>4. CASE b = NoBlock
  BY <1>1, <1>3, <1>4, StopWalks
<1>5. CASE b # NoBlock
  <2>1. b \in Blocks
    BY <1>1, <1>5, HashesAreBlocks DEF BlockTime
  <2> HIDE DEF b
  <2>2. l \in Places /\ l.tx = job.found.tx /\ l.place = job.found.place
    BY <1>1, <2>1 DEF Places
  <2> HIDE DEF l
  <2>3. job' = Resolve(k)
    <3>1. l.place # "none"
      BY <1>2, <2>2 DEF FoundNext
    <3> HIDE DEF k
    <3>2. Found(job, l) = IF l.place = "none" THEN NextValue(k) ELSE Resolve(k)
      BY <1>1, FoundCases DEF k
    <3> QED BY <1>3, <1>5, <3>1, <3>2
  <2>4. /\ k.inputs = (IF l.tx = NoTx THEN {} ELSE Inputs[l.tx]) /\ k.found = l
        /\ SameWalk(job, k)
    <3> DEFINE i == IF l.tx = NoTx THEN {} ELSE Inputs[l.tx]
               n == [job EXCEPT !.found = l, !.inputs = i]
    <3>1. k = n
      BY DEF Holding
    <3> HIDE DEF i, k
    <3>2. n.found = l /\ n.inputs = i /\ SameWalk(job, n)
      BY <1>1 DEF Fields, SameWalk
    <3> QED BY <3>1, <3>2 DEF i
  <2> HIDE DEF k
  <2>5. FoundNext(k) /\ k.route # "tx"
    BY <1>1, <1>2, <2>2, <2>4 DEF FoundNext, SameWalk
  <2>6. Amid(past, tip, k, s)
    BY <1>1, <2>4, AmidSame
  <2>7. k.inputs \subseteq Inputs[k.found.tx]
    BY <2>4
  <2>8. k.found \in Places
    BY <2>2, <2>4
  <2> QED BY <2>3, <2>5, <2>6, <2>7, <2>8, ResolveWalks
<1> QED BY <1>4, <1>5

LEMMA PrevoutWalks ==
  ASSUME NEW s, Walking(s), PrevoutInPool \/ PrevoutInChain
  PROVE  ChainWalk(past, tip, job', s)
<1>1. /\ DOMAIN job = Fields /\ tip \in Blocks /\ job.at \in {"prevout", "funding"}
      /\ Amid(past, tip, job, s) /\ job.found \in Places /\ job.route # "tx"
      /\ ChainWalk(past, tip, job, s)
  BY WalkingFacts DEF PrevoutInPool, PrevoutInChain, Resolving
<1>2. FoundNext(job) /\ job.inputs \subseteq Inputs[job.found.tx] /\ job.inputs # {}
  BY <1>1 DEF ChainWalk
<1>3. Input \in job.inputs
  BY <1>2 DEF Input
<1>4. Input[1] \in Mined(tip)
  <2>1. \A o \in Inputs[Head(job.todo)] : o[1] \in Mined(tip)
    BY <1>1, NextMined DEF Resolving
  <2> QED BY <1>2, <1>3, <2>1 DEF FoundNext
<1> DEFINE i == job.inputs \ {Input}
           k == [job EXCEPT !.inputs = i]
           f == [job EXCEPT !.at = "funding"]
<1>5. job' \in {Resolve(k), f}
  BY <1>4 DEF PrevoutInPool, PrevoutInChain, Step
<1> HIDE DEF i
<1>6. SameWalk(job, k) /\ k.inputs = i /\ k.found = job.found
  BY <1>1 DEF SameWalk, Fields
<1>7. SameWalk(job, f) /\ f.inputs = job.inputs /\ f.found = job.found /\ f.at = "funding"
  BY <1>1 DEF SameWalk, Fields
<1> HIDE DEF k, f
<1>8. Amid(past, tip, k, s) /\ Amid(past, tip, f, s)
  BY <1>1, <1>6, <1>7, AmidSame
<1>9. FoundNext(k) /\ FoundNext(f) /\ k.route # "tx"
  BY <1>1, <1>2, <1>6, <1>7 DEF FoundNext, SameWalk
<1>10. ChainWalk(past, tip, f, s)
  BY <1>2, <1>7, <1>8, <1>9, AmidWalks DEF Resolving
<1>11. ChainWalk(past, tip, Resolve(k), s)
  <2>1. k.inputs \subseteq Inputs[k.found.tx] /\ k.found \in Places
    BY <1>1, <1>2, <1>6 DEF i
  <2> QED BY <1>8, <1>9, <2>1, ResolveWalks
<1> QED BY <1>5, <1>10, <1>11

\* All that was there all the time is in the rows now.
LEMMA AlwaysInRows ==
  ASSUME NEW P, NEW b \in Blocks, NEW S, <<b, S>> \in P, NEW s
  PROVE  AlwaysMined(P, s) \subseteq RowTxids(b, s)
<1> SUFFICES ASSUME NEW t \in AlwaysMined(P, s) PROVE t \in RowTxids(b, s)
  OBVIOUS
<1>1. <<b, S>>[1] = b
  OBVIOUS
<1>2. t \in Touching(Txids, s) /\ t \in Mined(b)
  BY <1>1 DEF AlwaysMined
<1> QED BY <1>2, RowsTxids DEF RowTxids

\* What follows the cursor.
RestOf(chain, c) ==
  IF c = NoTx THEN chain ELSE IF c \in Seqs!ToSet(chain) THEN After(chain, c) ELSE <<>>

\* The rows that follow the cursor are those behind what is listed.
LEMMA RestLeaves ==
  ASSUME NEW b \in Blocks, NEW s, NEW q \in Seq(Txids), InTurn(Newer(b, s), q),
         Seqs!ToSet(q) \subseteq RowTxids(b, s),
         NEW A, A \subseteq RowTxids(b, s), Reaches(Newer(b, s), A, q),
         NEW c, c = IF q = <<>> THEN NoTx ELSE q[Len(q)]
  PROVE  /\ Leaves(Newer(b, s), Txids, A, q, RestOf(RowsDesc(Rows(b, s)), c))
         /\ Seqs!ToSet(RestOf(RowsDesc(Rows(b, s)), c)) \subseteq RowTxids(b, s)
<1> DEFINE R == Newer(b, s)
           chain == RowsDesc(Rows(b, s))
           rest == RestOf(chain, c)
           X == RowTxids(b, s)
<1>1. Ordering(R)
  BY NewerOrder
<1>2. chain \in Seq(Txids) /\ InTurn(R, chain) /\ \A t : t \in Seqs!ToSet(chain) <=> t \in X
  BY RowsInTurn DEF RowTxids
<1> HIDE DEF R, chain, X
<1>3. /\ rest \in Seq(Txids) /\ InTurn(R, rest)
      /\ \A t : t \in Seqs!ToSet(rest) <=> t \in X /\ Behind(R, q, t)
  <2>1. CASE q = <<>>
    <3>1. rest = chain
      BY <2>1 DEF RestOf
    <3> QED BY <1>2, <2>1, <3>1 DEF Behind
  <2>2. CASE q # <<>>
    <3>1. Len(q) \in 1..Len(q) /\ c = q[Len(q)]
      BY <2>2
    <3>2. c \in Seqs!ToSet(q) /\ c \in Txids
      BY <3>1, SetOf
    <3>3. c \in Seqs!ToSet(chain)
      BY <1>2, <3>2 DEF X
    <3>4. c # NoTx
      BY <3>2, TxidsAssumption DEF TxidsAssumption
    <3>5. rest = After(chain, c)
      BY <3>3, <3>4 DEF RestOf
    <3>6. /\ After(chain, c) \in Seq(Txids) /\ InTurn(R, After(chain, c))
          /\ \A t : t \in Seqs!ToSet(After(chain, c)) <=> t \in Seqs!ToSet(chain) /\ <<c, t>> \in R
      BY <1>1, <1>2, <3>3, AfterFacts
    <3>7. \A t : Behind(R, q, t) <=> <<c, t>> \in R
      BY <2>2, <3>1 DEF Behind
    <3> QED BY <1>2, <3>5, <3>6, <3>7
  <2> QED BY <2>1, <2>2
<1> HIDE DEF rest
<1>4. A \subseteq Seqs!ToSet(q) \cup Seqs!ToSet(rest)
  BY <1>3 DEF Reaches, R, X
<1>5. InTurn(R, q)
  BY DEF R
<1>6. Leaves(R, Txids, A, q, rest)
  BY <1>1, <1>3, <1>4, <1>5 DEF Leaves
<1> QED BY <1>3, <1>6 DEF R, rest, chain, X

\* A page of the rows, after the cursor.
LEMMA TakeWalks ==
  ASSUME NEW P, NEW b \in Blocks, NEW S, <<b, S>> \in P, NEW s, NEW j, DOMAIN j = Fields,
         j.route \in Walks, j.scripts = <<s>>, j.list \in Seq(Places), j.todo = <<>>,
         Rowed(b, s, j.list, <<>>), Turning(Newer(b, s), AlwaysMined(P, s), j)
  PROVE  ChainWalk(P, b, Take(j, RestOf(RowsDesc(Rows(b, s)), j.cursor)), s)
<1> DEFINE R == Newer(b, s)
           A == AlwaysMined(P, s)
           X == RowTxids(b, s)
           q == Txs(j.list)
           c == j.cursor
           rest == RestOf(RowsDesc(Rows(b, s)), c)
           page == PageOf(rest)
           k == Take(j, rest)
<1>1. /\ q \in Seq(Txids) /\ Len(q) = Len(j.list) /\ (q = <<>> <=> j.list = <<>>)
      /\ c = IF q = <<>> THEN NoTx ELSE q[Len(q)]
  <2>1. q \in Seq(Txids) /\ Len(q) = Len(j.list) /\ (q = <<>> <=> j.list = <<>>)
    BY TxsFacts DEF Rowed
  <2>2. c = IF q = <<>> THEN NoTx ELSE q[Len(q)]
    BY <2>1, TxsFacts DEF Turning
  <2> QED BY <2>1, <2>2
<1>2. InTurn(R, q) /\ Seqs!ToSet(q) \subseteq X /\ Reaches(R, A, q) /\ j.from = Len(q)
  <2>1. q \o <<>> = q
    BY <1>1
  <2> QED BY <1>1, <2>1 DEF Rowed, Turning
<1> HIDE DEF q, c
<1>3. A \subseteq X
  BY AlwaysInRows
<1> HIDE DEF A
<1>4. Leaves(R, Txids, A, q, rest) /\ Seqs!ToSet(rest) \subseteq X
  BY <1>1, <1>2, <1>3, RestLeaves
<1> HIDE DEF rest, R, X
<1>5. /\ page \in Seq(Txids) /\ Seqs!ToSet(page) \subseteq Seqs!ToSet(rest)
      /\ page = <<>> <=> rest = <<>>
      /\ InTurn(R, q \o page) /\ Reaches(R, A, q \o page)
      /\ page = <<>> => A \subseteq Seqs!ToSet(q)
  <2>1. Adds(R, Txids, A, q, rest, page)
    BY <1>4, PageTurned
  <2> QED BY <2>1 DEF Adds
<1>6. CASE rest = <<>>
  <2>1. k = PageDone(j)
    BY <1>6 DEF Take
  <2>2. Turned(R, A, j, PageDone(j))
    <3>1. j.from \in Nat /\ j.from <= Len(j.list)
      BY <1>1, <1>2
    <3>2. Reaches(R, A, Txs(j.list)) /\ A \subseteq Seqs!ToSet(Txs(j.list))
      BY <1>2, <1>5, <1>6 DEF q
    <3> QED BY <3>1, <3>2, PageDoneTurned
  <2> HIDE DEF k
  <2>3. /\ k.list = j.list /\ k.todo = <<>> /\ k.scripts = <<s>> /\ k.at \in {"done", "more"}
        /\ k.at = "done" => A \subseteq Seqs!ToSet(Txs(k.list))
        /\ k.at = "more" => Turning(R, A, k)
    BY <2>1, <2>2 DEF Turned
  <2>4. ChainWalk(P, b, k, s)
    BY <2>3 DEF ChainWalk, Resolving, R, A
  <2> QED BY <2>4 DEF k, rest, c
<1>7. CASE rest # <<>>
  <2> DEFINE z == [j EXCEPT !.todo = page, !.at = "locate"]
  <2>1. k = z
    BY <1>7 DEF Take, PageOf
  <2> HIDE DEF page, k
  <2>2. /\ DOMAIN z = Fields /\ z.route = j.route /\ z.scripts = j.scripts /\ z.list = j.list
        /\ z.todo = page /\ z.from = j.from /\ z.at = "locate"
    BY DEF Fields
  <2> HIDE DEF z
  <2>3. Seqs!ToSet(q \o page) \subseteq X
    BY <1>1, <1>2, <1>4, <1>5, ConcatSet
  <2>4. Rowed(b, s, z.list, z.todo)
    BY <1>1, <1>5, <2>2, <2>3 DEF Rowed, q, R, X
  <2>5. UnderWay(P, b, s, z)
    <3>1. z.from \in Nat /\ z.from <= Len(z.list)
      BY <1>1, <1>2, <2>2
    <3> QED BY <1>5, <1>7, <2>2, <3>1 DEF UnderWay, q, R, A
  <2>6. Amid(P, b, z, s)
    BY <2>2, <2>4, <2>5 DEF Amid
  <2>7. ChainWalk(P, b, z, s)
    BY <2>2, <2>6, AmidWalks DEF Resolving
  <2> QED BY <2>1, <2>7 DEF k, rest, c
<1> QED BY <1>6, <1>7

OnChain(j) == j.route = "txs chain"

LEMMA SelectOnChain ==
  ASSUME NEW j, OnChain(j), NEW mempool
  PROVE  Select(j, mempool) = Take(j, RestOf(RowsDesc(j.rows), j.cursor))
<1> DEFINE chain == RowsDesc(j.rows)
           c == j.cursor
           e1 == Take(j, mempool)
           e2 == Take(j, RestOf(chain, c))
           e3 == Take(j, mempool \o chain)
           e4 == Take(j, After(mempool, c) \o chain)
           e5 == Take(j, After(chain, c))
           e6 == Done(j, "422")
           x == c \in Seqs!ToSet(mempool)
           y == c \in Seqs!ToSet(chain) \ Seqs!ToSet(mempool)
<1>1. Select(j, mempool) = CASE j.route = "txs mempool" -> e1
                             [] j.route = "txs chain" -> e2
                             [] j.route = "txs" /\ c = NoTx -> e3
                             [] j.route = "txs" /\ x -> e4
                             [] j.route = "txs" /\ y -> e5
                             [] OTHER -> e6
  BY DEF Select, RestOf
<1> HIDE DEF e1, e2, e3, e4, e5, e6, x, y, c
<1>2. Select(j, mempool) = e2
  BY <1>1 DEF OnChain
<1> QED BY <1>2 DEF e2, chain, c

LEMMA HistoryWalks ==
  ASSUME NEW s, Walking(s), History
  PROVE  ChainWalk(past, tip, job', s)
<1>1. /\ DOMAIN job = Fields /\ job.at = "history" /\ job.route \in Walks /\ job.list \in Seq(Places)
      /\ tip \in Blocks /\ s \in Scripts /\ <<tip, pool>> \in past /\ ChainWalk(past, tip, job, s)
      /\ OnChain(job)
  BY WalkingFacts DEF History, Current, Walking, OnChain
<1>2. /\ job.scripts = <<s>> /\ job.keys = <<s>> /\ job.rows = {} /\ job.todo = <<>>
      /\ Rowed(tip, s, job.list, <<>>) /\ Turning(Newer(tip, s), AlwaysMined(past, s), job)
  BY <1>1 DEF ChainWalk
<1> DEFINE h == Head(job.keys)
           ks == Only(job.keys, Scripts \ {h})
           rs == job.rows \cup { l \in Rows(tip, h) : \A m \in job.rows : m.tx # l.tx }
           us == job.utxos \cup Utxos(tip, h)
           j == [job EXCEPT !.keys = ks, !.rows = rs, !.utxos = us]
           many == Peak(tip, h) > UtxosLimit
           n == [j EXCEPT !.at = "mempool"]
           z == Select(j, <<>>)
           d == Done(j, "400")
<1>3. job' = CASE j.keys # <<>> -> j
               [] j.keys = <<>> /\ j.route = "txs chain" -> z
               [] j.keys = <<>> /\ j.route = "utxo" /\ many -> d
               [] OTHER -> n
  BY DEF History, Step
<1>4. h = s
  BY <1>2
<1>5. ks = <<>>
  <2>1. ks = Only(<<s>>, Scripts \ {s})
    BY <1>2, <1>4
  <2> HIDE DEF ks
  <2> QED BY <1>1, <2>1, OnlyOther
<1>6. rs = Rows(tip, s)
  <2> HIDE DEF h
  <2> QED BY <1>2, <1>4
<1> HIDE DEF ks, rs, us, many, h
<1>7. /\ DOMAIN j = Fields /\ j.keys = ks /\ j.rows = rs /\ j.route = job.route
      /\ j.scripts = job.scripts /\ j.list = job.list /\ j.todo = job.todo
      /\ j.from = job.from /\ j.cursor = job.cursor
  BY <1>1 DEF Fields
<1> HIDE DEF j, n, z, d
<1>8. OnChain(j)
  BY <1>1, <1>7 DEF OnChain
<1>9. job' = z
  BY <1>3, <1>5, <1>7, <1>8 DEF OnChain
<1>10. z = Take(j, RestOf(RowsDesc(Rows(tip, s)), j.cursor))
  BY <1>6, <1>7, <1>8, SelectOnChain DEF z
<1>11. Turning(Newer(tip, s), AlwaysMined(past, s), j)
  BY <1>2, <1>7 DEF Turning
<1>12. /\ j.route \in Walks /\ j.scripts = <<s>> /\ j.list \in Seq(Places) /\ j.todo = <<>>
       /\ Rowed(tip, s, j.list, <<>>)
  BY <1>1, <1>2, <1>7
<1> QED BY <1>1, <1>7, <1>9, <1>10, <1>11, <1>12, TakeWalks

LEMMA MoreWalksOn ==
  ASSUME NEW s, Walking(s), More
  PROVE  ChainWalk(past, tip, job', s)
<1>1. DOMAIN job = Fields /\ job.at = "more" /\ ChainWalk(past, tip, job, s)
  BY WalkingFacts DEF More
<1> DEFINE a == IF job.route = "mempool page" THEN "page" ELSE "history"
           k == [job EXCEPT !.at = a, !.keys = job.scripts, !.rows = {}, !.utxos = {}]
<1>2. job' = k /\ a = "history"
  BY DEF Walking, More, Step
<1> HIDE DEF a
<1>3. /\ k.at = a /\ k.list = job.list /\ k.from = job.from /\ k.cursor = job.cursor
      /\ k.keys = job.scripts /\ k.rows = {} /\ k.scripts = job.scripts /\ k.todo = job.todo
  BY <1>1 DEF Fields
<1> HIDE DEF k
<1>4. /\ job.todo = <<>> /\ Turning(Newer(tip, s), AlwaysMined(past, s), job)
      /\ job.scripts = <<s>> /\ Rowed(tip, s, job.list, job.todo)
  BY <1>1 DEF ChainWalk
<1>5. Turning(Newer(tip, s), AlwaysMined(past, s), k)
  BY <1>3, <1>4 DEF Turning
<1>6. ChainWalk(past, tip, k, s)
  BY <1>2, <1>3, <1>4, <1>5 DEF ChainWalk, Resolving
<1> QED BY <1>2, <1>6

-----------------------------------------------------------------------------
(* Walks, whatever happens meanwhile *)

LEMMA RowsGrow ==
  ASSUME NEW a, NEW b \in Blocks, Grown(a, b), NEW s
  PROVE  /\ Rows(a, s) \subseteq Rows(b, s) /\ Newer(a, s) \subseteq Newer(b, s)
         /\ RowTxids(a, s) \subseteq RowTxids(b, s)
<1>1. Locations(a) \subseteq Locations(b) /\ Mined(a) \subseteq Mined(b)
  BY GrownLocations
<1>2. Touching(Mined(a), s) \subseteq Touching(Mined(b), s)
  BY <1>1 DEF Touching
<1>3. Rows(a, s) \subseteq Rows(b, s)
  BY <1>1, <1>2 DEF Rows
<1>4. Newer(a, s) \subseteq Newer(b, s)
  BY <1>3 DEF Newer
<1> QED BY <1>3, <1>4 DEF RowTxids

LEMMA AlwaysShrinks ==
  ASSUME NEW P, NEW Q, P \subseteq Q, NEW s
  PROVE  AlwaysPooled(Q) \subseteq AlwaysPooled(P) /\ AlwaysMined(Q, s) \subseteq AlwaysMined(P, s)
BY DEF AlwaysPooled, AlwaysMined

LEMMA ReachesStill ==
  ASSUME NEW R, NEW S, R \subseteq S, NEW A, NEW B, B \subseteq A, NEW q, Reaches(R, A, q)
  PROVE  Reaches(S, B, q)
BY DEF Reaches, Behind

LEMMA TurningStill ==
  ASSUME NEW R, NEW S, R \subseteq S, NEW A, NEW B, B \subseteq A, NEW j, Turning(R, A, j)
  PROVE  Turning(S, B, j)
BY ReachesStill DEF Turning

LEMMA PoolWalksGrow ==
  ASSUME NEW P, NEW Q, P \subseteq Q, NEW j, PoolWalks(P, j)
  PROVE  PoolWalks(Q, j)
<1>1. AlwaysPooled(Q) \subseteq AlwaysPooled(P)
  BY AlwaysShrinks
<1>2. Turning(Arrivals, AlwaysPooled(P), j) => Turning(Arrivals, AlwaysPooled(Q), j)
  BY <1>1, TurningStill
<1>3. PoolWalk(P, j) => PoolWalk(Q, j)
  BY <1>1, <1>2 DEF PoolWalk
<1> QED BY <1>3 DEF PoolWalks

LEMMA ChainWalkGrows ==
  ASSUME NEW P, NEW Q, P \subseteq Q, NEW a, NEW b \in Blocks, Grown(a, b), NEW j, NEW s,
         ChainWalk(P, a, j, s)
  PROVE  ChainWalk(Q, b, j, s)
<1> DEFINE R == Newer(a, s)
           S == Newer(b, s)
           A == AlwaysMined(P, s)
           B == AlwaysMined(Q, s)
<1>1. R \subseteq S /\ B \subseteq A /\ RowTxids(a, s) \subseteq RowTxids(b, s)
  BY RowsGrow, AlwaysShrinks
<1>2. Rowed(b, s, j.list, j.todo)
  <2>1. Rowed(a, s, j.list, j.todo)
    BY DEF ChainWalk
  <2>2. InTurn(S, Txs(j.list) \o j.todo)
    <3> DEFINE q == Txs(j.list) \o j.todo
    <3>1. InTurn(R, q)
      BY <2>1 DEF Rowed
    <3> HIDE DEF q, R, S
    <3>2. InTurn(S, q)
      BY <1>1, <3>1 DEF InTurn
    <3> QED BY <3>2 DEF q, S
  <2> QED BY <1>1, <2>1, <2>2 DEF Rowed
<1> HIDE DEF R, S, A, B
<1>3. Turning(R, A, j) => Turning(S, B, j)
  BY <1>1, TurningStill
<1>4. UnderWay(P, a, s, j) => UnderWay(Q, b, s, j)
  <2> DEFINE q == Txs(j.list) \o j.todo
  <2> HIDE DEF q
  <2>1. Reaches(R, A, q) => Reaches(S, B, q)
    BY <1>1, ReachesStill
  <2> QED BY <2>1 DEF UnderWay, q, R, S, A, B
<1> QED BY <1>1, <1>2, <1>3, <1>4 DEF ChainWalk, R, S, A, B

LEMMA ChainWalksGrow ==
  ASSUME NEW P, NEW Q, P \subseteq Q, NEW a, NEW b \in Blocks, Grown(a, b), NEW j,
         ChainWalks(P, a, j)
  PROVE  ChainWalks(Q, b, j)
<1>1. \A s \in Scripts : ChainWalk(P, a, j, s) => ChainWalk(Q, b, j, s)
  BY ChainWalkGrows
<1> QED BY <1>1 DEF ChainWalks

\* Where no walk comes by.
Apart ==
  {"pool", "get", "get chain", "hash", "header", "get merkle", "headers", "spender", "refs",
   "check", "spent time", "mempool", "utxo block", "utxo time", "first", "listing", "at height",
   "best", "next", "tip"}

LEMMA ReadingWalkWhere ==
  ASSUME Reading
  PROVE  \/ History \/ HistoryFails \/ Page \/ More \/ Locate \/ FindTime
         \/ PrevoutInPool \/ PrevoutInChain \/ Deadline \/ job.at \in Apart
<1>1. FindInPool \/ GetFromPool \/ GetFromChain \/ BlockPosition => job.at \in Apart
  BY DEF FindInPool, GetFromPool, GetFromChain, BlockPosition, Apart
<1>2. MerkleblockHeader \/ GetMerkle \/ BlockHeaders \/ SpenderInPool => job.at \in Apart
  BY DEF MerkleblockHeader, GetMerkle, BlockHeaders, SpenderInPool, Apart
<1>3. ScanRefs \/ CheckTip \/ SpenderTime \/ Mempool => job.at \in Apart
  BY DEF ScanRefs, CheckTip, SpenderTime, Mempool, Apart
<1>4. UtxoBlock \/ UtxoTime \/ FirstTip \/ ListBlock \/ BlockAtHeight => job.at \in Apart
  BY DEF UtxoBlock, UtxoTime, FirstTip, ListBlock, BlockAtHeight, Apart
<1>5. InBestChain \/ NextBest \/ ReadTip => job.at \in Apart
  BY DEF InBestChain, NextBest, ReadTip, Apart
<1> QED BY <1>1, <1>2, <1>3, <1>4, <1>5 DEF Reading

LEMMA ReadingPoolWalks ==
  ASSUME Serving, PoolWalks(past, job), Reading
  PROVE  PoolWalks(past, job')
<1>1. IsJob(job) /\ job'.route = job.route /\ job.at # "done"
  BY ReadingGoes DEF Serving, Goes
<1>2. SUFFICES ASSUME WalksPool PROVE PoolWalk(past, job')
  BY <1>1 DEF PoolWalks, WalksPool
<1>3. job.at \in {"page", "more"}
  BY <1>1, <1>2 DEF WalksPool, PoolWalk
<1>4. job.at \notin Apart
  BY <1>3 DEF Apart
<1>5. ~(History \/ HistoryFails \/ Locate \/ FindTime \/ PrevoutInPool \/ PrevoutInChain \/ Deadline)
  BY <1>3 DEF History, HistoryFails, Locate, FindTime, PrevoutInPool, PrevoutInChain, Deadline
<1> QED BY <1>2, <1>4, <1>5, ReadingWalkWhere, PageWalks, MoreWalks

LEMMA ReadingChainWalks ==
  ASSUME Serving, Current(past, tip, pool), ChainWalks(past, tip, job), Reading
  PROVE  ChainWalks(past, tip, job')
<1>1. IsJob(job) /\ job'.route = job.route /\ job.at # "done"
  BY ReadingGoes DEF Serving, Goes
<1>2. SUFFICES ASSUME NEW s \in Scripts, Walking(s) PROVE ChainWalk(past, tip, job', s)
  BY <1>1 DEF ChainWalks, Walking
<1>3. DOMAIN job = Fields /\ ChainWalk(past, tip, job, s)
  BY <1>2, WalkingFacts
<1>4. job.at \in {"history", "more"} \cup Resolving
  BY <1>1, <1>3 DEF ChainWalk
<1>5. job.at \notin Apart /\ ~Page
  BY <1>4 DEF Apart, Resolving, Page
<1>6. HistoryFails \/ Deadline => ChainWalk(past, tip, job', s)
  BY <1>3, StopWalks DEF HistoryFails, Deadline, Step
<1> QED BY <1>2, <1>5, <1>6, ReadingWalkWhere, HistoryWalks, MoreWalksOn, LocateWalks,
        FindTimeWalks, PrevoutWalks

\* Nothing is listed yet.
LEMMA NothingListed ==
  /\ Txs(<<>>) = <<>> /\ <<>> \in Seq(Txids) /\ Len(<<>>) = 0 /\ <<>> \o <<>> = <<>>
  /\ Seqs!ToSet(<<>>) = {}
  /\ \A R : InTurn(R, <<>>) /\ \A A : Reaches(R, A, <<>>)
<1>1. Txs(<<>>) = <<>> /\ <<>> \in Seq(Txids) /\ Len(<<>>) = 0 /\ <<>> \o <<>> = <<>>
  BY DEF Txs
<1>2. Seqs!ToSet(<<>>) = {}
  BY DEF Seqs!ToSet
<1>3. \A R : InTurn(R, <<>>) /\ \A A : Reaches(R, A, <<>>)
  BY DEF InTurn, Reaches, Behind
<1> QED BY <1>1, <1>2, <1>3

LEMMA RequestsWalk ==
  ASSUME NEW j \in Requests, NEW P, NEW k
  PROVE  PoolWalks(P, j) /\ ChainWalks(P, k, j)
<1>1. CASE j.route \notin Walks
  BY <1>1 DEF PoolWalks, ChainWalks, Walks
<1>2. CASE \E r \in ScriptRoutes, s \in Scripts : j = OfScripts(r, <<s>>, NoTx)
  <2>1. PICK r \in ScriptRoutes, s \in Scripts : j = OfScripts(r, <<s>>, NoTx)
    BY <1>2
  <2>2. New(OfScripts(r, <<s>>, NoTx), r, "history")
    BY NewRequests
  <2>3. /\ Blank(OfScripts(r, <<s>>, NoTx)) /\ OfScripts(r, <<s>>, NoTx).scripts = <<s>>
        /\ OfScripts(r, <<s>>, NoTx).keys = <<s>>
    BY BlankRequests
  <2>4. j.route = r /\ j.at = "history" /\ Blank(j) /\ j.scripts = <<s>> /\ j.keys = <<s>>
    BY <2>1, <2>2, <2>3 DEF New
  <2>5. j.todo = <<>> /\ j.from = 0 /\ j.cursor = NoTx
    <3>1. Idle.todo = <<>> /\ Idle.from = 0 /\ DOMAIN Idle = Fields
      BY BlankIdle DEF Idle
    <3> DEFINE keys == <<s>>
    <3> HIDE DEF keys
    <3>2. /\ OfScripts(r, keys, NoTx).todo = <<>> /\ OfScripts(r, keys, NoTx).from = 0
          /\ OfScripts(r, keys, NoTx).cursor = NoTx
      BY <3>1 DEF OfScripts, Fields
    <3> QED BY <2>1, <3>2 DEF keys
  <2>6. j.list = <<>> /\ j.rows = {}
    BY <2>4 DEF Blank
  <2>7. Rowed(k, s, j.list, j.todo) /\ Turning(Newer(k, s), AlwaysMined(P, s), j)
    BY <2>5, <2>6, NothingListed DEF Rowed, Turning
  <2>8. ChainWalk(P, k, j, s)
    BY <2>4, <2>5, <2>6, <2>7 DEF ChainWalk, Resolving
  <2>9. PoolWalks(P, j)
    BY <2>4 DEF PoolWalks, ScriptRoutes
  <2> QED BY <2>8, <2>9 DEF ChainWalks
<1>3. CASE \E r \in PageRoutes : j = Plain(r, "page")
  <2>1. PICK r \in PageRoutes : j = Plain(r, "page")
    BY <1>3
  <2>2. New(Plain(r, "page"), r, "page") /\ Blank(Plain(r, "page"))
    BY NewRequests, BlankRequests
  <2>3. j.route = r /\ j.at = "page" /\ Blank(j)
    BY <2>1, <2>2 DEF New
  <2>4. j.from = 0 /\ j.cursor = NoTx /\ j.list = <<>>
    <3>1. Idle.from = 0 /\ Idle.cursor = NoTx /\ DOMAIN Idle = Fields
      BY BlankIdle DEF Idle
    <3>2. Plain(r, "page").from = 0 /\ Plain(r, "page").cursor = NoTx
      BY <3>1 DEF Plain, Fields
    <3> QED BY <2>1, <2>3, <3>2 DEF Blank
  <2>5. Turning(Arrivals, AlwaysPooled(P), j)
    BY <2>4, NothingListed DEF Turning
  <2>6. PoolWalk(P, j)
    BY <2>3, <2>4, <2>5, NothingListed DEF PoolWalk
  <2>7. ChainWalks(P, k, j)
    BY <2>3 DEF ChainWalks, PageRoutes
  <2> QED BY <2>6, <2>7 DEF PoolWalks
<1> QED BY <1>1, <1>2, <1>3, ListRequests

LEMMA IdleWalks ==
  ASSUME NEW P, NEW k
  PROVE  PoolWalks(P, Idle) /\ ChainWalks(P, k, Idle)
<1>1. Idle.route \notin Walks
  BY IdleFacts DEF Walks
<1> QED BY <1>1 DEF PoolWalks, ChainWalks, Walks

LEMMA WalksInit == Init => WalksInv
<1> SUFFICES ASSUME Init PROVE WalksInv
  OBVIOUS
<1>1. job = Idle
  BY DEF Init
<1> QED BY <1>1, GenuineInit, IdleWalks DEF WalksInv

LEMMA WalksNext == KnowsInv /\ WalksInv /\ [Next]_vars => WalksInv'
<1> SUFFICES ASSUME KnowsInv, WalksInv, [Next]_vars PROVE WalksInv'
  OBVIOUS
<1>1. /\ GenuineInv' /\ GenuineInv /\ PoolWalks(past, job)
      /\ ~reorged => ChainWalks(past, tip, job)
  BY GenuineNext DEF WalksInv
<1>2. SUFFICES PoolWalks(past', job') /\ (~reorged' => ChainWalks(past', tip', job'))
  BY <1>1 DEF WalksInv
<1>3. CASE UNCHANGED vars
  BY <1>1, <1>3 DEF vars
<1>4. CASE Begin
  BY <1>4, RequestsWalk DEF Begin
<1>5. CASE Answered
  BY <1>5, IdleWalks DEF Answered
<1>6. CASE Refresh
  <2>1. PICK k \in Blocks : /\ tip' = k /\ past' = past \cup {<<k, pool>>}
                            /\ reorged' = (reorged \/ tip \notin Seqs!ToSet(Path[k]))
    BY <1>6 DEF Refresh
  <2>2. job' = job /\ past \subseteq past'
    BY <1>6, <2>1 DEF Refresh
  <2>3. PoolWalks(past', job')
    BY <1>1, <2>2, PoolWalksGrow
  <2>4. ASSUME ~reorged' PROVE ChainWalks(past', tip', job')
    <3>1. ~reorged /\ Grown(tip, k)
      BY <2>1, <2>4 DEF Grown
    <3> QED BY <1>1, <2>1, <2>2, <3>1, ChainWalksGrow
  <2> QED BY <2>3, <2>4
<1>7. CASE Poll
  <2>1. job' = job /\ past \subseteq past' /\ tip' = tip /\ reorged' = reorged /\ tip \in Blocks
    BY <1>7 DEF Poll, KnowsInv
  <2>2. PoolWalks(past', job')
    BY <1>1, <2>1, PoolWalksGrow
  <2>3. Grown(tip, tip)
    BY <2>1, GrownSelf
  <2> QED BY <1>1, <2>1, <2>2, <2>3, ChainWalksGrow
<1>8. CASE Reading
  <2>1. job.at # "idle" /\ past' = past /\ tip' = tip /\ reorged' = reorged
    BY <1>1, <1>8, ReadingGoes DEF GenuineInv
  <2>2. Serving
    BY <1>1, <2>1 DEF Serving, GenuineInv, World
  <2>3. ~reorged => Current(past, tip, pool)
    BY <2>1 DEF KnowsInv
  <2> QED BY <1>1, <1>8, <2>1, <2>2, <2>3, ReadingPoolWalks, ReadingChainWalks
<1>9. Next => Begin \/ Answered \/ Refresh \/ Poll \/ Reading
  BY DEF Next, Reading
<1> QED BY <1>3, <1>4, <1>5, <1>6, <1>7, <1>8, <1>9

LEMMA WalksAlways == Spec => [](KnowsInv /\ WalksInv)
<1>1. Init => KnowsInv /\ WalksInv
  BY KnowsInit, WalksInit
<1>2. KnowsInv /\ WalksInv /\ [Next]_vars => (KnowsInv /\ WalksInv)'
  BY KnowsNext, WalksNext
<1> QED BY <1>1, <1>2, PTL DEF Spec

\* Where a list has no transaction twice, it has as many of them as entries.
LEMMA ListedCount ==
  ASSUME NEW list \in Seq(Places), NEW R, Ordering(R), InTurn(R, Txs(list))
  PROVE  Cardinality({ list[i].tx : i \in DOMAIN list }) = Len(list)
<1> DEFINE n == Len(list)
           f == Txs(list)
           L == { list[i].tx : i \in DOMAIN list }
           D == 1..n
<1>1. n \in Nat /\ DOMAIN list = D
  OBVIOUS
<1>2. f \in Seq(Txids \cup {NoTx}) /\ Len(f) = n /\ \A i \in 1..n : f[i] = list[i].tx
  BY TxsFacts
<1>3. f = [i \in D |-> list[i].tx]
  BY <1>1 DEF Txs
<1>4. \A i, m \in D : f[i] = f[m] => i = m
  BY <1>2, InTurnOnce
<1>5. L = { list[i].tx : i \in D }
  BY <1>1
<1> HIDE DEF L, D, f
<1>6. f \in Bijection(D, L)
  <2>1. f \in [D -> L]
    BY <1>3, <1>5
  <2>2. \A t \in L : \E i \in D : f[i] = t
    BY <1>3, <1>5
  <2>3. f \in Injection(D, L)
    BY <1>4, <2>1 DEF Injection, IsInjective
  <2>4. f \in Surjection(D, L)
    BY <2>1, <2>2 DEF Surjection
  <2> QED BY <2>3, <2>4 DEF Bijection
<1>7. IsFiniteSet(D) /\ Cardinality(D) = n
  <2>1. 0 \in Int /\ n \in Int /\ 1 \in Int
    BY <1>1
  <2>2. IsFiniteSet(1..n) /\ Cardinality(1..n) = IF 1 > n THEN 0 ELSE n - 1 + 1
    BY <2>1, FS_Interval
  <2> QED BY <1>1, <2>2 DEF D
<1>8. Cardinality(L) = Cardinality(D)
  BY <1>6, <1>7, FS_Bijection DEF ExistsBijection
<1> QED BY <1>7, <1>8 DEF L, n

LEMMA WalksAreComplete == WalksInv => WalksComplete
<1> SUFFICES ASSUME WalksInv PROVE WalksComplete
  OBVIOUS
<1>1. job.list \in Seq(Places) /\ tip \in Blocks
  BY DEF WalksInv, GenuineInv, Genuine, Solid, World
<1>2. Listed = Seqs!ToSet(Txs(job.list))
  <2>1. DOMAIN job.list = 1..Len(job.list)
    BY <1>1
  <2>2. /\ Txs(job.list) \in Seq(Txids \cup {NoTx}) /\ Len(Txs(job.list)) = Len(job.list)
        /\ \A i \in 1..Len(job.list) : Txs(job.list)[i] = job.list[i].tx
    BY <1>1, TxsFacts
  <2>3. \A t : t \in Seqs!ToSet(Txs(job.list)) <=> \E i \in 1..Len(job.list) : job.list[i].tx = t
    BY <2>2, SetOf
  <2>4. \A t : t \in Listed <=> \E i \in 1..Len(job.list) : job.list[i].tx = t
    BY <2>1 DEF Listed
  <2> QED BY <2>3, <2>4
<1>3. ASSUME PoolWalk(past, job)
      PROVE  /\ Cardinality(Listed) = Len(job.list)
             /\ job.at = "done" /\ job.answer = "ok" => AlwaysPooled(past) \subseteq Listed
  <2>1. InTurn(Arrivals, Txs(job.list)) /\ Ordering(Arrivals)
    BY <1>3, ArrivalsOrder DEF PoolWalk
  <2>2. Cardinality(Listed) = Len(job.list)
    BY <1>1, <2>1, ListedCount DEF Listed
  <2> QED BY <1>2, <1>3, <2>2 DEF PoolWalk
<1>4. ASSUME NEW s \in Scripts, ChainWalk(past, tip, job, s)
      PROVE  /\ Cardinality(Listed) = Len(job.list) /\ job.scripts[1] = s
             /\ job.at = "done" /\ job.answer = "ok" => AlwaysMined(past, s) \subseteq Listed
  <2> DEFINE q == Txs(job.list)
             r == job.todo
  <2>1. q \in Seq(Txids) /\ r \in Seq(Txids) /\ InTurn(Newer(tip, s), q \o r)
    BY <1>4 DEF ChainWalk, Rowed
  <2> HIDE DEF q, r
  <2>2. InTurn(Newer(tip, s), q)
    <3>1. /\ Len(q) \in Nat /\ Len(r) \in Nat /\ Len(q \o r) = Len(q) + Len(r)
          /\ DOMAIN q = 1..Len(q) /\ DOMAIN (q \o r) = 1..Len(q \o r)
      BY <2>1
    <3>2. \A i \in 1..Len(q) : i \in 1..Len(q \o r) /\ (q \o r)[i] = q[i]
      BY <2>1, <3>1
    <3> QED BY <2>1, <3>1, <3>2 DEF InTurn
  <2>3. Ordering(Newer(tip, s))
    BY <1>1, NewerOrder
  <2>4. Cardinality(Listed) = Len(job.list)
    BY <1>1, <2>2, <2>3, ListedCount DEF Listed, q
  <2>5. job.scripts = <<s>> /\ <<s>>[1] = s
    BY <1>4 DEF ChainWalk
  <2>6. job.at = "done" /\ job.answer = "ok" => AlwaysMined(past, s) \subseteq Listed
    BY <1>2, <1>4 DEF ChainWalk
  <2> QED BY <2>4, <2>5, <2>6
<1>5. job.route = "mempool page" => PoolWalk(past, job)
  BY DEF WalksInv, PoolWalks
<1>6. job.route = "txs chain" /\ ~reorged => \E s \in Scripts : ChainWalk(past, tip, job, s)
  BY DEF WalksInv, ChainWalks
<1>7. ASSUME NEW s \in Scripts, ChainWalk(past, tip, job, s), job.at = "done", job.answer = "ok"
      PROVE  { t \in Touching(Txids, job.scripts[1]) : \A view \in past : t \in Mined(view[1]) }
               \subseteq Listed
  BY <1>4, <1>7 DEF AlwaysMined
<1>8. ASSUME PoolWalk(past, job), job.at = "done", job.answer = "ok"
      PROVE  { t \in Txids : \A view \in past : t \in view[2] } \subseteq Listed
  BY <1>3, <1>8 DEF AlwaysPooled
<1>9. job.route \in Walks /\ ~reorged => Cardinality(Listed) = Len(job.list)
  BY <1>3, <1>4, <1>5, <1>6, Zenon DEF Walks
<1>10. Answers("mempool page", "ok") =>
         { t \in Txids : \A view \in past : t \in view[2] } \subseteq Listed
  BY <1>5, <1>8, Zenon DEF Answers
<1>11. Answers("txs chain", "ok") /\ ~reorged =>
         { t \in Touching(Txids, job.scripts[1]) : \A view \in past : t \in Mined(view[1]) }
           \subseteq Listed
  BY <1>6, <1>7, Zenon DEF Answers
<1> QED BY <1>9, <1>10, <1>11, Zenon DEF WalksComplete

\* rest/handlers.rs, the paged routes: a client that asks for page after page of
\* the mempool (paged_txids, which looks for what follows the cursor, whether or
\* not that is still there), or of the confirmed transactions of a script while
\* the chain only grows (txs_chain), gets all that was there all the time, and
\* nothing twice; for every order of the reads among refreshes and polls.
THEOREM WalksStayComplete == Spec => []WalksComplete
<1>1. KnowsInv /\ WalksInv => WalksComplete
  BY WalksAreComplete
<1> QED BY <1>1, WalksAlways, PTL
==============================================================================
