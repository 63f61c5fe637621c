------------------------- MODULE RestServer_proofs -------------------------
(***************************************************************************)
(* Proofs about RestServer, for any sockets, limits and messages: no slot  *)
(* and no permit is lost or used twice, and a kept connection is read on   *)
(* from where its client begins a request.                                 *)
(***************************************************************************)
EXTENDS RestServer, FiniteSetTheorems, TLAPS

\* The connections that hold a slot, and a permit.
Served == In(Places \ {"closed", "refused"})
Holders == { c \in Conns : HoldsPermit(c) }
Waiting == In({"queued"})

\* What a request in the queue asks for, and where the reader stands: only a
\* connection that is about to be closed may have lost its place.
QueuedExpensive == \A c \in Conns : at[c] = "queued" => IsExpensive(request[c].route)

Framed ==
  \A c \in Conns :
    /\ at[c] \in {"wait", "read", "queued", "handle"} => synced[c]
    /\ at[c] = "write" /\ request[c].keep_alive => synced[c]

\* A connection is in the queue at one position, and the queue is as long as
\* there are connections that wait.
QueueExact ==
  /\ \A i, j \in DOMAIN queue : queue[i] = queue[j] => i = j
  /\ Seqs!ToSet(queue) = Waiting
  /\ Len(queue) = Cardinality(Waiting)

\* The types, with the permits that are out counted rather than bounded.
Requests ==
  [route : ExpensiveRoutes \cup CheapRoutes \cup {"none"}, keep_alive : BOOLEAN,
   answer : {"none", "handled", "busy", "timeout", "invalid"}]

Shape ==
  /\ at \in [Conns -> Places]
  /\ request \in [Conns -> Requests]
  /\ synced \in [Conns -> BOOLEAN]
  /\ slots \in Nat /\ permits \in Nat
  /\ queue \in Seq(Conns)

IInv ==
  /\ Shape
  /\ slots + Cardinality(Served) = Capacity(MaxConnections)
  /\ permits + Cardinality(Holders) = Capacity(MaxQueries)
  /\ QueueExact
  /\ QueuedExpensive
  /\ Framed

-----------------------------------------------------------------------------
(* Counting *)

LEMMA CapacityNat == \A n \in Nat : Capacity(n) \in Nat /\ Capacity(n) > 0
  BY DEF Capacity

\* Sets of connections are finite and have a size.
LEMMA Sizes ==
  ASSUME NEW S \in SUBSET Conns
  PROVE  IsFiniteSet(S) /\ Cardinality(S) \in Nat
  BY RestAssumption, FS_Subset, FS_CardinalityType DEF RestAssumption

\* One connection more, and one less.
LEMMA OneMore ==
  ASSUME NEW S \in SUBSET Conns, NEW c \in Conns, c \notin S
  PROVE  Cardinality(S \cup {c}) = Cardinality(S) + 1
  BY Sizes, FS_AddElement

LEMMA OneLess ==
  ASSUME NEW S \in SUBSET Conns, NEW c \in S
  PROVE  Cardinality(S \ {c}) = Cardinality(S) - 1
  BY Sizes, FS_RemoveElement

-----------------------------------------------------------------------------
(* The queue *)

\* A connection that joins the queue.
LEMMA AppendOnce ==
  ASSUME NEW q \in Seq(Conns), NEW c \in Conns, c \notin Seqs!ToSet(q),
         \A i, j \in DOMAIN q : q[i] = q[j] => i = j
  PROVE  LET r == Append(q, c)
         IN  /\ r \in Seq(Conns) /\ Len(r) = Len(q) + 1
             /\ \A i, j \in DOMAIN r : r[i] = r[j] => i = j
             /\ Seqs!ToSet(r) = Seqs!ToSet(q) \cup {c}
<1> DEFINE r == Append(q, c)
<1>1. /\ r \in Seq(Conns) /\ Len(r) = Len(q) + 1
      /\ \A i \in 1..Len(q) : r[i] = q[i]
      /\ r[Len(q) + 1] = c
  OBVIOUS
<1>2. DOMAIN r = 1..(Len(q) + 1) /\ DOMAIN q = 1..Len(q) /\ Len(q) \in Nat
  BY <1>1
<1> HIDE DEF r
<1>3. \A i \in DOMAIN q : q[i] # c
  BY DEF Seqs!ToSet
<1>4. \A i, j \in DOMAIN r : r[i] = r[j] => i = j
  <2> SUFFICES ASSUME NEW i \in DOMAIN r, NEW j \in DOMAIN r, r[i] = r[j]
               PROVE  i = j
    OBVIOUS
  <2>1. CASE i = Len(q) + 1 /\ j # Len(q) + 1
    BY <1>1, <1>2, <1>3, <2>1
  <2>2. CASE j = Len(q) + 1 /\ i # Len(q) + 1
    BY <1>1, <1>2, <1>3, <2>2
  <2>3. CASE i # Len(q) + 1 /\ j # Len(q) + 1
    BY <1>1, <1>2, <2>3
  <2> QED BY <2>1, <2>2, <2>3
<1>5. Seqs!ToSet(r) = Seqs!ToSet(q) \cup {c}
  <2>1. \A i \in DOMAIN r : r[i] = c \/ \E j \in DOMAIN q : r[i] = q[j]
    BY <1>1, <1>2
  <2>2. \A j \in DOMAIN q : j \in DOMAIN r /\ r[j] = q[j]
    BY <1>1, <1>2
  <2>3. Len(q) + 1 \in DOMAIN r
    BY <1>2
  <2> QED BY <1>1, <2>1, <2>2, <2>3 DEF Seqs!ToSet
<1> QED BY <1>1, <1>4, <1>5 DEF r

\* A connection that leaves the queue, wherever it stands.
LEMMA RemoveOnce ==
  ASSUME NEW q \in Seq(Conns), NEW k \in DOMAIN q,
         \A i, j \in DOMAIN q : q[i] = q[j] => i = j
  PROVE  LET r == Seqs!RemoveAt(q, k)
         IN  /\ r \in Seq(Conns) /\ Len(r) = Len(q) - 1
             /\ \A i, j \in DOMAIN r : r[i] = r[j] => i = j
             /\ Seqs!ToSet(r) = Seqs!ToSet(q) \ {q[k]}
<1> DEFINE r == Seqs!RemoveAt(q, k)
<1>1. /\ r \in Seq(Conns) /\ Len(r) = Len(q) - 1
      /\ \A i \in 1..Len(r) : r[i] = q[IF i < k THEN i ELSE i + 1]
  <2> DEFINE a == SubSeq(q, 1, k - 1)
             b == SubSeq(q, k + 1, Len(q))
  <2>1. k \in 1..Len(q) /\ Len(q) \in Nat
    OBVIOUS
  <2>2. /\ a \in Seq(Conns) /\ Len(a) = k - 1
        /\ \A i \in 1..(k - 1) : a[i] = q[i]
    BY <2>1
  <2>3. /\ b \in Seq(Conns) /\ Len(b) = Len(q) - k
        /\ \A i \in 1..(Len(q) - k) : b[i] = q[i + k]
    BY <2>1
  <2> HIDE DEF a, b
  <2>4. /\ a \o b \in Seq(Conns) /\ Len(a \o b) = Len(q) - 1
        /\ \A i \in 1..(Len(q) - 1) : (a \o b)[i] = IF i < k THEN a[i] ELSE b[i - (k - 1)]
    BY <2>1, <2>2, <2>3
  <2>5. r = a \o b
    BY DEF Seqs!RemoveAt, a, b
  <2> HIDE DEF r
  <2>6. \A i \in 1..(Len(q) - 1) : i >= k => i - (k - 1) \in 1..(Len(q) - k) /\ i - (k - 1) + k = i + 1
    BY <2>1
  <2>7. ASSUME NEW i \in 1..(Len(q) - 1)
        PROVE  r[i] = q[IF i < k THEN i ELSE i + 1]
    <3>1. CASE i < k
      BY <2>1, <2>2, <2>4, <2>5, <3>1
    <3>2. CASE i >= k
      <4>1. r[i] = b[i - (k - 1)]
        BY <2>1, <2>4, <2>5, <3>2
      <4>2. b[i - (k - 1)] = q[i - (k - 1) + k]
        BY <2>3, <2>6, <3>2
      <4> QED BY <2>1, <2>6, <3>2, <4>1, <4>2
    <3> QED BY <2>1, <3>1, <3>2
  <2> QED BY <2>4, <2>5, <2>7
<1>2. DOMAIN r = 1..Len(r) /\ DOMAIN q = 1..Len(q) /\ Len(q) \in Nat
  BY <1>1
<1> HIDE DEF r
<1>3. \A i, j \in DOMAIN r : r[i] = r[j] => i = j
  <2> SUFFICES ASSUME NEW i \in DOMAIN r, NEW j \in DOMAIN r, r[i] = r[j]
               PROVE  i = j
    OBVIOUS
  <2> DEFINE m(x) == IF x < k THEN x ELSE x + 1
  <2>1. m(i) \in DOMAIN q /\ m(j) \in DOMAIN q /\ q[m(i)] = q[m(j)]
    BY <1>1, <1>2
  <2>2. m(i) = m(j)
    BY <2>1
  <2> QED BY <1>1, <1>2, <2>2
<1>4. \A i \in DOMAIN q : i # k => \E j \in DOMAIN r : r[j] = q[i]
  <2> SUFFICES ASSUME NEW i \in DOMAIN q, i # k PROVE \E j \in DOMAIN r : r[j] = q[i]
    OBVIOUS
  <2>1. CASE i < k
    BY <1>1, <1>2, <2>1
  <2>2. CASE i > k
    <3>1. i - 1 \in DOMAIN r /\ r[i - 1] = q[i]
      BY <1>1, <1>2, <2>2
    <3> QED BY <3>1
  <2> QED BY <1>2, <2>1, <2>2
<1>5. \A j \in DOMAIN r : \E i \in DOMAIN q : i # k /\ r[j] = q[i]
  BY <1>1, <1>2
<1>6. Seqs!ToSet(r) = Seqs!ToSet(q) \ {q[k]}
  BY <1>4, <1>5 DEF Seqs!ToSet
<1> QED BY <1>1, <1>3, <1>6 DEF r

\* The first one leaves.
LEMMA HeadRemoved ==
  ASSUME NEW q \in Seq(Conns), q # <<>>
  PROVE  /\ 1 \in DOMAIN q /\ q[1] = Head(q)
         /\ Seqs!RemoveAt(q, 1) = Tail(q)
  BY DEF Seqs!RemoveAt

-----------------------------------------------------------------------------
(* The steps *)

LEMMA InitInv == Init => IInv
<1> SUFFICES ASSUME Init PROVE IInv
  OBVIOUS
<1>1. Served = {} /\ Holders = {} /\ Waiting = {}
  BY DEF Init, Served, Holders, Waiting, In, HoldsPermit, Places
<1>2. Cardinality({}) = 0
  BY FS_EmptySet
<1>3. Shape
  BY RestAssumption, CapacityNat DEF RestAssumption, Init, Shape, Places, NoRequest, Requests
<1>4. QueueExact
  BY <1>1, <1>2 DEF Init, QueueExact, Seqs!ToSet
<1>5. QueuedExpensive /\ Framed
  BY DEF Init, QueuedExpensive, Framed
<1>6. slots + 0 = slots /\ permits + 0 = permits
  BY <1>3 DEF Shape
<1> QED BY <1>1, <1>2, <1>3, <1>4, <1>5, <1>6 DEF IInv, Init

\* A message that read_request accepts is as long as its client means it to be:
\* ambiguous ones are refused.
LEMMA AcceptedIsFramed ==
  ASSUME NEW msg \in Messages, ReadRequest(msg) = 200
  PROVE  ContentLength(msg) = msg.length
<1>1. /\ ~Has(msg, "malformed") /\ ~Has(msg, "transfer-encoding")
      /\ ContentLength(msg) # Junk
  BY DEF ReadRequest
<1> DEFINE said == Seqs!ToSet(LengthFields(msg))
<1>2. \/ LengthFields(msg) = <<>> /\ msg.length = 0
      \/ said = {msg.length}
      \/ msg.length = Junk /\ \E m, n \in said : m # n
  BY <1>1, MessagesAssumption DEF MessagesAssumption
<1>3. CASE LengthFields(msg) = <<>>
  <2>1. said = {}
    BY <1>3 DEF Seqs!ToSet
  <2> QED BY <1>2, <1>3, <2>1 DEF ContentLength
<1>4. CASE LengthFields(msg) # <<>>
  <2>1. said = {LengthFields(msg)[1]} /\ ContentLength(msg) = LengthFields(msg)[1]
    BY <1>1, <1>4 DEF ContentLength
  <2> HIDE DEF said
  <2> QED BY <1>2, <1>4, <2>1
<1> QED BY <1>3, <1>4

\* What a message asks for is a request's route and its wish.
LEMMA MessageTypes ==
  ASSUME NEW msg \in Messages
  PROVE  /\ msg.route \in ExpensiveRoutes \cup CheapRoutes
         /\ KeepAlive(msg) \in BOOLEAN
<1>1. msg \in Message
  BY MessagesAssumption DEF MessagesAssumption
<1>2. msg.route \in ExpensiveRoutes \cup CheapRoutes
  BY <1>1 DEF Message
<1>3. KeepAlive(msg) \in BOOLEAN
  BY DEF KeepAlive
<1> QED BY <1>2, <1>3

\* What one step of connection c leaves alone, and what it does to the pools and
\* to the queue.
Effect(c) ==
  /\ \/ slots' = slots /\ Served' = Served
     \/ slots > 0 /\ slots' = slots - 1 /\ c \notin Served /\ Served' = Served \cup {c}
     \/ slots' = slots + 1 /\ c \in Served /\ Served' = Served \ {c}
  /\ \/ permits' = permits /\ Holders' = Holders
     \/ permits > 0 /\ permits' = permits - 1 /\ c \notin Holders /\ Holders' = Holders \cup {c}
     \/ permits' = permits + 1 /\ c \in Holders /\ Holders' = Holders \ {c}
  /\ \/ queue' = queue /\ Waiting' = Waiting
     \/ queue' = Append(queue, c) /\ c \notin Waiting /\ Waiting' = Waiting \cup {c}
     \/ /\ c \in Waiting /\ Waiting' = Waiting \ {c}
        /\ \E i \in DOMAIN queue : queue[i] = c /\ queue' = Seqs!RemoveAt(queue, i)

\* Such a step keeps the accounts.
LEMMA EffectKeeps ==
  ASSUME IInv, NEW c \in Conns, Effect(c),
         at' \in [Conns -> Places], synced' \in [Conns -> BOOLEAN],
         request' \in [Conns -> Requests],
         QueuedExpensive', Framed'
  PROVE  IInv'
<1> USE RestAssumption DEF RestAssumption
<1>0. /\ slots \in Nat /\ permits \in Nat /\ queue \in Seq(Conns)
      /\ slots + Cardinality(Served) = Capacity(MaxConnections)
      /\ permits + Cardinality(Holders) = Capacity(MaxQueries)
      /\ Capacity(MaxConnections) \in Nat /\ Capacity(MaxQueries) \in Nat
      /\ Served \in SUBSET Conns /\ Holders \in SUBSET Conns /\ Waiting \in SUBSET Conns
      /\ \A i, j \in DOMAIN queue : queue[i] = queue[j] => i = j
      /\ Seqs!ToSet(queue) = Waiting /\ Len(queue) = Cardinality(Waiting)
  BY CapacityNat DEF IInv, Shape, QueueExact, Served, Holders, Waiting, In
<1>1. slots' \in Nat /\ slots' + Cardinality(Served') = Capacity(MaxConnections)
  <2>1. CASE slots' = slots /\ Served' = Served
    BY <1>0, <2>1
  <2>2. CASE slots > 0 /\ slots' = slots - 1 /\ c \notin Served /\ Served' = Served \cup {c}
    <3>1. Cardinality(Served') = Cardinality(Served) + 1 /\ Cardinality(Served) \in Nat
      BY <1>0, <2>2, OneMore, Sizes
    <3> QED BY <1>0, <2>2, <3>1
  <2>3. CASE slots' = slots + 1 /\ c \in Served /\ Served' = Served \ {c}
    <3>1. Cardinality(Served') = Cardinality(Served) - 1 /\ Cardinality(Served) \in Nat
      BY <1>0, <2>3, OneLess, Sizes
    <3> QED BY <1>0, <2>3, <3>1
  <2> QED BY <2>1, <2>2, <2>3 DEF Effect
<1>2. permits' \in Nat /\ permits' + Cardinality(Holders') = Capacity(MaxQueries)
  <2>1. CASE permits' = permits /\ Holders' = Holders
    BY <1>0, <2>1
  <2>2. CASE permits > 0 /\ permits' = permits - 1 /\ c \notin Holders /\ Holders' = Holders \cup {c}
    <3>1. Cardinality(Holders') = Cardinality(Holders) + 1 /\ Cardinality(Holders) \in Nat
      BY <1>0, <2>2, OneMore, Sizes
    <3> QED BY <1>0, <2>2, <3>1
  <2>3. CASE permits' = permits + 1 /\ c \in Holders /\ Holders' = Holders \ {c}
    <3>1. Cardinality(Holders') = Cardinality(Holders) - 1 /\ Cardinality(Holders) \in Nat
      BY <1>0, <2>3, OneLess, Sizes
    <3> QED BY <1>0, <2>3, <3>1
  <2> QED BY <2>1, <2>2, <2>3 DEF Effect
<1>3. queue' \in Seq(Conns) /\ QueueExact'
  <2>1. CASE queue' = queue /\ Waiting' = Waiting
    BY <1>0, <2>1 DEF QueueExact
  <2>2. CASE queue' = Append(queue, c) /\ c \notin Waiting /\ Waiting' = Waiting \cup {c}
    <3>1. /\ queue' \in Seq(Conns) /\ Len(queue') = Len(queue) + 1
          /\ \A i, j \in DOMAIN queue' : queue'[i] = queue'[j] => i = j
          /\ Seqs!ToSet(queue') = Seqs!ToSet(queue) \cup {c}
      BY <1>0, <2>2, AppendOnce
    <3>2. Cardinality(Waiting') = Cardinality(Waiting) + 1
      BY <1>0, <2>2, OneMore
    <3> QED BY <1>0, <2>2, <3>1, <3>2 DEF QueueExact
  <2>3. CASE /\ c \in Waiting /\ Waiting' = Waiting \ {c}
             /\ \E i \in DOMAIN queue : queue[i] = c /\ queue' = Seqs!RemoveAt(queue, i)
    <3> PICK i \in DOMAIN queue : queue[i] = c /\ queue' = Seqs!RemoveAt(queue, i)
      BY <2>3
    <3>1. /\ queue' \in Seq(Conns) /\ Len(queue') = Len(queue) - 1
          /\ \A m, n \in DOMAIN queue' : queue'[m] = queue'[n] => m = n
          /\ Seqs!ToSet(queue') = Seqs!ToSet(queue) \ {c}
      BY <1>0, RemoveOnce
    <3>2. Cardinality(Waiting') = Cardinality(Waiting) - 1
      BY <1>0, <2>3, OneLess
    <3> QED BY <1>0, <2>3, <3>1, <3>2 DEF QueueExact
  <2> QED BY <2>1, <2>2, <2>3 DEF Effect
<1> QED BY <1>1, <1>2, <1>3 DEF IInv, Shape

\* An answer to be written: the connection, its request's route and the wish to be
\* kept are as they should be.
Answered(c, keep_alive) ==
  /\ at' = [at EXCEPT ![c] = "write"] /\ at' \in [Conns -> Places]
  /\ request' \in [Conns -> Requests]
  /\ \A d \in Conns : d # c => request'[d] = request[d]
  /\ request'[c].route = request[c].route
  /\ request'[c].keep_alive = keep_alive

LEMMA AnswerKeeps ==
  ASSUME at \in [Conns -> Places], request \in [Conns -> Requests], NEW c \in Conns,
         NEW answer \in {"none", "handled", "busy", "timeout", "invalid"},
         NEW keep_alive \in BOOLEAN, Answer(c, answer, keep_alive)
  PROVE  Answered(c, keep_alive)
<1>1. at' = [at EXCEPT ![c] = "write"] /\ at' \in [Conns -> Places]
  BY DEF Answer, Places
<1>2. /\ request' \in [Conns -> Requests]
      /\ \A d \in Conns : d # c => request'[d] = request[d]
      /\ request'[c].route = request[c].route
      /\ request'[c].keep_alive = keep_alive
  BY DEF Answer, Requests
<1> QED BY <1>1, <1>2 DEF Answered

\* Every step keeps the invariant.
LEMMA StepInv == IInv /\ [Next]_vars => IInv'
<1> SUFFICES ASSUME IInv, [Next]_vars PROVE IInv'
  OBVIOUS
<1>0. /\ at \in [Conns -> Places] /\ request \in [Conns -> Requests]
      /\ synced \in [Conns -> BOOLEAN] /\ slots \in Nat /\ permits \in Nat
      /\ queue \in Seq(Conns)
  BY DEF IInv, Shape
<1>1. /\ NoRequest \in Requests /\ QueuedExpensive /\ Framed
      /\ ~IsExpensive("none")
  BY DEF IInv, NoRequest, IsExpensive, ExpensiveRoutes, Requests
<1>2. /\ \A d : d \in Served <=> d \in Conns /\ at[d] \in {"wait", "read", "queued", "handle", "write"}
      /\ \A d : d \in Holders <=> d \in Conns /\ at[d] = "handle" /\ IsExpensive(request[d].route)
      /\ \A d : d \in Waiting <=> d \in Conns /\ at[d] = "queued"
  BY DEF Served, Holders, Waiting, In, HoldsPermit, Places
<1>3. /\ \A d : d \in Served' <=> d \in Conns /\ at'[d] \in {"wait", "read", "queued", "handle", "write"}
      /\ \A d : d \in Holders' <=> d \in Conns /\ at'[d] = "handle" /\ IsExpensive(request'[d].route)
      /\ \A d : d \in Waiting' <=> d \in Conns /\ at'[d] = "queued"
  BY DEF Served, Holders, Waiting, In, HoldsPermit, Places
<1>4. Seqs!ToSet(queue) = Waiting
  BY DEF IInv, QueueExact
<1>5. CASE UNCHANGED vars
  BY <1>5 DEF vars, IInv, Shape, Served, Holders, Waiting, In, HoldsPermit, QueueExact,
              QueuedExpensive, Framed
<1>6. CASE Next
  <2> PICK c \in Conns :
        \/ Accept(c) \/ Timers(c)
        \/ FirstByte(c) \/ ReadEnds(c)
        \/ \E msg \in Messages : ReadInvalid(c, msg) \/ ReadDone(c, msg)
        \/ Acquire(c) \/ Handled(c) \/ HandlerPanics(c)
        \/ Written(c) \/ WriteFails(c)
    BY <1>6 DEF Next
  <2> DEFINE Kept == /\ at' \in [Conns -> Places] /\ synced' \in [Conns -> BOOLEAN]
                     /\ request' \in [Conns -> Requests]
                     /\ QueuedExpensive' /\ Framed'
  <2>0. Kept /\ Effect(c) => IInv'
    BY EffectKeeps
  <2>1. CASE Accept(c)
    <3>1. Kept
      BY <1>0, <1>1, <2>1 DEF Accept, QueuedExpensive, Framed, Places
    <3>2. Effect(c)
      BY <1>0, <1>1, <1>2, <1>3, <2>1 DEF Accept, Effect, HoldsPermit
    <3> QED BY <2>0, <3>1, <3>2
  <2>2. CASE Refuse(c)
    <3>1. Kept
      BY <1>0, <1>1, <2>2 DEF Refuse, QueuedExpensive, Framed, Places
    <3>2. Effect(c)
      BY <1>0, <1>1, <1>2, <1>3, <2>2 DEF Refuse, Effect, HoldsPermit
    <3> QED BY <2>0, <3>1, <3>2
  <2>3. CASE WaitEnds(c)
    <3>1. Kept
      BY <1>0, <1>1, <2>3 DEF WaitEnds, Close, QueuedExpensive, Framed, Places
    <3>2. Effect(c)
      BY <1>0, <1>1, <1>2, <1>3, <2>3 DEF WaitEnds, Close, Effect, HoldsPermit
    <3> QED BY <2>0, <3>1, <3>2
  <2>4. CASE FirstByte(c)
    <3>1. Kept
      BY <1>0, <1>1, <2>4 DEF FirstByte, QueuedExpensive, Framed, Places
    <3>2. Effect(c)
      BY <1>0, <1>1, <1>2, <1>3, <2>4 DEF FirstByte, Effect, HoldsPermit
    <3> QED BY <2>0, <3>1, <3>2
  <2>5. CASE ReadEnds(c)
    <3>1. Kept
      BY <1>0, <1>1, <2>5 DEF ReadEnds, Close, QueuedExpensive, Framed, Places
    <3>2. Effect(c)
      BY <1>0, <1>1, <1>2, <1>3, <2>5 DEF ReadEnds, Close, Effect, HoldsPermit
    <3> QED BY <2>0, <3>1, <3>2
  <2>6. CASE HandlerPanics(c)
    <3>1. Kept
      BY <1>0, <1>1, <2>6 DEF HandlerPanics, Close, QueuedExpensive, Framed, Places
    <3>2. Effect(c)
      BY <1>0, <1>1, <1>2, <1>3, <2>6 DEF HandlerPanics, Close, Effect, HoldsPermit
    <3> QED BY <2>0, <3>1, <3>2
  <2>7. CASE WriteFails(c)
    <3>1. Kept
      BY <1>0, <1>1, <2>7 DEF WriteFails, Close, QueuedExpensive, Framed, Places
    <3>2. Effect(c)
      BY <1>0, <1>1, <1>2, <1>3, <2>7 DEF WriteFails, Close, Effect, HoldsPermit
    <3> QED BY <2>0, <3>1, <3>2
  <2>8. CASE ReadTimeout(c)
    <3>0. /\ Answer(c, "timeout", FALSE) /\ at[c] = "read" /\ FALSE \in BOOLEAN
          /\ synced' = [synced EXCEPT ![c] = FALSE] /\ UNCHANGED <<slots, permits, queue>>
      BY <1>0, <2>8 DEF ReadTimeout, Requests
    <3>1. Answered(c, FALSE)
      BY <1>0, <3>0, AnswerKeeps
    <3>2. Kept
      BY <1>0, <1>1, <3>0, <3>1 DEF Answered, QueuedExpensive, Framed
    <3>3. Effect(c)
      BY <1>0, <1>1, <1>2, <1>3, <3>0, <3>1 DEF Answered, Effect, HoldsPermit
    <3> QED BY <2>0, <3>2, <3>3
  <2>9. CASE \E msg \in Messages : ReadInvalid(c, msg)
    <3>0. /\ Answer(c, "invalid", FALSE) /\ at[c] = "read" /\ FALSE \in BOOLEAN
          /\ synced' = [synced EXCEPT ![c] = FALSE] /\ UNCHANGED <<slots, permits, queue>>
      BY <1>0, <2>9 DEF ReadInvalid, Requests
    <3>1. Answered(c, FALSE)
      BY <1>0, <3>0, AnswerKeeps
    <3>2. Kept
      BY <1>0, <1>1, <3>0, <3>1 DEF Answered, QueuedExpensive, Framed
    <3>3. Effect(c)
      BY <1>0, <1>1, <1>2, <1>3, <3>0, <3>1 DEF Answered, Effect, HoldsPermit
    <3> QED BY <2>0, <3>2, <3>3
  <2>10. CASE Handled(c)
    <3>0. /\ Answer(c, "handled", request[c].keep_alive) /\ at[c] = "handle" /\ request[c].keep_alive \in BOOLEAN
          /\ permits' = (IF HoldsPermit(c) THEN permits + 1 ELSE permits) /\ UNCHANGED <<synced, slots, queue>>
      BY <1>0, <2>10 DEF Handled, Requests
    <3>1. Answered(c, request[c].keep_alive)
      BY <1>0, <3>0, AnswerKeeps
    <3>2. Kept
      BY <1>0, <1>1, <3>0, <3>1 DEF Answered, QueuedExpensive, Framed
    <3>3. Effect(c)
      BY <1>0, <1>1, <1>2, <1>3, <3>0, <3>1 DEF Answered, Effect, HoldsPermit
    <3> QED BY <2>0, <3>2, <3>3
  <2>11. CASE \E msg \in Messages : ReadDone(c, msg)
    <3> PICK msg \in Messages : ReadDone(c, msg)
      BY <2>11
    <3>0. /\ ContentLength(msg) = msg.length
          /\ msg.route \in ExpensiveRoutes \cup CheapRoutes /\ KeepAlive(msg) \in BOOLEAN
      BY AcceptedIsFramed, MessageTypes DEF ReadDone
    <3> DEFINE new == [NoRequest EXCEPT !.route = msg.route, !.keep_alive = KeepAlive(msg)]
    <3>1. new \in Requests /\ new.route = msg.route
      BY <3>0 DEF NoRequest, Requests
    <3> HIDE DEF new
    <3>2. /\ at[c] = "read"
          /\ synced' = [synced EXCEPT ![c] = TRUE]
          /\ request' = [request EXCEPT ![c] = new]
          /\ at' = [at EXCEPT ![c] = IF IsExpensive(msg.route) THEN "queued" ELSE "handle"]
          /\ queue' = IF IsExpensive(msg.route) THEN Append(queue, c) ELSE queue
          /\ UNCHANGED <<slots, permits>>
      BY <3>0 DEF ReadDone, new
    <3>3. Kept
      BY <1>0, <1>1, <3>1, <3>2 DEF QueuedExpensive, Framed, Places
    <3>4. Served' = Served /\ Holders' = Holders
      BY <1>0, <1>1, <1>2, <1>3, <3>1, <3>2
    <3>5. c \notin Waiting
      BY <1>2, <3>2
    <3>6. CASE IsExpensive(msg.route)
      <4>1. Waiting' = Waiting \cup {c}
        BY <1>0, <1>2, <1>3, <3>2, <3>6
      <4>2. Effect(c)
        BY <3>2, <3>4, <3>5, <3>6, <4>1 DEF Effect
      <4> QED BY <2>0, <3>3, <4>2
    <3>7. CASE ~IsExpensive(msg.route)
      <4>1. Waiting' = Waiting
        BY <1>0, <1>2, <1>3, <3>2, <3>7
      <4>2. Effect(c)
        BY <3>2, <3>4, <3>7, <4>1 DEF Effect
      <4> QED BY <2>0, <3>3, <4>2
    <3> QED BY <3>6, <3>7
  <2>12. CASE Acquire(c)
    <3>1. c \in Seqs!ToSet(queue)
      BY <1>2, <1>4, <2>12 DEF Acquire, Granted
    <3>2. /\ 1 \in DOMAIN queue /\ queue[1] = Head(queue)
          /\ Seqs!RemoveAt(queue, 1) = Tail(queue)
      BY <1>0, <3>1, HeadRemoved DEF Seqs!ToSet
    <3>3. Kept
      BY <1>0, <1>1, <2>12 DEF Acquire, Granted, QueuedExpensive, Framed, Places
    <3>4. Effect(c)
      <4>1. \E i \in DOMAIN queue : queue[i] = c /\ queue' = Seqs!RemoveAt(queue, i)
        BY <2>12, <3>2 DEF Acquire, Granted
      <4>2. /\ at' = [at EXCEPT ![c] = "handle"] /\ at[c] = "queued" /\ request' = request
            /\ IsExpensive(request[c].route) /\ permits > 0 /\ permits' = permits - 1
            /\ slots' = slots
        BY <1>1, <2>12 DEF Acquire, Granted, QueuedExpensive
      <4>3. Served' = Served /\ c \notin Holders /\ c \in Waiting
        BY <1>0, <1>2, <1>3, <4>2
      <4>4. Holders' = Holders \cup {c}
        BY <1>0, <1>2, <1>3, <4>2
      <4>5. Waiting' = Waiting \ {c}
        BY <1>0, <1>2, <1>3, <4>2
      <4> QED BY <4>1, <4>2, <4>3, <4>4, <4>5 DEF Effect
    <3> QED BY <2>0, <3>3, <3>4
  <2>13. CASE AcquireTimeout(c)
    <3>0. /\ Answer(c, "busy", request[c].keep_alive) /\ at[c] = "queued"
          /\ request[c].keep_alive \in BOOLEAN /\ UNCHANGED <<synced, slots, permits>>
      BY <1>0, <2>13 DEF AcquireTimeout, Requests
    <3>1. Answered(c, request[c].keep_alive)
      BY <1>0, <3>0, AnswerKeeps
    <3>2. Kept
      BY <1>0, <1>1, <3>0, <3>1 DEF Answered, QueuedExpensive, Framed
    <3>3. Effect(c)
      <4>1. /\ at' = [at EXCEPT ![c] = "write"] /\ at[c] = "queued"
            /\ slots' = slots /\ permits' = permits
            /\ \A d \in Conns : d # c => request'[d] = request[d]
            /\ \E i \in DOMAIN queue : queue[i] = c /\ queue' = Seqs!RemoveAt(queue, i)
        BY <1>0, <2>13, <3>0, <3>1 DEF AcquireTimeout, Answered
      <4>2. Served' = Served /\ c \in Waiting
        BY <1>0, <1>2, <1>3, <4>1
      <4>3. Holders' = Holders
        BY <1>0, <1>2, <1>3, <4>1
      <4>4. Waiting' = Waiting \ {c}
        BY <1>0, <1>2, <1>3, <4>1
      <4> QED BY <4>1, <4>2, <4>3, <4>4 DEF Effect
    <3> QED BY <2>0, <3>2, <3>3
  <2>14. CASE Written(c)
    <3>1. CASE request[c].keep_alive
      <4>1. Kept
        BY <1>0, <1>1, <2>14, <3>1 DEF Written, QueuedExpensive, Framed, Places
      <4>2. Effect(c)
        BY <1>0, <1>1, <1>2, <1>3, <2>14, <3>1 DEF Written, Effect
      <4> QED BY <2>0, <4>1, <4>2
    <3>2. CASE ~request[c].keep_alive
      <4>1. Kept
        BY <1>0, <1>1, <2>14, <3>2 DEF Written, Close, QueuedExpensive, Framed, Places
      <4>2. Effect(c)
        BY <1>0, <1>1, <1>2, <1>3, <2>14, <3>2 DEF Written, Close, Effect
      <4> QED BY <2>0, <4>1, <4>2
    <3> QED BY <3>1, <3>2
  <2> QED BY <2>1, <2>2, <2>3, <2>4, <2>5, <2>6, <2>7, <2>8, <2>9, <2>10, <2>11, <2>12, <2>13, <2>14 DEF Timers
<1> QED BY <1>5, <1>6

LEMMA Invariance == Spec => []IInv
  BY InitInv, StepInv, PTL DEF Spec

\* The invariant says what the run's properties say.
LEMMA InvImplies == IInv => Accounting /\ FramingSafe
<1> SUFFICES ASSUME IInv PROVE Accounting /\ FramingSafe
  OBVIOUS
<1>1. Served \in SUBSET Conns /\ Holders \in SUBSET Conns
  BY DEF Served, Holders, In
<1>2. Cardinality(Served) \in Nat /\ Cardinality(Holders) \in Nat
  BY <1>1, Sizes
<1>3. slots \in 0..Capacity(MaxConnections) /\ permits \in 0..Capacity(MaxQueries)
  <2>1. /\ slots \in Nat /\ slots + Cardinality(Served) = Capacity(MaxConnections)
        /\ permits \in Nat /\ permits + Cardinality(Holders) = Capacity(MaxQueries)
    BY DEF IInv, Shape
  <2>2. Capacity(MaxConnections) \in Nat /\ Capacity(MaxQueries) \in Nat
    BY RestAssumption, CapacityNat DEF RestAssumption
  <2> QED BY <1>2, <2>1, <2>2
<1>4. TypeOK
  BY <1>3 DEF TypeOK, IInv, Shape, Requests
<1>5. Accounting
  BY <1>4 DEF Accounting, IInv, QueueExact, Served, Holders, Waiting
<1>6. FramingSafe
  BY DEF FramingSafe, IInv, Framed
<1> QED BY <1>5, <1>6

\* Whatever ends a connection, and however many sockets, slots and permits there
\* are: the free slots and the connections served add up to rest_max_connections,
\* the free permits and the expensive requests in hand to
\* rest_max_concurrent_queries, and the queue holds exactly the connections that
\* wait for a permit, each once (run_listener, handle_connection, respond).
THEOREM AccountingAlways == Spec => []Accounting
  BY Invariance, InvImplies, PTL

\* For every set of messages whose bodies are as long as their Content-Length
\* fields say, or ambiguous: a connection waits for a next request only where its
\* client begins one (read_request, content_length, the keep-alive loop).
THEOREM FramingAlways == Spec => []FramingSafe
  BY Invariance, InvImplies, PTL
==============================================================================
