----------------------------- MODULE RestServer -----------------------------
(***************************************************************************)
(* The REST server's connections (rest/mod.rs, rest/http.rs): a listener   *)
(* with a limited number of connection slots, one task per connection that *)
(* reads, answers and perhaps keeps the connection, and a semaphore that   *)
(* the expensive routes queue for.                                         *)
(*                                                                         *)
(*   closed --accept--> wait --byte--> read --> queued --> handle --> write *)
(*      |                ^              '--cheap---------^              |  *)
(*      '--> refused     '------------------keep-alive------------------'  *)
(*                                                                         *)
(* A timeout may end a wait at any moment.  A request is what framing and  *)
(* routing tell apart: its line, its headers, and the route.  What the     *)
(* peer does is not up to the server: it may stop sending or reading.      *)
(***************************************************************************)
EXTENDS Integers, Sequences, FiniteSets

Seqs == INSTANCE SequencesExt

CONSTANTS
  Conns,          \* the sockets clients may open
  MaxConnections, \* rest_max_connections
  MaxQueries,     \* rest_max_concurrent_queries
  MaxBody,        \* request_body_bytes_cap
  MaxHeaders,     \* MAX_HEADERS
  Messages        \* what clients may send: requests, see Message

ASSUME RestAssumption ==
  /\ MaxConnections \in Nat /\ MaxQueries \in Nat
  /\ MaxBody \in Nat /\ MaxHeaders \in Nat
  /\ IsFiniteSet(Conns)

VARIABLES
  at,       \* at[c]: where the task of connection c is
  request,  \* request[c]: what the request in hand needs
  synced,   \* synced[c]: the reader stands where the client begins a request
  slots,    \* free permits of `connections`
  permits,  \* free permits of `queries`
  queue     \* the connections waiting for one, first come first served

vars == <<at, request, synced, slots, permits, queue>>

-----------------------------------------------------------------------------
(* Framing *)

\* A header is a name and the fields of its value; only those of Content-Length
\* matter, each a number, or Junk.  A message's `length` is the number of body
\* bytes that follow it, and Junk if two readers may take it for different ones.
HeaderNames == {"content-length", "transfer-encoding", "connection: close",
                "connection: keep-alive", "other", "malformed"}
Junk == -1

Named(msg, names) == SelectSeq(msg.headers, LAMBDA h : h.name \in names)
Has(msg, name) == Named(msg, {name}) # <<>>

LengthFields(msg) ==
  Seqs!FlattenSeq([i \in DOMAIN Named(msg, {"content-length"}) |->
                     Named(msg, {"content-length"})[i].fields])

\* (the first field counts)
ContentLength_First(msg) ==
  IF LengthFields(msg) = <<>> THEN 0 ELSE LengthFields(msg)[1]

\* content_length: every field of every such header, and they must agree.
ContentLength(msg) ==
  LET fields == LengthFields(msg)
  IN  IF fields = <<>> THEN 0
      ELSE IF Seqs!ToSet(fields) = {fields[1]} THEN fields[1] ELSE Junk

\* The first Connection header, and without one the version.
KeepAlive(msg) ==
  LET values == Named(msg, {"connection: close", "connection: keep-alive"})
  IN  IF values # <<>> THEN values[1].name = "connection: keep-alive"
      ELSE msg.version # "1.0"

\* read_request: 200 for a request that can be framed, and otherwise the status
\* it is refused with.
ReadRequest(msg) ==
  CASE msg.line = "bad" -> 400
    [] Has(msg, "malformed") \/ Len(msg.headers) >= MaxHeaders -> 400
    [] Has(msg, "transfer-encoding") -> 501
    [] ContentLength(msg) = Junk \/ ContentLength(msg) > MaxBody -> 400
    [] OTHER -> 200

-----------------------------------------------------------------------------
(* Routing *)

\* The routes that replay a history, scan for a spender or build many
\* transactions; the others answer from memory, or talk to bitcoind.
ExpensiveRoutes ==
  {"block txs", "outspends", "internal txs", "address", "addresses", "mempool txs"}
CheapRoutes == {"tip", "block", "tx", "mempool", "broadcast", "unknown"}

\* Of the cheap ones, those that need nobody else: blocks and bodies come from
\* the node, and submissions go to it, without a timeout.
MemoryRoutes == {"tip", "mempool", "unknown"}

\* (every route queues)
IsExpensive_All(route) == route # "none"

IsExpensive(route) == route \in ExpensiveRoutes

Message ==
  [line : {"ok", "bad"}, version : {"1.0", "1.1"}, length : Int,
   route : ExpensiveRoutes \cup CheapRoutes,
   headers : Seq([name : HeaderNames, fields : Seq(Int)])]

\* What the clients send is well formed, and where no header is malformed and the
\* body is not chunked its length is what the fields of Content-Length say: none
\* means no body, one number repeated means that number, and different numbers
\* can be taken either way.
ASSUME MessagesAssumption ==
  \A msg \in Messages :
    /\ msg \in Message
    /\ ~Has(msg, "malformed") /\ ~Has(msg, "transfer-encoding") =>
         LET said == Seqs!ToSet(LengthFields(msg))
         IN  \/ LengthFields(msg) = <<>> /\ msg.length = 0
             \/ said = {msg.length}
             \/ msg.length = Junk /\ \E m, n \in said : m # n

NoRequest == [route |-> "none", keep_alive |-> FALSE, answer |-> "none"]

-----------------------------------------------------------------------------

\* max(1): a limit of zero would refuse everything.
Capacity(n) == IF n > 1 THEN n ELSE 1

Places == {"closed", "refused", "wait", "read", "queued", "handle", "write"}

TypeOK ==
  /\ at \in [Conns -> Places]
  /\ request \in [Conns ->
       [route : ExpensiveRoutes \cup CheapRoutes \cup {"none"}, keep_alive : BOOLEAN,
        answer : {"none", "handled", "busy", "timeout", "invalid"}]]
  /\ synced \in [Conns -> BOOLEAN]
  /\ slots \in 0..Capacity(MaxConnections) /\ permits \in 0..Capacity(MaxQueries)
  /\ queue \in Seq(Conns)

Init ==
  /\ at = [c \in Conns |-> "closed"]
  /\ request = [c \in Conns |-> NoRequest]
  /\ synced = [c \in Conns |-> TRUE]
  /\ slots = Capacity(MaxConnections) /\ permits = Capacity(MaxQueries)
  /\ queue = <<>>

\* run_listener: a connection without a slot is told so and dropped.
Accept(c) ==
  /\ at[c] = "closed"
  /\ at' = [at EXCEPT ![c] = IF slots > 0 THEN "wait" ELSE "refused"]
  /\ slots' = IF slots > 0 THEN slots - 1 ELSE slots
  /\ synced' = [synced EXCEPT ![c] = TRUE]
  /\ UNCHANGED <<request, permits, queue>>

\* refuse: 503 is sent, or cannot be within five seconds.
Refuse(c) ==
  /\ at[c] = "refused"
  /\ at' = [at EXCEPT ![c] = "closed"]
  /\ UNCHANGED <<request, synced, slots, permits, queue>>

\* The connection's task ends, and its slot is free.
Close(c) ==
  /\ at' = [at EXCEPT ![c] = "closed"]
  /\ request' = [request EXCEPT ![c] = NoRequest]
  /\ slots' = slots + 1

\* An answer is to be written, and the connection kept or not.
Answer(c, answer, keep_alive) ==
  /\ at' = [at EXCEPT ![c] = "write"]
  /\ request' = [request EXCEPT ![c].answer = answer, ![c].keep_alive = keep_alive]

\* fill_buf: the first byte of a request, or the peer's end or the timeout (the
\* header timeout for the first request, the idle timeout after that).
FirstByte(c) ==
  /\ at[c] = "wait"
  /\ at' = [at EXCEPT ![c] = "read"]
  /\ UNCHANGED <<request, synced, slots, permits, queue>>

WaitEnds(c) ==
  /\ at[c] = "wait"
  /\ Close(c)
  /\ UNCHANGED <<synced, permits, queue>>

\* The peer closed or reset in the middle of a request.
ReadEnds(c) ==
  /\ at[c] = "read"
  /\ Close(c)
  /\ UNCHANGED <<synced, permits, queue>>

\* A request that is not complete within the header timeout: 408, and close.
ReadTimeout(c) ==
  /\ at[c] = "read"
  /\ Answer(c, "timeout", FALSE)
  /\ synced' = [synced EXCEPT ![c] = FALSE]
  /\ UNCHANGED <<slots, permits, queue>>

\* A request that cannot be framed: its status, and close.
ReadInvalid(c, msg) ==
  /\ at[c] = "read" /\ ReadRequest(msg) # 200
  /\ Answer(c, "invalid", FALSE)
  /\ synced' = [synced EXCEPT ![c] = FALSE]
  /\ UNCHANGED <<slots, permits, queue>>

\* respond: an expensive request queues, any other is handled at once.
ReadDone(c, msg) ==
  /\ at[c] = "read" /\ ReadRequest(msg) = 200
  /\ synced' = [synced EXCEPT ![c] = ContentLength(msg) = msg.length]
  /\ request' = [request EXCEPT ![c] =
       [NoRequest EXCEPT !.route = msg.route, !.keep_alive = KeepAlive(msg)]]
  /\ at' = [at EXCEPT ![c] = IF IsExpensive(msg.route) THEN "queued" ELSE "handle"]
  /\ queue' = IF IsExpensive(msg.route) THEN Append(queue, c) ELSE queue
  /\ UNCHANGED <<slots, permits>>

\* The semaphore serves its queue in order.
Granted(c) == at[c] = "queued" /\ permits > 0 /\ Head(queue) = c

Acquire(c) ==
  /\ Granted(c)
  /\ at' = [at EXCEPT ![c] = "handle"]
  /\ permits' = permits - 1 /\ queue' = Tail(queue)
  /\ UNCHANGED <<request, synced, slots>>

\* (the wait for a permit is not bounded)
AcquireTimeout_None(c) ==
  /\ at[c] = "queued" /\ FALSE
  /\ UNCHANGED vars

\* The time left runs out in the queue (30 seconds without a deadline): 503.  A
\* permit handed over in time is taken, not lost.
AcquireTimeout(c) ==
  /\ at[c] = "queued" /\ ~Granted(c)
  /\ Answer(c, "busy", request[c].keep_alive)
  /\ \E i \in DOMAIN queue : queue[i] = c /\ queue' = Seqs!RemoveAt(queue, i)
  /\ UNCHANGED <<synced, slots, permits>>

HoldsPermit(c) == at[c] = "handle" /\ IsExpensive(request[c].route)

\* route returned, with an answer or an error; the permit is dropped with
\* respond's frame, before the answer is written.
Handled(c) ==
  /\ at[c] = "handle"
  /\ permits' = IF HoldsPermit(c) THEN permits + 1 ELSE permits
  /\ Answer(c, "handled", request[c].keep_alive)
  /\ UNCHANGED <<synced, slots, queue>>

\* (a handler that panics takes its permit along)
HandlerPanics_LosesPermit(c) ==
  /\ at[c] = "handle"
  /\ Close(c)
  /\ UNCHANGED <<synced, permits, queue>>

\* A handler that panics unwinds the task, which drops permit and slot.
HandlerPanics(c) ==
  /\ at[c] = "handle"
  /\ permits' = IF HoldsPermit(c) THEN permits + 1 ELSE permits
  /\ Close(c)
  /\ UNCHANGED <<synced, queue>>

\* write_response: then the next request, or the end.
Written(c) ==
  /\ at[c] = "write"
  /\ \/ /\ request[c].keep_alive
        /\ at' = [at EXCEPT ![c] = "wait"]
        /\ request' = [request EXCEPT ![c] = NoRequest]
        /\ UNCHANGED slots
     \/ ~request[c].keep_alive /\ Close(c)
  /\ UNCHANGED <<synced, permits, queue>>

WriteFails(c) ==
  /\ at[c] = "write"
  /\ Close(c)
  /\ UNCHANGED <<synced, permits, queue>>

-----------------------------------------------------------------------------

Timers(c) == Refuse(c) \/ WaitEnds(c) \/ ReadTimeout(c) \/ AcquireTimeout(c)

Next ==
  \E c \in Conns :
    \/ Accept(c) \/ Timers(c)
    \/ FirstByte(c) \/ ReadEnds(c)
    \/ \E msg \in Messages : ReadInvalid(c, msg) \/ ReadDone(c, msg)
    \/ Acquire(c) \/ Handled(c) \/ HandlerPanics(c)
    \/ Written(c) \/ WriteFails(c)

Spec == Init /\ [][Next]_vars

\* Timers fire, a free permit is handed over, and a handler that waits for
\* nobody returns.  Nothing is assumed of the peers, nor of the other handlers,
\* which may be stuck on a node that does not answer.
FairSpec ==
  /\ Spec
  /\ \A c \in Conns :
       /\ WF_vars(Timers(c)) /\ WF_vars(Acquire(c))
       /\ WF_vars(request[c].route \in MemoryRoutes /\ Handled(c))

-----------------------------------------------------------------------------
(* Properties *)

In(places) == { c \in Conns : at[c] \in places }

\* No slot and no permit is ever lost or used twice, whatever ends a connection
\* (timeouts, closed peers, failed writes, panics), and the queue holds the
\* waiting connections, each once.
Accounting ==
  /\ TypeOK
  /\ slots + Cardinality(In(Places \ {"closed", "refused"})) = Capacity(MaxConnections)
  /\ permits + Cardinality({ c \in Conns : HoldsPermit(c) }) = Capacity(MaxQueries)
  /\ Len(queue) = Cardinality(In({"queued"})) /\ Seqs!ToSet(queue) = In({"queued"})

\* A connection is only read on from where its client begins a request: after
\* anything that can be framed in two ways, or not at all, it is closed
\* ("leaving the connection open would mean guessing where the next request
\* starts").
FramingSafe == \A c \in Conns : at[c] = "wait" => synced[c]

\* A peer that says nothing, stops in the middle of a request, or is refused,
\* does not hold the connection: every such wait ends, and so does every wait
\* for a permit, even if the expensive requests that hold them never end.
WaitsEnd ==
  \A c \in Conns : \A place \in {"refused", "wait", "read", "queued"} :
    at[c] = place ~> at[c] # place

\* A request that is answered from memory is answered while expensive ones hold
\* every permit for ever ("a cheap one must stay answerable while a hot address
\* is being replayed").
CheapAnswered ==
  \A c \in Conns :
    at[c] \in {"queued", "handle"} /\ request[c].route \in MemoryRoutes
      ~> at[c] = "closed" \/ request[c].answer = "handled"
==============================================================================
