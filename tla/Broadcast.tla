----------------------------- MODULE Broadcast -----------------------------
(***************************************************************************)
(* Submitting transactions (server.rs, torpush.rs, bitcoind.rs and the     *)
(* submission routes of rest/handlers.rs).  A caller hands over one        *)
(* transaction or a package, which goes either to the local bitcoind or,   *)
(* with --broadcast-via tor, over a SOCKS5 proxy to an onion endpoint:     *)
(*                                                                         *)
(*   idle --> rpc ------------------------------> done                     *)
(*     '----> greeting ---> post ---> reply -------^                       *)
(*                                                                         *)
(* The proxy, the endpoint and the node are external: each may answer in   *)
(* any way, break the connection, or say nothing, and only a push has a    *)
(* timeout.                                                                *)
(***************************************************************************)
EXTENDS Integers, Sequences, FiniteSets

CONSTANTS
  Callers,    \* the sessions and requests that may submit at the same time
  Payloads,   \* what they submit, see Payload
  Clock,      \* what the clock may read: it may be stepped back
  None

\* None is told apart from what it stands in for.
ASSUME BroadcastAssumption ==
  None \notin Payloads /\ None \notin {"pid"} \X Clock \X Nat /\ None # 200

VARIABLES
  via,       \* config.broadcast_via, fixed at startup
  push,      \* push[c]: the submission of caller c
  seq,       \* isolation_credentials' COUNTER
  node,      \* the payloads handed to the local bitcoind
  posted,    \* what was POSTed, in order: credentials and payload
  accepted   \* the payloads the endpoint or the node took

broadcastVars == <<via, push, seq, node, posted, accepted>>

-----------------------------------------------------------------------------

\* A payload is named by its transactions; what the checks tell apart is
\* whether it is a package, how many items it has and whether every item is a
\* transaction, only hex, or neither.
Payload == [name : STRING, package : BOOLEAN, many : BOOLEAN,
            form : {"tx", "hex", "text"}]

\* No submission.  One that is done has a result (ok) or an error; the result for
\* a package is JSON that itself says whether it was a success.
NoPush == [at |-> "idle", payload |-> None, cred |-> None, route |-> None,
           ok |-> FALSE, success |-> FALSE]

\* Whether a caller is told that its payload was taken: any result for one
\* transaction says so, for a package it depends on what is in it.
SaysTaken(payload, ok, success) == ok /\ (payload.package => success)

TorStages == {"greeting", "post", "reply"}

\* What came back on the stream: whether the head is whole and can be read, the
\* status (200 for any 2xx, 400 for any other), how the body is delimited,
\* whether all of it arrived, and, for a package, what submitpackage's result in
\* it says.
Replies == [head : {"whole", "broken"}, status : {200, 400},
            framing : {"chunked", "length", "close"}, whole : BOOLEAN,
            success : BOOLEAN]

\* parse_http_response and decode_chunked: the status, or None when the head or
\* a delimited body is cut short.  A body that ends with the connection is
\* taken as it is.
ParseHttpResponse(reply) ==
  IF reply.head = "whole" /\ (reply.framing = "close" \/ reply.whole)
  THEN reply.status
  ELSE None

\* push_inner wants a 2xx; push_tx makes nothing of the body, which is only
\* compared for the log; push_package wants it to be JSON.
Accepts(payload, reply) ==
  /\ ParseHttpResponse(reply) = 200
  /\ payload.package => reply.whole

-----------------------------------------------------------------------------
(* Starting *)

\* A push begins, or the call fails with nothing sent.
Pushing(payload, route) ==
  [NoPush EXCEPT !.at = "greeting", !.payload = payload, !.route = route]
Calling(payload, route) ==
  [NoPush EXCEPT !.at = "rpc", !.payload = payload, !.route = route]
Refusing(payload, route) ==
  [NoPush EXCEPT !.at = "done", !.payload = payload, !.route = route]

\* Server::broadcast and Server::broadcast_package.  A package is not looked
\* into on the way to the endpoint.
Submit(payload, route) ==
  IF via = "bitcoind" THEN Calling(payload, route)
  ELSE IF payload.package \/ payload.form = "tx" THEN Pushing(payload, route)
  ELSE Refusing(payload, route)

\* submitted_txs and check_tx_hex.
Submittable(payload) == ~payload.many /\ payload.form \in {"tx", "hex"}

\* (the check is left to the node)
TxsTest_Unguarded(payload) ==
  IF ~Submittable(payload)
  THEN Refusing(payload, "txs_test")
  ELSE Calling(payload, "txs_test")

\* txs_test: nothing may reach the local node, not even for a test.
TxsTest(payload) ==
  IF via = "tor" \/ ~Submittable(payload)
  THEN Refusing(payload, "txs_test")
  ELSE Calling(payload, "txs_test")

TxsPackage(payload) ==
  IF ~Submittable(payload) THEN Refusing(payload, "txs_package")
  ELSE IF via = "tor" THEN Submit(payload, "txs_package")
  ELSE Calling(payload, "txs_package")

\* The REST routes: POST /tx and GET /broadcast, and the two for packages.
RestBegin(c) ==
  /\ push[c].at = "idle"
  /\ \E payload \in Payloads :
       push' = [push EXCEPT ![c] =
                  IF payload.package THEN TxsPackage(payload) ELSE Submit(payload, "tx")]
  /\ UNCHANGED <<via, seq, node, posted, accepted>>

RestTest(c) ==
  /\ push[c].at = "idle"
  /\ \E payload \in {p \in Payloads : p.package} :
       push' = [push EXCEPT ![c] = TxsTest(payload)]
  /\ UNCHANGED <<via, seq, node, posted, accepted>>

RestEnd(c) ==
  /\ push[c].at = "done"
  /\ push' = [push EXCEPT ![c] = NoPush]
  /\ UNCHANGED <<via, seq, node, posted, accepted>>

-----------------------------------------------------------------------------
(* To the local node *)

Ends(c, ok, success) ==
  push' = [push EXCEPT ![c].at = "done", ![c].ok = ok, ![c].success = success]

\* A submission that ends with an error.
Breaks(c) == Ends(c, FALSE, FALSE)

\* call_blocking: the credentials cannot be read or the node not reached; or
\* the node has the payload, and takes it or not; its answer may get lost.
\* sendrawtransaction refuses with an error; submitpackage and
\* testmempoolaccept with an error or inside a result, which is handed on as it
\* is.  testmempoolaccept takes nothing.  There is no timeout.
Rpc(c) ==
  LET payload == push[c].payload
  IN  /\ push[c].at = "rpc"
      /\ \/ Breaks(c) /\ UNCHANGED <<node, accepted>>
         \/ /\ node' = node \cup {payload}
            /\ \/ Breaks(c) /\ UNCHANGED accepted
               \/ payload.package /\ Ends(c, TRUE, FALSE) /\ UNCHANGED accepted
               \/ /\ payload.form = "tx"
                  /\ accepted' = IF push[c].route = "txs_test" THEN accepted
                                 ELSE accepted \cup {payload}
                  /\ Breaks(c) \/ Ends(c, TRUE, TRUE)
      /\ UNCHANGED <<via, seq, posted>>

-----------------------------------------------------------------------------
(* Over the proxy *)

Advance(c, from, to) ==
  /\ push[c].at = from
  /\ push' = [push EXCEPT ![c].at = to]

\* Any step may fail, with an I/O error or an answer that is not the one
\* wanted; until one comes the push waits.
PushFails(c) ==
  /\ push[c].at \in TorStages
  /\ Breaks(c)
  /\ UNCHANGED <<via, seq, node, posted, accepted>>

\* (a push waits for as long as it takes)
PushTimeout_None(c) == FALSE /\ UNCHANGED broadcastVars

\* push: the whole exchange has PUSH_TIMEOUT.
PushTimeout(c) ==
  /\ push[c].at \in TorStages
  /\ Breaks(c)
  /\ UNCHANGED <<via, seq, node, posted, accepted>>

\* isolation_credentials: the pid, the clock's nanoseconds and the counter.
Credentials(now) == <<"pid", now, seq>>

\* Connecting, the greeting and the sub-negotiation.  Only user and password are
\* offered, and a proxy that picks anything else or refuses them ends the push
\* (PushFails).  The credentials are made once it has agreed to take some.
Handshake(c) ==
  /\ push[c].at = "greeting"
  /\ \E now \in Clock :
       push' = [push EXCEPT ![c].at = "post", ![c].cred = Credentials(now)]
  /\ seq' = seq + 1
  /\ UNCHANGED <<via, node, posted, accepted>>

\* CONNECT by name; if the proxy has opened the tunnel, the request and the
\* payload are written, and the endpoint takes it or not, whether or not its
\* answer will be read.
Post(c) ==
  /\ Advance(c, "post", "reply")
  /\ posted' = Append(posted, [cred |-> push[c].cred, payload |-> push[c].payload])
  /\ \/ UNCHANGED accepted
     \/ push[c].payload.form = "tx" /\ accepted' = accepted \cup {push[c].payload}
  /\ UNCHANGED <<via, seq, node>>

\* The endpoint says of one transaction only if it took it 200, and of a package
\* only then that it is a success; a package it refuses may get a 200 as well,
\* whose JSON is handed on verbatim.
Reply(c) ==
  /\ push[c].at = "reply"
  /\ \E reply \in Replies :
       LET payload == push[c].payload
           ok == Accepts(payload, reply)
       IN  /\ SaysTaken(payload, reply.status = 200, reply.success) => payload \in accepted
           /\ Ends(c, ok, SaysTaken(payload, ok, reply.success))
  /\ UNCHANGED <<via, seq, node, posted, accepted>>

-----------------------------------------------------------------------------

BroadcastInit ==
  /\ via \in {"tor", "bitcoind"}
  /\ push = [c \in Callers |-> NoPush]
  /\ seq = 0
  /\ node = {}
  /\ posted = <<>>
  /\ accepted = {}

PushStep(c) ==
  \/ Rpc(c) \/ PushFails(c) \/ PushTimeout(c) \/ Handshake(c)
  \/ Post(c) \/ Reply(c)

RestStep(c) == RestBegin(c) \/ RestTest(c) \/ RestEnd(c)

-----------------------------------------------------------------------------
(* Properties *)

\* With --broadcast-via tor no submission of any route, Electrum or REST, a
\* test included, and whatever fails on the way, reaches the local bitcoind.
\* What was POSTed went out under credentials, and no two POSTs under the same,
\* however the clock moves and however concurrent pushes overlap: Tor then puts
\* no two of them on one circuit.
PushesPrivate ==
  /\ via = "tor" => node = {}
  /\ \A i, j \in DOMAIN posted :
       /\ posted[i].cred # None
       /\ posted[i].cred = posted[j].cred => i = j

\* A caller is told that its transactions were taken only of transactions that
\* the endpoint, or the node, did take: by the result for one transaction, and by
\* what the result says for a package.
SuccessIsAccepted ==
  \A c \in Callers :
    LET p == push[c]
    IN  p.at = "done" /\ SaysTaken(p.payload, p.ok, p.success) /\ p.route # "txs_test" =>
          p.payload \in accepted

\* A push comes to an end, and its caller goes on, even if the proxy or the
\* endpoint says nothing.
\* (A call to the local node does not: its client has no timeout.)
PushesEnd ==
  \A c \in Callers : push[c].at \in TorStages ~> push[c].at = "idle"
=============================================================================
