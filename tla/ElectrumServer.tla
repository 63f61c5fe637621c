--------------------------- MODULE ElectrumServer ---------------------------
(***************************************************************************)
(* The sessions of the Electrum server (server.rs, protocol.rs): a task    *)
(* per client that reads a line, serves its requests one after the other,  *)
(* records each with the monitor and writes the answers.  Composes the     *)
(* monitor (Monitor) and the submission of transactions (Broadcast), which *)
(* REST requests use at the same time.                                     *)
(*                                                                         *)
(*   closed --> idle --line--> serve <--> await                            *)
(*     ^          ^              |                                         *)
(*     '--ending--'----write <---'                                         *)
(*                                                                         *)
(* What the other methods read, and notifications, are the subject of      *)
(* Queries, ScriptHistory and Subscriptions: here they answer or fail.     *)
(***************************************************************************)
EXTENDS Broadcast, Monitor

CONSTANTS
  RestCalls,    \* the REST requests that submit transactions
  PeersOf,      \* PeersOf[s]: the addresses clients of session s may have
  LinesOf,      \* LinesOf[s]: what they may send, see IsLine
  ProtocolMin, ProtocolMax, \* as configured
  MaxBatch,     \* max_batch_size
  MaxInputs,    \* bound: lines of all sessions and REST submissions
  MaxSessions   \* bound: sessions opened

VARIABLES
  session,  \* session[s]: what the task of session s holds
  shared,   \* two sessions under way have had the same address
  inputs, connects  \* counted for the bounds

vars == <<broadcastVars, monitorVars, session, shared, inputs, connects>>

-----------------------------------------------------------------------------
(* Protocol versions *)

\* A version is the sequence of its components.  FromStr wants two of them, and
\* drops zeros behind the second.
Significant(v) == {n \in 2..Len(v) : \A k \in n + 1..Len(v) : v[k] = 0}
Parse(v) ==
  IF Len(v) < 2 THEN None
  ELSE SubSeq(v, 1, CHOOSE n \in Significant(v) : \A k \in Significant(v) : n <= k)

Component(v, i) == IF i <= Len(v) THEN v[i] ELSE 0

\* cmp: by components, the missing ones zero.
Below(v, w) ==
  \E i \in 1..(Len(v) + Len(w)) :
    /\ Component(v, i) < Component(w, i)
    /\ \A k \in 1..i - 1 : Component(v, k) = Component(w, k)

\* (what the server can at most)
Negotiate_IgnoresClient(min, max) ==
  IF min # None /\ Below(ProtocolMax, min) THEN None ELSE ProtocolMax

\* negotiate: the highest version that both can, or None.
Negotiate(min, max) ==
  LET lo == IF min = None \/ Below(min, ProtocolMin) THEN ProtocolMin ELSE min
      hi == IF max = None \/ Below(ProtocolMax, max) THEN ProtocolMax ELSE max
  IN  IF Below(hi, lo) THEN None ELSE hi

\* server_version's parameter: nothing, a version, a range, or something else.
\* The version to use, or None.
Wanted(offer) ==
  LET min == IF offer.form = "range" THEN Parse(offer.min) ELSE None
      max == IF offer.form \in {"range", "one"} THEN Parse(offer.max) ELSE None
  IN  IF \/ offer.form = "other"
         \/ offer.form = "range" /\ None \in {min, max}
         \/ offer.form = "one" /\ max = None
      THEN None
      ELSE Negotiate(min, max)

\* config.validate.
ASSUME ProtocolAssumption ==
  /\ ProtocolMin \in Seq(Nat) /\ ProtocolMax \in Seq(Nat) /\ None \notin Seq(Nat)
  /\ ~Below(ProtocolMax, ProtocolMin) /\ MaxBatch \in Nat \ {0}

-----------------------------------------------------------------------------
(* Lines *)

\* What a client offers to server.version: see Wanted.
Offer == [form : {"none", "one", "range", "other"}, min : Seq(Nat), max : Seq(Nat)]

\* A request: its id or None, its method, and the method's argument.
\* A line that is no JSON, or no request or list of requests, is invalid.
IsLine(line) ==
  /\ line.kind \in {"blank", "invalid", "single", "batch"}
  /\ line.requests \in
       Seq([id : STRING \cup {None}, method : Methods, arg : Payloads \cup Offer \cup {None}])
  /\ line.kind = "single" => Len(line.requests) = 1
  /\ \A i \in DOMAIN line.requests :
       /\ line.requests[i].method = "version" => line.requests[i].arg \in Offer
       /\ line.requests[i].method = "broadcast" =>
            line.requests[i].arg \in Payloads \cup {None}

ASSUME LinesAssumption ==
  /\ \A s \in Sessions : \A line \in LinesOf[s] : IsLine(line) /\ line # None
  /\ {"parse_error", "batch"} \subseteq Methods /\ None \notin Offer

\* Sessions and REST requests submit on their own behalf.
ASSUME CallersAssumption ==
  Sessions \cup RestCalls \subseteq Callers /\ Sessions \cap RestCalls = {}

NoSession ==
  [at |-> "closed", peer |-> None, version |-> None, offer |-> None,
   line |-> None, next |-> 1, answers |-> <<>>]

Live(s) == session[s].at # "closed"
Request(s) == session[s].line.requests[session[s].next]

\* An answer: the request's id, whether it is a result or an error, and whether a
\* result for a package says that it was a success.
Answer(id, ok, success) == [id |-> id, ok |-> ok, success |-> success]

\* A session goes on only when it has written its snapshot.
At(s, place) == session[s].at = place /\ s \notin unsaved

UnchangedBroadcast == UNCHANGED broadcastVars

-----------------------------------------------------------------------------
(* Opening and ending *)

\* handle_stream: the version is the highest there is until the client asks for
\* another.  An address may be in use on the other listener.
Open(s) ==
  /\ ~Live(s)
  /\ s \notin unsaved
  /\ connects < MaxSessions
  /\ connects' = connects + 1
  /\ \E p \in PeersOf[s] :
       /\ session' = [session EXCEPT ![s] =
                        [NoSession EXCEPT !.at = "idle", !.peer = p, !.version = ProtocolMax]]
       /\ shared' = (shared \/ \E t \in Sessions : Live(t) /\ session[t].peer = p)
       /\ Update(s, Opened(state, p))
  /\ UnchangedBroadcast
  /\ UNCHANGED inputs

\* The guard is dropped.
End(s) ==
  /\ session' = [session EXCEPT ![s] = NoSession]
  /\ Update(s, Ended(state, session[s].peer))
  /\ UnchangedBroadcast
  /\ UNCHANGED <<shared, inputs, connects>>

\* The client closes, or the line cannot be read.
Disconnect(s) == At(s, "idle") /\ End(s)

\* The answer cannot be written.
WriteFails(s) == At(s, "write") /\ End(s)

-----------------------------------------------------------------------------
(* Serving *)

\* handle_line: one entry for a line that is refused as a whole, answered
\* without an id.
RefuseLine(s, line, method) ==
  /\ session' = [session EXCEPT ![s].at = "write", ![s].line = line,
                                ![s].answers = <<Answer(None, FALSE, FALSE)>>]
  /\ Update(s, Recorded(state, session[s].peer, method, FALSE))

Receive(s) ==
  /\ At(s, "idle")
  /\ inputs < MaxInputs
  /\ inputs' = inputs + 1
  /\ \E line \in LinesOf[s] :
       CASE line.kind = "blank" -> UNCHANGED <<session, monitorVars>>
         [] line.kind = "invalid" -> RefuseLine(s, line, "parse_error")
         [] line.kind = "batch" /\ Len(line.requests) > MaxBatch ->
              RefuseLine(s, line, "batch")
         [] OTHER ->
              /\ session' = [session EXCEPT
                   ![s].at = IF line.requests = <<>> THEN "write" ELSE "serve",
                   ![s].line = line, ![s].next = 1, ![s].answers = <<>>]
              /\ UNCHANGED monitorVars
  /\ UnchangedBroadcast
  /\ UNCHANGED <<shared, connects>>

\* (every request of a batch is answered)
Answers_All(s, ok) ==
  Append(session[s].answers, Answer(Request(s).id, ok, push[s].success))

\* Only a request with an id is answered.  What a submission's result says is
\* passed on as it is.
Answers(s, ok) ==
  IF Request(s).id = None THEN session[s].answers
  ELSE Append(session[s].answers, Answer(Request(s).id, ok, push[s].success))

\* What the session is once a line is done with.
Ready(rec) == [rec EXCEPT !.at = "idle", !.line = None, !.next = 1, !.answers = <<>>]

\* Of a single request without an id nothing is written, of a batch of them an
\* empty list.
Served(s, rec) ==
  IF session[s].next < Len(session[s].line.requests) THEN [rec EXCEPT !.at = "serve"]
  ELSE IF session[s].line.kind = "single" /\ Request(s).id = None THEN Ready(rec)
  ELSE [rec EXCEPT !.at = "write"]

\* handle_tracked_request: the request is recorded, whatever came of it, and
\* the next one served; after the last the answers are written.
Record(s, ok) ==
  LET agreed == Request(s).method = "version" /\ ok
  IN  /\ session' = [session EXCEPT ![s] = Served(s,
           [session[s] EXCEPT !.next = @ + 1,
                              !.answers = Answers(s, ok),
                              !.version = IF agreed THEN Wanted(Request(s).arg) ELSE @,
                              !.offer = IF agreed THEN Request(s).arg ELSE @])]
      /\ Update(s, Recorded(state, session[s].peer, Request(s).method, ok))
      /\ UNCHANGED <<shared, inputs, connects>>

Serving(s, methods) == At(s, "serve") /\ Request(s).method \in methods

\* server_version: on an error the session's version stays as it was.
ServerVersion(s) ==
  /\ Serving(s, {"version"})
  /\ Record(s, Wanted(Request(s).arg) # None)
  /\ UnchangedBroadcast

\* supports_1_6.
Supports16(s) == ~Below(session[s].version, <<1, 6>>)

\* The methods that read the index or the mempool, and those not found.
Lookup(s) ==
  /\ Serving(s, {"query"})
  /\ \E ok \in BOOLEAN : Record(s, ok)
  /\ UnchangedBroadcast

\* blockchain.relayfee asks the node, which may take its time or fail; since 1.6
\* it is no method at all.  blockchain.estimatefee always asks.
NodeFee(s) ==
  /\ Serving(s, {"estimatefee", "relayfee"})
  /\ \E ok \in IF Request(s).method = "relayfee" /\ Supports16(s)
               THEN {FALSE} ELSE BOOLEAN : Record(s, ok)
  /\ UnchangedBroadcast

\* server.reset_monitor: reset, and then recorded like any other request.
ResetMonitor(s) ==
  /\ Serving(s, {"reset_monitor"})
  /\ session' = [session EXCEPT ![s].at = "await"]
  /\ Update(s, Reset(state))
  /\ UnchangedBroadcast
  /\ UNCHANGED <<shared, inputs, connects>>

\* blockchain.transaction.broadcast and broadcast_package, whose parameters may
\* be missing.
Broadcast(s) ==
  /\ Serving(s, {"broadcast"})
  /\ session' = [session EXCEPT ![s].at = "await"]
  /\ push' = [push EXCEPT ![s] = IF Request(s).arg = None
                                 THEN Refusing(None, "electrum")
                                 ELSE Submit(Request(s).arg, "electrum")]
  /\ UNCHANGED <<via, seq, node, posted, accepted, monitorVars, shared,
                 inputs, connects>>

\* The handler returns.
ResetDone(s) ==
  /\ At(s, "await") /\ Request(s).method = "reset_monitor"
  /\ Record(s, TRUE)
  /\ UnchangedBroadcast

Submitted(s) ==
  /\ At(s, "await") /\ Request(s).method = "broadcast"
  /\ push[s].at = "done"
  /\ Record(s, push[s].ok)
  /\ push' = [push EXCEPT ![s] = NoPush]
  /\ UNCHANGED <<via, seq, node, posted, accepted>>

Write(s) ==
  /\ At(s, "write")
  /\ session' = [session EXCEPT ![s] = Ready(@)]
  /\ UnchangedBroadcast
  /\ UNCHANGED <<monitorVars, shared, inputs, connects>>

SaveMonitor(s) ==
  /\ WriteSnapshot(s)
  /\ UnchangedBroadcast
  /\ UNCHANGED <<session, shared, inputs, connects>>

-----------------------------------------------------------------------------

Init ==
  /\ BroadcastInit
  /\ MonitorInit
  /\ session = [s \in Sessions |-> NoSession]
  /\ shared = FALSE
  /\ inputs = 0 /\ connects = 0

UnchangedSessions == UNCHANGED <<monitorVars, session, shared, connects>>

\* The steps of a submission, of whomever it is, and of the REST routes.
PushNext(c) == PushStep(c) /\ UNCHANGED inputs /\ UnchangedSessions

RestNext(c) ==
  /\ RestStep(c)
  /\ inputs' = inputs + (IF push[c].at = "idle" THEN 1 ELSE 0)
  /\ inputs' <= MaxInputs
  /\ UnchangedSessions

SessionNext(s) ==
  \/ Open(s) \/ Disconnect(s) \/ Receive(s) \/ ServerVersion(s) \/ Lookup(s)
  \/ NodeFee(s) \/ ResetMonitor(s) \/ ResetDone(s) \/ Broadcast(s) \/ Submitted(s)
  \/ Write(s) \/ WriteFails(s) \/ SaveMonitor(s)

Next ==
  \/ \E s \in Sessions : SessionNext(s)
  \/ \E c \in Callers : PushNext(c)
  \/ \E c \in RestCalls : RestNext(c)

Spec == Init /\ [][Next]_vars

\* Timers fire, and a task that can go on does.  Clients, the node, the proxy
\* and the endpoint owe nothing.
FairSpec ==
  /\ Spec
  /\ \A s \in Sessions : WF_vars(SaveMonitor(s)) /\ WF_vars(Submitted(s))
  /\ \A c \in Callers : WF_vars(PushTimeout(c) /\ UNCHANGED inputs /\ UnchangedSessions)
  /\ \A c \in RestCalls : WF_vars(RestEnd(c) /\ UNCHANGED inputs /\ UnchangedSessions)

-----------------------------------------------------------------------------
(* Properties *)

Peers == UNION {PeersOf[s] : s \in Sessions}

Lines == UNION {LinesOf[s] : s \in Sessions}
Versions == Seq(Nat) \cup {None}
AnswersType == Seq([id : STRING \cup {None}, ok : BOOLEAN, success : BOOLEAN])
Places == {"closed", "idle", "serve", "await", "write"}
Positions == Nat \ {0}

SessionType ==
  [at : Places, peer : Peers \cup {None}, version : Versions, offer : Offer \cup {None},
   line : Lines \cup {None}, next : Positions, answers : AnswersType]

TypeOK ==
  /\ session \in [Sessions -> SessionType]
  /\ IsMonitorState(state, Peers) /\ (file = Old \/ IsMonitorState(file, Peers))
  /\ unsaved \subseteq Sessions
  /\ via \in {"tor", "bitcoind"}
  /\ \A c \in Callers : push[c].at \in TorStages \cup {"idle", "rpc", "done"}

LivePeers == {session[s].peer : s \in {t \in Sessions : Live(t)}}

\* The monitor shows no client that has left, across ends of sessions that
\* overlap with its resets; and it shows every one that is there, unless two
\* of them had the same address at once, on the two listeners: then the end of
\* the one removes the other (monitor.rs keys clients by address).
ActiveExact ==
  /\ DOMAIN state.active \subseteq LivePeers
  /\ ~shared => DOMAIN state.active = LivePeers

\* The requests of all of a map's clients or methods, and how many failed.
Handled(counts) == SumFunction([p \in DOMAIN counts |-> counts[p].count])
Failed(counts) == SumFunction([p \in DOMAIN counts |-> counts[p].errors])

\* The monitor's figures agree whatever resets come between the requests: the
\* totals are those of the methods, no client made more requests than were
\* made, the recent ones are all up to the limit, and there were at least as
\* many sessions as there are.
Agree(st) ==
  /\ st.requests = Handled(st.methods)
  /\ st.errors = Failed(st.methods)
  /\ Handled(st.active) <= st.requests
  /\ Failed(st.active) <= st.errors
  /\ st.recent = Least(st.requests, RecentLimit)
  /\ Cardinality(DOMAIN st.active) <= st.sessions

FiguresAgree == Agree(state)

\* When no session has its snapshot to write and the last write did not fail,
\* the file shows the state as it is, in whatever order the sessions' changes
\* and writes came.
SnapshotFresh == unsaved = {} => file \in {state, Old}

\* The monitor never shows what was not: the three above, whatever sessions,
\* requests, resets and snapshot writes come between each other.
MonitorExact == ActiveExact /\ FiguresAgree /\ SnapshotFresh

\* The first n requests of a line that want an answer.
Asked(line, n) == {i \in 1..n : line.requests[i].id # None}

\* The answers to a line are those of its requests that have an id, in order
\* and each with the id of its own request, however long the submissions in
\* between took and whatever other sessions submitted; and a submission is
\* called a success, by the result for one transaction and inside the result for
\* a package, only if it was one.
AnswersMatch ==
  /\ TypeOK
  /\ SuccessIsAccepted
  /\ \A s \in Sessions : session[s].line # None =>
      LET line == session[s].line
          given == session[s].answers
      IN  IF line.kind = "invalid" \/ Len(line.requests) > MaxBatch
          THEN given = <<Answer(None, FALSE, FALSE)>>
          ELSE /\ Len(given) = Cardinality(Asked(line, session[s].next - 1))
               /\ \A i \in Asked(line, session[s].next - 1) :
                    LET answer == given[Cardinality(Asked(line, i))]
                    IN  /\ answer.id = line.requests[i].id
                        /\ /\ line.requests[i].method = "broadcast"
                           /\ SaysTaken(line.requests[i].arg, answer.ok, answer.success)
                           => line.requests[i].arg \in accepted

\* The version a session works with is one the server speaks and within what
\* the client last successfully asked for, and a failed request to change it
\* changes nothing.  This is what server_version does.  The protocol's document
\* (docs/electrum-bindex-spec.md) wants more, which does not hold: that the call
\* is the first on a connection (:206) and the only one (:236), that a range
\* without overlap closes the connection (:225), and 1.4 for want of a version
\* (:211).
VersionAgreed ==
  \A s \in {t \in Sessions : Live(t)} :
    LET v == session[s].version
        offer == session[s].offer
    IN  /\ ~Below(v, ProtocolMin) /\ ~Below(ProtocolMax, v)
        /\ offer = None => v = ProtocolMax
        /\ offer # None =>
             /\ offer.form \in {"one", "range"} => ~Below(offer.max, v)
             /\ offer.form = "range" => ~Below(v, offer.min)
=============================================================================
