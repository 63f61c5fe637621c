----------------------------- MODULE WebServer -----------------------------
(***************************************************************************)
(* bindex-web (bindex-web/src/main.rs): a thread that syncs the index under *)
(* the write lock of `chain`, a few worker threads that answer requests     *)
(* under its read lock, and a monitor of both.                              *)
(*                                                                          *)
(* The chain is the number of changes that were made to the index, so that  *)
(* states of it can be told apart and ordered; the node's, the number of    *)
(* changes there are to make.  What sync does is the subject of             *)
(* IndexedChain, what an address query computes that of AddressCache, and   *)
(* the request counters work as those of Monitor do.                        *)
(***************************************************************************)
EXTENDS Integers, FiniteSets

CONSTANTS
  Workers,      \* WORKERS threads
  Requests,     \* the requests that may arrive
  MaxChanges,   \* bound: changes of the chain
  MaxFailures,  \* bound: sync runs that fail
  None

\* A page is anything that needs no data, an error page included; a query is
\* for an address or a transaction.
Kinds == {"page", "status", "monitor", "query", "reset"}

\* MonitorState.sync: the tip and the outcome of the last run.
Figures == [last_tip : 0..MaxChanges \cup {None}, last_error : BOOLEAN]

ASSUME WebAssumption ==
  /\ MaxChanges \in Nat /\ MaxFailures \in Nat
  /\ None \notin Nat /\ None \notin Workers /\ None \notin Kinds
  /\ None \notin Figures

VARIABLES
  node,      \* what the node's chain amounts to
  silent,    \* it has ceased to answer, without closing its connections
  chain,     \* what the index shows of it
  syncer,    \* where the syncer is
  poisoned,  \* it panicked with the write lock held
  figures,   \* MonitorState.sync
  failures,  \* sync runs that failed
  alive,     \* the workers that have not panicked
  request    \* request[r]: where request r is and what has been read for it

webVars == <<node, silent, chain, syncer, poisoned, figures, failures, alive, request>>

-----------------------------------------------------------------------------

\* `first` and `second` are the chain at the two reads of a query, `shown` the
\* sync figures on the monitor page.
NoRequest ==
  [at |-> "none", kind |-> None, by |-> None, ok |-> FALSE,
   first |-> None, second |-> None, shown |-> None]

NoFigures == [last_tip |-> None, last_error |-> FALSE]

Readers == {r \in Requests : request[r].at = "reading"}
Busy(w) == \E r \in Requests : request[r].by = w

Move(r, from, to) ==
  /\ request[r].at = from
  /\ request' = [request EXCEPT ![r].at = to]

UnchangedSync == UNCHANGED <<silent, chain, syncer, poisoned, figures, failures>>
UnchangedWeb == UNCHANGED <<node, silent, alive, request>>

-----------------------------------------------------------------------------
(* The syncer *)

NodeChanges ==
  /\ node < MaxChanges
  /\ node' = node + 1
  /\ UNCHANGED <<alive, request>>
  /\ UnchangedSync

\* The client waits for an answer for as long as it takes: it has no timeout.
NodeSilent ==
  /\ ~silent
  /\ silent' = TRUE
  /\ UNCHANGED <<node, chain, syncer, poisoned, figures, failures, alive, request>>

\* chain.write: it is the only writer, and waits for the readers there are.
SyncLock ==
  /\ syncer = "waiting"
  /\ Readers = {}
  /\ syncer' = "syncing"
  /\ UNCHANGED <<chain, poisoned, figures, failures>>
  /\ UnchangedWeb

\* sync indexed something: record_sync_success, and again, with the lock kept.
\* Every run asks the node, and ends only when that has answered.
SyncBlocks ==
  /\ syncer = "syncing"
  /\ ~silent
  /\ chain < node
  /\ chain' \in chain + 1..node
  /\ figures' = [last_tip |-> chain', last_error |-> FALSE]
  /\ UNCHANGED <<syncer, poisoned, failures>>
  /\ UnchangedWeb

\* (and again)
SyncDone_KeepsLock ==
  /\ syncer = "syncing"
  /\ ~silent
  /\ chain = node
  /\ figures' = [last_tip |-> chain, last_error |-> FALSE]
  /\ UNCHANGED <<chain, syncer, poisoned, failures>>
  /\ UnchangedWeb

\* There was nothing to index.
SyncDone ==
  /\ syncer = "syncing"
  /\ ~silent
  /\ chain = node
  /\ figures' = [last_tip |-> chain, last_error |-> FALSE]
  /\ syncer' = "sleeping"
  /\ UNCHANGED <<chain, poisoned, failures>>
  /\ UnchangedWeb

\* sync failed, perhaps after it dropped stale blocks: record_sync_error.
SyncFails ==
  /\ syncer = "syncing"
  /\ ~silent
  /\ failures < MaxFailures
  /\ failures' = failures + 1
  /\ chain' \in {chain} \cup (chain + 1..node)
  /\ figures' = [figures EXCEPT !.last_error = TRUE]
  /\ syncer' = "sleeping"
  /\ UNCHANGED poisoned
  /\ UnchangedWeb

\* sync panicked: its thread ends, and the lock is poisoned.  The monitor is
\* not told.
SyncPanics ==
  /\ syncer = "syncing"
  /\ chain' \in {chain} \cup (chain + 1..node)
  /\ syncer' = "dead"
  /\ poisoned' = TRUE
  /\ UNCHANGED <<figures, failures>>
  /\ UnchangedWeb

SyncWakes ==
  /\ syncer = "sleeping"
  /\ syncer' = "waiting"
  /\ UNCHANGED <<chain, poisoned, figures, failures>>
  /\ UnchangedWeb

-----------------------------------------------------------------------------
(* The workers *)

Arrive(r) ==
  /\ request[r].at = "none"
  /\ \E kind \in Kinds :
       request' = [request EXCEPT ![r].at = "queued", ![r].kind = kind]
  /\ UNCHANGED <<node, alive>>
  /\ UnchangedSync

\* handle: a page needs nothing, an address or transaction id may be invalid,
\* and everything else looks at the chain.
AfterTake(kind) ==
  CASE kind = "page" -> {"answered"}
    [] kind = "query" -> {"answered", "locking"}
    [] kind = "reset" -> {"resetting"}
    [] OTHER -> {"locking"}

Take(w, r) ==
  /\ w \in alive /\ ~Busy(w)
  /\ request[r].at = "queued"
  /\ \E to \in AfterTake(request[r].kind) :
       request' = [request EXCEPT ![r].at = to, ![r].by = w,
                                  ![r].ok = request[r].kind = "page"]
  /\ UNCHANGED <<node, alive>>
  /\ UnchangedSync

\* The request counters are reset, and then the Electrum server asked to reset
\* its own, with timeouts; what comes of that is the answer.
Reset(r) ==
  /\ request[r].at = "resetting"
  /\ \E ok \in BOOLEAN :
       request' = [request EXCEPT ![r].at = "answered", ![r].ok = ok]
  /\ UNCHANGED <<node, alive>>
  /\ UnchangedSync

\* What a query is answered with: of the monitor page, the sync figures are
\* still to be read.
AfterRead(r) == IF request[r].kind = "monitor" THEN "figures" ELSE "answered"

\* (whether or not it is poisoned)
ReadLock_Recovers(r) ==
  /\ syncer \notin {"waiting", "syncing"}
  /\ Move(r, "locking", "reading")
  /\ UNCHANGED <<node, alive>>
  /\ UnchangedSync

\* chain.read: not while the syncer holds the lock, or waits for it.
ReadLock(r) ==
  /\ syncer \notin {"waiting", "syncing"}
  /\ ~poisoned
  /\ Move(r, "locking", "reading")
  /\ UNCHANGED <<node, alive>>
  /\ UnchangedSync

\* A poisoned lock fails every query.
LockFails(r) ==
  /\ poisoned
  /\ Move(r, "locking", AfterRead(r))
  /\ UNCHANGED <<node, alive>>
  /\ UnchangedSync

\* (the lock is taken for each read)
ReadFirst_Unlocks(r) ==
  /\ request[r].at = "reading"
  /\ request[r].first = None
  /\ request' = [request EXCEPT ![r].at = "locking", ![r].first = chain]
  /\ UNCHANGED <<node, alive>>
  /\ UnchangedSync

\* A query reads twice: hash and height of the tip, headers and history,
\* locations and transaction.
ReadFirst(r) ==
  /\ request[r].at = "reading"
  /\ request[r].first = None
  /\ request' = [request EXCEPT ![r].first = chain]
  /\ UNCHANGED <<node, alive>>
  /\ UnchangedSync

\* The lock is released, with an answer or an error.  An address's blocks and a
\* transaction are asked of the node under it.
ReadSecond(r) ==
  /\ request[r].at = "reading"
  /\ request[r].first # None
  /\ request[r].kind = "query" => ~silent
  /\ \E ok \in IF request[r].kind = "query" THEN BOOLEAN ELSE {TRUE} :
       request' = [request EXCEPT ![r].at = AfterRead(r), ![r].second = chain, ![r].ok = ok]
  /\ UNCHANGED <<node, alive>>
  /\ UnchangedSync

\* Monitor::json, which has read the chain's status, reads the figures.
ReadFigures(r) ==
  /\ request[r].at = "figures"
  /\ request' = [request EXCEPT ![r].at = "answered", ![r].shown = figures, ![r].ok = TRUE]
  /\ UNCHANGED <<node, alive>>
  /\ UnchangedSync

\* An assertion of the address cache fails, or the path cannot be decoded: the
\* worker is gone, and its read lock released.  A reader poisons nothing.
Panics(r) ==
  /\ request[r].kind = "query"
  /\ request[r].at \in {"reading", "locking"}
  /\ alive' = alive \ {request[r].by}
  /\ request' = [request EXCEPT ![r].at = "lost", ![r].by = None]
  /\ UNCHANGED node
  /\ UnchangedSync

\* The answer is written, or the client is gone.
Respond(r) ==
  /\ request[r].at = "answered"
  /\ request' = [request EXCEPT ![r] = [NoRequest EXCEPT !.at = "done"]]
  /\ UNCHANGED <<node, alive>>
  /\ UnchangedSync

-----------------------------------------------------------------------------

WebInit ==
  /\ node \in 0..MaxChanges
  /\ silent = FALSE
  /\ chain = 0
  /\ syncer = "waiting"
  /\ poisoned = FALSE
  /\ figures = NoFigures
  /\ failures = 0
  /\ alive = Workers
  /\ request = [r \in Requests |-> NoRequest]

SyncNext == SyncBlocks \/ SyncDone \/ SyncFails \/ SyncPanics

Handle(r) ==
  Reset(r) \/ LockFails(r) \/ ReadFirst(r) \/ ReadSecond(r) \/ ReadFigures(r)

WebNext ==
  \/ NodeChanges \/ NodeSilent \/ SyncLock \/ SyncNext \/ SyncWakes
  \/ \E r \in Requests :
       \/ Arrive(r) \/ ReadLock(r) \/ Handle(r) \/ Panics(r) \/ Respond(r)
       \/ \E w \in Workers : Take(w, r)

WebSpec == WebInit /\ [][WebNext]_webVars

\* Threads run; the syncer sleeps between its runs long enough for those that
\* wait to get the lock.  Clients owe nothing, and neither does the node: what
\* waits for its answer is not enabled once it is silent.
FairWebSpec ==
  /\ WebSpec
  /\ WF_webVars(SyncLock) /\ WF_webVars(SyncBlocks \/ SyncDone) /\ WF_webVars(SyncWakes)
  /\ \A r \in Requests : SF_webVars(ReadLock(r)) /\ WF_webVars(Handle(r))

-----------------------------------------------------------------------------
(* Properties *)

Places == {"none", "queued", "resetting", "locking", "reading", "figures",
           "answered", "done", "lost"}

WebTypeOK ==
  /\ node \in 0..MaxChanges /\ chain \in 0..node
  /\ syncer \in {"waiting", "syncing", "sleeping", "dead"}
  /\ poisoned \in BOOLEAN /\ silent \in BOOLEAN
  /\ figures \in Figures
  /\ failures \in 0..MaxFailures
  /\ alive \subseteq Workers
  /\ request \in [Requests ->
       [at : Places, kind : Kinds \cup {None}, by : Workers \cup {None}, ok : BOOLEAN,
        first : 0..MaxChanges \cup {None}, second : 0..MaxChanges \cup {None},
        shown : Figures \cup {None}]]

\* An answer is about one state of the chain, although it takes several reads
\* and the syncer, and requests that panic, come and go in between.  The monitor
\* page reads the chain's tip and the sync figures one after the other, without
\* a lock over both: it may show a tip that is older than the last sync, but, if
\* that did not fail, none that is newer.
AnswersCoherent ==
  /\ WebTypeOK
  /\ \A r \in Requests :
       LET shown == request[r].shown
           first == request[r].first
       IN  /\ request[r].at = "answered" => first = request[r].second
           /\ shown # None /\ first # None =>
                shown.last_error \/ shown.last_tip = None \/ shown.last_tip >= first

\* Once the syncer has panicked, perhaps with the index half way through a
\* change, no query answers from the chain, the ones included that waited for
\* the lock then.  (sync_loop's own case for a poisoned lock is never met: the
\* syncer is the only writer, and ended with the panic.)
PoisonedAnswersNothing ==
  [][\A r \in Requests :
       poisoned /\ request'[r].ok /\ ~request[r].ok =>
         request[r].kind \in {"page", "monitor", "reset"}]_webVars

Ended(r) == request[r].at \in {"answered", "done", "lost"}

\* A request that a worker has taken is answered, or lost with its worker, even
\* if it waits for the lock while the syncer indexes, fails or dies, unless the
\* node falls silent.  Then the syncer, or a query, never lets go of the lock,
\* and every request that looks at the chain waits with it; but one that has
\* the lock and only the index to ask, and one that needs no lock any more, is
\* answered all the same.
TakenAnswered ==
  \A r \in Requests :
    /\ request[r].at \in {"locking", "reading"} ~> Ended(r) \/ silent
    /\ \/ request[r].at \in {"resetting", "figures"}
       \/ request[r].at = "reading" /\ request[r].kind # "query"
       ~> Ended(r)
=============================================================================
