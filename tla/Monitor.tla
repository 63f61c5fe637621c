------------------------------ MODULE Monitor ------------------------------
(***************************************************************************)
(* The Electrum server's request monitor (monitor.rs): counters behind a   *)
(* mutex, and a snapshot of them in a file.  Every change takes the lock,  *)
(* and the snapshot is written after it, under the lock taken again; the   *)
(* sessions of other threads come in between.  Clients are known by their  *)
(* address alone.  Times and latencies are left out.                       *)
(***************************************************************************)
EXTENDS Integers, FiniteSets, Functions

CONSTANTS
  Sessions,    \* the tasks that serve a client
  Methods,     \* the names requests are counted under
  RecentLimit, \* RECENT_LIMIT
  Old          \* a snapshot of an earlier state, whichever

ASSUME MonitorAssumption == RecentLimit \in Nat /\ IsFiniteSet(Methods)

VARIABLES
  state,    \* MonitorState
  file,     \* the snapshot in the monitor file, Old since a write failed
  unsaved   \* the sessions that changed the state and have yet to write it

monitorVars == <<state, file, unsaved>>

-----------------------------------------------------------------------------

Count == [count : Nat, errors : Nat]
NoneYet == [count |-> 0, errors |-> 0]

IsMonitorState(st, peers) ==
  /\ DOMAIN st.active \subseteq peers
  /\ \A p \in DOMAIN st.active : st.active[p] \in Count
  /\ st.methods \in [Methods -> Count]
  /\ st.recent \in 0..RecentLimit
  /\ {st.sessions, st.requests, st.errors} \subseteq Nat

NoState ==
  [active |-> [p \in {} |-> NoneYet], methods |-> [m \in Methods |-> NoneYet],
   recent |-> 0, sessions |-> 0, requests |-> 0, errors |-> 0]

Counted(c, ok) ==
  [count |-> c.count + 1, errors |-> c.errors + (IF ok THEN 0 ELSE 1)]

Least(a, b) == IF a < b THEN a ELSE b

\* session: the entry of a client is replaced if there is one.
Opened(st, peer) ==
  [st EXCEPT !.sessions = @ + 1,
             !.active = [p \in DOMAIN @ \cup {peer} |->
                           IF p = peer THEN NoneYet ELSE @[p]]]

\* record_request: a client that is not active is not entered again.
Recorded(st, peer, method, ok) ==
  [st EXCEPT !.requests = @ + 1,
             !.errors = @ + (IF ok THEN 0 ELSE 1),
             !.methods[method] = Counted(@, ok),
             !.active = [p \in DOMAIN @ |-> IF p = peer THEN Counted(@[p], ok) ELSE @[p]],
             !.recent = Least(@ + 1, RecentLimit)]

\* (the clients' own counters are kept)
Reset_KeepsClients(st) == [NoState EXCEPT !.active = st.active,
                                          !.sessions = Cardinality(DOMAIN st.active)]

\* reset: the sessions under way are all that is left.
Reset(st) == [NoState EXCEPT !.active = [p \in DOMAIN st.active |-> NoneYet],
                             !.sessions = Cardinality(DOMAIN st.active)]

\* end_session, called when the SessionGuard is dropped.
Ended(st, peer) == [st EXCEPT !.active = Restrict(@, DOMAIN @ \ {peer})]

-----------------------------------------------------------------------------

\* A change of session s, under the lock; its snapshot is yet to be written.
Update(s, next) ==
  /\ state' = next
  /\ unsaved' = unsaved \cup {s}
  /\ UNCHANGED file

\* write_snapshot_best_effort: the state as it is by then, under the lock and by
\* a rename, so that no reader sees part of it; or a failure, which is logged.
WriteSnapshot(s) ==
  /\ s \in unsaved
  /\ unsaved' = unsaved \ {s}
  /\ file' \in {state, Old}
  /\ UNCHANGED state

\* Monitor::new writes the first snapshot, or the server does not start.
MonitorInit ==
  /\ state = NoState
  /\ file = NoState
  /\ unsaved = {}
=============================================================================
