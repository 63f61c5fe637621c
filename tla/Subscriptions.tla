---------------------------- MODULE Subscriptions ----------------------------
(***************************************************************************)
(* The Electrum server's notifications: the refresh task and the mempool   *)
(* task change what the server knows and then announce it through a watch  *)
(* channel; a session answers its client's requests and, when the channel  *)
(* changed, works out what the client is owed.  Sessions share nothing     *)
(* they write, so one is modelled.                                         *)
(*                                                                         *)
(* The locks on chain and mempool are held for one lookup at a time: both  *)
(* tasks may run between any two lookups of a session.  The channel keeps  *)
(* its last value only, and a flag that it was changed since last read     *)
(* (the mempool counter in it has no other use).                           *)
(*                                                                         *)
(* A lookup of a confirmed history answers for the tip of its moment; that *)
(* MempoolIndex is a function of its transactions is module Mempool's.     *)
(***************************************************************************)
EXTENDS MempoolIndex

CONSTANTS
  Tips, NoTip,
  Height,       \* Height[k][t]: t's height in the chain ending in k, 0 if none
  Follows,      \* the pairs of tips one refresh can lead from and to
  MaxSubscriptions,  \* max_subscriptions_per_session
  MaxPolls,     \* bound: mempool polls that change something
  MaxFailures   \* bound: lookups that fail

ASSUME TipsAssumption ==
  /\ NoTip \notin Tips
  /\ Height \in [Tips \cup {NoTip} -> [Txids -> Nat]]
  /\ Follows \in SUBSET ((Tips \cup {NoTip}) \X Tips)
  /\ Scripts # {}
  /\ MaxSubscriptions \in Nat /\ MaxPolls \in Nat /\ MaxFailures \in Nat

VARIABLES
  tip,          \* the tip of the index the server reads
  pool,         \* the transactions of the mempool index
  announced,    \* the tip in the watch channel
  refresher,    \* "idle", or "publish" between refresh and publish_tip
  poller,       \* "idle", or "publish" between poll_once and send_modify
  pending,      \* the channel changed since the session last read it
  pc,           \* where the session is
  last_header,  \* the tip last sent; NoTip: not subscribed to headers
  checked_tip,
  scripthashes, \* the subscribed scripts
  confirmed,    \* the session's copy of a script's confirmed history
  status,       \* the status last sent for a script
  current,      \* the channel's tip, as read for this round of notifications
  todo,         \* scripts still to be looked at in this round
  script,       \* the script in hand
  polls, failures,
  had,          \* history: the tips there were
  rolled_back   \* history: a refresh went back to one of them

tasks   == <<tip, pool, announced, refresher, poller, polls, had, rolled_back>>
session == <<pc, last_header, checked_tip, scripthashes, confirmed, status,
             current, todo, script>>
vars    == <<tasks, pending, session, failures>>

-----------------------------------------------------------------------------
(* Confirmed histories and statuses *)

MinedAt(k) == { t \in Txids : Height[k][t] > 0 }

\* script_history: the transactions that pay or spend from the script, with
\* their heights, and the outputs still unspent.
ScriptHistory(k, s) ==
  [rows |-> { <<t, Height[k][t]>> : t \in Touching(MinedAt(k), s) },
   utxos |-> Unspent(MinedAt(k), s)]

\* script_status is a hash of the confirmed rows and the mempool entries.
ScriptStatus(s, history, P) ==
  LET mined == { row[1] : row \in history.rows }
  IN  <<history.rows, ScriptView(IndexOf(P), s, history.utxos, mined).entries>>

NoHistory == [rows |-> {}, utxos |-> {}]
NoStatus == << >>
AnyScript == CHOOSE s \in Scripts : TRUE

TypeOK ==
  /\ tip \in Tips \cup {NoTip} /\ announced \in Tips \cup {NoTip}
  /\ pool \in SUBSET Txids
  /\ refresher \in {"idle", "publish"} /\ poller \in {"idle", "publish"}
  /\ pending \in BOOLEAN
  /\ pc \in {"gone", "idle", "subscribe", "notify", "check"}
  /\ last_header \in Tips \cup {NoTip} /\ checked_tip \in Tips \cup {NoTip}
  /\ current \in Tips \cup {NoTip}
  /\ scripthashes \in SUBSET Scripts /\ Cardinality(scripthashes) <= MaxSubscriptions
  /\ DOMAIN confirmed = Scripts /\ DOMAIN status = Scripts
  /\ todo \in SUBSET scripthashes /\ script \in Scripts
  /\ polls \in 0..MaxPolls /\ failures \in 0..MaxFailures
  /\ had \in SUBSET (Tips \cup {NoTip}) /\ rolled_back \in BOOLEAN

Init ==
  /\ tip \in Tips \cup {NoTip} /\ announced = tip /\ pool = {}
  /\ refresher = "idle" /\ poller = "idle" /\ pending = FALSE
  /\ pc = "gone"
  /\ last_header = NoTip /\ checked_tip = NoTip /\ current = NoTip
  /\ scripthashes = {} /\ todo = {}
  /\ confirmed = [s \in Scripts |-> NoHistory]
  /\ status = [s \in Scripts |-> NoStatus]
  /\ script = AnyScript
  /\ polls = 0 /\ failures = 0
  /\ had = {tip} /\ rolled_back = FALSE

-----------------------------------------------------------------------------
(* The tasks *)

\* A refresh of the secondary, which may have found a new tip.
Refresh ==
  /\ refresher = "idle"
  /\ \E k \in Tips :
       /\ <<tip, k>> \in Follows /\ tip' = k
       /\ had' = had \cup {k}
       /\ rolled_back' = (rolled_back \/ k \in had)
  /\ refresher' = "publish"
  /\ UNCHANGED <<pool, announced, poller, polls, pending, session, failures>>

RefreshNothingNew ==
  /\ refresher = "idle" /\ announced # tip
  /\ refresher' = "publish"
  /\ UNCHANGED <<tip, pool, announced, poller, polls, pending, had, rolled_back, session, failures>>

\* publish_tip: the channel is changed if the tip is not the one in it.
PublishTip ==
  /\ refresher = "publish"
  /\ announced' = tip
  /\ pending' = (pending \/ announced # tip)
  /\ refresher' = "idle"
  /\ UNCHANGED <<tip, pool, poller, polls, had, rolled_back, session, failures>>

\* Reading the tip's header failed: logged, until the next refresh.
PublishTipFails ==
  /\ refresher = "publish" /\ failures < MaxFailures
  /\ failures' = failures + 1
  /\ refresher' = "idle"
  /\ UNCHANGED <<tip, pool, announced, poller, polls, pending, had, rolled_back, session>>

\* A poll that added or removed transactions ...
Poll ==
  /\ poller = "idle" /\ polls < MaxPolls
  /\ polls' = polls + 1
  /\ \E P \in SUBSET Txids : P # pool /\ ConflictFree(P) /\ pool' = P
  /\ poller' = "publish"
  /\ UNCHANGED <<tip, announced, refresher, pending, had, rolled_back, session, failures>>

\* ... is announced by bumping the counter.
PublishMempool ==
  /\ poller = "publish"
  /\ pending' = TRUE
  /\ poller' = "idle"
  /\ UNCHANGED <<tip, pool, announced, refresher, polls, had, rolled_back, session, failures>>

-----------------------------------------------------------------------------
(* The session: requests *)

\* handle_stream: the channel is read once, so that what is in it is not news.
Connect ==
  /\ pc = "gone"
  /\ pc' = "idle"
  /\ pending' = FALSE /\ checked_tip' = announced
  /\ UNCHANGED <<tasks, last_header, scripthashes, confirmed, status, current,
                 todo, script, failures>>

Disconnect ==
  /\ pc = "idle"
  /\ pc' = "gone"
  /\ last_header' = NoTip /\ checked_tip' = NoTip
  /\ scripthashes' = {}
  /\ confirmed' = [s \in Scripts |-> NoHistory]
  /\ status' = [s \in Scripts |-> NoStatus]
  /\ UNCHANGED <<tasks, pending, current, todo, script, failures>>

SubscribeHeaders ==
  /\ pc = "idle" /\ tip # NoTip
  /\ last_header' = tip
  /\ UNCHANGED <<tasks, pending, pc, checked_tip, scripthashes, confirmed, status,
                 current, todo, script, failures>>

\* scripthash_subscribe reads the confirmed history (a lookup that fails is
\* answered with an error and changes nothing) ...
SubscribeScript(s) ==
  /\ pc = "idle"
  /\ s \in scripthashes \/ Cardinality(scripthashes) < MaxSubscriptions
  /\ script' = s
  /\ confirmed' = [confirmed EXCEPT ![s] = ScriptHistory(tip, s)]
  /\ pc' = "subscribe"
  /\ UNCHANGED <<tasks, pending, last_header, checked_tip, scripthashes, status,
                 current, todo, failures>>

\* ... and then the mempool, and answers with the status.
SubscribeReply ==
  /\ pc = "subscribe"
  /\ status' = [status EXCEPT ![script] = ScriptStatus(script, confirmed[script], pool)]
  /\ scripthashes' = scripthashes \cup {script}
  /\ pc' = "idle" /\ script' = AnyScript
  /\ UNCHANGED <<tasks, pending, last_header, checked_tip, confirmed, current,
                 todo, failures>>

Unsubscribe(s) ==
  /\ pc = "idle" /\ s \in scripthashes
  /\ scripthashes' = scripthashes \ {s}
  /\ confirmed' = [confirmed EXCEPT ![s] = NoHistory]
  /\ status' = [status EXCEPT ![s] = NoStatus]
  /\ UNCHANGED <<tasks, pending, pc, last_header, checked_tip, current, todo,
                 script, failures>>

-----------------------------------------------------------------------------
(* The session: notifications *)

\* (a header is due when the tip is not the one checked last)
HeaderDue_ByCheckedTip == last_header # NoTip /\ announced # checked_tip

HeaderDue == last_header # NoTip /\ announced # last_header

\* The channel changed: its value is read, a header notification is sent if
\* the tip is not the one last sent, and every subscribed script is due.
Changed ==
  /\ pc = "idle" /\ pending
  /\ pending' = FALSE /\ current' = announced
  /\ last_header' = IF HeaderDue /\ announced # NoTip THEN announced ELSE last_header
  /\ todo' = scripthashes
  /\ pc' = "notify"
  /\ UNCHANGED <<tasks, checked_tip, scripthashes, confirmed, status, script, failures>>

\* If the tip changed, the script's confirmed history is read again ...
RefreshScript(s) ==
  /\ pc = "notify" /\ s \in todo /\ current # checked_tip
  /\ confirmed' = [confirmed EXCEPT ![s] = ScriptHistory(tip, s)]
  /\ todo' = todo \ {s} /\ script' = s
  /\ pc' = "check"
  /\ UNCHANGED <<tasks, pending, last_header, checked_tip, scripthashes, status,
                 current, failures>>

\* ... and a script for which that fails is passed over.
RefreshScriptFails(s) ==
  /\ pc = "notify" /\ s \in todo /\ current # checked_tip
  /\ failures < MaxFailures
  /\ failures' = failures + 1
  /\ todo' = todo \ {s}
  /\ UNCHANGED <<tasks, pending, pc, last_header, checked_tip, scripthashes,
                 confirmed, status, current, script>>

\* The status is worked out anew, and sent if it differs from the last one.
CheckScript ==
  /\ pc = "check"
  /\ status' = [status EXCEPT ![script] = ScriptStatus(script, confirmed[script], pool)]
  /\ pc' = "notify" /\ script' = AnyScript
  /\ UNCHANGED <<tasks, pending, last_header, checked_tip, scripthashes, confirmed,
                 current, todo, failures>>

\* (without a new tip nothing is looked at)
CheckMempool_Skips(s) ==
  /\ pc = "notify" /\ s \in todo /\ current = checked_tip
  /\ todo' = todo \ {s}
  /\ UNCHANGED <<tasks, pending, pc, last_header, checked_tip, scripthashes,
                 confirmed, status, current, script, failures>>

\* Without a new tip, from the session's own copy of the confirmed history.
CheckMempool(s) ==
  /\ pc = "notify" /\ s \in todo /\ current = checked_tip
  /\ status' = [status EXCEPT ![s] = ScriptStatus(s, confirmed[s], pool)]
  /\ todo' = todo \ {s}
  /\ UNCHANGED <<tasks, pending, pc, last_header, checked_tip, scripthashes,
                 confirmed, current, script, failures>>

\* (the tip of the end of the round is taken for the one it was about)
EndNotify_AtTip ==
  /\ pc = "notify" /\ todo = {}
  /\ checked_tip' = tip /\ current' = NoTip
  /\ pc' = "idle"
  /\ UNCHANGED <<tasks, pending, last_header, scripthashes, confirmed, status,
                 todo, script, failures>>

EndNotify ==
  /\ pc = "notify" /\ todo = {}
  /\ checked_tip' = current /\ current' = NoTip
  /\ pc' = "idle"
  /\ UNCHANGED <<tasks, pending, last_header, scripthashes, confirmed, status,
                 todo, script, failures>>

-----------------------------------------------------------------------------

TaskStep == RefreshNothingNew \/ PublishTip \/ PublishMempool

SessionStep ==
  \/ SubscribeReply \/ Changed \/ CheckScript \/ EndNotify
  \/ \E s \in Scripts : RefreshScript(s) \/ CheckMempool(s)

Next ==
  \/ TaskStep \/ SessionStep
  \/ Refresh \/ PublishTipFails \/ Poll
  \/ Connect \/ Disconnect \/ SubscribeHeaders
  \/ \E s \in Scripts :
       SubscribeScript(s) \/ Unsubscribe(s) \/ RefreshScriptFails(s)

Spec == Init /\ [][Next]_vars

\* Both tasks run on timers, and a session that has work is scheduled.  Its
\* select! picks at random between a request and a change, so that a client
\* that never stops asking does not keep a change waiting for ever.  Nothing
\* is assumed of the client, the writer or the node.
FairSpec ==
  Spec /\ WF_vars(TaskStep) /\ WF_vars(SessionStep) /\ SF_vars(Changed)

-----------------------------------------------------------------------------
(* Properties *)

\* The session has nothing left to react to.
Settled == pc = "idle" /\ ~pending

\* As long as no announcement failed, a settled session that subscribed to
\* headers was last sent the current tip, once it was announced: no header is
\* missed however many values of the channel it skipped, and whatever tips
\* were rolled back.  (The state stays within its types: no more scripts are
\* subscribed than a session may have.)
HeaderCurrent ==
  /\ TypeOK
  /\ Settled /\ announced = tip /\ last_header # NoTip /\ failures = 0 => last_header = tip

\* As long as no lookup failed, a settled session was last sent, for every
\* subscribed script, the status that its own copy of the confirmed history has
\* with the current mempool, though the mempool may have changed in the middle
\* of a round.
MempoolCurrent ==
  Settled /\ poller = "idle" /\ failures = 0 =>
    \A s \in scripthashes : status[s] = ScriptStatus(s, confirmed[s], pool)

\* A settled session was last sent, for every subscribed script, the status in
\* the current chain and mempool ("every subscribed script whose status differs
\* from the one it was last sent"), as long as no lookup failed and the tip never
\* went back to an earlier one: notifications passes over a script whose lookup
\* fails and still records the tip as checked, and of a tip that comes and goes
\* before the session reads the channel, though it is announced both times, only
\* the last value is left, which the session has seen before.
StatusCurrent ==
  Settled /\ announced = tip /\ poller = "idle" /\ failures = 0 /\ ~rolled_back =>
    \A s \in scripthashes : status[s] = ScriptStatus(s, ScriptHistory(tip, s), pool)

\* The same of every settled session, whatever tips came and went ("skipped
\* intermediate values lose nothing").
StatusAlwaysCurrent ==
  Settled /\ announced = tip /\ poller = "idle" =>
    \A s \in scripthashes : status[s] = ScriptStatus(s, ScriptHistory(tip, s), pool)

\* When chain, mempool and client stop, every subscribed script's last status is
\* the current one, under the same two conditions.
StatusSettles ==
  <>[](failures = 0 /\ ~rolled_back =>
         \A s \in scripthashes : status[s] = ScriptStatus(s, ScriptHistory(tip, s), pool))
==============================================================================
