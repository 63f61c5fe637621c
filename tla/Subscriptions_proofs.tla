------------------------ MODULE Subscriptions_proofs ------------------------
(***************************************************************************)
(* Proofs about the notifications of a session, for any chain, mempool,    *)
(* set of scripts, number of refreshes and limit on subscriptions.         *)
(*                                                                         *)
(* The argument: while no announcement failed, the tip is the announced    *)
(* one or the one about to be; the session's tip is the announced one      *)
(* unless a change is pending; and a copy of a confirmed history was read  *)
(* at the session's tip or at the current one, unless the announced tip is *)
(* another one, and then the next round reads it again.  Only a tip that   *)
(* comes back could make the last two agree without a round in between.    *)
(***************************************************************************)
EXTENDS Subscriptions, TLAPS, FiniteSetTheorems

AllTips == Tips \cup {NoTip}

\* A script that is being subscribed to.
Asking == IF pc = "subscribe" THEN {script} ELSE {}

\* What the types leave open: a session without a round under way has no script
\* to look at, and a script is only asked for if there is room for it.
Orderly ==
  /\ IsFiniteSet(scripthashes)
  /\ pc \in {"gone", "idle", "subscribe"} => todo = {}
  /\ pc = "gone" => scripthashes = {} /\ last_header = NoTip
  /\ pc = "subscribe" =>
       script \in scripthashes \/ Cardinality(scripthashes) < MaxSubscriptions

\* Every tip there is or was is recorded, and an index does not become empty.
Recorded ==
  /\ {tip, announced} \subseteq had /\ {checked_tip, current} \subseteq had \cup {NoTip}
  /\ tip = NoTip => announced = NoTip

\* Without failures a refresh is announced before the next one.
Announces == failures = 0 /\ refresher = "idle" => announced = tip

\* The header last sent is the announced one or the current one.
HeaderFollows ==
  failures = 0 /\ last_header # NoTip =>
    /\ tip # NoTip
    /\ ~pending => last_header \in {announced, tip}
    /\ announced = NoTip => last_header = tip

\* The scripts whose status is not being worked out.
Steady == scripthashes \ (todo \cup (IF pc \in {"subscribe", "check"} THEN {script} ELSE {}))

MempoolFollows ==
  failures = 0 /\ ~pending /\ poller = "idle" =>
    \A s \in Steady : status[s] = ScriptStatus(s, confirmed[s], pool)

\* The tip the session's histories are about, or will be once a round ends.
About == IF pc \in {"notify", "check"} THEN current ELSE checked_tip

\* What the session knows of the tip is the announced one, if nothing is pending.
TipFollows == pc # "gone" /\ ~pending => About = announced

\* A tip yet to be announced is none the session knows.
TipFresh == failures = 0 /\ ~rolled_back /\ tip # announced => tip \notin {checked_tip, current}

\* Scripts that this round has not come to, and that it reads again.
Due == IF pc \in {"notify", "check"} /\ current # checked_tip THEN todo ELSE {}

HistoryFollows ==
  failures = 0 /\ ~rolled_back /\ announced = About =>
    \A s \in (scripthashes \cup Asking) \ Due :
      confirmed[s] \in {ScriptHistory(About, s), ScriptHistory(tip, s)}

\* The inductive invariant.
IInv ==
  /\ TypeOK /\ Orderly /\ Recorded /\ Announces
  /\ HeaderFollows /\ MempoolFollows
  /\ TipFollows /\ TipFresh /\ HistoryFollows

LEMMA AnyScriptTyped == AnyScript \in Scripts
BY TipsAssumption DEF TipsAssumption, AnyScript

LEMMA InitInv == Init => IInv
<1> SUFFICES ASSUME Init PROVE IInv
  OBVIOUS
<1> USE DEF Init
<1>0. MaxSubscriptions \in Nat /\ MaxPolls \in Nat /\ MaxFailures \in Nat
  BY TipsAssumption DEF TipsAssumption
<1>1. IsFiniteSet({}) /\ Cardinality({}) = 0
  BY FS_EmptySet
<1>2. TypeOK
  <2>1. scripthashes \in SUBSET Scripts /\ Cardinality(scripthashes) <= MaxSubscriptions
    BY <1>0, <1>1
  <2>2. DOMAIN confirmed = Scripts /\ DOMAIN status = Scripts
    OBVIOUS
  <2>3. polls \in 0..MaxPolls /\ failures \in 0..MaxFailures
    BY <1>0
  <2> QED BY <2>1, <2>2, <2>3, AnyScriptTyped DEF TypeOK
<1>3. Orderly /\ Recorded /\ Announces
  BY <1>1 DEF Orderly, Recorded, Announces
<1>4. HeaderFollows /\ MempoolFollows /\ TipFollows /\ TipFresh
  BY DEF HeaderFollows, MempoolFollows, Steady, TipFollows, TipFresh
<1>5. HistoryFollows
  BY DEF HistoryFollows, Asking
<1> QED BY <1>2, <1>3, <1>4, <1>5 DEF IInv

LEMMA RefreshKeeps ==
  ASSUME IInv, Refresh
  PROVE  IInv'
<1>0. /\ TypeOK /\ Orderly /\ Recorded /\ Announces /\ HeaderFollows /\ MempoolFollows
      /\ TipFollows /\ TipFresh /\ HistoryFollows
  BY DEF IInv
<1>1. TypeOK'
  BY <1>0, TipsAssumption DEF TypeOK, TipsAssumption, Refresh, session
<1>2. Orderly'
  BY <1>0 DEF Orderly, Refresh, session
<1>3. Recorded'
  BY <1>0, TipsAssumption DEF TipsAssumption, Recorded, TypeOK, Refresh, session
<1>4. Announces'
  BY <1>0 DEF Announces, Refresh, session
<1>5. HeaderFollows'
  BY <1>0, TipsAssumption DEF TipsAssumption, HeaderFollows, Announces, Refresh, session
<1>6. MempoolFollows'
  BY <1>0 DEF MempoolFollows, Steady, Refresh, session
<1>7. TipFollows'
  BY <1>0 DEF TipFollows, About, Refresh, session
<1>8. TipFresh'
  BY <1>0, TipsAssumption DEF TipsAssumption, TipFresh, Recorded, Announces, Refresh, session
<1>9. HistoryFollows'
  BY <1>0 DEF HistoryFollows, About, Asking, Due, Announces, Refresh, session
<1> QED BY <1>1, <1>2, <1>3, <1>4, <1>5, <1>6, <1>7, <1>8, <1>9 DEF IInv

LEMMA RefreshNothingNewKeeps ==
  ASSUME IInv, RefreshNothingNew
  PROVE  IInv'
<1>0. /\ TypeOK /\ Orderly /\ Recorded /\ Announces /\ HeaderFollows /\ MempoolFollows
      /\ TipFollows /\ TipFresh /\ HistoryFollows
  BY DEF IInv
<1>1. TypeOK'
  BY <1>0 DEF TypeOK, RefreshNothingNew, session
<1>2. Orderly'
  BY <1>0 DEF Orderly, RefreshNothingNew, session
<1>3. Recorded'
  BY <1>0 DEF Recorded, TypeOK, RefreshNothingNew, session
<1>4. Announces'
  BY <1>0 DEF Announces, RefreshNothingNew, session
<1>5. HeaderFollows'
  BY <1>0 DEF HeaderFollows, RefreshNothingNew, session
<1>6. MempoolFollows'
  BY <1>0 DEF MempoolFollows, Steady, RefreshNothingNew, session
<1>7. TipFollows'
  BY <1>0 DEF TipFollows, About, RefreshNothingNew, session
<1>8. TipFresh'
  BY <1>0 DEF TipFresh, RefreshNothingNew, session
<1>9. HistoryFollows'
  BY <1>0 DEF HistoryFollows, About, Asking, Due, RefreshNothingNew, session
<1> QED BY <1>1, <1>2, <1>3, <1>4, <1>5, <1>6, <1>7, <1>8, <1>9 DEF IInv

LEMMA PublishTipKeeps ==
  ASSUME IInv, PublishTip
  PROVE  IInv'
<1>0. /\ TypeOK /\ Orderly /\ Recorded /\ Announces /\ HeaderFollows /\ MempoolFollows
      /\ TipFollows /\ TipFresh /\ HistoryFollows
  BY DEF IInv
<1>1. TypeOK'
  BY <1>0 DEF TypeOK, PublishTip, session
<1>2. Orderly'
  BY <1>0 DEF Orderly, PublishTip, session
<1>3. Recorded'
  BY <1>0 DEF Recorded, TypeOK, PublishTip, session
<1>4. Announces'
  BY <1>0 DEF Announces, PublishTip, session
<1>5. HeaderFollows'
  BY <1>0 DEF HeaderFollows, PublishTip, session
<1>6. MempoolFollows'
  BY <1>0 DEF MempoolFollows, Steady, PublishTip, session
<1>7. TipFollows'
  BY <1>0 DEF TipFollows, About, PublishTip, session
<1>8. TipFresh'
  BY <1>0 DEF TipFresh, PublishTip, session
<1>9. HistoryFollows'
  BY <1>0 DEF HistoryFollows, TipFresh, About, Asking, Due, PublishTip, session
<1> QED BY <1>1, <1>2, <1>3, <1>4, <1>5, <1>6, <1>7, <1>8, <1>9 DEF IInv

LEMMA PublishTipFailsKeeps ==
  ASSUME IInv, PublishTipFails
  PROVE  IInv'
<1>0. /\ TypeOK /\ Orderly /\ Recorded /\ Announces /\ HeaderFollows /\ MempoolFollows
      /\ TipFollows /\ TipFresh /\ HistoryFollows
  BY DEF IInv
<1>10. failures' # 0 /\ failures' \in 0..MaxFailures
  BY <1>0, TipsAssumption DEF TypeOK, TipsAssumption, PublishTipFails
<1>1. TypeOK'
  BY <1>0, <1>10 DEF TypeOK, PublishTipFails, session
<1>2. Orderly'
  BY <1>0 DEF Orderly, PublishTipFails, session
<1>3. Recorded'
  BY <1>0 DEF Recorded, TypeOK, PublishTipFails, session
<1>4. Announces'
  BY <1>0, <1>10 DEF Announces, PublishTipFails, session
<1>5. HeaderFollows'
  BY <1>0, <1>10 DEF HeaderFollows, PublishTipFails, session
<1>6. MempoolFollows'
  BY <1>0, <1>10 DEF MempoolFollows, Steady, PublishTipFails, session
<1>7. TipFollows'
  BY <1>0, <1>10 DEF TipFollows, About, PublishTipFails, session
<1>8. TipFresh'
  BY <1>0, <1>10 DEF TipFresh, PublishTipFails, session
<1>9. HistoryFollows'
  BY <1>0, <1>10 DEF HistoryFollows, About, Asking, Due, PublishTipFails, session
<1> QED BY <1>1, <1>2, <1>3, <1>4, <1>5, <1>6, <1>7, <1>8, <1>9 DEF IInv

LEMMA PollKeeps ==
  ASSUME IInv, Poll
  PROVE  IInv'
<1>0. /\ TypeOK /\ Orderly /\ Recorded /\ Announces /\ HeaderFollows /\ MempoolFollows
      /\ TipFollows /\ TipFresh /\ HistoryFollows
  BY DEF IInv
<1>1. TypeOK'
  <2>1. polls' \in 0..MaxPolls
    BY <1>0, TipsAssumption DEF TypeOK, TipsAssumption, Poll
  <2> QED BY <1>0, <2>1 DEF TypeOK, Poll, session
<1>2. Orderly'
  BY <1>0 DEF Orderly, Poll, session
<1>3. Recorded'
  BY <1>0 DEF Recorded, TypeOK, Poll, session
<1>4. Announces'
  BY <1>0 DEF Announces, Poll, session
<1>5. HeaderFollows'
  BY <1>0 DEF HeaderFollows, Poll, session
<1>6. MempoolFollows'
  BY <1>0 DEF MempoolFollows, Steady, Poll, session
<1>7. TipFollows'
  BY <1>0 DEF TipFollows, About, Poll, session
<1>8. TipFresh'
  BY <1>0 DEF TipFresh, Poll, session
<1>9. HistoryFollows'
  BY <1>0 DEF HistoryFollows, About, Asking, Due, Poll, session
<1> QED BY <1>1, <1>2, <1>3, <1>4, <1>5, <1>6, <1>7, <1>8, <1>9 DEF IInv

LEMMA PublishMempoolKeeps ==
  ASSUME IInv, PublishMempool
  PROVE  IInv'
<1>0. /\ TypeOK /\ Orderly /\ Recorded /\ Announces /\ HeaderFollows /\ MempoolFollows
      /\ TipFollows /\ TipFresh /\ HistoryFollows
  BY DEF IInv
<1>1. TypeOK'
  BY <1>0 DEF TypeOK, PublishMempool, session
<1>2. Orderly'
  BY <1>0 DEF Orderly, PublishMempool, session
<1>3. Recorded'
  BY <1>0 DEF Recorded, TypeOK, PublishMempool, session
<1>4. Announces'
  BY <1>0 DEF Announces, PublishMempool, session
<1>5. HeaderFollows'
  BY <1>0 DEF HeaderFollows, PublishMempool, session
<1>6. MempoolFollows'
  BY <1>0 DEF MempoolFollows, Steady, PublishMempool, session
<1>7. TipFollows'
  BY <1>0 DEF TipFollows, About, PublishMempool, session
<1>8. TipFresh'
  BY <1>0 DEF TipFresh, PublishMempool, session
<1>9. HistoryFollows'
  BY <1>0 DEF HistoryFollows, About, Asking, Due, PublishMempool, session
<1> QED BY <1>1, <1>2, <1>3, <1>4, <1>5, <1>6, <1>7, <1>8, <1>9 DEF IInv

LEMMA ConnectKeeps ==
  ASSUME IInv, Connect
  PROVE  IInv'
<1>0. /\ TypeOK /\ Orderly /\ Recorded /\ Announces /\ HeaderFollows /\ MempoolFollows
      /\ TipFollows /\ TipFresh /\ HistoryFollows
  BY DEF IInv
<1>1. TypeOK'
  BY <1>0 DEF TypeOK, Connect, tasks
<1>2. Orderly'
  BY <1>0 DEF Orderly, Connect, tasks
<1>3. Recorded'
  BY <1>0 DEF Recorded, TypeOK, Connect, tasks
<1>4. Announces'
  BY <1>0 DEF Announces, Connect, tasks
<1>5. HeaderFollows'
  BY <1>0 DEF HeaderFollows, Orderly, Connect, tasks
<1>6. MempoolFollows'
  BY <1>0 DEF MempoolFollows, Steady, Orderly, Connect, tasks
<1>7. TipFollows'
  BY <1>0 DEF TipFollows, About, Connect, tasks
<1>8. TipFresh'
  BY <1>0 DEF TipFresh, Recorded, Connect, tasks
<1>9. HistoryFollows'
  BY <1>0 DEF HistoryFollows, About, Asking, Due, Orderly, Connect, tasks
<1> QED BY <1>1, <1>2, <1>3, <1>4, <1>5, <1>6, <1>7, <1>8, <1>9 DEF IInv

LEMMA DisconnectKeeps ==
  ASSUME IInv, Disconnect
  PROVE  IInv'
<1>0. /\ TypeOK /\ Orderly /\ Recorded /\ Announces /\ HeaderFollows /\ MempoolFollows
      /\ TipFollows /\ TipFresh /\ HistoryFollows
  BY DEF IInv
<1>10. IsFiniteSet({}) /\ Cardinality({}) = 0 /\ MaxSubscriptions \in Nat
  BY FS_EmptySet, TipsAssumption DEF TipsAssumption
<1>1. TypeOK'
  <2>1. DOMAIN confirmed' = Scripts /\ DOMAIN status' = Scripts
    BY DEF Disconnect
  <2>2. scripthashes' = {} /\ Cardinality(scripthashes') <= MaxSubscriptions
    BY <1>10 DEF Disconnect
  <2>3. todo' = {}
    BY <1>0 DEF Orderly, Disconnect
  <2> QED BY <1>0, <2>1, <2>2, <2>3 DEF TypeOK, Disconnect, tasks
<1>2. Orderly'
  BY <1>0, <1>10 DEF Orderly, Disconnect, tasks
<1>3. Recorded'
  BY <1>0 DEF Recorded, TypeOK, Disconnect, tasks
<1>4. Announces'
  BY <1>0 DEF Announces, Disconnect, tasks
<1>5. HeaderFollows'
  BY <1>0 DEF HeaderFollows, Disconnect, tasks
<1>6. MempoolFollows'
  BY <1>0 DEF MempoolFollows, Steady, Disconnect, tasks
<1>7. TipFollows'
  BY <1>0 DEF TipFollows, About, Disconnect, tasks
<1>8. TipFresh'
  BY <1>0 DEF TipFresh, Recorded, Disconnect, tasks
<1>9. HistoryFollows'
  BY <1>0 DEF HistoryFollows, About, Asking, Due, Disconnect, tasks
<1> QED BY <1>1, <1>2, <1>3, <1>4, <1>5, <1>6, <1>7, <1>8, <1>9 DEF IInv

LEMMA SubscribeHeadersKeeps ==
  ASSUME IInv, SubscribeHeaders
  PROVE  IInv'
<1>0. /\ TypeOK /\ Orderly /\ Recorded /\ Announces /\ HeaderFollows /\ MempoolFollows
      /\ TipFollows /\ TipFresh /\ HistoryFollows
  BY DEF IInv
<1>1. TypeOK'
  BY <1>0 DEF TypeOK, SubscribeHeaders, tasks
<1>2. Orderly'
  BY <1>0 DEF Orderly, SubscribeHeaders, tasks
<1>3. Recorded'
  BY <1>0 DEF Recorded, TypeOK, SubscribeHeaders, tasks
<1>4. Announces'
  BY <1>0 DEF Announces, SubscribeHeaders, tasks
<1>5. HeaderFollows'
  BY <1>0 DEF HeaderFollows, SubscribeHeaders, tasks
<1>6. MempoolFollows'
  BY <1>0 DEF MempoolFollows, Steady, SubscribeHeaders, tasks
<1>7. TipFollows'
  BY <1>0 DEF TipFollows, About, SubscribeHeaders, tasks
<1>8. TipFresh'
  BY <1>0 DEF TipFresh, SubscribeHeaders, tasks
<1>9. HistoryFollows'
  BY <1>0 DEF HistoryFollows, About, Asking, Due, SubscribeHeaders, tasks
<1> QED BY <1>1, <1>2, <1>3, <1>4, <1>5, <1>6, <1>7, <1>8, <1>9 DEF IInv

LEMMA SubscribeScriptKeeps ==
  ASSUME IInv, NEW s \in Scripts, SubscribeScript(s)
  PROVE  IInv'
<1>0. /\ TypeOK /\ Orderly /\ Recorded /\ Announces /\ HeaderFollows /\ MempoolFollows
      /\ TipFollows /\ TipFresh /\ HistoryFollows
  BY DEF IInv
<1>10. /\ \A t \in Scripts \ {s} : confirmed'[t] = confirmed[t]
       /\ confirmed'[s] = ScriptHistory(tip, s) /\ DOMAIN confirmed' = Scripts
  BY <1>0 DEF TypeOK, SubscribeScript
<1>11. scripthashes \subseteq Scripts
  BY <1>0 DEF TypeOK
<1>1. TypeOK'
  BY <1>0, <1>10 DEF TypeOK, SubscribeScript, tasks
<1>2. Orderly'
  BY <1>0 DEF Orderly, SubscribeScript, tasks
<1>3. Recorded'
  BY <1>0 DEF Recorded, TypeOK, SubscribeScript, tasks
<1>4. Announces'
  BY <1>0 DEF Announces, SubscribeScript, tasks
<1>5. HeaderFollows'
  BY <1>0 DEF HeaderFollows, SubscribeScript, tasks
<1>6. MempoolFollows'
  BY <1>0, <1>10, <1>11 DEF MempoolFollows, Steady, SubscribeScript, tasks
<1>7. TipFollows'
  BY <1>0 DEF TipFollows, About, SubscribeScript, tasks
<1>8. TipFresh'
  BY <1>0 DEF TipFresh, SubscribeScript, tasks
<1>9. HistoryFollows'
  BY <1>0, <1>10, <1>11 DEF HistoryFollows, About, Asking, Due, SubscribeScript, tasks
<1> QED BY <1>1, <1>2, <1>3, <1>4, <1>5, <1>6, <1>7, <1>8, <1>9 DEF IInv

LEMMA SubscribeReplyKeeps ==
  ASSUME IInv, SubscribeReply
  PROVE  IInv'
<1>0. /\ TypeOK /\ Orderly /\ Recorded /\ Announces /\ HeaderFollows /\ MempoolFollows
      /\ TipFollows /\ TipFresh /\ HistoryFollows
  BY DEF IInv
<1>10. /\ \A t \in Scripts \ {script} : status'[t] = status[t]
       /\ status'[script] = ScriptStatus(script, confirmed[script], pool) /\ DOMAIN status' = Scripts
       /\ script \in Scripts /\ scripthashes \subseteq Scripts
  BY <1>0 DEF TypeOK, SubscribeReply
<1>11. IsFiniteSet(scripthashes') /\ Cardinality(scripthashes') <= MaxSubscriptions
  <2>1. scripthashes' = scripthashes \cup {script} /\ pc = "subscribe"
    BY DEF SubscribeReply
  <2>2. IsFiniteSet(scripthashes) /\ Cardinality(scripthashes) <= MaxSubscriptions
    BY <1>0 DEF TypeOK, Orderly
  <2>3. Cardinality(scripthashes) \in Nat /\ MaxSubscriptions \in Nat
    BY <2>2, FS_CardinalityType, TipsAssumption DEF TipsAssumption
  <2>4. CASE script \in scripthashes
    <3>1. scripthashes' = scripthashes
      BY <2>1, <2>4
    <3> QED BY <2>2, <3>1
  <2>5. CASE script \notin scripthashes
    <3>1. Cardinality(scripthashes) < MaxSubscriptions
      BY <1>0, <2>1, <2>5 DEF Orderly
    <3>2. IsFiniteSet(scripthashes') /\ Cardinality(scripthashes') = Cardinality(scripthashes) + 1
      BY <2>1, <2>2, <2>5, FS_AddElement
    <3> QED BY <2>3, <3>1, <3>2
  <2> QED BY <2>4, <2>5
<1>1. TypeOK'
  BY <1>0, <1>10, <1>11, AnyScriptTyped DEF TypeOK, Orderly, SubscribeReply, tasks
<1>2. Orderly'
  BY <1>0, <1>11 DEF Orderly, SubscribeReply, tasks
<1>3. Recorded'
  BY <1>0 DEF Recorded, TypeOK, SubscribeReply, tasks
<1>4. Announces'
  BY <1>0 DEF Announces, SubscribeReply, tasks
<1>5. HeaderFollows'
  BY <1>0 DEF HeaderFollows, SubscribeReply, tasks
<1>6. MempoolFollows'
  BY <1>0, <1>10 DEF MempoolFollows, Steady, SubscribeReply, tasks
<1>7. TipFollows'
  BY <1>0 DEF TipFollows, About, SubscribeReply, tasks
<1>8. TipFresh'
  BY <1>0 DEF TipFresh, SubscribeReply, tasks
<1>9. HistoryFollows'
  BY <1>0, <1>10 DEF HistoryFollows, About, Asking, Due, SubscribeReply, tasks
<1> QED BY <1>1, <1>2, <1>3, <1>4, <1>5, <1>6, <1>7, <1>8, <1>9 DEF IInv

LEMMA UnsubscribeKeeps ==
  ASSUME IInv, NEW s \in Scripts, Unsubscribe(s)
  PROVE  IInv'
<1>0. /\ TypeOK /\ Orderly /\ Recorded /\ Announces /\ HeaderFollows /\ MempoolFollows
      /\ TipFollows /\ TipFresh /\ HistoryFollows
  BY DEF IInv
<1>10. /\ \A t \in Scripts \ {s} : confirmed'[t] = confirmed[t] /\ status'[t] = status[t]
       /\ DOMAIN confirmed' = Scripts /\ DOMAIN status' = Scripts
       /\ scripthashes' = scripthashes \ {s} /\ scripthashes \subseteq Scripts
  BY <1>0 DEF TypeOK, Unsubscribe
<1>11. IsFiniteSet(scripthashes') /\ Cardinality(scripthashes') <= MaxSubscriptions
  <2>1. IsFiniteSet(scripthashes) /\ Cardinality(scripthashes) <= MaxSubscriptions
    BY <1>0 DEF TypeOK, Orderly
  <2>2. IsFiniteSet(scripthashes') /\ Cardinality(scripthashes') <= Cardinality(scripthashes)
    BY <1>10, <2>1, FS_Subset
  <2>3. /\ Cardinality(scripthashes) \in Nat /\ Cardinality(scripthashes') \in Nat
        /\ MaxSubscriptions \in Nat
    BY <2>1, <2>2, FS_CardinalityType, TipsAssumption DEF TipsAssumption
  <2> QED BY <2>1, <2>2, <2>3
<1>1. TypeOK'
  BY <1>0, <1>10, <1>11 DEF TypeOK, Orderly, Unsubscribe, tasks
<1>2. Orderly'
  BY <1>0, <1>11 DEF Orderly, Unsubscribe, tasks
<1>3. Recorded'
  BY <1>0 DEF Recorded, TypeOK, Unsubscribe, tasks
<1>4. Announces'
  BY <1>0 DEF Announces, Unsubscribe, tasks
<1>5. HeaderFollows'
  BY <1>0 DEF HeaderFollows, Unsubscribe, tasks
<1>6. MempoolFollows'
  BY <1>0, <1>10 DEF MempoolFollows, Steady, Unsubscribe, tasks
<1>7. TipFollows'
  BY <1>0 DEF TipFollows, About, Unsubscribe, tasks
<1>8. TipFresh'
  BY <1>0 DEF TipFresh, Unsubscribe, tasks
<1>9. HistoryFollows'
  BY <1>0, <1>10 DEF HistoryFollows, About, Asking, Due, Unsubscribe, tasks
<1> QED BY <1>1, <1>2, <1>3, <1>4, <1>5, <1>6, <1>7, <1>8, <1>9 DEF IInv

LEMMA ChangedKeeps ==
  ASSUME IInv, Changed
  PROVE  IInv'
<1>0. /\ TypeOK /\ Orderly /\ Recorded /\ Announces /\ HeaderFollows /\ MempoolFollows
      /\ TipFollows /\ TipFresh /\ HistoryFollows
  BY DEF IInv
<1>1. TypeOK'
  BY <1>0 DEF TypeOK, HeaderDue, Changed, tasks
<1>2. Orderly'
  BY <1>0 DEF Orderly, Changed, tasks
<1>3. Recorded'
  BY <1>0 DEF Recorded, TypeOK, Changed, tasks
<1>4. Announces'
  BY <1>0 DEF Announces, Changed, tasks
<1>5. HeaderFollows'
  BY <1>0 DEF HeaderFollows, HeaderDue, TypeOK, Changed, tasks
<1>6. MempoolFollows'
  BY <1>0 DEF MempoolFollows, Steady, Changed, tasks
<1>7. TipFollows'
  BY <1>0 DEF TipFollows, About, Changed, tasks
<1>8. TipFresh'
  BY <1>0 DEF TipFresh, Recorded, Changed, tasks
<1>9. HistoryFollows'
  BY <1>0 DEF HistoryFollows, About, Asking, Due, TypeOK, Changed, tasks
<1> QED BY <1>1, <1>2, <1>3, <1>4, <1>5, <1>6, <1>7, <1>8, <1>9 DEF IInv

LEMMA RefreshScriptKeeps ==
  ASSUME IInv, NEW s \in Scripts, RefreshScript(s)
  PROVE  IInv'
<1>0. /\ TypeOK /\ Orderly /\ Recorded /\ Announces /\ HeaderFollows /\ MempoolFollows
      /\ TipFollows /\ TipFresh /\ HistoryFollows
  BY DEF IInv
<1>10. /\ \A t \in Scripts \ {s} : confirmed'[t] = confirmed[t]
       /\ confirmed'[s] = ScriptHistory(tip, s) /\ DOMAIN confirmed' = Scripts
       /\ scripthashes \subseteq Scripts
  BY <1>0 DEF TypeOK, RefreshScript
<1>1. TypeOK'
  BY <1>0, <1>10 DEF TypeOK, RefreshScript, tasks
<1>2. Orderly'
  BY <1>0 DEF Orderly, RefreshScript, tasks
<1>3. Recorded'
  BY <1>0 DEF Recorded, TypeOK, RefreshScript, tasks
<1>4. Announces'
  BY <1>0 DEF Announces, RefreshScript, tasks
<1>5. HeaderFollows'
  BY <1>0 DEF HeaderFollows, RefreshScript, tasks
<1>6. MempoolFollows'
  BY <1>0, <1>10 DEF MempoolFollows, Steady, RefreshScript, tasks
<1>7. TipFollows'
  BY <1>0 DEF TipFollows, About, RefreshScript, tasks
<1>8. TipFresh'
  BY <1>0 DEF TipFresh, RefreshScript, tasks
<1>9. HistoryFollows'
  BY <1>0, <1>10 DEF HistoryFollows, About, Asking, Due, RefreshScript, tasks
<1> QED BY <1>1, <1>2, <1>3, <1>4, <1>5, <1>6, <1>7, <1>8, <1>9 DEF IInv

LEMMA RefreshScriptFailsKeeps ==
  ASSUME IInv, NEW s \in Scripts, RefreshScriptFails(s)
  PROVE  IInv'
<1>0. /\ TypeOK /\ Orderly /\ Recorded /\ Announces /\ HeaderFollows /\ MempoolFollows
      /\ TipFollows /\ TipFresh /\ HistoryFollows
  BY DEF IInv
<1>10. failures' # 0 /\ failures' \in 0..MaxFailures
  BY <1>0, TipsAssumption DEF TypeOK, TipsAssumption, RefreshScriptFails
<1>1. TypeOK'
  BY <1>0, <1>10 DEF TypeOK, RefreshScriptFails, tasks
<1>2. Orderly'
  BY <1>0 DEF Orderly, RefreshScriptFails, tasks
<1>3. Recorded'
  BY <1>0 DEF Recorded, TypeOK, RefreshScriptFails, tasks
<1>4. Announces'
  BY <1>0, <1>10 DEF Announces, RefreshScriptFails, tasks
<1>5. HeaderFollows'
  BY <1>0, <1>10 DEF HeaderFollows, RefreshScriptFails, tasks
<1>6. MempoolFollows'
  BY <1>0, <1>10 DEF MempoolFollows, Steady, RefreshScriptFails, tasks
<1>7. TipFollows'
  BY <1>0 DEF TipFollows, About, RefreshScriptFails, tasks
<1>8. TipFresh'
  BY <1>0, <1>10 DEF TipFresh, RefreshScriptFails, tasks
<1>9. HistoryFollows'
  BY <1>0, <1>10 DEF HistoryFollows, About, Asking, Due, RefreshScriptFails, tasks
<1> QED BY <1>1, <1>2, <1>3, <1>4, <1>5, <1>6, <1>7, <1>8, <1>9 DEF IInv

LEMMA CheckScriptKeeps ==
  ASSUME IInv, CheckScript
  PROVE  IInv'
<1>0. /\ TypeOK /\ Orderly /\ Recorded /\ Announces /\ HeaderFollows /\ MempoolFollows
      /\ TipFollows /\ TipFresh /\ HistoryFollows
  BY DEF IInv
<1>10. /\ \A t \in Scripts \ {script} : status'[t] = status[t]
       /\ status'[script] = ScriptStatus(script, confirmed[script], pool) /\ DOMAIN status' = Scripts
       /\ script \in Scripts /\ scripthashes \subseteq Scripts
  BY <1>0 DEF TypeOK, CheckScript
<1>1. TypeOK'
  BY <1>0, <1>10, AnyScriptTyped DEF TypeOK, CheckScript, tasks
<1>2. Orderly'
  BY <1>0 DEF Orderly, CheckScript, tasks
<1>3. Recorded'
  BY <1>0 DEF Recorded, TypeOK, CheckScript, tasks
<1>4. Announces'
  BY <1>0 DEF Announces, CheckScript, tasks
<1>5. HeaderFollows'
  BY <1>0 DEF HeaderFollows, CheckScript, tasks
<1>6. MempoolFollows'
  BY <1>0, <1>10 DEF MempoolFollows, Steady, CheckScript, tasks
<1>7. TipFollows'
  BY <1>0 DEF TipFollows, About, CheckScript, tasks
<1>8. TipFresh'
  BY <1>0 DEF TipFresh, CheckScript, tasks
<1>9. HistoryFollows'
  BY <1>0 DEF HistoryFollows, About, Asking, Due, CheckScript, tasks
<1> QED BY <1>1, <1>2, <1>3, <1>4, <1>5, <1>6, <1>7, <1>8, <1>9 DEF IInv

LEMMA CheckMempoolKeeps ==
  ASSUME IInv, NEW s \in Scripts, CheckMempool(s)
  PROVE  IInv'
<1>0. /\ TypeOK /\ Orderly /\ Recorded /\ Announces /\ HeaderFollows /\ MempoolFollows
      /\ TipFollows /\ TipFresh /\ HistoryFollows
  BY DEF IInv
<1>10. /\ \A t \in Scripts \ {s} : status'[t] = status[t]
       /\ status'[s] = ScriptStatus(s, confirmed[s], pool) /\ DOMAIN status' = Scripts
       /\ scripthashes \subseteq Scripts
  BY <1>0 DEF TypeOK, CheckMempool
<1>1. TypeOK'
  BY <1>0, <1>10 DEF TypeOK, CheckMempool, tasks
<1>2. Orderly'
  BY <1>0 DEF Orderly, CheckMempool, tasks
<1>3. Recorded'
  BY <1>0 DEF Recorded, TypeOK, CheckMempool, tasks
<1>4. Announces'
  BY <1>0 DEF Announces, CheckMempool, tasks
<1>5. HeaderFollows'
  BY <1>0 DEF HeaderFollows, CheckMempool, tasks
<1>6. MempoolFollows'
  BY <1>0, <1>10 DEF MempoolFollows, Steady, CheckMempool, tasks
<1>7. TipFollows'
  BY <1>0 DEF TipFollows, About, CheckMempool, tasks
<1>8. TipFresh'
  BY <1>0 DEF TipFresh, CheckMempool, tasks
<1>9. HistoryFollows'
  BY <1>0 DEF HistoryFollows, About, Asking, Due, CheckMempool, tasks
<1> QED BY <1>1, <1>2, <1>3, <1>4, <1>5, <1>6, <1>7, <1>8, <1>9 DEF IInv

LEMMA EndNotifyKeeps ==
  ASSUME IInv, EndNotify
  PROVE  IInv'
<1>0. /\ TypeOK /\ Orderly /\ Recorded /\ Announces /\ HeaderFollows /\ MempoolFollows
      /\ TipFollows /\ TipFresh /\ HistoryFollows
  BY DEF IInv
<1>1. TypeOK'
  BY <1>0 DEF TypeOK, EndNotify, tasks
<1>2. Orderly'
  BY <1>0 DEF Orderly, EndNotify, tasks
<1>3. Recorded'
  BY <1>0 DEF Recorded, TypeOK, EndNotify, tasks
<1>4. Announces'
  BY <1>0 DEF Announces, EndNotify, tasks
<1>5. HeaderFollows'
  BY <1>0 DEF HeaderFollows, EndNotify, tasks
<1>6. MempoolFollows'
  BY <1>0 DEF MempoolFollows, Steady, EndNotify, tasks
<1>7. TipFollows'
  BY <1>0 DEF TipFollows, About, EndNotify, tasks
<1>8. TipFresh'
  BY <1>0 DEF TipFresh, Recorded, EndNotify, tasks
<1>9. HistoryFollows'
  BY <1>0 DEF HistoryFollows, About, Asking, Due, EndNotify, tasks
<1> QED BY <1>1, <1>2, <1>3, <1>4, <1>5, <1>6, <1>7, <1>8, <1>9 DEF IInv

LEMMA NextInv == IInv /\ [Next]_vars => IInv'
<1> SUFFICES ASSUME IInv, [Next]_vars PROVE IInv'
  OBVIOUS
<1>1. CASE TaskStep
  BY <1>1, RefreshNothingNewKeeps, PublishTipKeeps, PublishMempoolKeeps DEF TaskStep
<1>2. CASE SessionStep
  BY <1>2, SubscribeReplyKeeps, ChangedKeeps, CheckScriptKeeps, EndNotifyKeeps,
     RefreshScriptKeeps, CheckMempoolKeeps DEF SessionStep
<1>3. CASE Refresh \/ PublishTipFails \/ Poll
  BY <1>3, RefreshKeeps, PublishTipFailsKeeps, PollKeeps
<1>4. CASE Connect \/ Disconnect \/ SubscribeHeaders
  BY <1>4, ConnectKeeps, DisconnectKeeps, SubscribeHeadersKeeps
<1>5. CASE \E s \in Scripts : SubscribeScript(s) \/ Unsubscribe(s) \/ RefreshScriptFails(s)
  BY <1>5, SubscribeScriptKeeps, UnsubscribeKeeps, RefreshScriptFailsKeeps
<1>6. CASE UNCHANGED vars
  BY <1>6 DEF vars, tasks, session, IInv, TypeOK, Orderly, Recorded, Announces, HeaderFollows,
     MempoolFollows, Steady, TipFollows, TipFresh, HistoryFollows, About, Asking, Due
<1> QED BY <1>1, <1>2, <1>3, <1>4, <1>5, <1>6 DEF Next

LEMMA InvAlways == Spec => []IInv
BY InitInv, NextInv, PTL DEF Spec

\* A settled session that subscribed to headers was last sent the current tip,
\* once it was announced (server.rs notifications, publish_tip).
THEOREM HeadersStayCurrent == Spec => []HeaderCurrent
<1>1. IInv => HeaderCurrent
  BY DEF IInv, HeaderFollows, HeaderCurrent, Settled
<1> QED BY <1>1, InvAlways, PTL

\* A settled session was last sent the status its copies of the confirmed
\* histories have with the current mempool (server.rs notifications).
THEOREM MempoolStaysCurrent == Spec => []MempoolCurrent
<1>1. IInv => MempoolCurrent
  BY DEF IInv, MempoolFollows, Steady, Orderly, MempoolCurrent, Settled
<1> QED BY <1>1, InvAlways, PTL

\* A settled session was last sent every subscribed script's status in the
\* current chain and mempool, as long as no lookup failed and no tip came back
\* (server.rs notifications, scripthash_subscribe).
THEOREM StatusStaysCurrent == Spec => []StatusCurrent
<1>1. IInv => StatusCurrent
  <2> SUFFICES ASSUME IInv, Settled, announced = tip, poller = "idle", failures = 0,
                      ~rolled_back, NEW s \in scripthashes
               PROVE  status[s] = ScriptStatus(s, ScriptHistory(tip, s), pool)
    BY DEF StatusCurrent
  <2>1. pc = "idle" /\ ~pending /\ todo = {}
    BY DEF Settled, IInv, Orderly
  <2>2. About = tip
    BY <2>1 DEF IInv, TipFollows
  <2>3. confirmed[s] = ScriptHistory(tip, s)
    BY <2>1, <2>2 DEF IInv, HistoryFollows, Due
  <2>4. status[s] = ScriptStatus(s, confirmed[s], pool)
    BY <2>1 DEF IInv, MempoolFollows, Steady
  <2> QED BY <2>3, <2>4
<1> QED BY <1>1, InvAlways, PTL
=============================================================================
