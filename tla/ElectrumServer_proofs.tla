----------------------- MODULE ElectrumServer_proofs -----------------------
(***************************************************************************)
(* Proofs about the Electrum sessions, the submissions of transactions and *)
(* the monitor, for any number of sessions, REST requests, lines and       *)
(* payloads, and any clock.                                                *)
(***************************************************************************)
EXTENDS ElectrumServer, TLAPS, FiniteSetTheorems, WellFoundedInduction

-----------------------------------------------------------------------------
(* Protocol versions: Below is a strict weak order on sequences of numbers *)

LEMMA LeastNumber ==
  ASSUME NEW T, T \subseteq Nat, T # {}
  PROVE  \E x \in T : \A y \in T : x <= y
<1>1. PICK x \in T : \A y \in T : ~(<<y, x>> \in OpToRel(<, Nat))
  BY WFMin, NatLessThanWellFounded
<1>2. \A y \in T : ~(y < x)
  BY <1>1 DEF OpToRel
<1> QED BY <1>2

\* v and w first differ at i, where v has the smaller component.
Differs(v, w, i) ==
  /\ Component(v, i) < Component(w, i)
  /\ \A k \in 1..i - 1 : Component(v, k) = Component(w, k)

LEMMA Components ==
  ASSUME NEW v \in Seq(Nat), NEW i \in Nat \ {0}
  PROVE  Component(v, i) \in Nat /\ (Component(v, i) > 0 => i <= Len(v))
BY DEF Component

LEMMA BelowIsDiffers ==
  ASSUME NEW v \in Seq(Nat), NEW w \in Seq(Nat)
  PROVE  Below(v, w) <=> \E i \in Nat \ {0} : Differs(v, w, i)
<1>1. ASSUME NEW i \in Nat \ {0}, Differs(v, w, i)
      PROVE  i \in 1..(Len(v) + Len(w))
  <2>1. i <= Len(w)
    BY <1>1, Components DEF Differs
  <2> QED BY <2>1
<1>2. \A i \in 1..(Len(v) + Len(w)) : i \in Nat \ {0}
  OBVIOUS
<1> QED BY <1>1, <1>2 DEF Below, Differs

LEMMA BelowAsymmetric ==
  ASSUME NEW v \in Seq(Nat), NEW w \in Seq(Nat), Below(v, w)
  PROVE  ~Below(w, v)
<1> SUFFICES ASSUME Below(w, v) PROVE FALSE
  OBVIOUS
<1>1. PICK i \in Nat \ {0} : Differs(v, w, i)
  BY BelowIsDiffers
<1>2. PICK j \in Nat \ {0} : Differs(w, v, j)
  BY BelowIsDiffers
<1>3. /\ Component(v, i) \in Nat /\ Component(w, i) \in Nat
      /\ Component(v, j) \in Nat /\ Component(w, j) \in Nat
  BY Components
<1>4. i < j \/ i = j \/ j < i
  OBVIOUS
<1> QED BY <1>1, <1>2, <1>3, <1>4 DEF Differs

LEMMA BelowTransitive ==
  ASSUME NEW u \in Seq(Nat), NEW v \in Seq(Nat), NEW w \in Seq(Nat),
         Below(u, v), Below(v, w)
  PROVE  Below(u, w)
<1>1. PICK i \in Nat \ {0} : Differs(u, v, i)
  BY BelowIsDiffers
<1>2. PICK j \in Nat \ {0} : Differs(v, w, j)
  BY BelowIsDiffers
<1>3. \A k \in Nat \ {0} :
        Component(u, k) \in Nat /\ Component(v, k) \in Nat /\ Component(w, k) \in Nat
  BY Components
<1>4. CASE i <= j
  <2>1. Component(u, i) < Component(w, i)
    <3>1. Component(u, i) < Component(v, i) /\ i \in 1..j
      BY <1>1, <1>4 DEF Differs
    <3>2. Component(v, i) <= Component(w, i)
      <4>1. CASE i = j
        BY <1>2, <1>3, <4>1 DEF Differs
      <4>2. CASE i \in 1..j - 1
        BY <1>2, <1>3, <4>2 DEF Differs
      <4> QED BY <3>1, <4>1, <4>2
    <3> QED BY <1>3, <3>1, <3>2
  <2>2. \A k \in 1..i - 1 : Component(u, k) = Component(w, k)
    BY <1>1, <1>2, <1>4 DEF Differs
  <2> QED BY <2>1, <2>2, BelowIsDiffers DEF Differs
<1>5. CASE j < i
  <2>1. Component(u, j) < Component(w, j)
    BY <1>1, <1>2, <1>3, <1>5 DEF Differs
  <2>2. \A k \in 1..j - 1 : Component(u, k) = Component(w, k)
    BY <1>1, <1>2, <1>5 DEF Differs
  <2> QED BY <2>1, <2>2, BelowIsDiffers DEF Differs
<1> QED BY <1>4, <1>5

\* Whatever lies between two versions is above the one or below the other.
LEMMA BelowWeak ==
  ASSUME NEW u \in Seq(Nat), NEW v \in Seq(Nat), NEW w \in Seq(Nat), Below(u, w)
  PROVE  Below(u, v) \/ Below(v, w)
<1>1. PICK i \in Nat \ {0} : Differs(u, w, i)
  BY BelowIsDiffers
<1>2. \A k \in Nat \ {0} :
        Component(u, k) \in Nat /\ Component(v, k) \in Nat /\ Component(w, k) \in Nat
  BY Components
<1> DEFINE T == {k \in 1..i - 1 : Component(v, k) # Component(u, k)}
<1>3. CASE T = {}
  <2>1. \A k \in 1..i - 1 : Component(v, k) = Component(u, k)
    BY <1>3
  <2>2. Component(u, i) < Component(v, i) \/ Component(v, i) < Component(w, i)
    BY <1>1, <1>2 DEF Differs
  <2>3. Differs(u, v, i) \/ Differs(v, w, i)
    BY <1>1, <2>1, <2>2 DEF Differs
  <2> QED BY <2>3, BelowIsDiffers
<1>4. CASE T # {}
  <2>0. T \subseteq Nat
    OBVIOUS
  <2>1. PICK k \in T : \A m \in T : k <= m
    <3> HIDE DEF T
    <3> QED BY <1>4, <2>0, LeastNumber
  <2>2. k \in Nat \ {0} /\ k < i /\ Component(u, k) = Component(w, k)
    BY <1>1, <2>1 DEF Differs
  <2>3. \A m \in 1..k - 1 : Component(v, m) = Component(u, m)
    BY <2>1, <2>2
  <2>4. \A m \in 1..k - 1 : Component(u, m) = Component(w, m)
    BY <1>1, <2>2 DEF Differs
  <2>5. Component(u, k) < Component(v, k) \/ Component(v, k) < Component(w, k)
    BY <1>2, <2>1, <2>2
  <2>6. Differs(u, v, k) \/ Differs(v, w, k)
    BY <2>3, <2>4, <2>5 DEF Differs
  <2> QED BY <2>2, <2>6, BelowIsDiffers
<1> QED BY <1>3, <1>4

\* What FromStr drops is not looked at.
LEMMA ParseKeeps ==
  ASSUME NEW v \in Seq(Nat), Parse(v) # None
  PROVE  /\ Parse(v) \in Seq(Nat)
         /\ \A i \in Nat \ {0} : Component(Parse(v), i) = Component(v, i)
<1> DEFINE S == Significant(v)
           n == CHOOSE m \in S : \A k \in S : m <= k
<1>1. Len(v) \in S /\ S \subseteq Nat
  BY DEF Parse, Significant
<1>2. n \in S
  BY <1>1, LeastNumber
<1>3. n \in 2..Len(v) /\ \A k \in n + 1..Len(v) : v[k] = 0
  BY <1>2 DEF Significant
<1>4. Parse(v) = SubSeq(v, 1, n)
  BY DEF Parse
<1> HIDE DEF n
<1>5. Parse(v) \in Seq(Nat) /\ Len(Parse(v)) = n
  BY <1>3, <1>4
<1>6. ASSUME NEW i \in Nat \ {0}
      PROVE  Component(Parse(v), i) = Component(v, i)
  <2>1. CASE i <= n
    <3>1. Parse(v)[i] = v[i]
      BY <1>3, <1>4, <2>1
    <3> QED BY <1>3, <1>5, <2>1, <3>1 DEF Component
  <2>2. CASE i > n /\ i <= Len(v)
    BY <1>3, <1>5, <2>2 DEF Component
  <2>3. CASE i > Len(v)
    BY <1>3, <1>5, <2>3 DEF Component
  <2> QED BY <1>3, <2>1, <2>2, <2>3
<1> QED BY <1>5, <1>6

LEMMA ParseCompares ==
  ASSUME NEW v \in Seq(Nat), NEW w \in Seq(Nat), Parse(v) # None
  PROVE  /\ Below(Parse(v), w) <=> Below(v, w)
         /\ Below(w, Parse(v)) <=> Below(w, v)
<1>1. \A i \in Nat \ {0} : Component(Parse(v), i) = Component(v, i)
  BY ParseKeeps
<1>2. Parse(v) \in Seq(Nat)
  BY ParseKeeps
<1>3. \A i \in Nat \ {0} : /\ Differs(Parse(v), w, i) <=> Differs(v, w, i)
                           /\ Differs(w, Parse(v), i) <=> Differs(w, v, i)
  BY <1>1 DEF Differs
<1> QED BY <1>2, <1>3, BelowIsDiffers

\* A version is within what the server speaks and an offer asks for.
Agreed(v, offer) ==
  /\ ~Below(v, ProtocolMin) /\ ~Below(ProtocolMax, v)
  /\ offer.form \in {"one", "range"} => ~Below(offer.max, v)
  /\ offer.form = "range" => ~Below(v, offer.min)

LEMMA NegotiateAgrees ==
  ASSUME NEW min \in Seq(Nat) \cup {None}, NEW max \in Seq(Nat) \cup {None},
         Negotiate(min, max) # None
  PROVE  LET v == Negotiate(min, max)
         IN  /\ v \in Seq(Nat)
             /\ ~Below(v, ProtocolMin) /\ ~Below(ProtocolMax, v)
             /\ max # None => ~Below(max, v)
             /\ min # None => ~Below(v, min)
<1> DEFINE lo == IF min = None \/ Below(min, ProtocolMin) THEN ProtocolMin ELSE min
           hi == IF max = None \/ Below(ProtocolMax, max) THEN ProtocolMax ELSE max
<1>1. Negotiate(min, max) = hi /\ ~Below(hi, lo)
  BY DEF Negotiate
<1>2. /\ ProtocolMin \in Seq(Nat) /\ ProtocolMax \in Seq(Nat) /\ None \notin Seq(Nat)
      /\ lo \in Seq(Nat) /\ hi \in Seq(Nat)
  BY ProtocolAssumption DEF ProtocolAssumption
<1>3. lo = ProtocolMin \/ (min \in Seq(Nat) /\ lo = min /\ ~Below(min, ProtocolMin))
  OBVIOUS
<1>4. hi = ProtocolMax \/ (max \in Seq(Nat) /\ hi = max /\ ~Below(ProtocolMax, max))
  OBVIOUS
<1>5. min # None => lo = min \/ (Below(min, ProtocolMin) /\ lo = ProtocolMin)
  OBVIOUS
<1>6. max # None => hi = max \/ (Below(ProtocolMax, max) /\ hi = ProtocolMax)
  OBVIOUS
<1> HIDE DEF lo, hi
<1>7. ~Below(hi, ProtocolMin)
  BY <1>1, <1>2, <1>3, BelowWeak
<1>8. ~Below(ProtocolMax, hi)
  BY <1>2, <1>4, BelowAsymmetric
<1>9. max # None => ~Below(max, hi)
  BY <1>2, <1>6, BelowAsymmetric
<1>10. min # None => ~Below(hi, min)
  BY <1>1, <1>2, <1>5, BelowTransitive
<1> QED BY <1>1, <1>2, <1>7, <1>8, <1>9, <1>10

LEMMA WantedAgrees ==
  ASSUME NEW offer \in Offer, Wanted(offer) # None
  PROVE  Wanted(offer) \in Seq(Nat) /\ Agreed(Wanted(offer), offer)
<1> DEFINE min == IF offer.form = "range" THEN Parse(offer.min) ELSE None
           max == IF offer.form \in {"range", "one"} THEN Parse(offer.max) ELSE None
<1>1. /\ Wanted(offer) = Negotiate(min, max)
      /\ offer.form = "range" => min # None /\ max # None
      /\ offer.form = "one" => max # None
  BY DEF Wanted
<1>2. offer.min \in Seq(Nat) /\ offer.max \in Seq(Nat)
  BY DEF Offer
<1>3. min \in Seq(Nat) \cup {None} /\ max \in Seq(Nat) \cup {None}
  BY <1>2, ParseKeeps
<1>4. offer.form \in {"one", "range"} => max = Parse(offer.max) /\ max # None
  BY <1>1
<1>5. offer.form = "range" => min = Parse(offer.min) /\ min # None
  BY <1>1
<1> HIDE DEF min, max
<1> DEFINE v == Negotiate(min, max)
<1>6. /\ v \in Seq(Nat)
      /\ ~Below(v, ProtocolMin) /\ ~Below(ProtocolMax, v)
      /\ max # None => ~Below(max, v)
      /\ min # None => ~Below(v, min)
  BY <1>1, <1>3, NegotiateAgrees
<1> HIDE DEF v
<1>7. offer.form \in {"one", "range"} => ~Below(offer.max, v)
  BY <1>2, <1>4, <1>6, ParseCompares
<1>8. offer.form = "range" => ~Below(v, offer.min)
  BY <1>2, <1>5, <1>6, ParseCompares
<1> QED BY <1>1, <1>6, <1>7, <1>8 DEF Agreed, v
-----------------------------------------------------------------------------
(* Submissions *)

Routes == {"electrum", "tx", "txs_package", "txs_test"}

\* The credentials handed out so far.
Issued(n) == {"pid"} \X Clock \X (0..n - 1)

PushType ==
  [at : TorStages \cup {"idle", "rpc", "done"}, payload : Payloads \cup {None},
   cred : ({"pid"} \X Clock \X Nat) \cup {None}, route : Routes \cup {None},
   ok : BOOLEAN, success : BOOLEAN]

BroadcastTyped ==
  /\ via \in {"tor", "bitcoind"}
  /\ push \in [Callers -> PushType]
  /\ seq \in Nat
  /\ posted \in Seq([cred : ({"pid"} \X Clock \X Nat) \cup {None},
                     payload : Payloads \cup {None}])

\* The credentials of a push that is about to POST, and of those that did, were
\* handed out, each to one push.
CredsFresh ==
  /\ \A c \in Callers : push[c].at = "post" => push[c].cred \in Issued(seq)
  /\ \A i \in DOMAIN posted : posted[i].cred \in Issued(seq)
  /\ \A c, d \in Callers :
       push[c].at = "post" /\ push[d].at = "post" /\ push[c].cred = push[d].cred => c = d
  /\ \A c \in Callers : push[c].at = "post" =>
       \A i \in DOMAIN posted : posted[i].cred # push[c].cred
  /\ \A i, j \in DOMAIN posted : posted[i].cred = posted[j].cred => i = j

NodeUnused ==
  via = "tor" => node = {} /\ \A c \in Callers : push[c].at # "rpc"

BroadcastInv ==
  BroadcastTyped /\ CredsFresh /\ NodeUnused /\ SuccessIsAccepted

\* The push of c becomes new, nothing is POSTed and no credentials are made.
Becomes(c, new) ==
  /\ push' = [push EXCEPT ![c] = new]
  /\ accepted \subseteq accepted'
  /\ via = "tor" => node' = node
  /\ UNCHANGED <<via, seq, posted>>

\* The general case: the push that changes is not about to POST, nor goes to
\* the node against the configuration, nor claims a success that was none.
LEMMA BecomesKeeps ==
  ASSUME BroadcastInv, NEW c \in Callers, NEW new \in PushType, Becomes(c, new),
         new.at # "post",
         via = "tor" => new.at # "rpc",
         new.at = "done" /\ SaysTaken(new.payload, new.ok, new.success)
           /\ new.route # "txs_test" => new.payload \in accepted'
  PROVE  BroadcastInv'
<1> USE DEF Becomes
<1>0. BroadcastTyped /\ CredsFresh /\ NodeUnused /\ SuccessIsAccepted
  BY DEF BroadcastInv
<1>1. push \in [Callers -> PushType] /\ push' = [push EXCEPT ![c] = new]
  BY <1>0 DEF BroadcastTyped
<1>2. \A d \in Callers : push'[d] = IF d = c THEN new ELSE push[d]
  BY <1>1
<1>3. BroadcastTyped'
  BY <1>0, <1>1 DEF BroadcastTyped
<1>4. CredsFresh'
  BY <1>0, <1>2 DEF CredsFresh
<1>5. NodeUnused'
  BY <1>0, <1>2 DEF NodeUnused
<1>6. SuccessIsAccepted'
  BY <1>0, <1>2 DEF SuccessIsAccepted
<1> QED BY <1>3, <1>4, <1>5, <1>6 DEF BroadcastInv

\* A submission that has just begun.
Begun(new, payload, route) ==
  /\ new \in PushType
  /\ new.at \in {"greeting", "rpc", "done"} /\ (via = "tor" => new.at # "rpc")
  /\ new.payload = payload /\ new.route = route /\ ~new.ok

LEMMA BegunKeeps ==
  ASSUME BroadcastInv, NEW c \in Callers, NEW payload, NEW route, NEW new,
         Begun(new, payload, route), Becomes(c, new)
  PROVE  BroadcastInv'
BY BecomesKeeps DEF Begun, SaysTaken

LEMMA Starts ==
  ASSUME NEW payload \in Payloads \cup {None}, NEW route \in Routes
  PROVE  /\ Begun(Pushing(payload, route), payload, route)
         /\ Begun(Refusing(payload, route), payload, route)
         /\ via # "tor" => Begun(Calling(payload, route), payload, route)
BY DEF Begun, Pushing, Refusing, Calling, NoPush, PushType, TorStages

LEMMA SubmissionsStart ==
  ASSUME via \in {"tor", "bitcoind"}, NEW payload \in Payloads
  PROVE  /\ \A route \in Routes : Begun(Submit(payload, route), payload, route)
         /\ Begun(TxsTest(payload), payload, "txs_test")
         /\ Begun(TxsPackage(payload), payload, "txs_package")
<1>1. \A route \in Routes : Begun(Submit(payload, route), payload, route)
  BY Starts DEF Submit
<1>2. "txs_test" \in Routes /\ "txs_package" \in Routes
  BY DEF Routes
<1>3. Begun(TxsTest(payload), payload, "txs_test")
  BY <1>2, Starts DEF TxsTest
<1>4. Begun(TxsPackage(payload), payload, "txs_package")
  BY <1>1, <1>2, Starts DEF TxsPackage
<1> QED BY <1>1, <1>3, <1>4

LEMMA RestKeeps ==
  ASSUME BroadcastInv, NEW c \in Callers, RestStep(c)
  PROVE  BroadcastInv'
<1>0. via \in {"tor", "bitcoind"}
  BY DEF BroadcastInv, BroadcastTyped
<1>1. CASE RestBegin(c)
  <2>1. PICK payload \in Payloads :
          Becomes(c, IF payload.package THEN TxsPackage(payload) ELSE Submit(payload, "tx"))
    BY <1>1 DEF RestBegin, Becomes
  <2>2. "tx" \in Routes
    BY DEF Routes
  <2>3. CASE payload.package
    BY <1>0, <2>1, <2>3, SubmissionsStart, BegunKeeps
  <2>4. CASE ~payload.package
    BY <1>0, <2>1, <2>2, <2>4, SubmissionsStart, BegunKeeps
  <2> QED BY <2>3, <2>4
<1>2. CASE RestTest(c)
  <2>1. PICK payload \in Payloads : Becomes(c, TxsTest(payload))
    BY <1>2 DEF RestTest, Becomes
  <2> QED BY <1>0, <2>1, SubmissionsStart, BegunKeeps
<1>3. CASE RestEnd(c)
  <2>1. Becomes(c, NoPush)
    BY <1>3 DEF RestEnd, Becomes
  <2>2. NoPush \in PushType /\ NoPush.at = "idle"
    BY DEF NoPush, PushType
  <2> QED BY <2>1, <2>2, BecomesKeeps
<1> QED BY <1>1, <1>2, <1>3 DEF RestStep

\* How a push ends.
LEMMA EndsKeeps ==
  ASSUME BroadcastInv, NEW c \in Callers, NEW ok \in BOOLEAN, NEW success \in BOOLEAN,
         Ends(c, ok, success),
         accepted \subseteq accepted', via = "tor" => node' = node,
         UNCHANGED <<via, seq, posted>>,
         SaysTaken(push[c].payload, ok, success) /\ push[c].route # "txs_test" =>
           push[c].payload \in accepted'
  PROVE  BroadcastInv'
<1> DEFINE new == [push[c] EXCEPT !.at = "done", !.ok = ok, !.success = success]
<1>1. push \in [Callers -> PushType]
  BY DEF BroadcastInv, BroadcastTyped
<1>2. push' = [push EXCEPT ![c] = new]
  BY <1>1 DEF Ends
<1>3. /\ new \in PushType /\ new.at = "done" /\ new.ok = ok /\ new.success = success
      /\ new.route = push[c].route /\ new.payload = push[c].payload
  BY <1>1 DEF PushType
<1>4. Becomes(c, new)
  BY <1>2 DEF Becomes
<1> HIDE DEF new
<1> QED BY <1>3, <1>4, BecomesKeeps

LEMMA PushKeeps ==
  ASSUME BroadcastInv, NEW c \in Callers, PushStep(c)
  PROVE  BroadcastInv'
<1>0. BroadcastTyped /\ CredsFresh /\ NodeUnused /\ SuccessIsAccepted
  BY DEF BroadcastInv
<1>1. push \in [Callers -> PushType] /\ push[c] \in PushType
  BY <1>0 DEF BroadcastTyped
<1>2. CASE Rpc(c)
  <2>1. via # "tor" /\ UNCHANGED <<via, seq, posted>>
    BY <1>0, <1>2 DEF Rpc, NodeUnused
  <2>2. accepted \subseteq accepted'
    BY <1>2 DEF Rpc
  <2>3. CASE Breaks(c)
    BY <2>1, <2>2, <2>3, EndsKeeps DEF Breaks, SaysTaken
  <2>4. CASE push[c].payload.package /\ Ends(c, TRUE, FALSE)
    BY <2>1, <2>2, <2>4, EndsKeeps DEF SaysTaken
  <2>5. CASE /\ Ends(c, TRUE, TRUE)
             /\ push[c].route # "txs_test" => push[c].payload \in accepted'
    BY <2>1, <2>2, <2>5, EndsKeeps
  <2> QED BY <1>2, <2>3, <2>4, <2>5 DEF Rpc
<1>3. CASE PushFails(c) \/ PushTimeout(c)
  BY <1>3, EndsKeeps DEF PushFails, PushTimeout, Breaks, SaysTaken
<1>4. CASE Handshake(c)
  <2>1. PICK now \in Clock :
          push' = [push EXCEPT ![c].at = "post", ![c].cred = Credentials(now)]
    BY <1>4 DEF Handshake
  <2>2. seq' = seq + 1 /\ UNCHANGED <<via, node, posted, accepted>> /\ seq \in Nat
    BY <1>0, <1>4 DEF Handshake, BroadcastTyped
  <2> DEFINE new == [push[c] EXCEPT !.at = "post", !.cred = Credentials(now)]
  <2>3. push' = [push EXCEPT ![c] = new]
    BY <1>1, <2>1
  <2>4. Credentials(now) \in Issued(seq') /\ Credentials(now) \notin Issued(seq)
    BY <2>2 DEF Credentials, Issued
  <2>5. Issued(seq) \subseteq Issued(seq') /\ Issued(seq') \subseteq {"pid"} \X Clock \X Nat
    BY <2>2 DEF Issued
  <2>6. new \in PushType /\ new.at = "post" /\ new.cred = Credentials(now)
    BY <1>1, <2>4, <2>5 DEF PushType, TorStages
  <2> HIDE DEF new
  <2>7. \A d \in Callers : push'[d] = IF d = c THEN new ELSE push[d]
    BY <1>1, <2>3
  <2>8. BroadcastTyped'
    BY <1>0, <1>1, <2>2, <2>3, <2>6 DEF BroadcastTyped
  <2>9. CredsFresh'
    BY <1>0, <2>2, <2>4, <2>5, <2>6, <2>7 DEF CredsFresh
  <2>10. NodeUnused'
    BY <1>0, <2>2, <2>6, <2>7 DEF NodeUnused
  <2>11. SuccessIsAccepted'
    BY <1>0, <2>2, <2>6, <2>7 DEF SuccessIsAccepted
  <2> QED BY <2>8, <2>9, <2>10, <2>11 DEF BroadcastInv
<1>5. CASE Post(c)
  <2> DEFINE new == [push[c] EXCEPT !.at = "reply"]
             sent == [cred |-> push[c].cred, payload |-> push[c].payload]
  <2>1. /\ push[c].at = "post" /\ push' = [push EXCEPT ![c] = new]
        /\ posted' = Append(posted, sent) /\ accepted \subseteq accepted'
        /\ UNCHANGED <<via, seq, node>>
    BY <1>1, <1>5 DEF Post, Advance
  <2>2. new \in PushType /\ new.at = "reply"
    BY <1>1 DEF PushType, TorStages
  <2>3. sent.cred = push[c].cred /\ sent.payload = push[c].payload
    OBVIOUS
  <2>4. sent \in [cred : ({"pid"} \X Clock \X Nat) \cup {None}, payload : Payloads \cup {None}]
    BY <1>1 DEF PushType
  <2> HIDE DEF new, sent
  <2>5. \A d \in Callers : push'[d] = IF d = c THEN new ELSE push[d]
    BY <1>1, <2>1
  <2>6. BroadcastTyped'
    BY <1>0, <1>1, <2>1, <2>2, <2>4 DEF BroadcastTyped
  <2>7. /\ DOMAIN posted' = DOMAIN posted \cup {Len(posted) + 1}
        /\ Len(posted) + 1 \notin DOMAIN posted
        /\ posted'[Len(posted) + 1] = sent
        /\ \A i \in DOMAIN posted : posted'[i] = posted[i]
    BY <1>0, <2>1 DEF BroadcastTyped
  <2>8. CredsFresh'
    BY <1>0, <2>1, <2>2, <2>3, <2>5, <2>7 DEF CredsFresh
  <2>9. NodeUnused'
    BY <1>0, <2>1, <2>2, <2>5 DEF NodeUnused
  <2>10. SuccessIsAccepted'
    BY <1>0, <2>1, <2>2, <2>5 DEF SuccessIsAccepted
  <2> QED BY <2>6, <2>8, <2>9, <2>10 DEF BroadcastInv
<1>6. CASE Reply(c)
  <2> DEFINE payload == push[c].payload
             ok(reply) == Accepts(payload, reply)
             success(reply) == SaysTaken(payload, ok(reply), reply.success)
  <2>1. PICK reply \in Replies :
          /\ SaysTaken(payload, reply.status = 200, reply.success) => payload \in accepted
          /\ Ends(c, ok(reply), success(reply))
    BY <1>6 DEF Reply
  <2>2. UNCHANGED <<via, seq, node, posted, accepted>>
    BY <1>6 DEF Reply
  <2>3. ok(reply) => reply.status = 200
    BY BroadcastAssumption DEF Accepts, ParseHttpResponse, BroadcastAssumption
  <2>4. ok(reply) \in BOOLEAN /\ success(reply) \in BOOLEAN
    BY DEF Accepts, SaysTaken
  <2>5. SaysTaken(payload, ok(reply), success(reply)) => payload \in accepted'
    BY <2>1, <2>2, <2>3 DEF SaysTaken
  <2> HIDE DEF ok, success
  <2> QED BY <2>1, <2>2, <2>4, <2>5, EndsKeeps
<1> QED BY <1>2, <1>3, <1>4, <1>5, <1>6 DEF PushStep

LEMMA BroadcastStutters ==
  ASSUME BroadcastInv, UNCHANGED broadcastVars
  PROVE  BroadcastInv'
BY DEF BroadcastInv, BroadcastTyped, CredsFresh, NodeUnused, SuccessIsAccepted, broadcastVars

LEMMA BroadcastStarts ==
  ASSUME BroadcastInit
  PROVE  BroadcastInv
<1> USE DEF BroadcastInit
<1>1. NoPush \in PushType /\ NoPush.at = "idle"
  BY DEF NoPush, PushType
<1>2. \A c \in Callers : push[c] = NoPush
  OBVIOUS
<1>3. BroadcastTyped
  BY <1>1 DEF BroadcastTyped
<1>4. CredsFresh
  BY <1>1, <1>2 DEF CredsFresh
<1>5. NodeUnused /\ SuccessIsAccepted
  BY <1>1, <1>2 DEF NodeUnused, SuccessIsAccepted
<1> QED BY <1>3, <1>4, <1>5 DEF BroadcastInv

-----------------------------------------------------------------------------
(* Sessions *)

\* Lines that are answered as a whole.
Refused(line) == line.kind = "invalid" \/ Len(line.requests) > MaxBatch

\* The version a session works with, and the offer it agreed to.
Speaks(v, offer) ==
  /\ v \in Seq(Nat) /\ ~Below(v, ProtocolMin) /\ ~Below(ProtocolMax, v)
  /\ offer = None => v = ProtocolMax
  /\ offer # None => Agreed(v, offer)

\* What the record r of session s holds by itself.
Holds(s, r) ==
  /\ r \in SessionType
  /\ r.line # None => r.line \in LinesOf[s]
  /\ r.at \in {"serve", "await"} =>
       r.line # None /\ ~Refused(r.line) /\ r.next \in 1..Len(r.line.requests)
  /\ r.at # "closed" => r.peer \in PeersOf[s] /\ Speaks(r.version, r.offer)

\* `given` answers the first n requests of the line, as far as they want an
\* answer; `taken` are the payloads that were accepted.
Match(line, n, given, taken) ==
  /\ Len(given) = Cardinality(Asked(line, n))
  /\ \A i \in Asked(line, n) :
       LET answer == given[Cardinality(Asked(line, i))]
       IN  /\ answer.id = line.requests[i].id
           /\ /\ line.requests[i].method = "broadcast"
              /\ SaysTaken(line.requests[i].arg, answer.ok, answer.success)
              => line.requests[i].arg \in taken

Matched(r, taken) ==
  r.line # None =>
    IF Refused(r.line) THEN r.answers = <<Answer(None, FALSE, FALSE)>>
    ELSE Match(r.line, r.next - 1, r.answers, taken)

\* A session that waits for a submission waits for its own.
Awaits(r, p) ==
  r.at = "await" /\ r.line.requests[r.next].method = "broadcast" =>
    p.payload = r.line.requests[r.next].arg /\ p.route = "electrum"

SessionsInv ==
  /\ session \in [Sessions -> SessionType]
  /\ \A s \in Sessions :
       Holds(s, session[s]) /\ Matched(session[s], accepted) /\ Awaits(session[s], push[s])

LEMMA MatchGrows ==
  ASSUME NEW line, NEW n, NEW given, NEW taken, NEW more, taken \subseteq more,
         Match(line, n, given, taken)
  PROVE  Match(line, n, given, more)
BY DEF Match

\* Session s goes on as new.
LEMMA SessionBecomes ==
  ASSUME SessionsInv, NEW s \in Sessions, NEW new, session' = [session EXCEPT ![s] = new],
         Holds(s, new), Matched(new, accepted'), Awaits(new, push'[s]),
         accepted \subseteq accepted',
         \A t \in Sessions \ {s} : push'[t].payload = push[t].payload /\ push'[t].route = push[t].route
  PROVE  SessionsInv'
<1>1. session \in [Sessions -> SessionType] /\ new \in SessionType
  BY DEF SessionsInv, Holds
<1>2. \A t \in Sessions : session'[t] = IF t = s THEN new ELSE session[t]
  BY <1>1
<1>3. session' \in [Sessions -> SessionType]
  BY <1>1
<1>4. ASSUME NEW t \in Sessions, t # s
      PROVE  /\ Holds(t, session'[t]) /\ Matched(session'[t], accepted')
             /\ Awaits(session'[t], push'[t])
  <2>1. session'[t] = session[t]
    BY <1>2, <1>4
  <2>2. Holds(t, session[t]) /\ Matched(session[t], accepted) /\ Awaits(session[t], push[t])
    BY DEF SessionsInv
  <2>3. Matched(session[t], accepted')
    BY <2>2, MatchGrows DEF Matched
  <2>4. Awaits(session[t], push'[t])
    BY <1>4, <2>2 DEF Awaits
  <2> QED BY <2>1, <2>2, <2>3, <2>4
<1>5. Holds(s, session'[s]) /\ Matched(session'[s], accepted') /\ Awaits(session'[s], push'[s])
  BY <1>2
<1>6. \A t \in Sessions : /\ Holds(t, session'[t]) /\ Matched(session'[t], accepted')
                          /\ Awaits(session'[t], push'[t])
  BY <1>4, <1>5
<1> QED BY <1>3, <1>6 DEF SessionsInv, Holds, Matched, Match, Awaits

\* The sessions stay as they are, and the submissions they wait for theirs.
LEMMA SessionsStay ==
  ASSUME SessionsInv, session' = session, accepted \subseteq accepted',
         \A t \in Sessions : push'[t].payload = push[t].payload /\ push'[t].route = push[t].route
  PROVE  SessionsInv'
<1>1. ASSUME NEW t \in Sessions
      PROVE  /\ Holds(t, session'[t]) /\ Matched(session'[t], accepted')
             /\ Awaits(session'[t], push'[t])
  <2>1. session'[t] = session[t]
    OBVIOUS
  <2>2. Holds(t, session[t]) /\ Matched(session[t], accepted) /\ Awaits(session[t], push[t])
    BY DEF SessionsInv
  <2>3. Matched(session[t], accepted')
    BY <2>2, MatchGrows DEF Matched
  <2>4. Awaits(session[t], push'[t])
    BY <2>2 DEF Awaits
  <2> QED BY <2>1, <2>2, <2>3, <2>4
<1>2. session' \in [Sessions -> SessionType]
  BY DEF SessionsInv
<1> QED BY <1>1, <1>2 DEF SessionsInv, Holds, Matched, Match, Awaits

\* A session closed, new, or done with a line.
LEMMA NoSessionHolds ==
  ASSUME NEW s \in Sessions
  PROVE  /\ Holds(s, NoSession)
         /\ \A taken : Matched(NoSession, taken)
         /\ \A p : Awaits(NoSession, p)
<1>1. NoSession \in SessionType
  <2>1. <<>> \in AnswersType /\ None \in Versions /\ 1 \in Positions /\ "closed" \in Places
    BY DEF AnswersType, Versions, Positions, Places
  <2> QED BY <2>1 DEF NoSession, SessionType
<1>2. NoSession.line = None /\ NoSession.at = "closed"
  BY DEF NoSession
<1> QED BY <1>1, <1>2 DEF Holds, Matched, Awaits

LEMMA OpenHolds ==
  ASSUME NEW s \in Sessions, NEW p \in PeersOf[s]
  PROVE  LET new == [NoSession EXCEPT !.at = "idle", !.peer = p, !.version = ProtocolMax]
         IN  /\ Holds(s, new)
             /\ \A taken : Matched(new, taken)
             /\ \A q : Awaits(new, q)
             /\ new.at = "idle" /\ new.peer = p
<1> DEFINE new == [NoSession EXCEPT !.at = "idle", !.peer = p, !.version = ProtocolMax]
<1>1. ProtocolMax \in Seq(Nat) /\ ProtocolMin \in Seq(Nat) /\ ~Below(ProtocolMax, ProtocolMin)
  BY ProtocolAssumption DEF ProtocolAssumption
<1>2. ~Below(ProtocolMax, ProtocolMax)
  BY <1>1, BelowAsymmetric
<1>3. p \in Peers
  BY DEF Peers
<1>4. /\ new.at = "idle" /\ new.peer = p /\ new.version = ProtocolMax /\ new.offer = None
      /\ new.line = None
  BY DEF NoSession
<1>5. new \in SessionType
  <2>1. ProtocolMax \in Versions /\ "idle" \in Places
    BY <1>1 DEF Versions, Places
  <2>2. NoSession \in SessionType
    BY NoSessionHolds DEF Holds
  <2> QED BY <1>3, <2>1, <2>2 DEF SessionType
<1> HIDE DEF new
<1>6. Speaks(ProtocolMax, None)
  BY <1>1, <1>2 DEF Speaks
<1>7. Holds(s, new) /\ (\A taken : Matched(new, taken)) /\ (\A q : Awaits(new, q))
  BY <1>4, <1>5, <1>6 DEF Holds, Matched, Awaits
<1> QED BY <1>4, <1>7 DEF new

LEMMA ReadyHolds ==
  ASSUME NEW s \in Sessions, NEW r \in SessionType, r.at # "closed",
         r.peer \in PeersOf[s], Speaks(r.version, r.offer)
  PROVE  /\ Holds(s, Ready(r))
         /\ \A taken : Matched(Ready(r), taken)
         /\ \A p : Awaits(Ready(r), p)
         /\ Ready(r).at = "idle" /\ Ready(r).peer = r.peer
<1> DEFINE new == Ready(r)
<1>1. /\ new.at = "idle" /\ new.peer = r.peer /\ new.version = r.version
      /\ new.offer = r.offer /\ new.line = None /\ new \in SessionType
  <2>1. <<>> \in AnswersType /\ 1 \in Positions /\ "idle" \in Places
    BY DEF AnswersType, Positions, Places
  <2>2. ASSUME NEW none \in AnswersType, NEW one \in Positions, NEW idle \in Places
        PROVE  [r EXCEPT !.at = idle, !.line = None, !.next = one, !.answers = none] \in SessionType
    BY DEF SessionType
  <2>3. ASSUME NEW none \in AnswersType
        PROVE  LET to == [r EXCEPT !.at = "idle", !.line = None, !.next = 1, !.answers = none]
               IN  /\ to.at = "idle" /\ to.peer = r.peer /\ to.version = r.version
                   /\ to.offer = r.offer /\ to.line = None
    BY DEF SessionType
  <2> QED BY <2>1, <2>2, <2>3 DEF Ready
<1> HIDE DEF new
<1>2. Holds(s, new) /\ (\A taken : Matched(new, taken)) /\ (\A p : Awaits(new, p))
  BY <1>1 DEF Holds, Matched, Awaits
<1> QED BY <1>1, <1>2 DEF new

\* What is known of a line.
LEMMA LineFacts ==
  ASSUME NEW s \in Sessions, NEW line \in LinesOf[s]
  PROVE  /\ line # None /\ line \in Lines
         /\ line.kind \in {"blank", "invalid", "single", "batch"}
         /\ Len(line.requests) \in Nat
         /\ (line.requests = <<>>) <=> (Len(line.requests) = 0)
         /\ line.kind = "single" => Len(line.requests) = 1
         /\ \A i \in 1..Len(line.requests) :
              /\ line.requests[i].id \in STRING \cup {None}
              /\ line.requests[i].method \in Methods
              /\ line.requests[i].method = "version" => line.requests[i].arg \in Offer
              /\ line.requests[i].method = "broadcast" =>
                   line.requests[i].arg \in Payloads \cup {None}
<1> DEFINE Requests == [id : STRING \cup {None}, method : Methods,
                        arg : Payloads \cup Offer \cup {None}]
<1>1. IsLine(line) /\ line # None
  BY LinesAssumption DEF LinesAssumption
<1>2. /\ line.kind \in {"blank", "invalid", "single", "batch"}
      /\ line.requests \in Seq(Requests)
      /\ line.kind = "single" => Len(line.requests) = 1
      /\ \A i \in DOMAIN line.requests :
           /\ line.requests[i].method = "version" => line.requests[i].arg \in Offer
           /\ line.requests[i].method = "broadcast" =>
                line.requests[i].arg \in Payloads \cup {None}
  BY <1>1 DEF IsLine
<1>3. \A q \in Requests : q.id \in STRING \cup {None} /\ q.method \in Methods
  OBVIOUS
<1> HIDE DEF Requests
<1>4. /\ Len(line.requests) \in Nat /\ DOMAIN line.requests = 1..Len(line.requests)
      /\ (line.requests = <<>>) <=> (Len(line.requests) = 0)
      /\ \A i \in 1..Len(line.requests) : line.requests[i] \in Requests
  BY <1>2
<1>5. line \in Lines
  BY DEF Lines
<1> QED BY <1>1, <1>2, <1>3, <1>4, <1>5

LEMMA NoneAsked ==
  ASSUME NEW line
  PROVE  Asked(line, 0) = {} /\ Cardinality(Asked(line, 0)) = 0
BY FS_EmptySet DEF Asked

LEMMA ReceiveKeeps ==
  ASSUME SessionsInv, NEW s \in Sessions, Receive(s)
  PROVE  /\ SessionsInv'
         /\ \A t \in Sessions : session'[t].peer = session[t].peer /\ (Live(t)' <=> Live(t))
<1> DEFINE r == session[s]
<1>1. /\ session \in [Sessions -> SessionType] /\ r \in SessionType /\ Holds(s, r)
      /\ r.at = "idle"
  BY DEF SessionsInv, Receive, At
<1>2. r.at # "closed" /\ r.peer \in PeersOf[s] /\ Speaks(r.version, r.offer)
  BY <1>1 DEF Holds
<1>3. UNCHANGED <<push, accepted>>
  BY DEF Receive, UnchangedBroadcast, broadcastVars
<1>4. PICK line \in LinesOf[s] :
         CASE line.kind = "blank" -> UNCHANGED <<session, monitorVars>>
           [] line.kind = "invalid" -> RefuseLine(s, line, "parse_error")
           [] line.kind = "batch" /\ Len(line.requests) > MaxBatch ->
                RefuseLine(s, line, "batch")
           [] OTHER ->
                /\ session' = [session EXCEPT
                     ![s].at = IF line.requests = <<>> THEN "write" ELSE "serve",
                     ![s].line = line, ![s].next = 1, ![s].answers = <<>>]
                /\ UNCHANGED monitorVars
  BY DEF Receive
<1>5. /\ line # None /\ line \in Lines
      /\ line.kind \in {"blank", "invalid", "single", "batch"}
      /\ Len(line.requests) \in Nat
      /\ (line.requests = <<>>) <=> (Len(line.requests) = 0)
      /\ line.kind = "single" => Len(line.requests) = 1
  BY LineFacts
<1>6. MaxBatch \in Nat \ {0}
  BY ProtocolAssumption DEF ProtocolAssumption
<1>7. CASE line.kind = "blank"
  <2>1. session' = session
    BY <1>4, <1>7
  <2> QED BY <1>3, <2>1, SessionsStay DEF Live
<1>8. ASSUME session' = [session EXCEPT ![s].at = "write", ![s].line = line,
                                        ![s].answers = <<Answer(None, FALSE, FALSE)>>],
             Refused(line)
      PROVE  /\ SessionsInv'
             /\ \A t \in Sessions : session'[t].peer = session[t].peer /\ (Live(t)' <=> Live(t))
  <2> DEFINE none == <<Answer(None, FALSE, FALSE)>>
             new == [r EXCEPT !.at = "write", !.line = line, !.answers = none]
  <2>1. none \in AnswersType /\ "write" \in Places
    BY DEF AnswersType, Answer, Places
  <2> HIDE DEF none
  <2>2. new \in SessionType
    BY <1>1, <1>5, <2>1 DEF SessionType
  <2>3. /\ new.at = "write" /\ new.line = line /\ new.answers = none
        /\ new.peer = r.peer /\ new.version = r.version /\ new.offer = r.offer
    BY <1>1 DEF SessionType
  <2>4. session' = [session EXCEPT ![s] = new]
    BY <1>1, <1>8 DEF none
  <2> HIDE DEF new
  <2>5. Holds(s, new)
    BY <1>2, <2>2, <2>3 DEF Holds
  <2>6. Matched(new, accepted') /\ Awaits(new, push'[s])
    BY <1>8, <2>3 DEF Matched, Awaits, none
  <2>7. SessionsInv'
    BY <1>3, <2>4, <2>5, <2>6, SessionBecomes
  <2> QED BY <1>1, <2>3, <2>4, <2>7 DEF Live
<1>9. CASE line.kind = "invalid"
  BY <1>4, <1>8, <1>9 DEF RefuseLine, Refused
<1>10. CASE line.kind = "batch" /\ Len(line.requests) > MaxBatch
  BY <1>4, <1>8, <1>10 DEF RefuseLine, Refused
<1>11. CASE /\ line.kind \notin {"blank", "invalid"}
            /\ ~(line.kind = "batch" /\ Len(line.requests) > MaxBatch)
  <2>1. ~Refused(line)
    <3>1. line.kind = "single" \/ line.kind = "batch"
      BY <1>5, <1>11
    <3>2. ~(Len(line.requests) > MaxBatch)
      <4>1. CASE line.kind = "single"
        <5>1. Len(line.requests) = 1
          BY <1>5, <4>1
        <5> QED BY <1>6, <5>1
      <4>2. CASE line.kind = "batch"
        BY <1>11, <4>2
      <4> QED BY <3>1, <4>1, <4>2
    <3> QED BY <1>11, <3>2 DEF Refused
  <2> DEFINE at == IF line.requests = <<>> THEN "write" ELSE "serve"
             none == <<>>
             new == [r EXCEPT !.at = at, !.line = line, !.next = 1, !.answers = none]
  <2>2. session' = [session EXCEPT ![s].at = at, ![s].line = line, ![s].next = 1,
                                   ![s].answers = none]
    BY <1>4, <1>11
  <2>3. /\ at \in Places /\ at \in {"write", "serve"} /\ 1 \in Positions /\ none \in AnswersType
        /\ Len(none) = 0 /\ (at = "serve" => 1 \in 1..Len(line.requests))
    BY <1>5 DEF Places, Positions, AnswersType
  <2> HIDE DEF at, none
  <2>4. new \in SessionType
    <3>1. ASSUME NEW one \in Positions
          PROVE  [r EXCEPT !.at = at, !.line = line, !.next = one, !.answers = none] \in SessionType
      BY <1>1, <1>5, <2>3 DEF SessionType
    <3> QED BY <2>3, <3>1
  <2>5. /\ new.at = at /\ new.line = line /\ new.answers = none /\ new.next = 1
        /\ new.peer = r.peer /\ new.version = r.version /\ new.offer = r.offer
    BY <1>1 DEF SessionType
  <2>6. session' = [session EXCEPT ![s] = new]
    BY <1>1, <2>2
  <2> HIDE DEF new
  <2>7. Holds(s, new)
    BY <1>2, <1>5, <2>1, <2>3, <2>4, <2>5 DEF Holds
  <2>8. Awaits(new, push'[s])
    BY <2>3, <2>5 DEF Awaits
  <2>9. Match(line, 0, none, accepted')
    BY <2>3, NoneAsked DEF Match
  <2>10. Matched(new, accepted')
    BY <2>1, <2>5, <2>9 DEF Matched
  <2>11. SessionsInv'
    BY <1>3, <2>6, <2>7, <2>8, <2>10, SessionBecomes
  <2> QED BY <1>1, <1>2, <2>3, <2>5, <2>6, <2>11 DEF Live
<1> QED BY <1>5, <1>7, <1>9, <1>10, <1>11

\* One more request is served: its answer, if it wants one, is the last.
LEMMA MatchNext ==
  ASSUME NEW line, NEW n \in Nat, NEW given \in AnswersType, NEW taken, NEW ok \in BOOLEAN,
         NEW success \in BOOLEAN,
         line.requests[n + 1].id \in STRING \cup {None},
         Match(line, n, given, taken),
         /\ line.requests[n + 1].method = "broadcast"
         /\ SaysTaken(line.requests[n + 1].arg, ok, success)
         => line.requests[n + 1].arg \in taken
  PROVE  LET id == line.requests[n + 1].id
             now == IF id = None THEN given ELSE Append(given, Answer(id, ok, success))
         IN  now \in AnswersType /\ Match(line, n + 1, now, taken)
<1> DEFINE id == line.requests[n + 1].id
           now == IF id = None THEN given ELSE Append(given, Answer(id, ok, success))
<1>1. CASE id = None
  <2>1. Asked(line, n + 1) = Asked(line, n)
    BY <1>1 DEF Asked
  <2> QED BY <1>1, <2>1 DEF Match
<1>2. CASE id # None
  <2>1. Asked(line, n + 1) = Asked(line, n) \cup {n + 1} /\ n + 1 \notin Asked(line, n)
    BY <1>2 DEF Asked
  <2>2. IsFiniteSet(Asked(line, n))
    <3>1. IsFiniteSet(1..n)
      <4>1. 1 \in Int /\ n \in Int
        OBVIOUS
      <4> QED BY <4>1, FS_Interval, Zenon
    <3>2. Asked(line, n) \subseteq 1..n
      BY DEF Asked
    <3> QED BY <3>1, <3>2, FS_Subset
  <2>3. Cardinality(Asked(line, n + 1)) = Cardinality(Asked(line, n)) + 1
    BY <2>1, <2>2, FS_AddElement
  <2>4. Answer(id, ok, success) \in [id : STRING \cup {None}, ok : BOOLEAN, success : BOOLEAN]
    BY DEF Answer
  <2>5. /\ now \in AnswersType /\ Len(now) = Len(given) + 1 /\ Len(given) \in Nat
        /\ now[Len(given) + 1] = Answer(id, ok, success)
        /\ \A k \in 1..Len(given) : now[k] = given[k]
    BY <1>2, <2>4 DEF AnswersType
  <2>6. Len(given) = Cardinality(Asked(line, n))
    BY DEF Match
  <2>7. ASSUME NEW i \in Asked(line, n)
        PROVE  Cardinality(Asked(line, i)) \in 1..Len(given)
    <3>1. i \in 1..n /\ i \in Asked(line, i)
      BY DEF Asked
    <3>2. Asked(line, i) \subseteq Asked(line, n)
      BY <3>1 DEF Asked
    <3>3. /\ IsFiniteSet(Asked(line, i))
          /\ Cardinality(Asked(line, i)) <= Cardinality(Asked(line, n))
      BY <2>2, <3>2, FS_Subset
    <3>4. Cardinality(Asked(line, i)) \in Nat /\ Cardinality(Asked(line, i)) # 0
      BY <3>1, <3>3, FS_CardinalityType, FS_EmptySet
    <3> QED BY <2>5, <2>6, <3>3, <3>4
  <2>8. ASSUME NEW i \in Asked(line, n + 1)
        PROVE  LET answer == now[Cardinality(Asked(line, i))]
               IN  /\ answer.id = line.requests[i].id
                   /\ /\ line.requests[i].method = "broadcast"
                      /\ SaysTaken(line.requests[i].arg, answer.ok, answer.success)
                      => line.requests[i].arg \in taken
    <3>1. CASE i \in Asked(line, n)
      <4>1. now[Cardinality(Asked(line, i))] = given[Cardinality(Asked(line, i))]
        BY <2>5, <2>7, <3>1
      <4> QED BY <3>1, <4>1 DEF Match
    <3>2. CASE i = n + 1
      <4>1. now[Cardinality(Asked(line, i))] = Answer(id, ok, success)
        BY <2>3, <2>5, <2>6, <3>2
      <4>2. /\ Answer(id, ok, success).id = id /\ Answer(id, ok, success).ok = ok
            /\ Answer(id, ok, success).success = success
        BY DEF Answer
      <4> QED BY <3>2, <4>1, <4>2
    <3> QED BY <2>1, <3>1, <3>2
  <2> QED BY <2>3, <2>5, <2>6, <2>8 DEF Match
<1> QED BY <1>1, <1>2

\* handle_tracked_request, of whichever request.
LEMMA RecordKeeps ==
  ASSUME SessionsInv, NEW s \in Sessions, session[s].at \in {"serve", "await"},
         NEW ok \in BOOLEAN, Record(s, ok), UNCHANGED accepted,
         Request(s).method = "version" /\ ok => Wanted(Request(s).arg) # None,
         push[s].success \in BOOLEAN,
         Request(s).method = "broadcast" /\ SaysTaken(Request(s).arg, ok, push[s].success) =>
           Request(s).arg \in accepted,
         \A t \in Sessions \ {s} : push'[t].payload = push[t].payload /\ push'[t].route = push[t].route
  PROVE  /\ SessionsInv'
         /\ \A t \in Sessions : session'[t].peer = session[t].peer /\ (Live(t)' <=> Live(t))
<1> DEFINE r == session[s]
           line == r.line
           req == Request(s)
           agreed == req.method = "version" /\ ok
           given == Answers(s, ok)
           version == IF agreed THEN Wanted(req.arg) ELSE r.version
           offer == IF agreed THEN req.arg ELSE r.offer
           rec == [r EXCEPT !.next = @ + 1, !.answers = given,
                            !.version = IF agreed THEN Wanted(req.arg) ELSE @,
                            !.offer = IF agreed THEN req.arg ELSE @]
<1>1. /\ session \in [Sessions -> SessionType] /\ r \in SessionType
      /\ Holds(s, r) /\ Matched(r, accepted)
  BY DEF SessionsInv
<1>2. /\ line \in LinesOf[s] /\ line # None /\ ~Refused(line)
      /\ r.next \in 1..Len(line.requests)
      /\ r.peer \in PeersOf[s] /\ Speaks(r.version, r.offer)
  BY <1>1 DEF Holds
<1>3. /\ req = line.requests[r.next] /\ Len(line.requests) \in Nat
      /\ req.id \in STRING \cup {None} /\ req.method \in Methods
      /\ req.method = "version" => req.arg \in Offer
  BY <1>2, LineFacts DEF Request
<1>4. given \in AnswersType /\ Match(line, r.next, given, accepted)
  <2>1. r.next - 1 \in Nat /\ (r.next - 1) + 1 = r.next
    BY <1>2, <1>3
  <2>2. r.answers \in AnswersType
    BY <1>1 DEF SessionType
  <2>3. Match(line, r.next - 1, r.answers, accepted)
    BY <1>1, <1>2 DEF Matched
  <2> DEFINE success == push[s].success
  <2>4. given = IF req.id = None THEN r.answers
                ELSE Append(r.answers, Answer(req.id, ok, success))
    BY DEF Answers
  <2>5. /\ req.method = "broadcast" /\ SaysTaken(req.arg, ok, success) => req.arg \in accepted
        /\ success \in BOOLEAN
    OBVIOUS
  <2> HIDE DEF success
  <2> DEFINE n == r.next - 1
  <2>6. line.requests[n + 1] = req /\ n \in Nat /\ n + 1 = r.next
    BY <1>3, <2>1
  <2> HIDE DEF given, n, req
  <2>7. LET id == line.requests[n + 1].id
            now == IF id = None THEN r.answers
                   ELSE Append(r.answers, Answer(id, ok, success))
        IN  now \in AnswersType /\ Match(line, n + 1, now, accepted)
    BY <1>3, <2>2, <2>3, <2>5, <2>6, MatchNext DEF n
  <2> QED BY <2>4, <2>6, <2>7
<1>5. Speaks(version, offer) /\ version \in Versions /\ offer \in Offer \cup {None}
  <2>1. CASE agreed
    <3>1. req.arg \in Offer /\ Wanted(req.arg) # None
      BY <1>3, <2>1
    <3>2. Wanted(req.arg) \in Seq(Nat) /\ Agreed(Wanted(req.arg), req.arg)
      BY <3>1, WantedAgrees
    <3>3. req.arg # None
      BY <3>1, LinesAssumption DEF LinesAssumption
    <3> QED BY <2>1, <3>1, <3>2, <3>3 DEF Speaks, Agreed, Versions
  <2>2. CASE ~agreed
    BY <1>1, <1>2, <2>2 DEF SessionType
  <2> QED BY <2>1, <2>2
<1>6. session' = [session EXCEPT ![s] = Served(s, rec)]
  BY DEF Record
<1> HIDE DEF req, given, version, offer, agreed
<1>7. /\ rec \in SessionType
      /\ rec.at = r.at /\ rec.peer = r.peer /\ rec.version = version /\ rec.offer = offer
      /\ rec.line = line /\ rec.next = r.next + 1 /\ rec.answers = given
  <2>1. r.next + 1 \in Positions
    BY <1>2, <1>3 DEF Positions
  <2>2. CASE agreed
    <3>1. rec = [r EXCEPT !.next = r.next + 1, !.answers = given,
                          !.version = version, !.offer = offer]
      BY <1>1, <2>2 DEF version, offer
    <3> QED BY <1>1, <1>4, <1>5, <2>1, <3>1 DEF SessionType
  <2>3. CASE ~agreed
    <3>1. rec = [r EXCEPT !.next = r.next + 1, !.answers = given,
                          !.version = version, !.offer = offer]
      BY <1>1, <2>3 DEF version, offer
    <3> QED BY <1>1, <1>4, <1>5, <2>1, <3>1 DEF SessionType
  <2> QED BY <2>2, <2>3
<1> HIDE DEF rec
<1>8. SUFFICES ASSUME NEW new, session' = [session EXCEPT ![s] = new],
                      Holds(s, new), Matched(new, accepted'), Awaits(new, push'[s]),
                      new.peer = r.peer, new.at # "closed"
               PROVE  /\ SessionsInv'
                      /\ \A t \in Sessions : session'[t].peer = session[t].peer /\ (Live(t)' <=> Live(t))
  <2> DEFINE new == Served(s, rec)
  <2>1. CASE Served(s, rec) = Ready(rec)
    BY <1>2, <1>5, <1>6, <1>7, <2>1, ReadyHolds
  <2>2. ASSUME NEW at \in {"serve", "write"}, new = [rec EXCEPT !.at = at],
               at = "serve" => r.next < Len(line.requests)
        PROVE  /\ Holds(s, new) /\ Matched(new, accepted') /\ Awaits(new, push'[s])
               /\ new.peer = r.peer /\ new.at # "closed"
    <3>1. /\ new \in SessionType /\ new.at = at /\ new.peer = r.peer
          /\ new.version = version /\ new.offer = offer
          /\ new.line = line /\ new.next = r.next + 1 /\ new.answers = given
      BY <1>7, <2>2 DEF SessionType, Places
    <3> HIDE DEF new
    <3>2. Holds(s, new)
      BY <1>2, <1>3, <1>5, <2>2, <3>1 DEF Holds
    <3>3. Match(line, new.next - 1, given, accepted')
      <4>1. new.next - 1 = r.next
        BY <1>2, <1>3, <3>1
      <4> QED BY <1>4, <4>1
    <3>4. Matched(new, accepted')
      BY <1>2, <3>1, <3>3 DEF Matched
    <3>5. Awaits(new, push'[s])
      BY <2>2, <3>1 DEF Awaits
    <3> QED BY <2>2, <3>1, <3>2, <3>4, <3>5
  <2>3. \/ new = Ready(rec)
        \/ new = [rec EXCEPT !.at = "write"]
        \/ new = [rec EXCEPT !.at = "serve"] /\ r.next < Len(line.requests)
    BY DEF Served
  <2> HIDE DEF new
  <2> QED BY <1>6, <2>1, <2>2, <2>3 DEF new
<1>9. SessionsInv'
  BY <1>8, SessionBecomes
<1> QED BY <1>1, <1>8, <1>9 DEF Live

-----------------------------------------------------------------------------
(* Sums over finite sets: SumFunction takes the elements one by one in an   *)
(* order of its choice, and no order makes a difference.                   *)

\* Of finite sets, one that is smallest.
LEMMA LeastSet ==
  ASSUME NEW Sets, Sets # {}, \A S \in Sets : IsFiniteSet(S)
  PROVE  \E S \in Sets : \A T \in Sets : Cardinality(S) <= Cardinality(T)
<1> DEFINE sizes == {Cardinality(S) : S \in Sets}
<1>1. sizes \subseteq Nat /\ sizes # {}
  BY FS_CardinalityType
<1>2. PICK n \in sizes : \A m \in sizes : n <= m
  BY <1>1, LeastNumber
<1> QED BY <1>2

LEMMA Smaller ==
  ASSUME NEW S, IsFiniteSet(S), NEW x \in S
  PROVE  /\ IsFiniteSet(S \ {x}) /\ Cardinality(S) \in Nat
         /\ Cardinality(S \ {x}) = Cardinality(S) - 1
BY FS_RemoveElement, FS_CardinalityType

First(S) == CHOOSE x \in S : TRUE

\* h sums f over each of the subsets of S.
Sums(h, f, S) ==
  h = [T \in SUBSET S |-> IF T = {} THEN 0 ELSE f[First(T)] + h[T \ {First(T)}]]

SumOver(f, S) == (CHOOSE h : Sums(h, f, S))[S]

LEMMA SumIsOver ==
  ASSUME NEW f
  PROVE  SumFunction(f) = SumOver(f, DOMAIN f)
BY DEF SumFunction, SumFunctionOnSet, FoldFunctionOnSet, MapThenFoldSet, SumOver, Sums, First

LEMMA FirstIn == ASSUME NEW S, S # {} PROVE First(S) \in S
BY DEF First

LEMMA SumsAt ==
  ASSUME NEW h, NEW f, NEW S, Sums(h, f, S), NEW T \in SUBSET S
  PROVE  h[T] = IF T = {} THEN 0 ELSE f[First(T)] + h[T \ {First(T)}]
<1> DEFINE value(U) == IF U = {} THEN 0 ELSE f[First(U)] + h[U \ {First(U)}]
<1>1. h = [U \in SUBSET S |-> value(U)]
  BY DEF Sums
<1> HIDE DEF value
<1>2. h[T] = value(T)
  BY <1>1
<1> QED BY <1>2 DEF value

\* Sums of functions that agree agree.
LEMMA SumsAgree ==
  ASSUME NEW g, NEW h, NEW e, NEW f, NEW A, NEW S, Sums(g, e, A), Sums(h, f, S),
         IsFiniteSet(S), S \subseteq A, \A x \in S : e[x] = f[x]
  PROVE  g[S] = h[S]
<1> DEFINE bad == {T \in SUBSET S : g[T] # h[T]}
<1>1. SUFFICES ASSUME bad # {} PROVE FALSE
  OBVIOUS
<1>2. \A T \in bad : IsFiniteSet(T)
  BY FS_Subset
<1>3. PICK T \in bad : \A U \in bad : Cardinality(T) <= Cardinality(U)
  <2> HIDE DEF bad
  <2> QED BY <1>1, <1>2, LeastSet
<1>4. T \in SUBSET S /\ g[T] # h[T]
  OBVIOUS
<1>5. /\ g[T] = IF T = {} THEN 0 ELSE e[First(T)] + g[T \ {First(T)}]
      /\ h[T] = IF T = {} THEN 0 ELSE f[First(T)] + h[T \ {First(T)}]
  BY <1>4, SumsAt
<1>6. T # {} /\ First(T) \in T
  BY <1>4, <1>5, FirstIn
<1>7. /\ Cardinality(T \ {First(T)}) = Cardinality(T) - 1 /\ Cardinality(T) \in Nat
  BY <1>2, <1>6, Smaller
<1>8. T \ {First(T)} \notin bad
  <2> HIDE DEF bad
  <2> QED BY <1>3, <1>7
<1>9. g[T \ {First(T)}] = h[T \ {First(T)}] /\ e[First(T)] = f[First(T)]
  BY <1>4, <1>6, <1>8
<1> QED BY <1>4, <1>5, <1>6, <1>9

LEMMA SumsExist ==
  ASSUME NEW f, NEW S, IsFiniteSet(S)
  PROVE  \E h : Sums(h, f, S)
<1> DEFINE bad == {T \in SUBSET S : ~\E h : Sums(h, f, T)}
<1>1. SUFFICES ASSUME bad # {} PROVE FALSE
  OBVIOUS
<1>2. \A T \in bad : IsFiniteSet(T)
  BY FS_Subset
<1>3. PICK T \in bad : \A U \in bad : Cardinality(T) <= Cardinality(U)
  <2> HIDE DEF bad
  <2> QED BY <1>1, <1>2, LeastSet
<1>4. T \in SUBSET S /\ (\A h : ~Sums(h, f, T)) /\ IsFiniteSet(T)
  BY <1>2
<1>5. ASSUME NEW U \in SUBSET T, NEW x \in T, x \notin U
      PROVE  IsFiniteSet(U) /\ \E h : Sums(h, f, U)
  <2>1. IsFiniteSet(T \ {x}) /\ Cardinality(T \ {x}) = Cardinality(T) - 1
        /\ Cardinality(T) \in Nat
    BY <1>4, Smaller
  <2>2. U \subseteq T \ {x}
    BY <1>5
  <2>3. IsFiniteSet(U) /\ Cardinality(U) <= Cardinality(T) - 1 /\ Cardinality(U) \in Nat
    BY <2>1, <2>2, FS_Subset, FS_CardinalityType
  <2>4. U \notin bad
    <3> HIDE DEF bad
    <3> QED BY <1>3, <2>1, <2>3
  <2> QED BY <1>4, <2>3, <2>4
<1> DEFINE over(U) == SumOver(f, U)
           value(U) == IF U = {} THEN 0 ELSE f[First(U)] + over(U \ {First(U)})
           h == [U \in SUBSET T |-> value(U)]
<1>6. ASSUME NEW U \in SUBSET T, U # {}
      PROVE  h[U \ {First(U)}] = over(U \ {First(U)})
  <2> DEFINE V == U \ {First(U)}
  <2>1. First(U) \in T /\ First(U) \notin V /\ V \in SUBSET T
    BY <1>6, FirstIn
  <2>2. IsFiniteSet(V) /\ \E g : Sums(g, f, V)
    <3> HIDE DEF V
    <3> QED BY <1>5, <2>1
  <2>3. PICK g : g = (CHOOSE k : Sums(k, f, V)) /\ Sums(g, f, V)
    <3> HIDE DEF V
    <3> QED BY <2>2
  <2>4. over(V) = g[V]
    BY <2>3 DEF SumOver
  <2>5. g[V] = IF V = {} THEN 0 ELSE f[First(V)] + g[V \ {First(V)}]
    <3> HIDE DEF V
    <3> QED BY <2>3, SumsAt
  <2>6. ASSUME V # {} PROVE g[V \ {First(V)}] = over(V \ {First(V)})
    <3> DEFINE W == V \ {First(V)}
    <3>1. W \subseteq V /\ W \in SUBSET T
      BY <2>1
    <3> HIDE DEF V, W
    <3>2. IsFiniteSet(W) /\ \E k : Sums(k, f, W)
      BY <1>5, <2>1, <3>1
    <3>3. PICK k : k = (CHOOSE i : Sums(i, f, W)) /\ Sums(k, f, W)
      BY <3>2
    <3>4. over(W) = k[W]
      BY <3>3 DEF SumOver
    <3>5. g[W] = k[W]
      BY <2>3, <3>1, <3>2, <3>3, SumsAgree
    <3> QED BY <3>4, <3>5 DEF W
  <2>7. over(V) = value(V)
    <3> HIDE DEF V, over
    <3> QED BY <2>4, <2>5, <2>6
  <2>8. h[V] = value(V)
    <3> HIDE DEF V, value
    <3> QED BY <2>1
  <2> QED BY <2>7, <2>8
<1>7. ASSUME NEW U \in SUBSET T
      PROVE  value(U) = IF U = {} THEN 0 ELSE f[First(U)] + h[U \ {First(U)}]
  <2> HIDE DEF h, over
  <2> QED BY <1>6
<1>8. Sums(h, f, T)
  <2>1. h = [U \in SUBSET T |-> IF U = {} THEN 0 ELSE f[First(U)] + h[U \ {First(U)}]]
    <3>1. h = [U \in SUBSET T |-> value(U)]
      OBVIOUS
    <3> HIDE DEF h, value
    <3> QED BY <1>7, <3>1
  <2> HIDE DEF h
  <2> QED BY <2>1 DEF Sums
<1> QED BY <1>4, <1>8

LEMMA SumOverSums ==
  ASSUME NEW f, NEW S, IsFiniteSet(S)
  PROVE  \E h : Sums(h, f, S) /\ SumOver(f, S) = h[S]
<1>1. PICK h : h = (CHOOSE k : Sums(k, f, S)) /\ Sums(h, f, S)
  BY SumsExist
<1> QED BY <1>1 DEF SumOver

LEMMA SumOverAgrees ==
  ASSUME NEW e, NEW f, NEW S, IsFiniteSet(S), \A x \in S : e[x] = f[x]
  PROVE  SumOver(e, S) = SumOver(f, S)
<1>1. PICK g : Sums(g, e, S) /\ SumOver(e, S) = g[S]
  BY SumOverSums
<1>2. PICK h : Sums(h, f, S) /\ SumOver(f, S) = h[S]
  BY SumOverSums
<1>3. S \subseteq S
  OBVIOUS
<1>4. g[S] = h[S]
  BY <1>1, <1>2, <1>3, SumsAgree
<1> QED BY <1>1, <1>2, <1>4

LEMMA SumOverFirst ==
  ASSUME NEW f, NEW S, IsFiniteSet(S)
  PROVE  SumOver(f, S) = IF S = {} THEN 0 ELSE f[First(S)] + SumOver(f, S \ {First(S)})
<1>1. PICK h : Sums(h, f, S) /\ SumOver(f, S) = h[S]
  BY SumOverSums
<1>2. h[S] = IF S = {} THEN 0 ELSE f[First(S)] + h[S \ {First(S)}]
  BY <1>1, SumsAt
<1>3. ASSUME S # {} PROVE h[S \ {First(S)}] = SumOver(f, S \ {First(S)})
  <2> DEFINE T == S \ {First(S)}
  <2>1. T \subseteq S /\ T \subseteq T /\ \A x \in T : f[x] = f[x]
    OBVIOUS
  <2> HIDE DEF T
  <2>2. IsFiniteSet(T)
    BY <2>1, FS_Subset
  <2>3. PICK g : Sums(g, f, T) /\ SumOver(f, T) = g[T]
    BY <2>2, SumOverSums
  <2>4. h[T] = g[T]
    BY <1>1, <2>1, <2>2, <2>3, SumsAgree
  <2> QED BY <2>3, <2>4 DEF T
<1> QED BY <1>1, <1>2, <1>3

LEMMA SumOverNat ==
  ASSUME NEW f, NEW S, IsFiniteSet(S), \A x \in S : f[x] \in Nat
  PROVE  SumOver(f, S) \in Nat
<1> DEFINE bad == {T \in SUBSET S : SumOver(f, T) \notin Nat}
<1>1. SUFFICES ASSUME bad # {} PROVE FALSE
  OBVIOUS
<1>2. \A T \in bad : IsFiniteSet(T)
  BY FS_Subset
<1>3. PICK T \in bad : \A U \in bad : Cardinality(T) <= Cardinality(U)
  <2> HIDE DEF bad
  <2> QED BY <1>1, <1>2, LeastSet
<1>4. T \in SUBSET S /\ SumOver(f, T) \notin Nat /\ IsFiniteSet(T)
  BY <1>2
<1>5. T # {} /\ SumOver(f, T) = f[First(T)] + SumOver(f, T \ {First(T)})
  <2>1. SumOver(f, T) = IF T = {} THEN 0 ELSE f[First(T)] + SumOver(f, T \ {First(T)})
    BY <1>4, SumOverFirst
  <2> QED BY <1>4, <2>1
<1>6. First(T) \in T
  BY <1>5, FirstIn
<1>7. Cardinality(T \ {First(T)}) = Cardinality(T) - 1 /\ Cardinality(T) \in Nat
  BY <1>4, <1>6, Smaller
<1>8. T \ {First(T)} \notin bad
  <2> HIDE DEF bad
  <2> QED BY <1>3, <1>7
<1>9. SumOver(f, T \ {First(T)}) \in Nat /\ f[First(T)] \in Nat
  BY <1>4, <1>6, <1>8
<1> QED BY <1>4, <1>5, <1>9

\* Any element may be taken out of a sum.
LEMMA SumOverSplit ==
  ASSUME NEW f, NEW S, IsFiniteSet(S), \A x \in S : f[x] \in Nat, NEW x \in S
  PROVE  SumOver(f, S) = f[x] + SumOver(f, S \ {x})
<1> DEFINE bad == {T \in SUBSET S : \E y \in T : SumOver(f, T) # f[y] + SumOver(f, T \ {y})}
<1>1. SUFFICES ASSUME bad # {} PROVE FALSE
  OBVIOUS
<1>2. \A T \in bad : IsFiniteSet(T)
  BY FS_Subset
<1>3. PICK T \in bad : \A U \in bad : Cardinality(T) <= Cardinality(U)
  <2> HIDE DEF bad
  <2> QED BY <1>1, <1>2, LeastSet
<1>4. PICK y \in T : SumOver(f, T) # f[y] + SumOver(f, T \ {y})
  OBVIOUS
<1> DEFINE a == First(T)
           A == T \ {a}
           B == T \ {y}
<1>5. T \in SUBSET S /\ IsFiniteSet(T) /\ T # {}
  BY <1>2
<1>6. SumOver(f, T) = f[a] + SumOver(f, A)
  BY <1>5, SumOverFirst
<1>7. a \in T /\ y # a
  BY <1>4, <1>5, <1>6, FirstIn
<1>8. ASSUME NEW z \in T PROVE T \ {z} \notin bad
  <2>1. Cardinality(T \ {z}) = Cardinality(T) - 1 /\ Cardinality(T) \in Nat
    BY <1>5, Smaller
  <2> HIDE DEF bad
  <2> QED BY <1>3, <2>1
<1>9. y \in A /\ a \in B /\ A \in SUBSET S /\ B \in SUBSET S /\ A \ {y} = B \ {a}
  BY <1>5, <1>7
<1>10. A \notin bad /\ B \notin bad
  BY <1>7, <1>8
<1> HIDE DEF a, A, B
<1>11. SumOver(f, A) = f[y] + SumOver(f, A \ {y}) /\ SumOver(f, B) = f[a] + SumOver(f, B \ {a})
  BY <1>9, <1>10
<1>12. f[a] \in Nat /\ f[y] \in Nat
  BY <1>5, <1>7
<1>13. SumOver(f, A \ {y}) \in Nat
  <2>1. IsFiniteSet(A \ {y}) /\ \A z \in A \ {y} : f[z] \in Nat
    <3>1. A \ {y} \subseteq S
      BY <1>9
    <3> QED BY <3>1, FS_Subset
  <2> QED BY <2>1, SumOverNat
<1>14. SumOver(f, T) # f[y] + SumOver(f, B)
  BY <1>4 DEF B
<1> QED BY <1>6, <1>9, <1>11, <1>12, <1>13, <1>14

\* What a map has at x, of which it may know nothing.
Share(f, x) == IF x \in DOMAIN f THEN f[x] ELSE 0

LEMMA SumWithout ==
  ASSUME NEW f, NEW x, IsFiniteSet(DOMAIN f), \A y \in DOMAIN f : f[y] \in Nat
  PROVE  /\ SumFunction(f) = Share(f, x) + SumOver(f, DOMAIN f \ {x})
         /\ SumFunction(f) \in Nat /\ Share(f, x) \in Nat
         /\ SumOver(f, DOMAIN f \ {x}) \in Nat
<1>1. SumFunction(f) = SumOver(f, DOMAIN f)
  BY SumIsOver
<1>2. IsFiniteSet(DOMAIN f \ {x}) /\ \A y \in DOMAIN f \ {x} : f[y] \in Nat
  BY FS_Subset
<1>3. SumOver(f, DOMAIN f \ {x}) \in Nat /\ SumOver(f, DOMAIN f) \in Nat
  BY <1>2, SumOverNat
<1>4. CASE x \in DOMAIN f
  <2>1. SumOver(f, DOMAIN f) = f[x] + SumOver(f, DOMAIN f \ {x})
    BY <1>4, SumOverSplit
  <2> QED BY <1>1, <1>3, <1>4, <2>1 DEF Share
<1>5. CASE x \notin DOMAIN f
  <2>1. DOMAIN f \ {x} = DOMAIN f
    BY <1>5
  <2> QED BY <1>1, <1>3, <1>5, <2>1 DEF Share
<1> QED BY <1>4, <1>5

\* Two maps that agree but for x have sums that differ by their shares of x.
LEMMA SumMoves ==
  ASSUME NEW f, NEW g, NEW x,
         IsFiniteSet(DOMAIN f), \A y \in DOMAIN f : f[y] \in Nat,
         IsFiniteSet(DOMAIN g), \A y \in DOMAIN g : g[y] \in Nat,
         DOMAIN g \ {x} = DOMAIN f \ {x}, \A y \in DOMAIN f \ {x} : g[y] = f[y]
  PROVE  /\ SumFunction(g) + Share(f, x) = SumFunction(f) + Share(g, x)
         /\ SumFunction(f) \in Nat /\ SumFunction(g) \in Nat
         /\ Share(f, x) \in Nat /\ Share(g, x) \in Nat
<1>1. /\ SumFunction(f) = Share(f, x) + SumOver(f, DOMAIN f \ {x})
      /\ SumFunction(f) \in Nat /\ Share(f, x) \in Nat
      /\ SumOver(f, DOMAIN f \ {x}) \in Nat
  BY SumWithout
<1>2. /\ SumFunction(g) = Share(g, x) + SumOver(g, DOMAIN f \ {x})
      /\ SumFunction(g) \in Nat /\ Share(g, x) \in Nat
  <2>1. /\ SumFunction(g) = Share(g, x) + SumOver(g, DOMAIN g \ {x})
        /\ SumFunction(g) \in Nat /\ Share(g, x) \in Nat
    BY SumWithout
  <2> QED BY <2>1
<1>3. SumOver(g, DOMAIN f \ {x}) = SumOver(f, DOMAIN f \ {x})
  <2>1. IsFiniteSet(DOMAIN f \ {x})
    BY FS_Subset
  <2> QED BY <2>1, SumOverAgrees
<1> QED BY <1>1, <1>2, <1>3

LEMMA SumZero ==
  ASSUME NEW f, IsFiniteSet(DOMAIN f), \A x \in DOMAIN f : f[x] = 0
  PROVE  SumFunction(f) = 0
<1> DEFINE bad == {S \in SUBSET DOMAIN f : SumOver(f, S) # 0}
<1>1. SUFFICES bad = {}
  BY SumIsOver
<1>2. SUFFICES ASSUME bad # {} PROVE FALSE
  OBVIOUS
<1>3. \A S \in bad : IsFiniteSet(S)
  BY FS_Subset
<1>4. PICK S \in bad : \A T \in bad : Cardinality(S) <= Cardinality(T)
  <2> HIDE DEF bad
  <2> QED BY <1>2, <1>3, LeastSet
<1>5. S \in SUBSET DOMAIN f /\ SumOver(f, S) # 0 /\ IsFiniteSet(S)
  BY <1>3
<1>6. SumOver(f, S) = IF S = {} THEN 0 ELSE f[First(S)] + SumOver(f, S \ {First(S)})
  BY <1>5, SumOverFirst
<1>7. S # {} /\ First(S) \in S
  BY <1>5, <1>6, FirstIn
<1>8. Cardinality(S \ {First(S)}) = Cardinality(S) - 1 /\ Cardinality(S) \in Nat
  BY <1>5, <1>7, Smaller
<1>9. S \ {First(S)} \notin bad
  <2> HIDE DEF bad
  <2> QED BY <1>4, <1>8
<1>10. SumOver(f, S \ {First(S)}) = 0 /\ f[First(S)] = 0
  BY <1>5, <1>7, <1>9
<1> QED BY <1>5, <1>6, <1>7, <1>10

-----------------------------------------------------------------------------
(* The monitor *)

ActiveType == UNION {[D -> Count] : D \in SUBSET Peers}

MonitorType ==
  [active : ActiveType, methods : [Methods -> Count], recent : 0..RecentLimit,
   sessions : Nat, requests : Nat, errors : Nat]

MonitorInv ==
  /\ state \in MonitorType /\ IsFiniteSet(DOMAIN state.active)
  /\ file \in MonitorType \cup {Old}
  /\ unsaved \subseteq Sessions
  /\ FiguresAgree /\ SnapshotFresh

LEMMA ActiveFacts ==
  ASSUME NEW a \in ActiveType
  PROVE  DOMAIN a \subseteq Peers /\ \A p \in DOMAIN a : a[p] \in Count
<1>1. PICK D \in SUBSET Peers : a \in [D -> Count]
  BY DEF ActiveType
<1> QED BY <1>1

LEMMA CountFacts ==
  /\ NoneYet \in Count
  /\ \A c \in Count : \A ok \in BOOLEAN : Counted(c, ok) \in Count
BY DEF NoneYet, Count, Counted

LEMMA StateFacts ==
  ASSUME NEW st \in MonitorType
  PROVE  /\ st.active \in ActiveType /\ st.methods \in [Methods -> Count]
         /\ st.recent \in 0..RecentLimit
         /\ st.sessions \in Nat /\ st.requests \in Nat /\ st.errors \in Nat
BY DEF MonitorType

LEMMA NoStateTyped ==
  NoState \in MonitorType /\ DOMAIN NoState.active = {}
<1>1. [m \in Methods |-> NoneYet] \in [Methods -> Count]
  BY CountFacts
<1>2. [p \in {} |-> NoneYet] \in ActiveType
  <2>1. [p \in {} |-> NoneYet] \in [{} -> Count]
    OBVIOUS
  <2> QED BY <2>1 DEF ActiveType
<1>3. 0 \in 0..RecentLimit
  BY MonitorAssumption DEF MonitorAssumption
<1> DEFINE none == [p \in {} |-> NoneYet]
           zero == [m \in Methods |-> NoneYet]
<1>4. NoState = [active |-> none, methods |-> zero,
                 recent |-> 0, sessions |-> 0, requests |-> 0, errors |-> 0]
  BY DEF NoState
<1>5. DOMAIN none = {}
  OBVIOUS
<1> HIDE DEF none, zero
<1> QED BY <1>1, <1>2, <1>3, <1>4, <1>5 DEF MonitorType, none, zero

LEMMA OpenedTyped ==
  ASSUME NEW st \in MonitorType, NEW peer \in Peers
  PROVE  LET to == Opened(st, peer)
         IN  /\ to \in MonitorType /\ DOMAIN to.active = DOMAIN st.active \cup {peer}
             /\ to.active[peer] = NoneYet
             /\ \A p \in DOMAIN st.active \ {peer} : to.active[p] = st.active[p]
             /\ to.sessions = st.sessions + 1 /\ to.methods = st.methods
             /\ to.recent = st.recent /\ to.requests = st.requests /\ to.errors = st.errors
<1> DEFINE a == [p \in DOMAIN st.active \cup {peer} |-> IF p = peer THEN NoneYet ELSE st.active[p]]
<1>1. a \in ActiveType /\ DOMAIN a = DOMAIN st.active \cup {peer}
  <2>1. st.active \in ActiveType
    BY StateFacts
  <2>2. /\ DOMAIN st.active \cup {peer} \subseteq Peers
        /\ \A p \in DOMAIN st.active \cup {peer} :
             (IF p = peer THEN NoneYet ELSE st.active[p]) \in Count
    BY <2>1, ActiveFacts, CountFacts
  <2>3. a \in [DOMAIN st.active \cup {peer} -> Count]
    BY <2>2
  <2> QED BY <2>2, <2>3 DEF ActiveType
<1>2. Opened(st, peer) = [st EXCEPT !.sessions = st.sessions + 1, !.active = a]
  BY DEF Opened, MonitorType
<1> DEFINE n == st.sessions + 1
<1>3. n \in Nat
  BY StateFacts
<1>4. a[peer] = NoneYet /\ \A p \in DOMAIN st.active \ {peer} : a[p] = st.active[p]
  OBVIOUS
<1> HIDE DEF a, n
<1>5. Opened(st, peer) \in MonitorType
  BY <1>1, <1>2, <1>3 DEF MonitorType, n
<1>6. LET to == Opened(st, peer)
      IN  /\ to.active = a /\ to.sessions = n /\ to.methods = st.methods
          /\ to.recent = st.recent /\ to.requests = st.requests /\ to.errors = st.errors
  BY <1>2 DEF MonitorType, n
<1> QED BY <1>1, <1>4, <1>5, <1>6 DEF n

LEMMA EndedTyped ==
  ASSUME NEW st \in MonitorType, NEW peer
  PROVE  LET to == Ended(st, peer)
         IN  /\ to \in MonitorType /\ DOMAIN to.active = DOMAIN st.active \ {peer}
             /\ \A p \in DOMAIN st.active \ {peer} : to.active[p] = st.active[p]
             /\ to.sessions = st.sessions /\ to.methods = st.methods
             /\ to.recent = st.recent /\ to.requests = st.requests /\ to.errors = st.errors
<1> DEFINE a == Restrict(st.active, DOMAIN st.active \ {peer})
<1>1. a \in ActiveType /\ DOMAIN a = DOMAIN st.active \ {peer}
  <2>1. st.active \in ActiveType
    BY StateFacts
  <2>2. /\ DOMAIN st.active \ {peer} \subseteq Peers
        /\ \A p \in DOMAIN st.active \ {peer} : st.active[p] \in Count
    BY <2>1, ActiveFacts
  <2>3. a \in [DOMAIN st.active \ {peer} -> Count]
    BY <2>2 DEF Restrict
  <2> QED BY <2>2, <2>3 DEF ActiveType
<1>2. Ended(st, peer) = [st EXCEPT !.active = a]
  BY DEF Ended
<1>3. \A p \in DOMAIN st.active \ {peer} : a[p] = st.active[p]
  BY DEF Restrict
<1> HIDE DEF a
<1>4. Ended(st, peer) \in MonitorType
  BY <1>1, <1>2 DEF MonitorType
<1>5. LET to == Ended(st, peer)
      IN  /\ to.active = a /\ to.sessions = st.sessions /\ to.methods = st.methods
          /\ to.recent = st.recent /\ to.requests = st.requests /\ to.errors = st.errors
  BY <1>2 DEF MonitorType
<1> QED BY <1>1, <1>3, <1>4, <1>5

LEMMA ResetTyped ==
  ASSUME NEW st \in MonitorType, IsFiniteSet(DOMAIN st.active)
  PROVE  LET to == Reset(st)
         IN  /\ to \in MonitorType /\ DOMAIN to.active = DOMAIN st.active
             /\ \A p \in DOMAIN st.active : to.active[p] = NoneYet
             /\ to.sessions = Cardinality(DOMAIN st.active) /\ to.methods = NoState.methods
             /\ to.recent = 0 /\ to.requests = 0 /\ to.errors = 0
<1> DEFINE a == [p \in DOMAIN st.active |-> NoneYet]
           n == Cardinality(DOMAIN st.active)
<1>1. a \in ActiveType /\ DOMAIN a = DOMAIN st.active
  <2>1. DOMAIN st.active \subseteq Peers
    BY StateFacts, ActiveFacts
  <2>2. a \in [DOMAIN st.active -> Count]
    BY CountFacts
  <2> QED BY <2>1, <2>2 DEF ActiveType
<1>2. n \in Nat
  BY FS_CardinalityType
<1>3. Reset(st) = [NoState EXCEPT !.active = a, !.sessions = n]
  BY DEF Reset
<1>4. \A p \in DOMAIN st.active : a[p] = NoneYet
  OBVIOUS
<1>5. NoState.recent = 0 /\ NoState.requests = 0 /\ NoState.errors = 0
  BY DEF NoState
<1> HIDE DEF a, n
<1>6. Reset(st) \in MonitorType
  BY <1>1, <1>2, <1>3, NoStateTyped DEF MonitorType
<1>7. LET to == Reset(st)
      IN  /\ to.active = a /\ to.sessions = n /\ to.methods = NoState.methods
          /\ to.recent = NoState.recent /\ to.requests = NoState.requests
          /\ to.errors = NoState.errors
  BY <1>3, NoStateTyped DEF MonitorType
<1> QED BY <1>1, <1>4, <1>5, <1>6, <1>7 DEF n

LEMMA RecordedTyped ==
  ASSUME NEW st \in MonitorType, NEW peer, NEW method \in Methods, NEW ok \in BOOLEAN
  PROVE  LET to == Recorded(st, peer, method, ok)
         IN  /\ to \in MonitorType /\ DOMAIN to.active = DOMAIN st.active
             /\ peer \in DOMAIN st.active => to.active[peer] = Counted(st.active[peer], ok)
             /\ \A p \in DOMAIN st.active \ {peer} : to.active[p] = st.active[p]
             /\ to.methods[method] = Counted(st.methods[method], ok)
             /\ \A m \in Methods \ {method} : to.methods[m] = st.methods[m]
             /\ to.sessions = st.sessions /\ to.recent = Least(st.recent + 1, RecentLimit)
             /\ to.requests = st.requests + 1
             /\ to.errors = st.errors + (IF ok THEN 0 ELSE 1)
<1> DEFINE a == [p \in DOMAIN st.active |->
                   IF p = peer THEN Counted(st.active[p], ok) ELSE st.active[p]]
           m == [st.methods EXCEPT ![method] = Counted(@, ok)]
           e == st.errors + (IF ok THEN 0 ELSE 1)
           l == Least(st.recent + 1, RecentLimit)
<1>0. /\ st.active \in ActiveType /\ st.methods \in [Methods -> Count]
      /\ st.recent \in 0..RecentLimit
      /\ st.sessions \in Nat /\ st.requests \in Nat /\ st.errors \in Nat
  BY StateFacts
<1>1. a \in ActiveType /\ DOMAIN a = DOMAIN st.active
  <2>1. /\ DOMAIN st.active \subseteq Peers
        /\ \A p \in DOMAIN st.active :
             (IF p = peer THEN Counted(st.active[p], ok) ELSE st.active[p]) \in Count
    BY <1>0, ActiveFacts, CountFacts
  <2>2. a \in [DOMAIN st.active -> Count]
    BY <2>1
  <2> QED BY <2>1, <2>2 DEF ActiveType
<1>2. m \in [Methods -> Count]
  BY <1>0, CountFacts
<1>3. e \in Nat /\ l \in 0..RecentLimit
  BY <1>0, MonitorAssumption DEF MonitorAssumption, Least
<1>4. Recorded(st, peer, method, ok) =
        [st EXCEPT !.requests = st.requests + 1, !.errors = e, !.methods = m,
                   !.active = a, !.recent = l]
  BY DEF Recorded, MonitorType
<1>5. /\ peer \in DOMAIN st.active => a[peer] = Counted(st.active[peer], ok)
      /\ \A p \in DOMAIN st.active \ {peer} : a[p] = st.active[p]
      /\ m[method] = Counted(st.methods[method], ok)
      /\ \A n \in Methods \ {method} : m[n] = st.methods[n]
  BY <1>0
<1> HIDE DEF a, m, e, l
<1>6. st.requests + 1 \in Nat
  BY <1>0
<1>7. Recorded(st, peer, method, ok) \in MonitorType
  BY <1>1, <1>2, <1>3, <1>4, <1>6 DEF MonitorType
<1>8. LET to == Recorded(st, peer, method, ok)
      IN  /\ to.active = a /\ to.methods = m /\ to.errors = e /\ to.recent = l
          /\ to.requests = st.requests + 1 /\ to.sessions = st.sessions
  BY <1>4 DEF MonitorType
<1> QED BY <1>1, <1>5, <1>7, <1>8 DEF e, l

-----------------------------------------------------------------------------
(* The monitor's figures *)

Counts(c) == [p \in DOMAIN c |-> c[p].count]
Errors(c) == [p \in DOMAIN c |-> c[p].errors]

LEMMA CountsFacts ==
  ASSUME NEW c, \A p \in DOMAIN c : c[p] \in Count
  PROVE  /\ Handled(c) = SumFunction(Counts(c)) /\ Failed(c) = SumFunction(Errors(c))
         /\ DOMAIN Counts(c) = DOMAIN c /\ DOMAIN Errors(c) = DOMAIN c
         /\ \A p \in DOMAIN c : /\ Counts(c)[p] = c[p].count /\ c[p].count \in Nat
                                /\ Errors(c)[p] = c[p].errors /\ c[p].errors \in Nat
BY DEF Handled, Failed, Counts, Errors, Count

\* A map of counters changes at x only.
LEMMA FiguresMove ==
  ASSUME NEW c, IsFiniteSet(DOMAIN c), \A p \in DOMAIN c : c[p] \in Count,
         NEW d, IsFiniteSet(DOMAIN d), \A p \in DOMAIN d : d[p] \in Count,
         NEW x, DOMAIN d \ {x} = DOMAIN c \ {x}, \A p \in DOMAIN c \ {x} : d[p] = c[p]
  PROVE  LET was == IF x \in DOMAIN c THEN c[x] ELSE NoneYet
             is == IF x \in DOMAIN d THEN d[x] ELSE NoneYet
         IN  /\ Handled(d) + was.count = Handled(c) + is.count
             /\ Failed(d) + was.errors = Failed(c) + is.errors
             /\ {Handled(c), Handled(d), Failed(c), Failed(d)} \subseteq Nat
             /\ was \in Count /\ is \in Count
<1> DEFINE was == IF x \in DOMAIN c THEN c[x] ELSE NoneYet
           is == IF x \in DOMAIN d THEN d[x] ELSE NoneYet
<1>1. /\ Handled(c) = SumFunction(Counts(c)) /\ Failed(c) = SumFunction(Errors(c))
      /\ DOMAIN Counts(c) = DOMAIN c /\ DOMAIN Errors(c) = DOMAIN c
      /\ \A p \in DOMAIN c : /\ Counts(c)[p] = c[p].count /\ c[p].count \in Nat
                             /\ Errors(c)[p] = c[p].errors /\ c[p].errors \in Nat
  BY CountsFacts
<1>2. /\ Handled(d) = SumFunction(Counts(d)) /\ Failed(d) = SumFunction(Errors(d))
      /\ DOMAIN Counts(d) = DOMAIN d /\ DOMAIN Errors(d) = DOMAIN d
      /\ \A p \in DOMAIN d : /\ Counts(d)[p] = d[p].count /\ d[p].count \in Nat
                             /\ Errors(d)[p] = d[p].errors /\ d[p].errors \in Nat
  BY CountsFacts
<1>3. /\ Share(Counts(c), x) = was.count /\ Share(Errors(c), x) = was.errors
      /\ Share(Counts(d), x) = is.count /\ Share(Errors(d), x) = is.errors
  BY <1>1, <1>2 DEF Share, NoneYet
<1>4. \A p \in DOMAIN c \ {x} : p \in DOMAIN d /\ p \in DOMAIN c
  OBVIOUS
<1>5. /\ SumFunction(Counts(d)) + Share(Counts(c), x) = SumFunction(Counts(c)) + Share(Counts(d), x)
      /\ SumFunction(Counts(c)) \in Nat /\ SumFunction(Counts(d)) \in Nat
  <2>1. /\ \A p \in DOMAIN Counts(c) : Counts(c)[p] \in Nat
        /\ \A p \in DOMAIN Counts(d) : Counts(d)[p] \in Nat
        /\ \A p \in DOMAIN Counts(c) \ {x} : Counts(d)[p] = Counts(c)[p]
    BY <1>1, <1>2, <1>4
  <2> QED BY <1>1, <1>2, <2>1, SumMoves
<1>6. /\ SumFunction(Errors(d)) + Share(Errors(c), x) = SumFunction(Errors(c)) + Share(Errors(d), x)
      /\ SumFunction(Errors(c)) \in Nat /\ SumFunction(Errors(d)) \in Nat
  <2>1. /\ \A p \in DOMAIN Errors(c) : Errors(c)[p] \in Nat
        /\ \A p \in DOMAIN Errors(d) : Errors(d)[p] \in Nat
        /\ \A p \in DOMAIN Errors(c) \ {x} : Errors(d)[p] = Errors(c)[p]
    BY <1>1, <1>2, <1>4
  <2> QED BY <1>1, <1>2, <2>1, SumMoves
<1>7. was \in Count /\ is \in Count
  BY CountFacts
<1> HIDE DEF was, is
<1>8. /\ Handled(d) + was.count = Handled(c) + is.count
      /\ Failed(d) + was.errors = Failed(c) + is.errors
      /\ {Handled(c), Handled(d), Failed(c), Failed(d)} \subseteq Nat
  BY <1>1, <1>2, <1>3, <1>5, <1>6
<1> QED BY <1>7, <1>8 DEF was, is

LEMMA FiguresNone ==
  ASSUME NEW c, IsFiniteSet(DOMAIN c), \A p \in DOMAIN c : c[p] = NoneYet
  PROVE  Handled(c) = 0 /\ Failed(c) = 0
<1>1. /\ Handled(c) = SumFunction(Counts(c)) /\ Failed(c) = SumFunction(Errors(c))
      /\ DOMAIN Counts(c) = DOMAIN c /\ DOMAIN Errors(c) = DOMAIN c
      /\ \A p \in DOMAIN c : Counts(c)[p] = c[p].count /\ Errors(c)[p] = c[p].errors
  BY CountsFacts, CountFacts
<1>2. /\ \A p \in DOMAIN Counts(c) : Counts(c)[p] = 0
      /\ \A p \in DOMAIN Errors(c) : Errors(c)[p] = 0
  BY <1>1 DEF NoneYet
<1> QED BY <1>1, <1>2, SumZero

LEMMA MapFacts ==
  ASSUME NEW st \in MonitorType
  PROVE  /\ \A p \in DOMAIN st.active : st.active[p] \in Count
         /\ DOMAIN st.methods = Methods /\ IsFiniteSet(DOMAIN st.methods)
         /\ \A m \in DOMAIN st.methods : st.methods[m] \in Count
<1>1. st.active \in ActiveType /\ st.methods \in [Methods -> Count]
  BY StateFacts
<1>2. \A p \in DOMAIN st.active : st.active[p] \in Count
  BY <1>1, ActiveFacts
<1>3. IsFiniteSet(Methods)
  BY MonitorAssumption DEF MonitorAssumption
<1> QED BY <1>1, <1>2, <1>3

LEMMA NoStateAgrees == Agree(NoState)
<1>1. /\ NoState \in MonitorType /\ DOMAIN NoState.active = {}
      /\ NoState.recent = 0 /\ NoState.requests = 0 /\ NoState.errors = 0 /\ NoState.sessions = 0
  BY NoStateTyped DEF NoState
<1>2. /\ DOMAIN NoState.methods = Methods /\ IsFiniteSet(DOMAIN NoState.methods)
      /\ \A m \in Methods : NoState.methods[m] = NoneYet
  BY <1>1, MapFacts DEF NoState
<1>3. Handled(NoState.methods) = 0 /\ Failed(NoState.methods) = 0
  BY <1>2, FiguresNone
<1>4. Handled(NoState.active) = 0 /\ Failed(NoState.active) = 0
        /\ Cardinality(DOMAIN NoState.active) = 0
  BY <1>1, FS_EmptySet, FiguresNone
<1> QED BY <1>1, <1>3, <1>4, MonitorAssumption DEF MonitorAssumption, Agree, Least

LEMMA OpenedAgrees ==
  ASSUME NEW st \in MonitorType, IsFiniteSet(DOMAIN st.active), Agree(st), NEW peer \in Peers
  PROVE  Agree(Opened(st, peer))
<1> DEFINE to == Opened(st, peer)
<1>1. /\ to \in MonitorType /\ DOMAIN to.active = DOMAIN st.active \cup {peer}
      /\ to.active[peer] = NoneYet
      /\ \A p \in DOMAIN st.active \ {peer} : to.active[p] = st.active[p]
      /\ to.sessions = st.sessions + 1 /\ to.methods = st.methods
      /\ to.recent = st.recent /\ to.requests = st.requests /\ to.errors = st.errors
  BY OpenedTyped
<1> HIDE DEF to
<1>2. IsFiniteSet(DOMAIN to.active) /\ Cardinality(DOMAIN to.active) <= Cardinality(DOMAIN st.active) + 1
        /\ Cardinality(DOMAIN to.active) \in Nat /\ Cardinality(DOMAIN st.active) \in Nat
  <2>1. /\ IsFiniteSet(DOMAIN st.active \cup {peer})
        /\ Cardinality(DOMAIN st.active \cup {peer}) =
             IF peer \in DOMAIN st.active THEN Cardinality(DOMAIN st.active)
             ELSE Cardinality(DOMAIN st.active) + 1
    BY FS_AddElement
  <2>2. Cardinality(DOMAIN st.active) \in Nat
    BY FS_CardinalityType
  <2> QED BY <1>1, <2>1, <2>2
<1>3. /\ \A p \in DOMAIN st.active : st.active[p] \in Count
      /\ \A p \in DOMAIN to.active : to.active[p] \in Count
  BY <1>1, MapFacts
<1>4. Handled(to.active) <= Handled(st.active) /\ Failed(to.active) <= Failed(st.active)
        /\ {Handled(st.active), Handled(to.active), Failed(st.active), Failed(to.active)} \subseteq Nat
  <2> DEFINE was == IF peer \in DOMAIN st.active THEN st.active[peer] ELSE NoneYet
             is == IF peer \in DOMAIN to.active THEN to.active[peer] ELSE NoneYet
  <2>1. /\ DOMAIN to.active \ {peer} = DOMAIN st.active \ {peer}
        /\ \A p \in DOMAIN st.active \ {peer} : to.active[p] = st.active[p]
    BY <1>1
  <2>2. /\ Handled(to.active) + was.count = Handled(st.active) + is.count
        /\ Failed(to.active) + was.errors = Failed(st.active) + is.errors
        /\ {Handled(st.active), Handled(to.active), Failed(st.active), Failed(to.active)} \subseteq Nat
        /\ was \in Count
    BY <1>2, <1>3, <2>1, FiguresMove
  <2>3. is.count = 0 /\ is.errors = 0
    BY <1>1 DEF NoneYet
  <2> HIDE DEF was, is
  <2> QED BY <2>2, <2>3 DEF Count
<1>5. st.sessions \in Nat /\ st.requests \in Nat /\ st.errors \in Nat
  BY StateFacts
<1>6. Agree(to)
  BY <1>1, <1>2, <1>4, <1>5 DEF Agree
<1> QED BY <1>6 DEF to

LEMMA EndedAgrees ==
  ASSUME NEW st \in MonitorType, IsFiniteSet(DOMAIN st.active), Agree(st), NEW peer
  PROVE  Agree(Ended(st, peer))
<1> DEFINE to == Ended(st, peer)
<1>1. /\ to \in MonitorType /\ DOMAIN to.active = DOMAIN st.active \ {peer}
      /\ \A p \in DOMAIN st.active \ {peer} : to.active[p] = st.active[p]
      /\ to.sessions = st.sessions /\ to.methods = st.methods
      /\ to.recent = st.recent /\ to.requests = st.requests /\ to.errors = st.errors
  BY EndedTyped
<1> HIDE DEF to
<1>2. IsFiniteSet(DOMAIN to.active) /\ Cardinality(DOMAIN to.active) <= Cardinality(DOMAIN st.active)
        /\ Cardinality(DOMAIN to.active) \in Nat /\ Cardinality(DOMAIN st.active) \in Nat
  <2>1. DOMAIN to.active \subseteq DOMAIN st.active
    BY <1>1
  <2> QED BY <2>1, FS_Subset, FS_CardinalityType
<1>3. /\ \A p \in DOMAIN st.active : st.active[p] \in Count
      /\ \A p \in DOMAIN to.active : to.active[p] \in Count
  BY <1>1, MapFacts
<1>4. Handled(to.active) <= Handled(st.active) /\ Failed(to.active) <= Failed(st.active)
        /\ {Handled(st.active), Handled(to.active), Failed(st.active), Failed(to.active)} \subseteq Nat
  <2> DEFINE was == IF peer \in DOMAIN st.active THEN st.active[peer] ELSE NoneYet
             is == IF peer \in DOMAIN to.active THEN to.active[peer] ELSE NoneYet
  <2>1. DOMAIN to.active \ {peer} = DOMAIN st.active \ {peer}
    BY <1>1
  <2>2. /\ Handled(to.active) + was.count = Handled(st.active) + is.count
        /\ Failed(to.active) + was.errors = Failed(st.active) + is.errors
        /\ {Handled(st.active), Handled(to.active), Failed(st.active), Failed(to.active)} \subseteq Nat
        /\ was \in Count
    BY <1>1, <1>2, <1>3, <2>1, FiguresMove
  <2>3. is.count = 0 /\ is.errors = 0
    BY <1>1 DEF NoneYet
  <2> HIDE DEF was, is
  <2> QED BY <2>2, <2>3 DEF Count
<1>5. st.sessions \in Nat /\ st.requests \in Nat /\ st.errors \in Nat
  BY StateFacts
<1>6. Agree(to)
  BY <1>1, <1>2, <1>4, <1>5 DEF Agree
<1> QED BY <1>6 DEF to

LEMMA ResetAgrees ==
  ASSUME NEW st \in MonitorType, IsFiniteSet(DOMAIN st.active)
  PROVE  Agree(Reset(st))
<1> DEFINE to == Reset(st)
<1>1. /\ DOMAIN to.active = DOMAIN st.active /\ \A p \in DOMAIN st.active : to.active[p] = NoneYet
      /\ to.sessions = Cardinality(DOMAIN st.active) /\ to.methods = NoState.methods
      /\ to.recent = 0 /\ to.requests = 0 /\ to.errors = 0
  BY ResetTyped
<1> HIDE DEF to
<1>2. Handled(to.active) = 0 /\ Failed(to.active) = 0
  BY <1>1, FiguresNone
<1>3. Handled(NoState.methods) = 0 /\ Failed(NoState.methods) = 0
  BY NoStateAgrees DEF Agree, NoState
<1>4. Cardinality(DOMAIN st.active) \in Nat
  BY FS_CardinalityType
<1>5. Agree(to)
  BY <1>1, <1>2, <1>3, <1>4, MonitorAssumption DEF MonitorAssumption, Agree, Least
<1> QED BY <1>5 DEF to

LEMMA RecordedAgrees ==
  ASSUME NEW st \in MonitorType, IsFiniteSet(DOMAIN st.active), Agree(st),
         NEW peer, NEW method \in Methods, NEW ok \in BOOLEAN
  PROVE  /\ Recorded(st, peer, method, ok) \in MonitorType
         /\ DOMAIN Recorded(st, peer, method, ok).active = DOMAIN st.active
         /\ Agree(Recorded(st, peer, method, ok))
<1> DEFINE to == Recorded(st, peer, method, ok)
           miss == IF ok THEN 0 ELSE 1
<1>1. /\ to \in MonitorType /\ DOMAIN to.active = DOMAIN st.active
      /\ peer \in DOMAIN st.active => to.active[peer] = Counted(st.active[peer], ok)
      /\ \A p \in DOMAIN st.active \ {peer} : to.active[p] = st.active[p]
      /\ to.methods[method] = Counted(st.methods[method], ok)
      /\ \A m \in Methods \ {method} : to.methods[m] = st.methods[m]
      /\ to.sessions = st.sessions /\ to.recent = Least(st.recent + 1, RecentLimit)
      /\ to.requests = st.requests + 1 /\ to.errors = st.errors + miss
  BY RecordedTyped
<1> HIDE DEF to
<1>2. miss \in {0, 1} /\ \A c \in Count : /\ Counted(c, ok).count = c.count + 1
                                          /\ Counted(c, ok).errors = c.errors + miss
                                          /\ c.count \in Nat /\ c.errors \in Nat
  BY DEF Counted, Count
<1> HIDE DEF miss
<1>3. /\ \A p \in DOMAIN st.active : st.active[p] \in Count
      /\ \A p \in DOMAIN to.active : to.active[p] \in Count
      /\ DOMAIN st.methods = Methods /\ IsFiniteSet(DOMAIN st.methods)
      /\ \A m \in DOMAIN st.methods : st.methods[m] \in Count
      /\ DOMAIN to.methods = Methods /\ IsFiniteSet(DOMAIN to.methods)
      /\ \A m \in DOMAIN to.methods : to.methods[m] \in Count
  BY <1>1, MapFacts
<1>4. /\ Handled(to.methods) = Handled(st.methods) + 1
      /\ Failed(to.methods) = Failed(st.methods) + miss
  <2> DEFINE was == IF method \in DOMAIN st.methods THEN st.methods[method] ELSE NoneYet
             is == IF method \in DOMAIN to.methods THEN to.methods[method] ELSE NoneYet
  <2>1. /\ DOMAIN to.methods \ {method} = DOMAIN st.methods \ {method}
        /\ \A m \in DOMAIN st.methods \ {method} : to.methods[m] = st.methods[m]
    BY <1>1, <1>3
  <2>2. /\ Handled(to.methods) + was.count = Handled(st.methods) + is.count
        /\ Failed(to.methods) + was.errors = Failed(st.methods) + is.errors
        /\ {Handled(st.methods), Handled(to.methods), Failed(st.methods), Failed(to.methods)} \subseteq Nat
        /\ was \in Count
    BY <1>3, <2>1, FiguresMove
  <2>3. is.count = was.count + 1 /\ is.errors = was.errors + miss
    BY <1>1, <1>2, <1>3
  <2> HIDE DEF was, is
  <2>4. was.count \in Nat /\ was.errors \in Nat
    BY <2>2 DEF Count
  <2> QED BY <1>2, <2>2, <2>3, <2>4
<1>5. /\ Handled(to.active) <= Handled(st.active) + 1
      /\ Failed(to.active) <= Failed(st.active) + miss
      /\ {Handled(st.active), Handled(to.active), Failed(st.active), Failed(to.active)} \subseteq Nat
  <2> DEFINE was == IF peer \in DOMAIN st.active THEN st.active[peer] ELSE NoneYet
             is == IF peer \in DOMAIN to.active THEN to.active[peer] ELSE NoneYet
  <2>1. /\ Handled(to.active) + was.count = Handled(st.active) + is.count
        /\ Failed(to.active) + was.errors = Failed(st.active) + is.errors
        /\ {Handled(st.active), Handled(to.active), Failed(st.active), Failed(to.active)} \subseteq Nat
        /\ was \in Count
    <3>1. /\ DOMAIN to.active \ {peer} = DOMAIN st.active \ {peer}
          /\ IsFiniteSet(DOMAIN to.active)
      BY <1>1
    <3> QED BY <1>1, <1>3, <3>1, FiguresMove
  <2>2. \/ is = was
        \/ is.count = was.count + 1 /\ is.errors = was.errors + miss
    BY <1>1, <1>2, <1>3
  <2> HIDE DEF was, is
  <2>3. was.count \in Nat /\ was.errors \in Nat
    BY <2>1 DEF Count
  <2> QED BY <1>2, <2>1, <2>2, <2>3
<1>6. st.sessions \in Nat /\ st.requests \in Nat /\ st.errors \in Nat
  BY StateFacts
<1>7. to.recent = Least(to.requests, RecentLimit)
  BY <1>1, <1>6, MonitorAssumption DEF MonitorAssumption, Agree, Least
<1>8. Agree(to)
  BY <1>1, <1>2, <1>4, <1>5, <1>6, <1>7 DEF Agree
<1>9. to \in MonitorType /\ DOMAIN to.active = DOMAIN st.active
  BY <1>1
<1> QED BY <1>8, <1>9 DEF to

\* The monitor keeps its type when a session changes it; the snapshot of that
\* session is then to be written.
LEMMA UpdateKeeps ==
  ASSUME MonitorInv, NEW s \in Sessions, NEW next \in MonitorType,
         IsFiniteSet(DOMAIN next.active), Agree(next), Update(s, next)
  PROVE  MonitorInv'
<1>1. state' = next /\ unsaved' = unsaved \cup {s} /\ file' = file
  BY DEF Update
<1>2. unsaved' # {} /\ unsaved' \subseteq Sessions
  BY <1>1 DEF MonitorInv
<1>3. file' \in MonitorType \cup {Old}
  BY <1>1 DEF MonitorInv
<1>4. FiguresAgree'
  BY <1>1 DEF FiguresAgree
<1> QED BY <1>1, <1>2, <1>3, <1>4 DEF MonitorInv, SnapshotFresh

LEMMA MonitorStutters ==
  ASSUME MonitorInv, UNCHANGED monitorVars
  PROVE  MonitorInv'
BY DEF MonitorInv, monitorVars, FiguresAgree, SnapshotFresh

-----------------------------------------------------------------------------
(* The clients the monitor shows *)

\* Sessions under way have addresses of their own, as far as it was never
\* otherwise.
Apart ==
  ~shared => \A s, t \in Sessions :
    Live(s) /\ Live(t) /\ session[s].peer = session[t].peer => s = t

\* No session comes or goes, nor an entry of the monitor.
LEMMA ActiveStays ==
  ASSUME ActiveExact, Apart, shared' = shared,
         DOMAIN state'.active = DOMAIN state.active,
         \A t \in Sessions : session'[t].peer = session[t].peer /\ (Live(t)' <=> Live(t))
  PROVE  ActiveExact' /\ Apart'
<1>1. LivePeers' = LivePeers
  BY DEF LivePeers
<1> QED BY <1>1 DEF ActiveExact, Apart

LEMMA ActiveOpens ==
  ASSUME ActiveExact, Apart, NEW s \in Sessions, ~Live(s), NEW p,
         \A t \in Sessions \ {s} : session'[t] = session[t],
         session'[s].at = "idle", session'[s].peer = p,
         shared' = (shared \/ \E t \in Sessions : Live(t) /\ session[t].peer = p),
         DOMAIN state'.active = DOMAIN state.active \cup {p}
  PROVE  ActiveExact' /\ Apart'
<1>1. \A t \in Sessions \ {s} : (Live(t)' <=> Live(t)) /\ session'[t].peer = session[t].peer
  BY DEF Live
<1>2. Live(s)' /\ session'[s].peer = p
  BY DEF Live
<1>3. \A q : q \in LivePeers' <=> q \in LivePeers \/ q = p
  BY <1>1, <1>2 DEF LivePeers
<1>4. ActiveExact'
  BY <1>3 DEF ActiveExact
<1>5. Apart'
  BY <1>1, <1>2 DEF Apart
<1> QED BY <1>4, <1>5

LEMMA ActiveEnds ==
  ASSUME ActiveExact, Apart, NEW s \in Sessions, Live(s),
         \A t \in Sessions \ {s} : session'[t] = session[t],
         session'[s].at = "closed", shared' = shared,
         DOMAIN state'.active = DOMAIN state.active \ {session[s].peer}
  PROVE  ActiveExact' /\ Apart'
<1>1. \A t \in Sessions \ {s} : (Live(t)' <=> Live(t)) /\ session'[t].peer = session[t].peer
  BY DEF Live
<1>2. ~Live(s)'
  BY DEF Live
<1>3. \A q \in LivePeers : q # session[s].peer => q \in LivePeers'
  BY <1>1 DEF LivePeers
<1>4. LivePeers' \subseteq LivePeers
  BY <1>1, <1>2 DEF LivePeers
<1>5. ~shared => session[s].peer \notin LivePeers'
  BY <1>1, <1>2 DEF Apart, LivePeers
<1>6. ActiveExact'
  BY <1>3, <1>4, <1>5 DEF ActiveExact
<1>7. Apart'
  BY <1>1, <1>2 DEF Apart
<1> QED BY <1>6, <1>7

-----------------------------------------------------------------------------
(* The whole *)

\* The inductive invariant.
IInv == BroadcastInv /\ SessionsInv /\ MonitorInv /\ ActiveExact /\ Apart

\* A step of a submission leaves its payload and its route alone.
LEMMA PushRoutes ==
  ASSUME BroadcastInv, NEW c \in Callers, PushStep(c)
  PROVE  /\ \A d \in Callers : push'[d].payload = push[d].payload /\ push'[d].route = push[d].route
         /\ accepted \subseteq accepted'
<1>1. push \in [Callers -> PushType] /\ push[c] \in PushType
  BY DEF BroadcastInv, BroadcastTyped
<1>2. ASSUME NEW ok, NEW success, Ends(c, ok, success)
      PROVE  \A d \in Callers : push'[d].payload = push[d].payload /\ push'[d].route = push[d].route
  BY <1>1, <1>2 DEF Ends, PushType
<1>3. CASE Rpc(c)
  <2>1. \E ok, success : Ends(c, ok, success)
    BY <1>3 DEF Rpc, Breaks
  <2>2. accepted \subseteq accepted'
    BY <1>3 DEF Rpc
  <2> QED BY <1>2, <2>1, <2>2
<1>4. CASE PushFails(c) \/ PushTimeout(c)
  BY <1>2, <1>4 DEF PushFails, PushTimeout, Breaks
<1>5. CASE Handshake(c)
  BY <1>1, <1>5 DEF Handshake, PushType
<1>6. CASE Post(c)
  <2>1. accepted \subseteq accepted' /\ push' = [push EXCEPT ![c].at = "reply"]
    BY <1>6 DEF Post, Advance
  <2> QED BY <1>1, <2>1 DEF PushType
<1>7. CASE Reply(c)
  <2>1. (\E ok, success : Ends(c, ok, success)) /\ UNCHANGED accepted
    BY <1>7 DEF Reply
  <2> QED BY <1>2, <2>1
<1> QED BY <1>3, <1>4, <1>5, <1>6, <1>7 DEF PushStep

LEMMA PushNextKeeps ==
  ASSUME IInv, NEW c \in Callers, PushNext(c)
  PROVE  IInv'
<1>1. PushStep(c) /\ UNCHANGED <<monitorVars, session, shared>>
  BY DEF PushNext, UnchangedSessions
<1>2. BroadcastInv'
  BY <1>1, PushKeeps DEF IInv
<1>3. SessionsInv'
  BY <1>1, PushRoutes, SessionsStay, CallersAssumption DEF IInv, CallersAssumption
<1>4. MonitorInv'
  BY <1>1, MonitorStutters DEF IInv
<1>5. ActiveExact' /\ Apart'
  BY <1>1, ActiveStays DEF IInv, monitorVars, Live
<1> QED BY <1>2, <1>3, <1>4, <1>5 DEF IInv

LEMMA RestNextKeeps ==
  ASSUME IInv, NEW c \in RestCalls, RestNext(c)
  PROVE  IInv'
<1>1. RestStep(c) /\ UNCHANGED <<monitorVars, session, shared>>
  BY DEF RestNext, UnchangedSessions
<1>2. c \in Callers /\ \A t \in Sessions : t # c /\ t \in Callers
  BY CallersAssumption DEF CallersAssumption
<1>3. BroadcastInv'
  BY <1>1, <1>2, RestKeeps DEF IInv
<1>4. (\A t \in Sessions : push'[t] = push[t]) /\ accepted' = accepted
  <2>1. push \in [Callers -> PushType]
    BY DEF IInv, BroadcastInv, BroadcastTyped
  <2>2. (\E new : push' = [push EXCEPT ![c] = new]) /\ accepted' = accepted
    BY <1>1 DEF RestStep, RestBegin, RestTest, RestEnd
  <2> QED BY <1>2, <2>1, <2>2
<1>5. SessionsInv'
  BY <1>1, <1>4, SessionsStay DEF IInv
<1>6. MonitorInv'
  BY <1>1, MonitorStutters DEF IInv
<1>7. ActiveExact' /\ Apart'
  BY <1>1, ActiveStays DEF IInv, monitorVars, Live
<1> QED BY <1>3, <1>5, <1>6, <1>7 DEF IInv

LEMMA OpenKeeps ==
  ASSUME IInv, NEW s \in Sessions, Open(s)
  PROVE  IInv'
<1>1. /\ BroadcastInv /\ SessionsInv /\ MonitorInv /\ ActiveExact /\ Apart
      /\ session \in [Sessions -> SessionType] /\ state \in MonitorType
      /\ IsFiniteSet(DOMAIN state.active)
  BY DEF IInv, SessionsInv, MonitorInv
<1>2. ~Live(s) /\ UNCHANGED broadcastVars
  BY DEF Open, UnchangedBroadcast
<1>3. PICK p \in PeersOf[s] :
        /\ session' = [session EXCEPT ![s] =
                         [NoSession EXCEPT !.at = "idle", !.peer = p, !.version = ProtocolMax]]
        /\ shared' = (shared \/ \E t \in Sessions : Live(t) /\ session[t].peer = p)
        /\ Update(s, Opened(state, p))
  BY DEF Open
<1> DEFINE new == [NoSession EXCEPT !.at = "idle", !.peer = p, !.version = ProtocolMax]
<1>4. /\ Holds(s, new) /\ (\A taken : Matched(new, taken)) /\ (\A q : Awaits(new, q))
      /\ new.at = "idle" /\ new.peer = p
  BY OpenHolds
<1>5. session' = [session EXCEPT ![s] = new]
  BY <1>3
<1> HIDE DEF new
<1>6. p \in Peers
  BY DEF Peers
<1>7. /\ Opened(state, p) \in MonitorType
      /\ DOMAIN Opened(state, p).active = DOMAIN state.active \cup {p}
  BY <1>1, <1>6, OpenedTyped
<1>8. IsFiniteSet(DOMAIN state.active \cup {p})
  BY <1>1, FS_AddElement
<1>9. BroadcastInv'
  BY <1>1, <1>2, BroadcastStutters
<1>10. SessionsInv'
  BY <1>1, <1>2, <1>4, <1>5, SessionBecomes DEF broadcastVars
<1>11. MonitorInv'
  <2>1. Agree(Opened(state, p))
    BY <1>1, <1>6, OpenedAgrees DEF MonitorInv, FiguresAgree
  <2> QED BY <1>1, <1>3, <1>7, <1>8, <2>1, UpdateKeeps
<1>12. /\ \A t \in Sessions \ {s} : session'[t] = session[t]
       /\ session'[s].at = "idle" /\ session'[s].peer = p
       /\ DOMAIN state'.active = DOMAIN state.active \cup {p}
  BY <1>1, <1>3, <1>4, <1>5, <1>7 DEF Update
<1>13. ActiveExact' /\ Apart'
  BY <1>1, <1>2, <1>3, <1>12, ActiveOpens
<1> QED BY <1>9, <1>10, <1>11, <1>13 DEF IInv

LEMMA EndKeeps ==
  ASSUME IInv, NEW s \in Sessions, Live(s), End(s)
  PROVE  IInv'
<1>1. /\ BroadcastInv /\ SessionsInv /\ MonitorInv /\ ActiveExact /\ Apart
      /\ session \in [Sessions -> SessionType] /\ state \in MonitorType
      /\ IsFiniteSet(DOMAIN state.active)
  BY DEF IInv, SessionsInv, MonitorInv
<1> DEFINE p == session[s].peer
<1>2. /\ UNCHANGED broadcastVars /\ session' = [session EXCEPT ![s] = NoSession]
      /\ Update(s, Ended(state, p)) /\ shared' = shared
  BY DEF End, UnchangedBroadcast
<1>3. /\ Ended(state, p) \in MonitorType
      /\ DOMAIN Ended(state, p).active = DOMAIN state.active \ {p}
  BY <1>1, EndedTyped
<1>4. IsFiniteSet(DOMAIN state.active \ {p})
  BY <1>1, FS_Subset
<1>5. BroadcastInv'
  BY <1>1, <1>2, BroadcastStutters
<1>6. SessionsInv'
  BY <1>1, <1>2, NoSessionHolds, SessionBecomes DEF broadcastVars
<1>7. MonitorInv'
  <2>1. Agree(Ended(state, p))
    BY <1>1, EndedAgrees DEF MonitorInv, FiguresAgree
  <2> QED BY <1>1, <1>2, <1>3, <1>4, <2>1, UpdateKeeps
<1>8. NoSession.at = "closed"
  BY DEF NoSession
<1>9. /\ \A t \in Sessions \ {s} : session'[t] = session[t]
      /\ session'[s].at = "closed"
      /\ DOMAIN state'.active = DOMAIN state.active \ {p}
  BY <1>1, <1>2, <1>3, <1>8 DEF Update
<1>10. ActiveExact' /\ Apart'
  BY <1>1, <1>2, <1>9, ActiveEnds
<1> QED BY <1>5, <1>6, <1>7, <1>10 DEF IInv

\* What a recorded request does to the monitor.
LEMMA RecordedKeeps ==
  ASSUME IInv, NEW s \in Sessions, NEW peer, NEW method \in Methods, NEW ok \in BOOLEAN,
         Update(s, Recorded(state, peer, method, ok)), shared' = shared,
         \A t \in Sessions : session'[t].peer = session[t].peer /\ (Live(t)' <=> Live(t))
  PROVE  MonitorInv' /\ ActiveExact' /\ Apart'
<1>1. /\ MonitorInv /\ ActiveExact /\ Apart /\ state \in MonitorType
      /\ IsFiniteSet(DOMAIN state.active)
  BY DEF IInv, MonitorInv
<1> DEFINE to == Recorded(state, peer, method, ok)
<1>2. to \in MonitorType /\ DOMAIN to.active = DOMAIN state.active /\ Agree(to)
  <2>1. Agree(state)
    BY <1>1 DEF MonitorInv, FiguresAgree
  <2> QED BY <1>1, <2>1, RecordedAgrees
<1> HIDE DEF to
<1>3. Update(s, to)
  BY DEF to
<1>4. MonitorInv'
  BY <1>1, <1>2, <1>3, UpdateKeeps
<1>5. DOMAIN state'.active = DOMAIN state.active
  BY <1>2, <1>3 DEF Update
<1> QED BY <1>1, <1>4, <1>5, ActiveStays

LEMMA ReceiveInv ==
  ASSUME IInv, NEW s \in Sessions, Receive(s)
  PROVE  IInv'
<1>1. UNCHANGED broadcastVars /\ shared' = shared
  BY DEF Receive, UnchangedBroadcast
<1>2. BroadcastInv'
  BY <1>1, BroadcastStutters DEF IInv
<1>3. /\ SessionsInv'
      /\ \A t \in Sessions : session'[t].peer = session[t].peer /\ (Live(t)' <=> Live(t))
  BY ReceiveKeeps DEF IInv
<1>4. \/ UNCHANGED monitorVars
      \/ \E method \in Methods : Update(s, Recorded(state, session[s].peer, method, FALSE))
  <2>1. {"parse_error", "batch"} \subseteq Methods
    BY LinesAssumption DEF LinesAssumption
  <2>2. \/ UNCHANGED monitorVars
        \/ Update(s, Recorded(state, session[s].peer, "parse_error", FALSE))
        \/ Update(s, Recorded(state, session[s].peer, "batch", FALSE))
    BY DEF Receive, RefuseLine
  <2> QED BY <2>1, <2>2
<1>5. MonitorInv' /\ ActiveExact' /\ Apart'
  <2>1. CASE UNCHANGED monitorVars
    <3>1. MonitorInv'
      BY <2>1, MonitorStutters DEF IInv
    <3> QED BY <1>1, <1>3, <2>1, <3>1, ActiveStays DEF IInv, monitorVars
  <2>2. CASE \E method \in Methods : Update(s, Recorded(state, session[s].peer, method, FALSE))
    BY <1>1, <1>3, <2>2, RecordedKeeps
  <2> QED BY <1>4, <2>1, <2>2
<1> QED BY <1>2, <1>3, <1>5 DEF IInv

\* A request of whichever method is done with.
LEMMA RecordInv ==
  ASSUME IInv, BroadcastInv', NEW s \in Sessions, session[s].at \in {"serve", "await"},
         NEW ok \in BOOLEAN, Record(s, ok), UNCHANGED accepted,
         Request(s).method = "version" /\ ok => Wanted(Request(s).arg) # None,
         Request(s).method = "broadcast" /\ SaysTaken(Request(s).arg, ok, push[s].success) =>
           Request(s).arg \in accepted,
         \A t \in Sessions \ {s} : push'[t].payload = push[t].payload /\ push'[t].route = push[t].route
  PROVE  IInv'
<1>1. /\ SessionsInv'
      /\ \A t \in Sessions : session'[t].peer = session[t].peer /\ (Live(t)' <=> Live(t))
  <2>1. push[s].success \in BOOLEAN
    BY CallersAssumption DEF IInv, BroadcastInv, BroadcastTyped, PushType, CallersAssumption
  <2> QED BY <2>1, RecordKeeps DEF IInv
<1>2. Request(s).method \in Methods
  <2>1. Holds(s, session[s])
    BY DEF IInv, SessionsInv
  <2>2. session[s].line \in LinesOf[s] /\ session[s].next \in 1..Len(session[s].line.requests)
    BY <2>1 DEF Holds
  <2> QED BY <2>2, LineFacts DEF Request
<1>3. Update(s, Recorded(state, session[s].peer, Request(s).method, ok)) /\ shared' = shared
  BY DEF Record
<1>4. MonitorInv' /\ ActiveExact' /\ Apart'
  BY <1>1, <1>2, <1>3, RecordedKeeps
<1> QED BY <1>1, <1>4 DEF IInv

\* A session goes from serving a request to waiting for what came of it.
LEMMA AwaitKeeps ==
  ASSUME SessionsInv, NEW s \in Sessions, session[s].at = "serve",
         session' = [session EXCEPT ![s].at = "await"], UNCHANGED accepted,
         Request(s).method = "broadcast" =>
           push'[s].payload = Request(s).arg /\ push'[s].route = "electrum",
         \A t \in Sessions \ {s} : push'[t].payload = push[t].payload /\ push'[t].route = push[t].route
  PROVE  /\ SessionsInv'
         /\ \A t \in Sessions : session'[t].peer = session[t].peer /\ (Live(t)' <=> Live(t))
<1> DEFINE r == session[s]
           new == [r EXCEPT !.at = "await"]
<1>1. /\ session \in [Sessions -> SessionType] /\ r \in SessionType
      /\ Holds(s, r) /\ Matched(r, accepted)
  BY DEF SessionsInv
<1>2. /\ new \in SessionType /\ new.at = "await" /\ new.peer = r.peer
      /\ new.version = r.version /\ new.offer = r.offer /\ new.line = r.line
      /\ new.next = r.next /\ new.answers = r.answers
  BY <1>1 DEF SessionType, Places
<1>3. session' = [session EXCEPT ![s] = new]
  BY <1>1
<1> HIDE DEF new
<1>4. Holds(s, new)
  BY <1>1, <1>2 DEF Holds
<1>5. Matched(new, accepted')
  BY <1>1, <1>2 DEF Matched
<1>6. Awaits(new, push'[s])
  BY <1>2 DEF Awaits, Request
<1>7. SessionsInv'
  BY <1>3, <1>4, <1>5, <1>6, SessionBecomes
<1> QED BY <1>1, <1>2, <1>3, <1>7 DEF Live

LEMMA SessionNextKeeps ==
  ASSUME IInv, NEW s \in Sessions, SessionNext(s)
  PROVE  IInv'
<1>0. /\ BroadcastInv /\ SessionsInv /\ MonitorInv /\ ActiveExact /\ Apart
      /\ session \in [Sessions -> SessionType] /\ session[s] \in SessionType
      /\ push \in [Callers -> PushType] /\ s \in Callers
  BY CallersAssumption DEF CallersAssumption, IInv, SessionsInv, BroadcastInv, BroadcastTyped
<1>1. CASE Open(s)
  BY <1>1, OpenKeeps
<1>2. CASE Disconnect(s) \/ WriteFails(s)
  BY <1>2, EndKeeps DEF Disconnect, WriteFails, At, Live
<1>3. CASE Receive(s)
  BY <1>3, ReceiveInv
<1>4. ASSUME UNCHANGED broadcastVars
      PROVE  /\ BroadcastInv' /\ accepted' = accepted
             /\ \A t \in Sessions : push'[t].payload = push[t].payload /\ push'[t].route = push[t].route
  BY <1>0, <1>4, BroadcastStutters DEF broadcastVars
<1>5. CASE ServerVersion(s)
  <2>1. /\ session[s].at = "serve" /\ Request(s).method = "version"
        /\ Record(s, Wanted(Request(s).arg) # None) /\ UNCHANGED broadcastVars
    BY <1>5 DEF ServerVersion, Serving, At, UnchangedBroadcast
  <2> DEFINE ok == Wanted(Request(s).arg) # None
  <2>2. ok \in BOOLEAN /\ (ok => Wanted(Request(s).arg) # None) /\ Record(s, ok)
    BY <2>1
  <2> HIDE DEF ok
  <2> QED BY <1>4, <2>1, <2>2, RecordInv
<1>6. CASE Lookup(s)
  <2>1. /\ session[s].at = "serve" /\ Request(s).method = "query"
        /\ (\E ok \in BOOLEAN : Record(s, ok)) /\ UNCHANGED broadcastVars
    BY <1>6 DEF Lookup, Serving, At, UnchangedBroadcast
  <2> QED BY <1>4, <2>1, RecordInv
<1>7. CASE NodeFee(s)
  <2>1. /\ session[s].at = "serve" /\ Request(s).method \in {"estimatefee", "relayfee"}
        /\ (\E ok \in BOOLEAN : Record(s, ok)) /\ UNCHANGED broadcastVars
    BY <1>7 DEF NodeFee, Serving, At, UnchangedBroadcast
  <2> QED BY <1>4, <2>1, RecordInv
<1>8. CASE ResetMonitor(s)
  <2>1. /\ session[s].at = "serve" /\ Request(s).method = "reset_monitor"
        /\ session' = [session EXCEPT ![s].at = "await"]
        /\ Update(s, Reset(state)) /\ UNCHANGED broadcastVars /\ shared' = shared
    BY <1>8 DEF ResetMonitor, Serving, At, UnchangedBroadcast
  <2>2. /\ SessionsInv'
        /\ \A t \in Sessions : session'[t].peer = session[t].peer /\ (Live(t)' <=> Live(t))
    BY <1>0, <1>4, <2>1, AwaitKeeps
  <2>3. /\ state \in MonitorType /\ IsFiniteSet(DOMAIN state.active)
    BY <1>0 DEF MonitorInv
  <2>4. Reset(state) \in MonitorType /\ DOMAIN Reset(state).active = DOMAIN state.active
    BY <2>3, ResetTyped
  <2>5. MonitorInv'
    BY <1>0, <2>1, <2>3, <2>4, ResetAgrees, UpdateKeeps
  <2>6. DOMAIN state'.active = DOMAIN state.active
    BY <2>1, <2>4 DEF Update
  <2>7. ActiveExact' /\ Apart'
    BY <1>0, <2>1, <2>2, <2>6, ActiveStays
  <2> QED BY <1>4, <2>1, <2>2, <2>5, <2>7 DEF IInv
<1>9. CASE ResetDone(s)
  <2>1. /\ session[s].at = "await" /\ Request(s).method = "reset_monitor"
        /\ Record(s, TRUE) /\ UNCHANGED broadcastVars
    BY <1>9 DEF ResetDone, At, UnchangedBroadcast
  <2> QED BY <1>4, <2>1, RecordInv
<1>10. CASE Broadcast(s)
  <2> DEFINE new == IF Request(s).arg = None THEN Refusing(None, "electrum")
                    ELSE Submit(Request(s).arg, "electrum")
  <2>1. /\ session[s].at = "serve" /\ Request(s).method = "broadcast"
        /\ session' = [session EXCEPT ![s].at = "await"]
        /\ push' = [push EXCEPT ![s] = new]
        /\ UNCHANGED <<via, seq, node, posted, accepted, monitorVars, shared>>
    BY <1>10 DEF Broadcast, Serving, At
  <2>2. Request(s).arg \in Payloads \cup {None}
    <3>1. Holds(s, session[s])
      BY <1>0 DEF SessionsInv
    <3>2. session[s].line \in LinesOf[s] /\ session[s].next \in 1..Len(session[s].line.requests)
      BY <2>1, <3>1 DEF Holds
    <3> QED BY <2>1, <3>2, LineFacts DEF Request
  <2>3. Begun(new, Request(s).arg, "electrum")
    <3>1. "electrum" \in Routes /\ via \in {"tor", "bitcoind"}
      BY <1>0 DEF Routes, BroadcastInv, BroadcastTyped
    <3>2. CASE Request(s).arg = None
      BY <3>1, <3>2, Starts
    <3>3. CASE Request(s).arg # None
      BY <2>2, <3>1, <3>3, SubmissionsStart
    <3> QED BY <3>2, <3>3
  <2> HIDE DEF new
  <2>4. Becomes(s, new)
    BY <2>1 DEF Becomes
  <2>5. BroadcastInv'
    BY <1>0, <2>3, <2>4, BegunKeeps
  <2>6. /\ push'[s].payload = Request(s).arg /\ push'[s].route = "electrum"
        /\ \A t \in Sessions \ {s} : push'[t] = push[t]
    BY <1>0, <2>1, <2>3, CallersAssumption DEF CallersAssumption, Begun
  <2>7. /\ SessionsInv'
        /\ \A t \in Sessions : session'[t].peer = session[t].peer /\ (Live(t)' <=> Live(t))
    BY <1>0, <2>1, <2>6, AwaitKeeps
  <2>8. MonitorInv'
    BY <1>0, <2>1, MonitorStutters
  <2>9. ActiveExact' /\ Apart'
    BY <1>0, <2>1, <2>7, ActiveStays DEF monitorVars
  <2> QED BY <2>5, <2>7, <2>8, <2>9 DEF IInv
<1>11. CASE Submitted(s)
  <2>1. /\ session[s].at = "await" /\ Request(s).method = "broadcast"
        /\ push[s].at = "done" /\ Record(s, push[s].ok)
        /\ push' = [push EXCEPT ![s] = NoPush]
        /\ UNCHANGED <<via, seq, node, posted, accepted>>
    BY <1>11 DEF Submitted, At
  <2>2. push[s].payload = Request(s).arg /\ push[s].route = "electrum"
    BY <1>0, <2>1 DEF SessionsInv, Awaits, Request
  <2>3. SaysTaken(Request(s).arg, push[s].ok, push[s].success) => Request(s).arg \in accepted
    BY <1>0, <2>1, <2>2 DEF BroadcastInv, SuccessIsAccepted
  <2>4. push[s].ok \in BOOLEAN
    BY <1>0 DEF PushType
  <2>5. NoPush \in PushType /\ NoPush.at = "idle"
    BY DEF NoPush, PushType
  <2>6. BroadcastInv'
    <3>1. Becomes(s, NoPush)
      BY <2>1 DEF Becomes
    <3> QED BY <1>0, <2>5, <3>1, BecomesKeeps
  <2>7. \A t \in Sessions \ {s} : push'[t] = push[t]
    BY <1>0, <2>1, CallersAssumption DEF CallersAssumption
  <2> QED BY <2>1, <2>3, <2>4, <2>6, <2>7, RecordInv
<1>12. CASE Write(s)
  <2>1. /\ session[s].at = "write" /\ session' = [session EXCEPT ![s] = Ready(session[s])]
        /\ UNCHANGED broadcastVars /\ UNCHANGED <<monitorVars, shared>>
    BY <1>0, <1>12 DEF Write, At, UnchangedBroadcast
  <2>2. session[s].peer \in PeersOf[s] /\ Speaks(session[s].version, session[s].offer)
    BY <1>0, <2>1 DEF SessionsInv, Holds
  <2>3. /\ Holds(s, Ready(session[s]))
        /\ \A taken : Matched(Ready(session[s]), taken)
        /\ \A p : Awaits(Ready(session[s]), p)
        /\ Ready(session[s]).at = "idle" /\ Ready(session[s]).peer = session[s].peer
    BY <1>0, <2>1, <2>2, ReadyHolds
  <2>4. SessionsInv'
    BY <1>0, <1>4, <2>1, <2>3, SessionBecomes
  <2>5. \A t \in Sessions : session'[t].peer = session[t].peer /\ (Live(t)' <=> Live(t))
    BY <1>0, <2>1, <2>3 DEF Live
  <2>6. MonitorInv'
    BY <1>0, <2>1, MonitorStutters
  <2>7. ActiveExact' /\ Apart'
    BY <1>0, <2>1, <2>5, ActiveStays DEF monitorVars
  <2> QED BY <1>4, <2>1, <2>4, <2>6, <2>7 DEF IInv
<1>13. CASE SaveMonitor(s)
  <2>1. /\ unsaved' = unsaved \ {s} /\ file' \in {state, Old} /\ state' = state
        /\ session' = session /\ shared' = shared /\ UNCHANGED broadcastVars
    BY <1>13 DEF SaveMonitor, WriteSnapshot, UnchangedBroadcast
  <2>2. MonitorInv'
    BY <1>0, <2>1 DEF MonitorInv, FiguresAgree, SnapshotFresh
  <2>3. SessionsInv'
    BY <1>0, <1>4, <2>1, SessionsStay
  <2>4. ActiveExact' /\ Apart'
    BY <1>0, <2>1, ActiveStays DEF Live
  <2> QED BY <1>4, <2>1, <2>2, <2>3, <2>4 DEF IInv
<1> QED BY <1>1, <1>2, <1>3, <1>5, <1>6, <1>7, <1>8, <1>9, <1>10, <1>11, <1>12, <1>13
  DEF SessionNext

LEMMA InitInv == Init => IInv
<1> SUFFICES ASSUME Init PROVE IInv
  OBVIOUS
<1>1. BroadcastInv
  BY BroadcastStarts DEF Init
<1>2. /\ session = [s \in Sessions |-> NoSession] /\ shared = FALSE
      /\ state = NoState /\ file = NoState /\ unsaved = {}
  BY DEF Init, MonitorInit
<1>3. \A s \in Sessions : session[s] = NoSession
  BY <1>2
<1>4. SessionsInv
  <2>1. ASSUME NEW s \in Sessions PROVE NoSession \in SessionType
    BY NoSessionHolds DEF Holds
  <2>2. session \in [Sessions -> SessionType]
    BY <1>2, <2>1
  <2> QED BY <1>3, <2>2, NoSessionHolds DEF SessionsInv
<1>5. MonitorInv
  <2>1. IsFiniteSet(DOMAIN state.active)
    BY <1>2, NoStateTyped, FS_EmptySet
  <2> QED BY <1>2, <2>1, NoStateTyped, NoStateAgrees DEF MonitorInv, FiguresAgree, SnapshotFresh
<1>6. NoSession.at = "closed"
  BY DEF NoSession
<1>7. ActiveExact /\ Apart
  BY <1>2, <1>3, <1>6, NoStateTyped DEF ActiveExact, Apart, LivePeers, Live
<1> QED BY <1>1, <1>4, <1>5, <1>7 DEF IInv

LEMMA NextInv == IInv /\ [Next]_vars => IInv'
<1> SUFFICES ASSUME IInv, [Next]_vars PROVE IInv'
  OBVIOUS
<1>1. CASE Next
  BY <1>1, SessionNextKeeps, PushNextKeeps, RestNextKeeps DEF Next
<1>2. CASE UNCHANGED vars
  <2>1. UNCHANGED broadcastVars /\ UNCHANGED monitorVars /\ UNCHANGED <<session, shared>>
    BY <1>2 DEF vars
  <2>2. BroadcastInv' /\ MonitorInv'
    BY <2>1, BroadcastStutters, MonitorStutters DEF IInv
  <2>3. SessionsInv'
    BY <2>1, SessionsStay DEF IInv, broadcastVars
  <2>4. ActiveExact' /\ Apart'
    BY <2>1, ActiveStays DEF IInv, monitorVars, Live
  <2> QED BY <2>2, <2>3, <2>4 DEF IInv
<1> QED BY <1>1, <1>2

LEMMA InvAlways == Spec => []IInv
BY InitInv, NextInv, PTL DEF Spec

\* Nothing submitted with --broadcast-via tor reaches the local bitcoind, and
\* no two POSTs go out under the same credentials (torpush.rs
\* isolation_credentials, server.rs broadcast, handlers.rs txs_test), for any
\* number of concurrent submissions and any clock.
THEOREM PushesStayPrivate == Spec => []PushesPrivate
<1>1. IInv => PushesPrivate
  <2> SUFFICES ASSUME IInv PROVE PushesPrivate
    OBVIOUS
  <2>1. NodeUnused /\ CredsFresh /\ seq \in Nat
    BY DEF IInv, BroadcastInv, BroadcastTyped
  <2>2. Issued(seq) \subseteq {"pid"} \X Clock \X Nat
    BY <2>1 DEF Issued
  <2>3. None \notin Issued(seq)
    BY <2>2, BroadcastAssumption DEF BroadcastAssumption
  <2> QED BY <2>1, <2>3 DEF PushesPrivate, NodeUnused, CredsFresh
<1> QED BY <1>1, InvAlways, PTL

\* Every session answers its requests in order, each under its own id, and
\* calls a submission a success, by the result for one transaction and inside
\* the result for a package, only if the endpoint or the node took it
\* (server.rs handle_line, handle_tracked_request), for any lines and any
\* interleaving of sessions and REST requests.
THEOREM AnswersAlwaysMatch == Spec => []AnswersMatch
<1>1. IInv => AnswersMatch
  <2> SUFFICES ASSUME IInv PROVE AnswersMatch
    OBVIOUS
  <2>1. /\ BroadcastInv /\ SessionsInv /\ MonitorInv
        /\ BroadcastTyped /\ SuccessIsAccepted
    BY DEF IInv, BroadcastInv
  <2>2. ASSUME NEW st \in MonitorType PROVE IsMonitorState(st, Peers)
    BY StateFacts, ActiveFacts DEF IsMonitorState
  <2>3. TypeOK
    <3>1. session \in [Sessions -> SessionType]
      BY <2>1 DEF SessionsInv
    <3>2. \A c \in Callers : push[c].at \in TorStages \cup {"idle", "rpc", "done"}
      BY <2>1 DEF BroadcastTyped, PushType
    <3>3. /\ IsMonitorState(state, Peers) /\ (file = Old \/ IsMonitorState(file, Peers))
          /\ unsaved \subseteq Sessions
      BY <2>1, <2>2 DEF MonitorInv
    <3>4. via \in {"tor", "bitcoind"}
      BY <2>1 DEF BroadcastTyped
    <3> QED BY <3>1, <3>2, <3>3, <3>4 DEF TypeOK
  <2>4. \A s \in Sessions : Matched(session[s], accepted)
    BY <2>1 DEF SessionsInv
  <2> QED BY <2>1, <2>3, <2>4 DEF AnswersMatch, Matched, Match, Refused
<1> QED BY <1>1, InvAlways, PTL

\* The version of a session is one the server speaks and within what its client
\* last agreed to (protocol.rs negotiate, server.rs server_version), for any
\* configured range and any offers.
THEOREM VersionStaysAgreed == Spec => []VersionAgreed
<1>1. IInv => VersionAgreed
  BY DEF IInv, SessionsInv, Holds, Speaks, Agreed, Live, VersionAgreed
<1> QED BY <1>1, InvAlways, PTL

\* The monitor never shows what was not: no client that has left and, unless
\* two shared an address, every one that is there; totals that are those of the
\* methods, and no client with more requests than were made; and a file that,
\* when nobody is about to write it and the last write did not fail, shows the
\* state (monitor.rs session, record_request, reset, end_session,
\* write_snapshot_best_effort), for any sessions, methods and limit.
THEOREM MonitorStaysExact == Spec => []MonitorExact
<1>1. IInv => MonitorExact
  BY DEF IInv, MonitorInv, MonitorExact
<1> QED BY <1>1, InvAlways, PTL
=============================================================================
