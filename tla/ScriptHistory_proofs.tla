------------------------ MODULE ScriptHistory_proofs ------------------------
(***************************************************************************)
(* Proofs about the queries of script histories and their cache, for any   *)
(* clients, scripts, chains and collisions of prefixes, and any bound of   *)
(* the cache.                                                              *)
(*                                                                         *)
(* What the recursive definitions compute is proved by looking at a least  *)
(* counterexample.                                                         *)
(***************************************************************************)
EXTENDS ScriptHistory, TLAPS, FiniteSetTheorems, WellFoundedInduction

LEMMA LeastNumber ==
  ASSUME NEW T, T \subseteq Nat, T # {}
  PROVE  \E x \in T : \A y \in T : x <= y
<1>1. PICK x \in T : \A y \in T : ~(<<y, x>> \in OpToRel(<, Nat))
  BY WFMin, NatLessThanWellFounded
<1>2. \A y \in T : ~(y < x)
  BY <1>1 DEF OpToRel
<1> QED BY <1>2

-----------------------------------------------------------------------------
(* Folding *)

\* f[n] is the fold after the first n of the references t, up to the m-th.
Folds(f, fold, s, t, m) ==
  f = [n \in 0..m |-> IF n = 0 THEN fold ELSE Apply(f[n - 1], s, t[n])]

LEMMA FoldOnFolds ==
  ASSUME NEW fold, NEW s, NEW t
  PROVE  FoldOn(fold, s, t) = (CHOOSE f : Folds(f, fold, s, t, Len(t)))[Len(t)]
BY DEF FoldOn, Folds

LEMMA FoldsAt ==
  ASSUME NEW f, NEW fold, NEW s, NEW t, NEW m \in Nat, Folds(f, fold, s, t, m),
         NEW n \in 0..m
  PROVE  f[n] = IF n = 0 THEN fold ELSE Apply(f[n - 1], s, t[n])
<1> DEFINE value(i) == IF i = 0 THEN fold ELSE Apply(f[i - 1], s, t[i])
<1>1. f = [i \in 0..m |-> value(i)]
  BY DEF Folds
<1> HIDE DEF value
<1>2. f[n] = value(n)
  BY <1>1
<1> QED BY <1>2 DEF value

LEMMA FoldsExist ==
  ASSUME NEW fold, NEW s, NEW t, NEW m \in Nat
  PROVE  \E f : Folds(f, fold, s, t, m)
<1> DEFINE bad == {k \in Nat : ~\E f : Folds(f, fold, s, t, k)}
<1>1. SUFFICES ASSUME bad # {} PROVE FALSE
  OBVIOUS
<1>2. PICK k \in bad : \A i \in bad : k <= i
  <2>1. bad \subseteq Nat
    OBVIOUS
  <2> HIDE DEF bad
  <2> QED BY <1>1, <2>1, LeastNumber
<1>3. k \in Nat /\ \A f : ~Folds(f, fold, s, t, k)
  OBVIOUS
<1>4. CASE k = 0
  <2> DEFINE f == [n \in 0..0 |-> fold]
  <2>1. f = [n \in 0..0 |-> IF n = 0 THEN fold ELSE Apply(f[n - 1], s, t[n])]
    OBVIOUS
  <2>2. Folds(f, fold, s, t, 0)
    <3> HIDE DEF f
    <3> QED BY <2>1 DEF Folds
  <2> QED BY <1>3, <1>4, <2>2
<1>5. CASE k # 0
  <2>1. k - 1 \in Nat /\ k - 1 \notin bad
    <3>1. k - 1 \in Nat /\ k - 1 < k
      BY <1>3, <1>5
    <3> HIDE DEF bad
    <3> QED BY <1>2, <1>3, <3>1
  <2>2. PICK g : Folds(g, fold, s, t, k - 1)
    BY <2>1
  <2> DEFINE last == Apply(g[k - 1], s, t[k])
             f == [n \in 0..k |-> IF n = k THEN last ELSE g[n]]
  <2>3. ASSUME NEW n \in 0..k
        PROVE  f[n] = IF n = 0 THEN fold ELSE Apply(f[n - 1], s, t[n])
    <3>1. CASE n = k
      <4>1. f[k - 1] = g[k - 1]
        BY <1>3, <1>5
      <4>2. f[n] = last
        BY <3>1
      <4> HIDE DEF f
      <4> QED BY <1>5, <3>1, <4>1, <4>2
    <3>2. CASE n # k
      <4>1. n \in 0..(k - 1)
        BY <1>3, <3>2
      <4>2. g[n] = IF n = 0 THEN fold ELSE Apply(g[n - 1], s, t[n])
        BY <2>1, <2>2, <4>1, FoldsAt
      <4>3. f[n] = g[n] /\ (n # 0 => f[n - 1] = g[n - 1])
        BY <1>3, <3>2, <4>1
      <4> HIDE DEF f
      <4> QED BY <4>2, <4>3
    <3> QED BY <3>1, <3>2
  <2>4. f = [n \in 0..k |-> f[n]]
    OBVIOUS
  <2> HIDE DEF f
  <2>5. Folds(f, fold, s, t, k)
    BY <2>3, <2>4 DEF Folds
  <2> QED BY <1>3, <2>5
<1> QED BY <1>4, <1>5

\* Folds along sequences with a common beginning agree on it.
LEMMA FoldsAgree ==
  ASSUME NEW f, NEW g, NEW fold, NEW s, NEW t, NEW u, NEW m \in Nat, NEW k \in Nat,
         Folds(f, fold, s, t, m), Folds(g, fold, s, u, k), NEW n \in Nat, n <= m, n <= k,
         \A i \in 1..n : t[i] = u[i]
  PROVE  f[n] = g[n]
<1> DEFINE bad == {i \in 0..n : f[i] # g[i]}
<1>1. SUFFICES ASSUME bad # {} PROVE FALSE
  OBVIOUS
<1>2. PICK i \in bad : \A j \in bad : i <= j
  <2>1. bad \subseteq Nat
    OBVIOUS
  <2> HIDE DEF bad
  <2> QED BY <1>1, <2>1, LeastNumber
<1>3. i \in 0..n /\ f[i] # g[i] /\ i \in 0..m /\ i \in 0..k
  OBVIOUS
<1>4. /\ f[i] = IF i = 0 THEN fold ELSE Apply(f[i - 1], s, t[i])
      /\ g[i] = IF i = 0 THEN fold ELSE Apply(g[i - 1], s, u[i])
  BY <1>3, FoldsAt
<1>5. i # 0
  BY <1>3, <1>4
<1>6. i - 1 \in 0..n /\ i - 1 \notin bad /\ t[i] = u[i]
  <2>1. i - 1 \in 0..n /\ i - 1 < i /\ t[i] = u[i]
    BY <1>3, <1>5
  <2> HIDE DEF bad
  <2> QED BY <1>2, <1>3, <2>1
<1>7. f[i - 1] = g[i - 1]
  BY <1>6
<1> HIDE DEF bad
<1> QED BY <1>3, <1>4, <1>5, <1>6, <1>7

LEMMA FoldOnExists ==
  ASSUME NEW fold, NEW s, NEW t, Len(t) \in Nat
  PROVE  \E f : Folds(f, fold, s, t, Len(t)) /\ FoldOn(fold, s, t) = f[Len(t)]
<1>1. PICK f : f = (CHOOSE g : Folds(g, fold, s, t, Len(t))) /\ Folds(f, fold, s, t, Len(t))
  BY FoldsExist
<1> QED BY <1>1, FoldOnFolds

LEMMA FoldOnEmpty ==
  ASSUME NEW fold, NEW s, NEW t, Len(t) = 0
  PROVE  FoldOn(fold, s, t) = fold
<1>1. PICK f : Folds(f, fold, s, t, Len(t)) /\ FoldOn(fold, s, t) = f[Len(t)]
  BY FoldOnExists
<1>2. Len(t) \in Nat /\ Len(t) \in 0..Len(t)
  OBVIOUS
<1>3. f[Len(t)] = fold
  BY <1>1, <1>2, FoldsAt
<1> QED BY <1>1, <1>3

\* One more reference.
LEMMA FoldOnNext ==
  ASSUME NEW fold, NEW s, NEW t, NEW u, Len(t) \in Nat, Len(u) = Len(t) + 1,
         \A i \in 1..Len(t) : u[i] = t[i]
  PROVE  FoldOn(fold, s, u) = Apply(FoldOn(fold, s, t), s, u[Len(u)])
<1>1. PICK f : Folds(f, fold, s, t, Len(t)) /\ FoldOn(fold, s, t) = f[Len(t)]
  BY FoldOnExists
<1>2. PICK g : Folds(g, fold, s, u, Len(u)) /\ FoldOn(fold, s, u) = g[Len(u)]
  BY FoldOnExists
<1>3. Len(u) \in Nat /\ Len(u) \in 0..Len(u) /\ Len(u) # 0 /\ Len(u) - 1 = Len(t)
  OBVIOUS
<1>4. g[Len(u)] = Apply(g[Len(u) - 1], s, u[Len(u)])
  BY <1>2, <1>3, FoldsAt
<1>5. g[Len(t)] = f[Len(t)]
  BY <1>1, <1>2, <1>3, FoldsAgree
<1> QED BY <1>1, <1>2, <1>3, <1>4, <1>5

-----------------------------------------------------------------------------
(* Selecting *)

\* f[n] is what is kept of the first n of the references t.
Keeps(f, S, t, m) ==
  f = [n \in 0..m |-> IF n = 0 THEN <<>> ELSE Keep(S, f[n - 1], t[n])]

LEMMA AmongKeeps ==
  ASSUME NEW S, NEW t
  PROVE  Among(S, t) = (CHOOSE f : Keeps(f, S, t, Len(t)))[Len(t)]
BY DEF Among, Keeps

LEMMA KeepsAt ==
  ASSUME NEW f, NEW S, NEW t, NEW m \in Nat, Keeps(f, S, t, m),
         NEW n \in 0..m
  PROVE  f[n] = IF n = 0 THEN <<>> ELSE Keep(S, f[n - 1], t[n])
<1> DEFINE value(i) == IF i = 0 THEN <<>> ELSE Keep(S, f[i - 1], t[i])
<1>1. f = [i \in 0..m |-> value(i)]
  BY DEF Keeps
<1> HIDE DEF value
<1>2. f[n] = value(n)
  BY <1>1
<1> QED BY <1>2 DEF value

LEMMA KeepsExist ==
  ASSUME NEW S, NEW t, NEW m \in Nat
  PROVE  \E f : Keeps(f, S, t, m)
<1> DEFINE bad == {k \in Nat : ~\E f : Keeps(f, S, t, k)}
<1>1. SUFFICES ASSUME bad # {} PROVE FALSE
  OBVIOUS
<1>2. PICK k \in bad : \A i \in bad : k <= i
  <2>1. bad \subseteq Nat
    OBVIOUS
  <2> HIDE DEF bad
  <2> QED BY <1>1, <2>1, LeastNumber
<1>3. k \in Nat /\ \A f : ~Keeps(f, S, t, k)
  OBVIOUS
<1>4. CASE k = 0
  <2> DEFINE f == [n \in 0..0 |-> <<>>]
  <2>1. f = [n \in 0..0 |-> IF n = 0 THEN <<>> ELSE Keep(S, f[n - 1], t[n])]
    OBVIOUS
  <2>2. Keeps(f, S, t, 0)
    <3> HIDE DEF f
    <3> QED BY <2>1 DEF Keeps
  <2> QED BY <1>3, <1>4, <2>2
<1>5. CASE k # 0
  <2>1. k - 1 \in Nat /\ k - 1 \notin bad
    <3>1. k - 1 \in Nat /\ k - 1 < k
      BY <1>3, <1>5
    <3> HIDE DEF bad
    <3> QED BY <1>2, <1>3, <3>1
  <2>2. PICK g : Keeps(g, S, t, k - 1)
    BY <2>1
  <2> DEFINE last == Keep(S, g[k - 1], t[k])
             f == [n \in 0..k |-> IF n = k THEN last ELSE g[n]]
  <2>3. ASSUME NEW n \in 0..k
        PROVE  f[n] = IF n = 0 THEN <<>> ELSE Keep(S, f[n - 1], t[n])
    <3>1. CASE n = k
      <4>1. f[k - 1] = g[k - 1]
        BY <1>3, <1>5
      <4>2. f[n] = last
        BY <3>1
      <4> HIDE DEF f
      <4> QED BY <1>5, <3>1, <4>1, <4>2
    <3>2. CASE n # k
      <4>1. n \in 0..(k - 1)
        BY <1>3, <3>2
      <4>2. g[n] = IF n = 0 THEN <<>> ELSE Keep(S, g[n - 1], t[n])
        BY <2>1, <2>2, <4>1, KeepsAt
      <4>3. f[n] = g[n] /\ (n # 0 => f[n - 1] = g[n - 1])
        BY <1>3, <3>2, <4>1
      <4> HIDE DEF f
      <4> QED BY <4>2, <4>3
    <3> QED BY <3>1, <3>2
  <2>4. f = [n \in 0..k |-> f[n]]
    OBVIOUS
  <2> HIDE DEF f
  <2>5. Keeps(f, S, t, k)
    BY <2>3, <2>4 DEF Keeps
  <2> QED BY <1>3, <2>5
<1> QED BY <1>4, <1>5

LEMMA KeepsAgree ==
  ASSUME NEW f, NEW g, NEW S, NEW t, NEW u, NEW m \in Nat, NEW k \in Nat,
         Keeps(f, S, t, m), Keeps(g, S, u, k), NEW n \in Nat, n <= m, n <= k,
         \A i \in 1..n : t[i] = u[i]
  PROVE  f[n] = g[n]
<1> DEFINE bad == {i \in 0..n : f[i] # g[i]}
<1>1. SUFFICES ASSUME bad # {} PROVE FALSE
  OBVIOUS
<1>2. PICK i \in bad : \A j \in bad : i <= j
  <2>1. bad \subseteq Nat
    OBVIOUS
  <2> HIDE DEF bad
  <2> QED BY <1>1, <2>1, LeastNumber
<1>3. i \in 0..n /\ f[i] # g[i] /\ i \in 0..m /\ i \in 0..k
  OBVIOUS
<1>4. /\ f[i] = IF i = 0 THEN <<>> ELSE Keep(S, f[i - 1], t[i])
      /\ g[i] = IF i = 0 THEN <<>> ELSE Keep(S, g[i - 1], u[i])
  BY <1>3, KeepsAt
<1>5. i # 0
  BY <1>3, <1>4
<1>6. i - 1 \in 0..n /\ i - 1 \notin bad /\ t[i] = u[i]
  <2>1. i - 1 \in 0..n /\ i - 1 < i /\ t[i] = u[i]
    BY <1>3, <1>5
  <2> HIDE DEF bad
  <2> QED BY <1>2, <1>3, <2>1
<1>7. f[i - 1] = g[i - 1]
  BY <1>6
<1> HIDE DEF bad
<1> QED BY <1>3, <1>4, <1>5, <1>6, <1>7

LEMMA AmongExists ==
  ASSUME NEW S, NEW t, Len(t) \in Nat
  PROVE  \E f : Keeps(f, S, t, Len(t)) /\ Among(S, t) = f[Len(t)]
<1>1. PICK f : f = (CHOOSE g : Keeps(g, S, t, Len(t))) /\ Keeps(f, S, t, Len(t))
  BY KeepsExist
<1> QED BY <1>1, AmongKeeps

LEMMA AmongEmpty ==
  ASSUME NEW S, NEW t, Len(t) = 0
  PROVE  Among(S, t) = <<>>
<1>1. PICK f : Keeps(f, S, t, Len(t)) /\ Among(S, t) = f[Len(t)]
  BY AmongExists
<1>2. Len(t) \in Nat /\ Len(t) \in 0..Len(t)
  OBVIOUS
<1>3. f[Len(t)] = <<>>
  BY <1>1, <1>2, KeepsAt
<1> QED BY <1>1, <1>3

LEMMA AmongNext ==
  ASSUME NEW S, NEW t, NEW u, Len(t) \in Nat, Len(u) = Len(t) + 1,
         \A i \in 1..Len(t) : u[i] = t[i]
  PROVE  Among(S, u) = Keep(S, Among(S, t), u[Len(u)])
<1>1. PICK f : Keeps(f, S, t, Len(t)) /\ Among(S, t) = f[Len(t)]
  BY AmongExists
<1>2. PICK g : Keeps(g, S, u, Len(u)) /\ Among(S, u) = g[Len(u)]
  BY AmongExists
<1>3. Len(u) \in Nat /\ Len(u) \in 0..Len(u) /\ Len(u) # 0 /\ Len(u) - 1 = Len(t)
  OBVIOUS
<1>4. g[Len(u)] = Keep(S, g[Len(u) - 1], u[Len(u)])
  BY <1>2, <1>3, KeepsAt
<1>5. g[Len(t)] = f[Len(t)]
  BY <1>1, <1>2, <1>3, KeepsAgree
<1> QED BY <1>1, <1>2, <1>3, <1>4, <1>5

-----------------------------------------------------------------------------
(* Counting *)

\* f[n] is the count of references of the first n of the entries t.
Counts(f, t, m) ==
  f = [n \in 0..m |-> IF n = 0 THEN 0 ELSE f[n - 1] + Len(t[n].refs)]

LEMMA RefsInCounts ==
  ASSUME NEW t
  PROVE  RefsIn(t) = (CHOOSE f : Counts(f, t, Len(t)))[Len(t)]
BY DEF RefsIn, Counts

LEMMA CountsAt ==
  ASSUME NEW f, NEW t, NEW m \in Nat, Counts(f, t, m),
         NEW n \in 0..m
  PROVE  f[n] = IF n = 0 THEN 0 ELSE f[n - 1] + Len(t[n].refs)
<1> DEFINE value(i) == IF i = 0 THEN 0 ELSE f[i - 1] + Len(t[i].refs)
<1>1. f = [i \in 0..m |-> value(i)]
  BY DEF Counts
<1> HIDE DEF value
<1>2. f[n] = value(n)
  BY <1>1
<1> QED BY <1>2 DEF value

LEMMA CountsExist ==
  ASSUME NEW t, NEW m \in Nat
  PROVE  \E f : Counts(f, t, m)
<1> DEFINE bad == {k \in Nat : ~\E f : Counts(f, t, k)}
<1>1. SUFFICES ASSUME bad # {} PROVE FALSE
  OBVIOUS
<1>2. PICK k \in bad : \A i \in bad : k <= i
  <2>1. bad \subseteq Nat
    OBVIOUS
  <2> HIDE DEF bad
  <2> QED BY <1>1, <2>1, LeastNumber
<1>3. k \in Nat /\ \A f : ~Counts(f, t, k)
  OBVIOUS
<1>4. CASE k = 0
  <2> DEFINE f == [n \in 0..0 |-> 0]
  <2>1. f = [n \in 0..0 |-> IF n = 0 THEN 0 ELSE f[n - 1] + Len(t[n].refs)]
    OBVIOUS
  <2>2. Counts(f, t, 0)
    <3> HIDE DEF f
    <3> QED BY <2>1 DEF Counts
  <2> QED BY <1>3, <1>4, <2>2
<1>5. CASE k # 0
  <2>1. k - 1 \in Nat /\ k - 1 \notin bad
    <3>1. k - 1 \in Nat /\ k - 1 < k
      BY <1>3, <1>5
    <3> HIDE DEF bad
    <3> QED BY <1>2, <1>3, <3>1
  <2>2. PICK g : Counts(g, t, k - 1)
    BY <2>1
  <2> DEFINE last == g[k - 1] + Len(t[k].refs)
             f == [n \in 0..k |-> IF n = k THEN last ELSE g[n]]
  <2>3. ASSUME NEW n \in 0..k
        PROVE  f[n] = IF n = 0 THEN 0 ELSE f[n - 1] + Len(t[n].refs)
    <3>1. CASE n = k
      <4>1. f[k - 1] = g[k - 1]
        BY <1>3, <1>5
      <4>2. f[n] = last
        BY <3>1
      <4> HIDE DEF f
      <4> QED BY <1>5, <3>1, <4>1, <4>2
    <3>2. CASE n # k
      <4>1. n \in 0..(k - 1)
        BY <1>3, <3>2
      <4>2. g[n] = IF n = 0 THEN 0 ELSE g[n - 1] + Len(t[n].refs)
        BY <2>1, <2>2, <4>1, CountsAt
      <4>3. f[n] = g[n] /\ (n # 0 => f[n - 1] = g[n - 1])
        BY <1>3, <3>2, <4>1
      <4> HIDE DEF f
      <4> QED BY <4>2, <4>3
    <3> QED BY <3>1, <3>2
  <2>4. f = [n \in 0..k |-> f[n]]
    OBVIOUS
  <2> HIDE DEF f
  <2>5. Counts(f, t, k)
    BY <2>3, <2>4 DEF Counts
  <2> QED BY <1>3, <2>5
<1> QED BY <1>4, <1>5

LEMMA CountsAgree ==
  ASSUME NEW f, NEW g, NEW t, NEW u, NEW m \in Nat, NEW k \in Nat,
         Counts(f, t, m), Counts(g, u, k), NEW n \in Nat, n <= m, n <= k,
         \A i \in 1..n : t[i] = u[i]
  PROVE  f[n] = g[n]
<1> DEFINE bad == {i \in 0..n : f[i] # g[i]}
<1>1. SUFFICES ASSUME bad # {} PROVE FALSE
  OBVIOUS
<1>2. PICK i \in bad : \A j \in bad : i <= j
  <2>1. bad \subseteq Nat
    OBVIOUS
  <2> HIDE DEF bad
  <2> QED BY <1>1, <2>1, LeastNumber
<1>3. i \in 0..n /\ f[i] # g[i] /\ i \in 0..m /\ i \in 0..k
  OBVIOUS
<1>4. /\ f[i] = IF i = 0 THEN 0 ELSE f[i - 1] + Len(t[i].refs)
      /\ g[i] = IF i = 0 THEN 0 ELSE g[i - 1] + Len(u[i].refs)
  BY <1>3, CountsAt
<1>5. i # 0
  BY <1>3, <1>4
<1>6. i - 1 \in 0..n /\ i - 1 \notin bad /\ t[i] = u[i]
  <2>1. i - 1 \in 0..n /\ i - 1 < i /\ t[i] = u[i]
    BY <1>3, <1>5
  <2> HIDE DEF bad
  <2> QED BY <1>2, <1>3, <2>1
<1>7. f[i - 1] = g[i - 1]
  BY <1>6
<1> HIDE DEF bad
<1> QED BY <1>3, <1>4, <1>5, <1>6, <1>7

LEMMA RefsInExists ==
  ASSUME NEW t, Len(t) \in Nat
  PROVE  \E f : Counts(f, t, Len(t)) /\ RefsIn(t) = f[Len(t)]
<1>1. PICK f : f = (CHOOSE g : Counts(g, t, Len(t))) /\ Counts(f, t, Len(t))
  BY CountsExist
<1> QED BY <1>1, RefsInCounts

LEMMA RefsInEmpty ==
  ASSUME NEW t, Len(t) = 0
  PROVE  RefsIn(t) = 0
<1>1. PICK f : Counts(f, t, Len(t)) /\ RefsIn(t) = f[Len(t)]
  BY RefsInExists
<1>2. Len(t) \in Nat /\ Len(t) \in 0..Len(t)
  OBVIOUS
<1>3. f[Len(t)] = 0
  BY <1>1, <1>2, CountsAt
<1> QED BY <1>1, <1>3

LEMMA RefsInNext ==
  ASSUME NEW t, NEW u, Len(t) \in Nat, Len(u) = Len(t) + 1,
         \A i \in 1..Len(t) : u[i] = t[i]
  PROVE  RefsIn(u) = RefsIn(t) + Len(u[Len(u)].refs)
<1>1. PICK f : Counts(f, t, Len(t)) /\ RefsIn(t) = f[Len(t)]
  BY RefsInExists
<1>2. PICK g : Counts(g, u, Len(u)) /\ RefsIn(u) = g[Len(u)]
  BY RefsInExists
<1>3. Len(u) \in Nat /\ Len(u) \in 0..Len(u) /\ Len(u) # 0 /\ Len(u) - 1 = Len(t)
  OBVIOUS
<1>4. g[Len(u)] = g[Len(u) - 1] + Len(u[Len(u)].refs)
  BY <1>2, <1>3, CountsAt
<1>5. g[Len(t)] = f[Len(t)]
  BY <1>1, <1>2, <1>3, CountsAgree
<1> QED BY <1>1, <1>2, <1>3, <1>4, <1>5

-----------------------------------------------------------------------------
(* Sequences in two parts *)

LEMMA PrefixFacts ==
  ASSUME NEW X, NEW t \in Seq(X), NEW n \in 0..Len(t)
  PROVE  /\ SubSeq(t, 1, n) \in Seq(X) /\ Len(SubSeq(t, 1, n)) = n
         /\ \A i \in 1..n : SubSeq(t, 1, n)[i] = t[i]
OBVIOUS

LEMMA SameSequence ==
  ASSUME NEW X, NEW t \in Seq(X), NEW u \in Seq(X), Len(t) = Len(u),
         \A i \in 1..Len(t) : t[i] = u[i]
  PROVE  t = u
OBVIOUS

LEMMA WholePrefix ==
  ASSUME NEW X, NEW t \in Seq(X)
  PROVE  SubSeq(t, 1, Len(t)) = t
OBVIOUS

\* What is folded in two goes is folded in one.
LEMMA FoldOnJoin ==
  ASSUME NEW X, NEW fold, NEW s, NEW t \in Seq(X), NEW u \in Seq(X)
  PROVE  FoldOn(FoldOn(fold, s, t), s, u) = FoldOn(fold, s, t \o u)
<1> DEFINE up(n) == SubSeq(u, 1, n)
           mid == FoldOn(fold, s, t)
           bad == {n \in 0..Len(u) : FoldOn(mid, s, up(n)) # FoldOn(fold, s, t \o up(n))}
<1>1. SUFFICES bad = {}
  <2>1. Len(u) \in 0..Len(u) /\ up(Len(u)) = u
    BY WholePrefix
  <2> HIDE DEF up, mid
  <2>2. FoldOn(mid, s, up(Len(u))) = FoldOn(fold, s, t \o up(Len(u)))
    BY <2>1
  <2> QED BY <2>1, <2>2 DEF mid
<1>2. SUFFICES ASSUME bad # {} PROVE FALSE
  OBVIOUS
<1>3. PICK n \in bad : \A m \in bad : n <= m
  <2>1. bad \subseteq Nat
    OBVIOUS
  <2> HIDE DEF bad
  <2> QED BY <1>2, <2>1, LeastNumber
<1>4. n \in 0..Len(u) /\ FoldOn(mid, s, up(n)) # FoldOn(fold, s, t \o up(n))
  OBVIOUS
<1>5. ASSUME NEW m \in 0..Len(u)
      PROVE  /\ up(m) \in Seq(X) /\ Len(up(m)) = m /\ \A i \in 1..m : up(m)[i] = u[i]
             /\ t \o up(m) \in Seq(X) /\ Len(t \o up(m)) = Len(t) + m
             /\ \A i \in 1..Len(t) : (t \o up(m))[i] = t[i]
             /\ \A i \in 1..m : (t \o up(m))[Len(t) + i] = u[i]
  <2> DEFINE p == SubSeq(u, 1, m)
  <2>1. p \in Seq(X) /\ Len(p) = m /\ \A i \in 1..m : p[i] = u[i]
    BY PrefixFacts
  <2> HIDE DEF p
  <2>2. /\ t \o p \in Seq(X) /\ Len(t \o p) = Len(t) + Len(p)
        /\ \A i \in 1..Len(t) : (t \o p)[i] = t[i]
        /\ \A i \in 1..Len(p) : (t \o p)[Len(t) + i] = p[i]
    <3>1. p \in Seq(X)
      BY <2>1
    <3> QED BY <3>1
  <2> QED BY <2>1, <2>2 DEF p
<1>6. CASE n = 0
  <2>1. FoldOn(mid, s, up(n)) = mid
    <3>1. Len(up(n)) = 0
      BY <1>4, <1>5, <1>6
    <3> DEFINE p == up(n)
    <3> HIDE DEF p, mid
    <3>2. Len(p) = 0 => FoldOn(mid, s, p) = mid
      BY FoldOnEmpty
    <3> QED BY <3>1, <3>2 DEF p
  <2>2. t \o up(n) = t
    <3>1. t \o up(n) \in Seq(X) /\ Len(t \o up(n)) = Len(t) /\ \A i \in 1..Len(t) : (t \o up(n))[i] = t[i]
      BY <1>4, <1>5, <1>6
    <3> HIDE DEF up
    <3> QED BY <3>1, SameSequence
  <2> QED BY <1>4, <2>1, <2>2
<1>7. CASE n # 0
  <2>1. n - 1 \in 0..Len(u) /\ n - 1 < n
    BY <1>4, <1>7
  <2>2. n - 1 \notin bad
    <3> HIDE DEF bad
    <3> QED BY <1>3, <1>4, <2>1
  <2>3. FoldOn(mid, s, up(n - 1)) = FoldOn(fold, s, t \o up(n - 1))
    BY <2>1, <2>2
  <2> DEFINE a == up(n - 1)
             b == up(n)
             c == t \o a
             d == t \o b
  <2>4. /\ Len(a) = n - 1 /\ Len(b) = n /\ (\A i \in 1..Len(a) : b[i] = a[i]) /\ b[n] = u[n]
    BY <1>4, <1>5, <2>1
  <2>5. /\ Len(c) = Len(t) + n - 1 /\ Len(d) = Len(t) + n /\ d[Len(t) + n] = u[n]
        /\ Len(t) \in Nat
    BY <1>4, <1>5, <1>7, <2>1
  <2>6. ASSUME NEW i \in 1..Len(c) PROVE d[i] = c[i]
    <3>1. CASE i \in 1..Len(t)
      BY <1>4, <1>5, <2>1, <3>1
    <3>2. CASE i \notin 1..Len(t)
      <4> DEFINE k == i - Len(t)
      <4>1. k \in 1..(n - 1) /\ k \in 1..n /\ i = Len(t) + k
        BY <1>4, <2>5, <3>2
      <4> HIDE DEF k
      <4>2. c[Len(t) + k] = u[k] /\ d[Len(t) + k] = u[k]
        BY <1>4, <1>5, <2>1, <4>1
      <4> QED BY <4>1, <4>2
    <3> QED BY <3>1, <3>2
  <2>7. FoldOn(mid, s, a) = FoldOn(fold, s, c) /\ FoldOn(mid, s, b) # FoldOn(fold, s, d)
    BY <1>4, <2>3
  <2> HIDE DEF a, b, c, d, mid, bad, up
  <2>8. FoldOn(mid, s, b) = Apply(FoldOn(mid, s, a), s, b[Len(b)])
    BY <1>4, <2>1, <2>4, FoldOnNext
  <2>9. FoldOn(fold, s, d) = Apply(FoldOn(fold, s, c), s, d[Len(d)])
    <3>1. Len(c) \in Nat /\ Len(d) = Len(c) + 1
      BY <1>4, <1>7, <2>5
    <3> QED BY <2>6, <3>1, FoldOnNext
  <2> QED BY <2>4, <2>5, <2>7, <2>8, <2>9
<1> QED BY <1>6, <1>7

\* The entries of the cache: a script, references, and the fold along them.
Entries == { [script |-> s, refs |-> rs, fold |-> FoldOn(EmptyFold, s, rs)]
             : s \in Scripts, rs \in Seq(Refs) }

LEMMA EntryFacts ==
  ASSUME NEW e \in Entries
  PROVE  /\ e.script \in Scripts /\ e.refs \in Seq(Refs) /\ Len(e.refs) \in Nat
         /\ e.fold = FoldOn(EmptyFold, e.script, e.refs)
<1>1. PICK s \in Scripts, rs \in Seq(Refs) :
        e = [script |-> s, refs |-> rs, fold |-> FoldOn(EmptyFold, s, rs)]
  BY DEF Entries
<1>2. e.script = s /\ e.refs = rs /\ e.fold = FoldOn(EmptyFold, s, rs)
  BY <1>1
<1> QED BY <1>2

LEMMA EntryLength ==
  ASSUME NEW t \in Seq(Entries), NEW n \in 1..Len(t)
  PROVE  t[n] \in Entries /\ Len(t[n].refs) \in Nat
<1>1. t[n] \in Entries
  OBVIOUS
<1> QED BY <1>1, EntryFacts

LEMMA RefsInNat ==
  ASSUME NEW t \in Seq(Entries)
  PROVE  RefsIn(t) \in Nat
<1>1. PICK f : Counts(f, t, Len(t)) /\ RefsIn(t) = f[Len(t)]
  BY RefsInExists
<1> DEFINE bad == {n \in 0..Len(t) : f[n] \notin Nat}
<1>2. SUFFICES ASSUME bad # {} PROVE FALSE
  BY <1>1
<1>3. PICK n \in bad : \A m \in bad : n <= m
  <2>1. bad \subseteq Nat
    OBVIOUS
  <2> HIDE DEF bad
  <2> QED BY <1>2, <2>1, LeastNumber
<1>4. n \in 0..Len(t) /\ f[n] \notin Nat /\ Len(t) \in Nat
  OBVIOUS
<1>5. f[n] = IF n = 0 THEN 0 ELSE f[n - 1] + Len(t[n].refs)
  BY <1>1, <1>4, CountsAt
<1>6. n # 0 /\ n - 1 \in 0..Len(t) /\ n - 1 < n /\ n \in 1..Len(t)
  BY <1>4, <1>5
<1>7. n - 1 \notin bad
  <2> HIDE DEF bad
  <2> QED BY <1>3, <1>4, <1>6
<1>8. f[n - 1] \in Nat
  BY <1>6, <1>7
<1>9. Len(t[n].refs) \in Nat
  BY <1>6, EntryLength
<1> HIDE DEF bad
<1> QED BY <1>4, <1>5, <1>6, <1>8, <1>9

LEMMA RefsInJoin ==
  ASSUME NEW t \in Seq(Entries), NEW u \in Seq(Entries)
  PROVE  RefsIn(t \o u) = RefsIn(t) + RefsIn(u)
<1> DEFINE up(n) == SubSeq(u, 1, n)
           bad == {n \in 0..Len(u) : RefsIn(t \o up(n)) # RefsIn(t) + RefsIn(up(n))}
<1>1. SUFFICES bad = {}
  <2>1. Len(u) \in 0..Len(u) /\ up(Len(u)) = u
    BY WholePrefix
  <2> HIDE DEF up
  <2> QED BY <2>1
<1>2. SUFFICES ASSUME bad # {} PROVE FALSE
  OBVIOUS
<1>3. PICK n \in bad : \A m \in bad : n <= m
  <2>1. bad \subseteq Nat
    OBVIOUS
  <2> HIDE DEF bad
  <2> QED BY <1>2, <2>1, LeastNumber
<1>4. n \in 0..Len(u) /\ RefsIn(t \o up(n)) # RefsIn(t) + RefsIn(up(n))
  OBVIOUS
<1>5. ASSUME NEW m \in 0..Len(u)
      PROVE  /\ up(m) \in Seq(Entries) /\ Len(up(m)) = m /\ \A i \in 1..m : up(m)[i] = u[i]
             /\ t \o up(m) \in Seq(Entries) /\ Len(t \o up(m)) = Len(t) + m
             /\ \A i \in 1..Len(t) : (t \o up(m))[i] = t[i]
             /\ \A i \in 1..m : (t \o up(m))[Len(t) + i] = u[i]
  <2> DEFINE p == SubSeq(u, 1, m)
  <2>1. p \in Seq(Entries) /\ Len(p) = m /\ \A i \in 1..m : p[i] = u[i]
    BY PrefixFacts
  <2> HIDE DEF p
  <2>2. /\ t \o p \in Seq(Entries) /\ Len(t \o p) = Len(t) + Len(p)
        /\ \A i \in 1..Len(t) : (t \o p)[i] = t[i]
        /\ \A i \in 1..Len(p) : (t \o p)[Len(t) + i] = p[i]
    <3>1. p \in Seq(Entries)
      BY <2>1
    <3> QED BY <3>1
  <2> QED BY <2>1, <2>2 DEF p
<1>6. RefsIn(t) \in Nat
  BY RefsInNat
<1>7. CASE n = 0
  <2>1. RefsIn(up(n)) = 0
    <3>1. Len(up(n)) = 0
      BY <1>4, <1>5, <1>7
    <3> DEFINE p == up(n)
    <3> HIDE DEF p
    <3>2. Len(p) = 0 => RefsIn(p) = 0
      BY RefsInEmpty
    <3> QED BY <3>1, <3>2 DEF p
  <2>2. t \o up(n) = t
    <3>1. /\ t \o up(n) \in Seq(Entries) /\ Len(t \o up(n)) = Len(t)
          /\ \A i \in 1..Len(t) : (t \o up(n))[i] = t[i]
      BY <1>4, <1>5, <1>7
    <3> HIDE DEF up
    <3> QED BY <3>1, SameSequence
  <2>3. RefsIn(t \o up(n)) = RefsIn(t) /\ RefsIn(t) + RefsIn(up(n)) = RefsIn(t)
    <3>1. RefsIn(t) + 0 = RefsIn(t)
      BY <1>6
    <3> QED BY <2>1, <2>2, <3>1
  <2> QED BY <1>4, <2>3
<1>8. CASE n # 0
  <2>1. n - 1 \in 0..Len(u) /\ n - 1 < n /\ n \in 1..Len(u)
    BY <1>4, <1>8
  <2>2. n - 1 \notin bad
    <3> HIDE DEF bad
    <3> QED BY <1>3, <1>4, <2>1
  <2>3. RefsIn(t \o up(n - 1)) = RefsIn(t) + RefsIn(up(n - 1))
    BY <2>1, <2>2
  <2> DEFINE a == up(n - 1)
             b == up(n)
             c == t \o a
             d == t \o b
  <2>4. /\ Len(a) = n - 1 /\ Len(b) = n /\ (\A i \in 1..Len(a) : b[i] = a[i]) /\ b[n] = u[n]
        /\ a \in Seq(Entries)
    BY <1>4, <1>5, <2>1
  <2>5. /\ Len(c) = Len(t) + n - 1 /\ Len(d) = Len(t) + n /\ d[Len(t) + n] = u[n]
        /\ Len(t) \in Nat
    BY <1>4, <1>5, <1>8, <2>1
  <2>6. ASSUME NEW i \in 1..Len(c) PROVE d[i] = c[i]
    <3>1. CASE i \in 1..Len(t)
      BY <1>4, <1>5, <2>1, <3>1
    <3>2. CASE i \notin 1..Len(t)
      <4> DEFINE k == i - Len(t)
      <4>1. k \in 1..(n - 1) /\ k \in 1..n /\ i = Len(t) + k
        BY <1>4, <2>5, <3>2
      <4> HIDE DEF k
      <4>2. c[Len(t) + k] = u[k] /\ d[Len(t) + k] = u[k]
        BY <1>4, <1>5, <2>1, <4>1
      <4> QED BY <4>1, <4>2
    <3> QED BY <3>1, <3>2
  <2>7. RefsIn(c) = RefsIn(t) + RefsIn(a) /\ RefsIn(d) # RefsIn(t) + RefsIn(b)
    BY <1>4, <2>3
  <2> HIDE DEF a, b, c, d, bad, up
  <2>8. RefsIn(b) = RefsIn(a) + Len(b[Len(b)].refs)
    <3>1. Len(a) \in Nat /\ Len(b) = Len(a) + 1
      BY <1>4, <2>1, <2>4
    <3> QED BY <2>4, <3>1, RefsInNext
  <2>9. RefsIn(d) = RefsIn(c) + Len(d[Len(d)].refs)
    <3>1. Len(c) \in Nat /\ Len(d) = Len(c) + 1
      BY <1>4, <1>8, <2>5
    <3> QED BY <2>6, <3>1, RefsInNext
  <2>10. RefsIn(a) \in Nat /\ Len(u[n].refs) \in Nat
    BY <2>1, <2>4, RefsInNat, EntryLength
  <2>11. b[Len(b)] = u[n] /\ d[Len(d)] = u[n]
    BY <2>4, <2>5
  <2> DEFINE more == Len(u[n].refs)
  <2>12. more \in Nat /\ RefsIn(b) = RefsIn(a) + more /\ RefsIn(d) = RefsIn(c) + more
    BY <2>8, <2>9, <2>10, <2>11
  <2> HIDE DEF more
  <2> QED BY <1>6, <2>7, <2>10, <2>12
<1> QED BY <1>7, <1>8

-----------------------------------------------------------------------------
(* The cache *)

Distinct(es) == \A i, j \in 1..Len(es) : es[i].script = es[j].script => i = j

CacheInv ==
  /\ entries \in Seq(Entries) /\ Distinct(entries)
  /\ refs = RefsIn(entries) /\ refs <= MaxRefs

\* Of a sequence in three parts, the middle one of which is a single entry.
LEMMA RefsInRemoved ==
  ASSUME NEW t \in Seq(Entries), NEW p \in 1..Len(t)
  PROVE  LET rest == Seqs!RemoveAt(t, p)
         IN  /\ rest \in Seq(Entries) /\ Len(rest) = Len(t) - 1
             /\ \A i \in 1..Len(rest) : rest[i] = t[IF i < p THEN i ELSE i + 1]
             /\ RefsIn(t) = RefsIn(rest) + Len(t[p].refs)
<1> DEFINE a == SubSeq(t, 1, p - 1)
           b == SubSeq(t, p + 1, Len(t))
           c == SubSeq(t, 1, p)
<1>1. /\ a \in Seq(Entries) /\ Len(a) = p - 1 /\ \A i \in 1..(p - 1) : a[i] = t[i]
  OBVIOUS
<1>2. /\ b \in Seq(Entries) /\ Len(b) = Len(t) - p /\ \A i \in 1..(Len(t) - p) : b[i] = t[p + i]
  OBVIOUS
<1>3. /\ c \in Seq(Entries) /\ Len(c) = p /\ \A i \in 1..p : c[i] = t[i]
  OBVIOUS
<1>4. Seqs!RemoveAt(t, p) = a \o b
  BY DEF Seqs!RemoveAt
<1> HIDE DEF a, b, c
<1>5. /\ a \o b \in Seq(Entries) /\ Len(a \o b) = Len(t) - 1
      /\ \A i \in 1..(Len(t) - 1) : (a \o b)[i] = t[IF i < p THEN i ELSE i + 1]
  <2>1. a \in Seq(Entries) /\ b \in Seq(Entries)
    BY <1>1, <1>2
  <2>2. /\ a \o b \in Seq(Entries) /\ Len(a \o b) = Len(a) + Len(b)
        /\ \A i \in 1..(Len(a) + Len(b)) : (a \o b)[i] = IF i <= Len(a) THEN a[i] ELSE b[i - Len(a)]
    BY <2>1
  <2>3. ASSUME NEW i \in 1..(Len(t) - 1)
        PROVE  (a \o b)[i] = t[IF i < p THEN i ELSE i + 1]
    <3>1. i \in 1..(Len(a) + Len(b))
      BY <1>1, <1>2
    <3>2. CASE i < p
      BY <1>1, <2>2, <3>1, <3>2
    <3>3. CASE ~(i < p)
      <4>1. i - Len(a) \in 1..(Len(t) - p) /\ ~(i <= Len(a)) /\ p + (i - Len(a)) = i + 1
        BY <1>1, <3>3
      <4>2. b[i - Len(a)] = t[p + (i - Len(a))]
        BY <1>2, <4>1
      <4> QED BY <2>2, <3>1, <3>3, <4>1, <4>2
    <3> QED BY <3>2, <3>3
  <2>4. Len(a \o b) = Len(t) - 1
    <3>1. Len(a \o b) = Len(a) + Len(b) /\ Len(a) = p - 1 /\ Len(b) = Len(t) - p
      BY <1>1, <1>2, <2>2
    <3>2. p \in Int /\ Len(t) \in Int
      OBVIOUS
    <3> QED BY <3>1, <3>2
  <2> QED BY <2>2, <2>3, <2>4
<1>6. t = c \o b
  <2>1. c \in Seq(Entries) /\ b \in Seq(Entries)
    BY <1>2, <1>3
  <2>2. /\ c \o b \in Seq(Entries) /\ Len(c \o b) = Len(c) + Len(b)
        /\ \A i \in 1..(Len(c) + Len(b)) : (c \o b)[i] = IF i <= Len(c) THEN c[i] ELSE b[i - Len(c)]
    BY <2>1
  <2>3. ASSUME NEW i \in 1..Len(t) PROVE t[i] = (c \o b)[i]
    <3>1. i \in 1..(Len(c) + Len(b))
      BY <1>2, <1>3
    <3>2. CASE i <= p
      BY <1>3, <2>2, <3>1, <3>2
    <3>3. CASE ~(i <= p)
      <4>1. i - Len(c) \in 1..(Len(t) - p) /\ ~(i <= Len(c)) /\ p + (i - Len(c)) = i
        BY <1>3, <3>3
      <4>2. b[i - Len(c)] = t[p + (i - Len(c))]
        BY <1>2, <4>1
      <4> QED BY <2>2, <3>1, <4>1, <4>2
    <3> QED BY <3>2, <3>3
  <2>4. Len(t) = Len(c \o b)
    BY <1>2, <1>3, <2>2
  <2> QED BY <2>2, <2>3, <2>4, SameSequence
<1>7. RefsIn(t) = RefsIn(c) + RefsIn(b)
  <2>1. c \in Seq(Entries) /\ b \in Seq(Entries)
    BY <1>2, <1>3
  <2>2. RefsIn(c \o b) = RefsIn(c) + RefsIn(b)
    BY <2>1, RefsInJoin
  <2> QED BY <1>6, <2>2
<1>8. RefsIn(a \o b) = RefsIn(a) + RefsIn(b)
  BY <1>1, <1>2, RefsInJoin
<1>9. RefsIn(c) = RefsIn(a) + Len(t[p].refs)
  <2>1. /\ Len(a) \in Nat /\ Len(c) = Len(a) + 1 /\ (\A i \in 1..Len(a) : c[i] = a[i])
        /\ c[Len(c)] = t[p]
    BY <1>1, <1>3
  <2>2. RefsIn(c) = RefsIn(a) + Len(c[Len(c)].refs)
    BY <2>1, RefsInNext
  <2> QED BY <2>1, <2>2
<1>10. RefsIn(a) \in Nat /\ RefsIn(b) \in Nat /\ Len(t[p].refs) \in Nat
  BY <1>1, <1>2, RefsInNat, EntryLength
<1>11. RefsIn(t) = RefsIn(a \o b) + Len(t[p].refs)
  <2> DEFINE more == Len(t[p].refs)
  <2>1. more \in Nat /\ RefsIn(c) = RefsIn(a) + more
    BY <1>9, <1>10
  <2>2. SUFFICES RefsIn(t) = RefsIn(a \o b) + more
    OBVIOUS
  <2> HIDE DEF more
  <2> QED BY <1>7, <1>8, <1>10, <2>1
<1> DEFINE rest == a \o b
<1>12. rest = Seqs!RemoveAt(t, p)
  BY <1>4
<1> HIDE DEF rest
<1>13. /\ rest \in Seq(Entries) /\ Len(rest) = Len(t) - 1
       /\ \A i \in 1..Len(rest) : rest[i] = t[IF i < p THEN i ELSE i + 1]
       /\ RefsIn(t) = RefsIn(rest) + Len(t[p].refs)
  BY <1>5, <1>11 DEF rest
<1> QED BY <1>12, <1>13

LEMMA PlaceFacts ==
  ASSUME entries \in Seq(Entries), NEW s \in CachedScripts
  PROVE  /\ Place(s) \in 1..Len(entries) /\ Cached(s) = entries[Place(s)]
         /\ Cached(s).script = s /\ Cached(s) \in Entries
<1>1. DOMAIN entries = 1..Len(entries)
  OBVIOUS
<1>2. \E i \in 1..Len(entries) : entries[i].script = s
  BY <1>1 DEF CachedScripts
<1>3. Place(s) \in 1..Len(entries) /\ entries[Place(s)].script = s
  BY <1>1, <1>2 DEF Place
<1>4. Cached(s) = entries[Place(s)]
  BY DEF Cached
<1>5. entries[Place(s)] \in Entries
  BY <1>3, EntryLength
<1> QED BY <1>3, <1>4, <1>5

\* What the entry of s counts for.
Own(s) == IF s \in CachedScripts THEN Len(Cached(s).refs) ELSE 0

LEMMA WithoutFacts ==
  ASSUME CacheInv, NEW s
  PROVE  /\ Without(s) \in Seq(Entries) /\ Distinct(Without(s))
         /\ \A i \in 1..Len(Without(s)) : Without(s)[i].script # s
         /\ RefsIn(entries) = RefsIn(Without(s)) + Own(s)
         /\ RefsIn(Without(s)) \in Nat /\ Own(s) \in Nat
<1>1. entries \in Seq(Entries) /\ Distinct(entries)
  BY DEF CacheInv
<1>2. CASE s \in CachedScripts
  <2> DEFINE p == Place(s)
             rest == Seqs!RemoveAt(entries, p)
  <2>1. /\ p \in 1..Len(entries) /\ Cached(s) = entries[p] /\ entries[p].script = s
        /\ Cached(s) \in Entries
    BY <1>1, <1>2, PlaceFacts
  <2> HIDE DEF p
  <2>2. /\ rest \in Seq(Entries) /\ Len(rest) = Len(entries) - 1
        /\ \A i \in 1..Len(rest) : rest[i] = entries[IF i < p THEN i ELSE i + 1]
        /\ RefsIn(entries) = RefsIn(rest) + Len(entries[p].refs)
    BY <1>1, <2>1, RefsInRemoved
  <2>3. Without(s) = rest
    BY <1>2 DEF Without, p
  <2>4. Own(s) = Len(entries[p].refs) /\ Own(s) \in Nat
    BY <1>2, <2>1, EntryFacts DEF Own
  <2> HIDE DEF rest
  <2>5. Len(entries) \in Nat
    BY <1>1
  <2>6. \A i \in 1..Len(rest) :
          /\ i \in 1..Len(entries) /\ i + 1 \in 1..Len(entries)
          /\ rest[i] = IF i < p THEN entries[i] ELSE entries[i + 1]
    BY <2>2, <2>5
  <2>7. \A i \in 1..Len(rest) : rest[i].script # s
    BY <1>1, <2>1, <2>6 DEF Distinct
  <2>8. Distinct(rest)
    <3> SUFFICES ASSUME NEW i \in 1..Len(rest), NEW j \in 1..Len(rest),
                        rest[i].script = rest[j].script
                 PROVE  i = j
      BY DEF Distinct
    <3> DEFINE k == IF i < p THEN i ELSE i + 1
               m == IF j < p THEN j ELSE j + 1
    <3>1. k \in 1..Len(entries) /\ m \in 1..Len(entries) /\ entries[k] = rest[i] /\ entries[m] = rest[j]
      BY <2>6
    <3>2. k = m
      <4> HIDE DEF k, m
      <4> QED BY <1>1, <3>1 DEF Distinct
    <3> QED BY <2>1, <3>2
  <2>9. RefsIn(rest) \in Nat
    BY <2>2, RefsInNat
  <2> QED BY <2>2, <2>3, <2>4, <2>7, <2>8, <2>9
<1>3. CASE s \notin CachedScripts
  <2>1. Without(s) = entries /\ Own(s) = 0
    BY <1>3 DEF Without, Own
  <2>2. RefsIn(entries) \in Nat
    BY <1>1, RefsInNat
  <2>3. \A i \in 1..Len(entries) : entries[i].script # s
    BY <1>1, <1>3 DEF CachedScripts
  <2>4. RefsIn(entries) = RefsIn(entries) + 0
    BY <2>2
  <2> QED BY <1>1, <2>1, <2>2, <2>3, <2>4
<1> QED BY <1>2, <1>3

\* A new entry goes to the end.
LEMMA AppendFacts ==
  ASSUME NEW t \in Seq(Entries), Distinct(t), NEW e \in Entries,
         \A i \in 1..Len(t) : t[i].script # e.script
  PROVE  /\ Append(t, e) \in Seq(Entries) /\ Distinct(Append(t, e))
         /\ RefsIn(Append(t, e)) = RefsIn(t) + Len(e.refs)
<1> DEFINE u == Append(t, e)
<1>1. /\ u \in Seq(Entries) /\ Len(u) = Len(t) + 1 /\ Len(t) \in Nat
      /\ (\A i \in 1..Len(t) : u[i] = t[i]) /\ u[Len(u)] = e
  OBVIOUS
<1> HIDE DEF u
<1>2. RefsIn(u) = RefsIn(t) + Len(u[Len(u)].refs)
  BY <1>1, RefsInNext
<1>3. \A i \in 1..Len(u) : i \in 1..Len(t) \/ i = Len(u)
  BY <1>1
<1>4. Distinct(u)
  BY <1>1, <1>3 DEF Distinct
<1> QED BY <1>1, <1>2, <1>4 DEF u

LEMMA TouchFacts ==
  ASSUME CacheInv, NEW s
  PROVE  /\ Touch(s) \in Seq(Entries) /\ Distinct(Touch(s))
         /\ RefsIn(Touch(s)) = RefsIn(entries)
<1>1. entries \in Seq(Entries) /\ Distinct(entries)
  BY DEF CacheInv
<1>2. CASE s \in CachedScripts
  <2> DEFINE t == Without(s)
             e == Cached(s)
  <2>1. e.script = s /\ e \in Entries /\ Touch(s) = Append(t, e) /\ Own(s) = Len(e.refs)
    BY <1>1, <1>2, PlaceFacts DEF Touch, Own
  <2>2. /\ t \in Seq(Entries) /\ Distinct(t) /\ \A i \in 1..Len(t) : t[i].script # s
        /\ RefsIn(entries) = RefsIn(t) + Own(s)
    BY WithoutFacts
  <2> HIDE DEF t, e
  <2>3. /\ Append(t, e) \in Seq(Entries) /\ Distinct(Append(t, e))
        /\ RefsIn(Append(t, e)) = RefsIn(t) + Len(e.refs)
    BY <2>1, <2>2, AppendFacts
  <2> QED BY <2>1, <2>2, <2>3
<1>3. CASE s \notin CachedScripts
  BY <1>1, <1>3 DEF Touch
<1> QED BY <1>2, <1>3

\* Evicting leaves the end of the sequence, and with it what it counts.
LEMMA EvictedFacts ==
  ASSUME NEW t \in Seq(Entries), Distinct(t)
  PROVE  LET n == Evicted(t, RefsIn(t))
             rest == SubSeq(t, n + 1, Len(t))
         IN  /\ rest \in Seq(Entries) /\ Distinct(rest)
             /\ RefsIn(t) - RefsIn(SubSeq(t, 1, n)) = RefsIn(rest)
             /\ RefsIn(rest) <= MaxRefs
<1> DEFINE all == RefsIn(t)
           first(k) == RefsIn(SubSeq(t, 1, k))
           enough(k) == k = Len(t) \/ all - first(k) <= MaxRefs
           good == {k \in 0..Len(t) : enough(k)}
           n == Evicted(t, all)
<1>1. all \in Nat /\ Len(t) \in Nat
  BY RefsInNat
<1>2. ASSUME NEW k \in 0..Len(t) PROVE first(k) \in Nat
  <2>1. SubSeq(t, 1, k) \in Seq(Entries)
    OBVIOUS
  <2> QED BY <2>1, RefsInNat
<1>3. PICK k \in good : \A m \in good : k <= m
  <2>1. good \subseteq Nat /\ Len(t) \in good
    BY <1>1
  <2> HIDE DEF good
  <2> QED BY <2>1, LeastNumber
<1>4. ASSUME NEW m \in 0..(k - 1) PROVE all - first(m) > MaxRefs
  <2>1. m \in 0..Len(t) /\ m \notin good
    <3>1. m \in 0..Len(t) /\ m < k
      BY <1>1, <1>3
    <3>2. k \in Nat /\ m \in Nat
      BY <1>1, <1>3, <3>1
    <3> HIDE DEF good
    <3> QED BY <1>3, <3>1, <3>2
  <2>2. ~(all - first(m) <= MaxRefs)
    BY <2>1
  <2>3. first(m) \in Nat /\ MaxRefs \in Nat
    BY <1>2, <2>1, ScriptHistoryAssumption DEF ScriptHistoryAssumption
  <2> HIDE DEF first, all, good
  <2> QED BY <1>1, <2>2, <2>3
<1>5. /\ n \in 0..Len(t)
      /\ n = Len(t) \/ all - first(n) <= MaxRefs
  <2>1. \E i \in 0..Len(t) :
          /\ i = Len(t) \/ all - RefsIn(SubSeq(t, 1, i)) <= MaxRefs
          /\ \A m \in 0..(i - 1) : all - RefsIn(SubSeq(t, 1, m)) > MaxRefs
    BY <1>3, <1>4
  <2> HIDE DEF all
  <2> QED BY <2>1 DEF Evicted
<1> HIDE DEF n
<1> DEFINE a == SubSeq(t, 1, n)
           rest == SubSeq(t, n + 1, Len(t))
<1>6. a \in Seq(Entries) /\ Len(a) = n /\ \A i \in 1..n : a[i] = t[i]
  BY <1>5
<1>7. rest \in Seq(Entries) /\ Len(rest) = Len(t) - n /\ \A i \in 1..(Len(t) - n) : rest[i] = t[n + i]
  BY <1>5
<1> HIDE DEF a, rest
<1>8. t = a \o rest
  <2>1. a \in Seq(Entries) /\ rest \in Seq(Entries)
    BY <1>6, <1>7
  <2>2. /\ a \o rest \in Seq(Entries) /\ Len(a \o rest) = Len(a) + Len(rest)
        /\ \A i \in 1..(Len(a) + Len(rest)) : (a \o rest)[i] = IF i <= Len(a) THEN a[i] ELSE rest[i - Len(a)]
    BY <2>1
  <2>3. ASSUME NEW i \in 1..Len(t) PROVE t[i] = (a \o rest)[i]
    <3>1. i \in 1..(Len(a) + Len(rest))
      BY <1>5, <1>6, <1>7
    <3>2. CASE i <= n
      BY <1>5, <1>6, <2>2, <3>1, <3>2
    <3>3. CASE ~(i <= n)
      <4>1. i - Len(a) \in 1..(Len(t) - n) /\ ~(i <= Len(a)) /\ n + (i - Len(a)) = i
        BY <1>5, <1>6, <3>3
      <4>2. rest[i - Len(a)] = t[n + (i - Len(a))]
        BY <1>7, <4>1
      <4> QED BY <2>2, <3>1, <4>1, <4>2
    <3> QED BY <3>2, <3>3
  <2>4. Len(t) = Len(a \o rest)
    BY <1>1, <1>5, <1>6, <1>7, <2>2
  <2> QED BY <2>2, <2>3, <2>4, SameSequence
<1>9. /\ RefsIn(a \o rest) = RefsIn(a) + RefsIn(rest)
      /\ RefsIn(a) \in Nat /\ RefsIn(rest) \in Nat
  BY <1>6, <1>7, RefsInJoin, RefsInNat
<1>10. all = RefsIn(a) + RefsIn(rest)
  BY <1>8, <1>9
<1>11. all - RefsIn(a) = RefsIn(rest)
  <2> HIDE DEF all
  <2> QED BY <1>1, <1>9, <1>10
<1>12. RefsIn(rest) <= MaxRefs
  <2>1. CASE n = Len(t)
    <3>1. Len(rest) = 0
      BY <1>1, <1>7, <2>1
    <3>2. RefsIn(rest) = 0
      BY <3>1, RefsInEmpty
    <3> QED BY <3>2, ScriptHistoryAssumption DEF ScriptHistoryAssumption
  <2>2. CASE all - first(n) <= MaxRefs
    BY <1>11, <2>2 DEF a
  <2> QED BY <1>5, <2>1, <2>2
<1>13. Distinct(rest)
  <2>1. \A i \in 1..Len(rest) : i \in Nat /\ n + i \in 1..Len(t) /\ rest[i] = t[n + i]
    BY <1>1, <1>5, <1>7
  <2>2. ASSUME NEW i \in 1..Len(rest), NEW j \in 1..Len(rest), rest[i].script = rest[j].script
        PROVE  i = j
    <3>1. n + i = n + j
      BY <2>1, <2>2 DEF Distinct
    <3> QED BY <1>5, <2>1, <3>1
  <2> QED BY <2>2 DEF Distinct
<1> QED BY <1>7, <1>11, <1>12, <1>13 DEF a, rest, n

LEMMA PutKeeps ==
  ASSUME CacheInv, NEW s \in Scripts, NEW e \in Entries, e.script = s, Put(s, e)
  PROVE  CacheInv'
<1> DEFINE others == Without(s)
           rest == refs - Own(s)
           all == Append(others, e)
           count == rest + Len(e.refs)
           n == Evicted(all, count)
<1>1. /\ others \in Seq(Entries) /\ Distinct(others)
      /\ \A i \in 1..Len(others) : others[i].script # s
      /\ RefsIn(entries) = RefsIn(others) + Own(s)
      /\ RefsIn(others) \in Nat /\ Own(s) \in Nat
  BY WithoutFacts
<1>2. refs = RefsIn(entries) /\ refs <= MaxRefs /\ MaxRefs \in Nat
  BY ScriptHistoryAssumption DEF CacheInv, ScriptHistoryAssumption
<1>3. IF Len(e.refs) > MaxRefs
        THEN entries' = others /\ refs' = rest
        ELSE /\ entries' = SubSeq(all, n + 1, Len(all))
             /\ refs' = count - RefsIn(SubSeq(all, 1, n))
  BY DEF Put, Own
<1> HIDE DEF others
<1>4. rest = RefsIn(others) /\ rest <= MaxRefs
  <2> DEFINE own == Own(s)
  <2>1. own \in Nat /\ refs = RefsIn(others) + own /\ rest = refs - own
    BY <1>1, <1>2
  <2> HIDE DEF own, rest
  <2> QED BY <1>1, <1>2, <2>1
<1>5. CASE Len(e.refs) > MaxRefs
  BY <1>1, <1>3, <1>4, <1>5 DEF CacheInv
<1>6. CASE ~(Len(e.refs) > MaxRefs)
  <2>1. all \in Seq(Entries) /\ Distinct(all) /\ RefsIn(all) = RefsIn(others) + Len(e.refs)
    BY <1>1, AppendFacts
  <2>2. count = RefsIn(all)
    BY <1>4, <2>1
  <2> HIDE DEF all, rest, count
  <2> DEFINE m == Evicted(all, RefsIn(all))
             left == SubSeq(all, m + 1, Len(all))
  <2>3. /\ left \in Seq(Entries) /\ Distinct(left)
        /\ RefsIn(all) - RefsIn(SubSeq(all, 1, m)) = RefsIn(left)
        /\ RefsIn(left) <= MaxRefs
    BY <2>1, EvictedFacts
  <2>4. entries' = left /\ refs' = RefsIn(all) - RefsIn(SubSeq(all, 1, m))
    BY <1>3, <1>6, <2>2
  <2> HIDE DEF left, m
  <2> QED BY <2>3, <2>4 DEF CacheInv
<1> QED BY <1>5, <1>6

-----------------------------------------------------------------------------
(* The queries *)

LEMMA SplitFacts ==
  ASSUME NEW X, NEW t \in Seq(X), NEW n \in 0..Len(t)
  PROVE  /\ SubSeq(t, 1, n) \in Seq(X) /\ SubSeq(t, n + 1, Len(t)) \in Seq(X)
         /\ SubSeq(t, 1, n) \o SubSeq(t, n + 1, Len(t)) = t
<1> DEFINE a == SubSeq(t, 1, n)
           b == SubSeq(t, n + 1, Len(t))
<1>1. a \in Seq(X) /\ Len(a) = n /\ \A i \in 1..n : a[i] = t[i]
  OBVIOUS
<1>2. b \in Seq(X) /\ Len(b) = Len(t) - n /\ \A i \in 1..(Len(t) - n) : b[i] = t[n + i]
  OBVIOUS
<1> HIDE DEF a, b
<1>3. a \in Seq(X) /\ b \in Seq(X)
  BY <1>1, <1>2
<1>4. /\ a \o b \in Seq(X) /\ Len(a \o b) = Len(a) + Len(b)
      /\ \A i \in 1..(Len(a) + Len(b)) : (a \o b)[i] = IF i <= Len(a) THEN a[i] ELSE b[i - Len(a)]
  BY <1>3
<1>5. ASSUME NEW i \in 1..Len(t) PROVE (a \o b)[i] = t[i]
  <2>1. i \in 1..(Len(a) + Len(b))
    BY <1>1, <1>2
  <2>2. CASE i <= n
    BY <1>1, <1>4, <2>1, <2>2
  <2>3. CASE ~(i <= n)
    <3>1. i - Len(a) \in 1..(Len(t) - n) /\ ~(i <= Len(a)) /\ n + (i - Len(a)) = i
      BY <1>1, <2>3
    <3>2. b[i - Len(a)] = t[n + (i - Len(a))]
      BY <1>2, <3>1
    <3> QED BY <1>4, <2>1, <3>1, <3>2
  <2> QED BY <2>2, <2>3
<1>6. Len(a \o b) = Len(t)
  BY <1>1, <1>2, <1>4
<1>7. a \o b = t
  BY <1>4, <1>5, <1>6, SameSequence
<1> QED BY <1>3, <1>7 DEF a, b

LEMMA AmongTyped ==
  ASSUME NEW S, NEW t \in Seq(Refs)
  PROVE  Among(S, t) \in Seq(Refs)
<1>1. PICK f : Keeps(f, S, t, Len(t)) /\ Among(S, t) = f[Len(t)]
  BY AmongExists
<1> DEFINE bad == {n \in 0..Len(t) : f[n] \notin Seq(Refs)}
<1>2. SUFFICES ASSUME bad # {} PROVE FALSE
  BY <1>1
<1>3. PICK n \in bad : \A m \in bad : n <= m
  <2>1. bad \subseteq Nat
    OBVIOUS
  <2> HIDE DEF bad
  <2> QED BY <1>2, <2>1, LeastNumber
<1>4. n \in 0..Len(t) /\ f[n] \notin Seq(Refs) /\ Len(t) \in Nat
  OBVIOUS
<1>5. f[n] = IF n = 0 THEN <<>> ELSE Keep(S, f[n - 1], t[n])
  BY <1>1, <1>4, KeepsAt
<1>6. n # 0 /\ n - 1 \in 0..Len(t) /\ n - 1 < n /\ t[n] \in Refs
  BY <1>4, <1>5
<1>7. n - 1 \notin bad
  <2> HIDE DEF bad
  <2> QED BY <1>3, <1>4, <1>6
<1>8. f[n - 1] \in Seq(Refs)
  BY <1>6, <1>7
<1> HIDE DEF bad
<1>9. Keep(S, f[n - 1], t[n]) \in Seq(Refs)
  BY <1>6, <1>8 DEF Keep
<1> QED BY <1>4, <1>5, <1>6, <1>9

LEMMA ScriptRefsTyped ==
  ASSUME NEW k \in Tips, NEW s
  PROVE  ScriptRefs(k, s) \in Seq(Refs)
<1>1. Chain[k] \in Seq(Refs)
  BY ScriptHistoryAssumption DEF ScriptHistoryAssumption
<1> QED BY <1>1, AmongTyped DEF ScriptRefs

FoldsType == {FoldOn(EmptyFold, s, rs) : s \in Scripts, rs \in Seq(Refs)}
HistoriesType == {Finish(f) : f \in FoldsType}

QueryType ==
  [at : {"idle", "refs", "get", "check", "put", "done"}, script : Scripts,
   tries : 0..(REORG_RETRIES - 1), tip : Tips, refs : Seq(Refs), start : Nat,
   fold : FoldsType, history : HistoriesType]

\* What a query has found out when it is where it is.
Knows(q) ==
  /\ q.start \in 0..Len(q.refs)
  /\ q.at = "refs" => q.start = 0
  /\ q.at \in {"get", "check", "put"} => q.refs = ScriptRefs(q.tip, q.script)
  /\ q.at = "check" => q.fold = FoldOn(EmptyFold, q.script, SubSeq(q.refs, 1, q.start))
  /\ q.at = "put" => q.fold = FoldOn(EmptyFold, q.script, q.refs)
  /\ q.at = "done" =>
       q.history = Finish(FoldOn(EmptyFold, q.script, ScriptRefs(q.tip, q.script)))

QueryInv ==
  /\ tip \in Tips /\ query \in [Clients -> QueryType]
  /\ \A c \in Clients : Knows(query[c])

\* The inductive invariant.
IInv == CacheInv /\ QueryInv

LEMMA EmptyFoldTyped ==
  /\ EmptyFold \in FoldsType /\ Finish(EmptyFold) \in HistoriesType
  /\ \A s : \A rs \in Seq(Refs) : EmptyFold = FoldOn(EmptyFold, s, SubSeq(rs, 1, 0))
<1>1. PICK s \in Scripts : TRUE
  BY ScriptHistoryAssumption DEF ScriptHistoryAssumption
<1>2. <<>> \in Seq(Refs) /\ Len(<<>>) = 0
  OBVIOUS
<1>3. FoldOn(EmptyFold, s, <<>>) = EmptyFold
  BY <1>2, FoldOnEmpty
<1>4. EmptyFold \in FoldsType
  <2> DEFINE none == <<>>
  <2>1. none \in Seq(Refs) /\ FoldOn(EmptyFold, s, none) = EmptyFold
    BY <1>2, <1>3
  <2> HIDE DEF none
  <2>2. FoldOn(EmptyFold, s, none) \in FoldsType
    BY <2>1 DEF FoldsType
  <2> QED BY <2>1, <2>2
<1>5. ASSUME NEW r, NEW rs \in Seq(Refs) PROVE EmptyFold = FoldOn(EmptyFold, r, SubSeq(rs, 1, 0))
  <2> DEFINE none == SubSeq(rs, 1, 0)
  <2>1. Len(none) = 0
    OBVIOUS
  <2> HIDE DEF none
  <2>2. FoldOn(EmptyFold, r, none) = EmptyFold
    BY <2>1, FoldOnEmpty
  <2> QED BY <2>2 DEF none
<1> QED BY <1>4, <1>5 DEF HistoriesType

LEMMA IdleFacts ==
  /\ Idle \in QueryType /\ Knows(Idle) /\ Idle.at = "idle"
  /\ Idle.start = 0 /\ Idle.refs = <<>>
<1>1. (CHOOSE s \in Scripts : TRUE) \in Scripts /\ (CHOOSE k \in Tips : TRUE) \in Tips
  BY ScriptHistoryAssumption DEF ScriptHistoryAssumption
<1>2. 0 \in 0..(REORG_RETRIES - 1)
  BY ScriptHistoryAssumption DEF ScriptHistoryAssumption
<1>3. <<>> \in Seq(Refs) /\ Len(<<>>) = 0
  OBVIOUS
<1>4. Idle \in QueryType
  BY <1>1, <1>2, <1>3, EmptyFoldTyped DEF Idle, QueryType
<1>5. Idle.at = "idle" /\ Idle.start = 0 /\ Idle.refs = <<>>
  BY DEF Idle
<1> QED BY <1>3, <1>4, <1>5 DEF Knows

\* A query becomes another one.
LEMMA BecomesKeeps ==
  ASSUME QueryInv, NEW c \in Clients, NEW q \in QueryType, Knows(q),
         query' = [query EXCEPT ![c] = q], tip' \in Tips
  PROVE  QueryInv'
<1>1. query \in [Clients -> QueryType]
  BY DEF QueryInv
<1>2. query' \in [Clients -> QueryType]
  BY <1>1
<1>3. \A d \in Clients : query'[d] = IF d = c THEN q ELSE query[d]
  BY <1>1
<1>4. \A d \in Clients : Knows(query'[d])
  BY <1>3 DEF QueryInv
<1> QED BY <1>2, <1>4 DEF QueryInv

LEMMA DoneFacts ==
  ASSUME NEW q \in QueryType,
         NEW fold, fold = FoldOn(EmptyFold, q.script, ScriptRefs(q.tip, q.script))
  PROVE  Done(q, fold) \in QueryType /\ Knows(Done(q, fold))
<1> DEFINE h == Finish(fold)
           d == Done(q, fold)
<1>1. q.script \in Scripts /\ q.tip \in Tips
  BY DEF QueryType
<1>2. h \in HistoriesType
  <2>1. ScriptRefs(q.tip, q.script) \in Seq(Refs)
    BY <1>1, ScriptRefsTyped
  <2>2. fold \in FoldsType
    BY <1>1, <2>1 DEF FoldsType
  <2> QED BY <2>2 DEF HistoriesType
<1>3. d = [Idle EXCEPT !.at = "done", !.script = q.script, !.tip = q.tip, !.history = h]
  BY DEF Done
<1> HIDE DEF h, d
<1>4. d \in QueryType
  BY <1>1, <1>2, <1>3, IdleFacts DEF QueryType
<1>5. /\ d.at = "done" /\ d.script = q.script /\ d.tip = q.tip /\ d.history = h
      /\ d.refs = <<>> /\ d.start = 0
  BY <1>3, IdleFacts DEF QueryType
<1>6. Knows(d)
  BY <1>5 DEF Knows, h
<1> QED BY <1>4, <1>6 DEF d

LEMMA StartFacts ==
  ASSUME NEW s \in Scripts, NEW n \in 0..(REORG_RETRIES - 1)
  PROVE  LET q == [Idle EXCEPT !.at = "refs", !.script = s, !.tries = n]
         IN  q \in QueryType /\ Knows(q)
<1> DEFINE q == [Idle EXCEPT !.at = "refs", !.script = s, !.tries = n]
<1>1. q \in QueryType
  BY IdleFacts DEF QueryType
<1>2. q.at = "refs" /\ q.refs = <<>> /\ q.start = 0
  BY IdleFacts DEF QueryType
<1> HIDE DEF q
<1>3. Knows(q)
  BY <1>2 DEF Knows
<1> QED BY <1>1, <1>3 DEF q

LEMMA ListRefsKeeps ==
  ASSUME IInv, NEW c \in Clients, ListRefs(c)
  PROVE  IInv'
<1> DEFINE q == query[c]
           rs == ScriptRefs(tip, q.script)
           new == [q EXCEPT !.at = "get", !.tip = tip, !.refs = rs]
<1>1. /\ CacheInv /\ QueryInv /\ tip \in Tips /\ query \in [Clients -> QueryType]
      /\ q \in QueryType /\ Knows(q) /\ q.at = "refs" /\ q.script \in Scripts
  BY DEF IInv, QueryInv, ListRefs, QueryType
<1>2. rs \in Seq(Refs)
  BY <1>1, ScriptRefsTyped
<1>3. query' = [query EXCEPT ![c] = new] /\ UNCHANGED <<tip, entries, refs>>
  BY <1>1 DEF ListRefs
<1> HIDE DEF rs
<1>4. new \in QueryType
  BY <1>1, <1>2 DEF QueryType
<1>5. new.at = "get" /\ new.tip = tip /\ new.refs = rs /\ new.script = q.script /\ new.start = q.start
  BY <1>1 DEF QueryType
<1> HIDE DEF new
<1>6. q.start = 0
  BY <1>1 DEF Knows
<1>7. Knows(new)
  BY <1>2, <1>5, <1>6 DEF Knows, rs
<1>8. QueryInv'
  BY <1>1, <1>3, <1>4, <1>7, BecomesKeeps
<1>9. CacheInv'
  BY <1>1, <1>3 DEF CacheInv
<1> QED BY <1>8, <1>9 DEF IInv

\* The cached references a query extends are the first of its own.
LEMMA ExtendsFacts ==
  ASSUME CacheInv, NEW c, query[c].refs \in Seq(Refs), Extends(c)
  PROVE  LET cached == Cached(query[c].script)
         IN  /\ cached \in Entries /\ cached.script = query[c].script
             /\ cached.refs \in Seq(Refs) /\ Len(cached.refs) \in 0..Len(query[c].refs)
             /\ SubSeq(query[c].refs, 1, Len(cached.refs)) = cached.refs
             /\ cached.fold = FoldOn(EmptyFold, query[c].script, cached.refs)
<1> DEFINE s == query[c].script
           rs == query[c].refs
           cached == Cached(s)
           old == cached.refs
<1>1. s \in CachedScripts /\ Seqs!IsPrefix(old, rs)
  BY DEF Extends
<1>2. cached \in Entries /\ cached.script = s
  BY <1>1, PlaceFacts DEF CacheInv
<1>3. /\ old \in Seq(Refs) /\ Len(old) \in Nat /\ cached.fold = FoldOn(EmptyFold, s, old)
  BY <1>2, EntryFacts
<1> HIDE DEF old, rs, cached
<1>4. Len(old) <= Len(rs) /\ SubSeq(old, 1, Len(old)) = SubSeq(rs, 1, Len(old))
  BY <1>1 DEF Seqs!IsPrefix
<1>5. SubSeq(old, 1, Len(old)) = old
  BY <1>3, WholePrefix
<1>6. Len(rs) \in Nat
  BY DEF rs
<1>7. Len(old) \in 0..Len(rs) /\ SubSeq(rs, 1, Len(old)) = old
  BY <1>3, <1>4, <1>5, <1>6
<1> QED BY <1>2, <1>3, <1>7 DEF old, rs, cached

LEMMA TouchKeeps ==
  ASSUME CacheInv, NEW s, entries' = Touch(s), refs' = refs
  PROVE  CacheInv'
<1>1. /\ Touch(s) \in Seq(Entries) /\ Distinct(Touch(s))
      /\ RefsIn(Touch(s)) = RefsIn(entries)
  BY TouchFacts
<1>2. refs = RefsIn(entries) /\ refs <= MaxRefs
  BY DEF CacheInv
<1> QED BY <1>1, <1>2 DEF CacheInv

LEMMA HitKeeps ==
  ASSUME IInv, NEW c \in Clients, Hit(c)
  PROVE  IInv'
<1> DEFINE q == query[c]
           cached == Cached(q.script)
           old == cached.refs
           fold == cached.fold
<1>1. /\ CacheInv /\ QueryInv /\ tip \in Tips /\ query \in [Clients -> QueryType]
      /\ q \in QueryType /\ Knows(q) /\ q.at = "get" /\ q.script \in Scripts
      /\ q.refs \in Seq(Refs)
  BY DEF IInv, QueryInv, Hit, QueryType
<1>2. /\ Extends(c) /\ Len(old) = Len(q.refs)
      /\ query' = [query EXCEPT ![c] = Done(q, fold)]
      /\ entries' = Touch(q.script) /\ tip' = tip /\ refs' = refs
  BY DEF Hit
<1>3. SubSeq(q.refs, 1, Len(old)) = old /\ fold = FoldOn(EmptyFold, q.script, old)
  BY <1>1, <1>2, ExtendsFacts
<1> HIDE DEF old, fold
<1>4. old = q.refs
  <2>1. SubSeq(q.refs, 1, Len(q.refs)) = q.refs
    BY <1>1, WholePrefix
  <2> QED BY <1>2, <1>3, <2>1
<1>5. fold = FoldOn(EmptyFold, q.script, ScriptRefs(q.tip, q.script))
  BY <1>1, <1>3, <1>4 DEF Knows
<1>6. Done(q, fold) \in QueryType /\ Knows(Done(q, fold))
  BY <1>1, <1>5, DoneFacts
<1>7. QueryInv'
  BY <1>1, <1>2, <1>6, BecomesKeeps
<1>8. CacheInv'
  BY <1>1, <1>2, TouchKeeps
<1> QED BY <1>7, <1>8 DEF IInv

LEMMA MissKeeps ==
  ASSUME IInv, NEW c \in Clients, Miss(c)
  PROVE  IInv'
<1> DEFINE q == query[c]
           cached == Cached(q.script)
           fold == IF Extends(c) THEN cached.fold ELSE EmptyFold
           start == IF Extends(c) THEN Len(cached.refs) ELSE 0
           new == [q EXCEPT !.at = "check", !.fold = fold, !.start = start]
<1>1. /\ CacheInv /\ QueryInv /\ tip \in Tips /\ query \in [Clients -> QueryType]
      /\ q \in QueryType /\ Knows(q) /\ q.at = "get" /\ q.script \in Scripts
      /\ q.refs \in Seq(Refs)
  BY DEF IInv, QueryInv, Miss, QueryType
<1>2. /\ query' = [query EXCEPT ![c] = new]
      /\ entries' = Touch(q.script) /\ tip' = tip /\ refs' = refs
  BY <1>1 DEF Miss
<1>3. /\ fold = FoldOn(EmptyFold, q.script, SubSeq(q.refs, 1, start))
      /\ fold \in FoldsType /\ start \in 0..Len(q.refs)
  <2>1. CASE Extends(c)
    <3> DEFINE old == cached.refs
    <3>1. /\ SubSeq(q.refs, 1, Len(old)) = old /\ cached.fold = FoldOn(EmptyFold, q.script, old)
          /\ old \in Seq(Refs) /\ Len(old) \in 0..Len(q.refs)
      BY <1>1, <2>1, ExtendsFacts
    <3>2. fold = cached.fold /\ start = Len(old)
      BY <2>1
    <3> HIDE DEF old, fold, start
    <3>3. fold = FoldOn(EmptyFold, q.script, old)
      BY <3>1, <3>2
    <3>4. fold \in FoldsType
      BY <1>1, <3>1, <3>3 DEF FoldsType
    <3> QED BY <3>1, <3>2, <3>3, <3>4
  <2>2. CASE ~Extends(c)
    <3>1. fold = EmptyFold /\ start = 0 /\ Len(q.refs) \in Nat
      BY <1>1, <2>2
    <3> HIDE DEF fold, start
    <3> QED BY <1>1, <3>1, EmptyFoldTyped
  <2> QED BY <2>1, <2>2
<1> HIDE DEF fold, start
<1>4. start \in Nat
  BY <1>1, <1>3
<1>5. new \in QueryType
  BY <1>1, <1>3, <1>4 DEF QueryType
<1>6. /\ new.at = "check" /\ new.tip = q.tip /\ new.refs = q.refs /\ new.script = q.script
      /\ new.start = start /\ new.fold = fold
  BY <1>1 DEF QueryType
<1> HIDE DEF new
<1>7. q.refs = ScriptRefs(q.tip, q.script)
  BY <1>1 DEF Knows
<1>8. Knows(new)
  BY <1>3, <1>6, <1>7 DEF Knows
<1>9. QueryInv'
  BY <1>1, <1>2, <1>5, <1>8, BecomesKeeps
<1>10. CacheInv'
  BY <1>1, <1>2, TouchKeeps
<1> QED BY <1>9, <1>10 DEF IInv

LEMMA CheckTipKeeps ==
  ASSUME IInv, NEW c \in Clients, CheckTip(c)
  PROVE  IInv'
<1> DEFINE q == query[c]
           a == SubSeq(q.refs, 1, q.start)
           b == SubSeq(q.refs, q.start + 1, Len(q.refs))
           fold == FoldOn(q.fold, q.script, b)
           new == [q EXCEPT !.at = "put", !.fold = fold]
<1>1. /\ CacheInv /\ QueryInv /\ tip \in Tips /\ query \in [Clients -> QueryType]
      /\ q \in QueryType /\ Knows(q) /\ q.at = "check" /\ q.script \in Scripts
      /\ q.refs \in Seq(Refs)
  BY DEF IInv, QueryInv, CheckTip, QueryType
<1>2. query' = [query EXCEPT ![c] = new] /\ UNCHANGED <<tip, entries, refs>>
  BY <1>1 DEF CheckTip
<1>3. /\ q.start \in 0..Len(q.refs) /\ q.refs = ScriptRefs(q.tip, q.script)
      /\ q.fold = FoldOn(EmptyFold, q.script, a)
  BY <1>1 DEF Knows
<1>4. a \in Seq(Refs) /\ b \in Seq(Refs) /\ a \o b = q.refs
  BY <1>1, <1>3, SplitFacts
<1> HIDE DEF a, b
<1>5. fold = FoldOn(EmptyFold, q.script, q.refs)
  <2> DEFINE s == q.script
  <2> HIDE DEF q, s
  <2>1. a \in Seq(Refs) /\ b \in Seq(Refs)
    BY <1>4
  <2>2. FoldOn(FoldOn(EmptyFold, s, a), s, b) = FoldOn(EmptyFold, s, a \o b)
    BY <2>1, FoldOnJoin
  <2> QED BY <1>3, <1>4, <2>2 DEF s
<1> HIDE DEF fold
<1>6. fold \in FoldsType
  BY <1>1, <1>5 DEF FoldsType
<1>7. new \in QueryType
  BY <1>1, <1>6 DEF QueryType
<1>8. /\ new.at = "put" /\ new.tip = q.tip /\ new.refs = q.refs /\ new.script = q.script
      /\ new.start = q.start /\ new.fold = fold
  BY <1>1 DEF QueryType
<1> HIDE DEF new
<1>9. Knows(new)
  BY <1>3, <1>5, <1>8 DEF Knows
<1>10. QueryInv'
  BY <1>1, <1>2, <1>7, <1>9, BecomesKeeps
<1>11. CacheInv'
  BY <1>1, <1>2 DEF CacheInv
<1> QED BY <1>10, <1>11 DEF IInv

LEMMA StoreKeeps ==
  ASSUME IInv, NEW c \in Clients, Store(c)
  PROVE  IInv'
<1> DEFINE q == query[c]
           e == [script |-> q.script, refs |-> q.refs, fold |-> q.fold]
<1>1. /\ CacheInv /\ QueryInv /\ tip \in Tips /\ query \in [Clients -> QueryType]
      /\ q \in QueryType /\ Knows(q) /\ q.at = "put" /\ q.script \in Scripts
      /\ q.refs \in Seq(Refs)
  BY DEF IInv, QueryInv, Store, QueryType
<1>2. /\ Put(q.script, e) /\ query' = [query EXCEPT ![c] = Done(q, q.fold)] /\ tip' = tip
  BY DEF Store
<1>3. /\ q.fold = FoldOn(EmptyFold, q.script, q.refs) /\ q.refs = ScriptRefs(q.tip, q.script)
  BY <1>1 DEF Knows
<1>4. e \in Entries /\ e.script = q.script
  BY <1>1, <1>3 DEF Entries
<1> HIDE DEF e
<1>5. CacheInv'
  BY <1>1, <1>2, <1>4, PutKeeps
<1>6. Done(q, q.fold) \in QueryType /\ Knows(Done(q, q.fold))
  BY <1>1, <1>3, DoneFacts
<1>7. QueryInv'
  BY <1>1, <1>2, <1>6, BecomesKeeps
<1> QED BY <1>5, <1>7 DEF IInv

LEMMA RefreshKeeps ==
  ASSUME IInv, Refresh
  PROVE  IInv'
<1>1. tip' \in Tips /\ UNCHANGED <<entries, refs, query>>
  BY DEF Refresh
<1>2. CacheInv'
  BY <1>1 DEF IInv, CacheInv
<1>3. QueryInv'
  BY <1>1 DEF IInv, QueryInv
<1> QED BY <1>2, <1>3 DEF IInv

\* The steps that leave the cache alone and end or restart a query.
LEMMA EndsKeeps ==
  ASSUME IInv, NEW c \in Clients, NEW q \in QueryType, Knows(q),
         query' = [query EXCEPT ![c] = q], UNCHANGED <<tip, entries, refs>>
  PROVE  IInv'
<1>1. QueryInv /\ tip' \in Tips
  BY DEF IInv, QueryInv
<1>2. QueryInv'
  BY <1>1, BecomesKeeps
<1>3. CacheInv'
  BY DEF IInv, CacheInv
<1> QED BY <1>2, <1>3 DEF IInv

LEMMA BeginKeeps ==
  ASSUME IInv, NEW c \in Clients, Begin(c)
  PROVE  IInv'
<1>1. PICK s \in Scripts : query' = [query EXCEPT ![c] = [Idle EXCEPT !.at = "refs", !.script = s]]
  BY DEF Begin
<1> DEFINE q == [Idle EXCEPT !.at = "refs", !.script = s]
<1>2. q \in QueryType
  BY IdleFacts DEF QueryType
<1>3. q.at = "refs" /\ q.refs = <<>> /\ q.start = 0
  BY IdleFacts DEF QueryType
<1>4. query' = [query EXCEPT ![c] = q] /\ UNCHANGED <<tip, entries, refs>>
  BY <1>1 DEF Begin
<1> HIDE DEF q
<1>5. Knows(q)
  BY <1>3 DEF Knows
<1> QED BY <1>2, <1>4, <1>5, EndsKeeps

LEMMA FetchFailsKeeps ==
  ASSUME IInv, NEW c \in Clients, FetchFails(c)
  PROVE  IInv'
BY IdleFacts, EndsKeeps DEF FetchFails

LEMMA ReturnKeeps ==
  ASSUME IInv, NEW c \in Clients, Return(c)
  PROVE  IInv'
BY IdleFacts, EndsKeeps DEF Return

LEMMA RetryKeeps ==
  ASSUME IInv, NEW c \in Clients, Retry(c)
  PROVE  IInv'
<1> DEFINE n == query[c].tries + 1
           s == query[c].script
           q == [Idle EXCEPT !.at = "refs", !.script = s, !.tries = n]
<1>1. query[c].tries \in 0..(REORG_RETRIES - 1) /\ s \in Scripts
  BY DEF IInv, QueryInv, QueryType
<1>2. REORG_RETRIES \in Nat
  BY ScriptHistoryAssumption DEF ScriptHistoryAssumption
<1>3. /\ query' = [query EXCEPT ![c] = IF n < REORG_RETRIES THEN q ELSE Idle]
      /\ UNCHANGED <<tip, entries, refs>>
  BY DEF Retry
<1>4. n < REORG_RETRIES => n \in 0..(REORG_RETRIES - 1)
  BY <1>1, <1>2
<1> HIDE DEF n, s
<1>5. CASE n < REORG_RETRIES
  <2>1. q \in QueryType /\ Knows(q)
    BY <1>1, <1>4, <1>5, StartFacts
  <2> HIDE DEF q
  <2>2. query' = [query EXCEPT ![c] = q]
    BY <1>3, <1>5
  <2> QED BY <1>3, <2>1, <2>2, EndsKeeps
<1>6. CASE ~(n < REORG_RETRIES)
  <2>1. query' = [query EXCEPT ![c] = Idle]
    BY <1>3, <1>6
  <2> QED BY <1>3, <2>1, IdleFacts, EndsKeeps
<1> QED BY <1>5, <1>6

LEMMA InitInv == Init => IInv
<1> SUFFICES ASSUME Init PROVE IInv
  OBVIOUS
<1>1. entries = <<>> /\ refs = 0 /\ tip \in Tips /\ query = [c \in Clients |-> Idle]
  BY DEF Init
<1>2. entries \in Seq(Entries) /\ Len(entries) = 0 /\ Distinct(entries)
  BY <1>1 DEF Distinct
<1>3. RefsIn(entries) = 0 /\ MaxRefs \in Nat
  BY <1>2, RefsInEmpty, ScriptHistoryAssumption DEF ScriptHistoryAssumption
<1>4. CacheInv
  BY <1>1, <1>2, <1>3 DEF CacheInv
<1>5. query \in [Clients -> QueryType] /\ \A c \in Clients : query[c] = Idle
  BY <1>1, IdleFacts
<1>6. QueryInv
  BY <1>1, <1>5, IdleFacts DEF QueryInv
<1> QED BY <1>4, <1>6 DEF IInv

LEMMA NextInv == IInv /\ [Next]_vars => IInv'
<1> SUFFICES ASSUME IInv, [Next]_vars PROVE IInv'
  OBVIOUS
<1>1. CASE UNCHANGED vars
  BY <1>1 DEF vars, IInv, CacheInv, QueryInv
<1>2. CASE Refresh
  BY <1>2, RefreshKeeps
<1>3. ASSUME NEW c \in Clients, Begin(c) \/ QueryStep(c) \/ FetchFails(c)
      PROVE  IInv'
  BY <1>3, BeginKeeps, ListRefsKeeps, HitKeeps, MissKeeps, CheckTipKeeps, RetryKeeps,
     StoreKeeps, ReturnKeeps, FetchFailsKeeps DEF QueryStep
<1> QED BY <1>1, <1>2, <1>3 DEF Next

LEMMA InvAlways == Spec => []IInv
BY InitInv, NextInv, PTL DEF Spec

\* The count of references that ScriptCache keeps beside its entries is theirs
\* and within max_refs, for any queries in any order: a replaced or refused
\* entry is taken off it, and eviction stops neither early nor late.
THEOREM CacheStaysBounded == Spec => []CacheBounded
<1>1. IInv => CacheBounded
  BY DEF IInv, CacheInv, CacheBounded
<1> QED BY <1>1, InvAlways, PTL

-----------------------------------------------------------------------------
(* What a fold computes *)

\* The transactions of the first n references of the chain ending in k.
Txs(k, n) == {Chain[k][i].tx : i \in 1..n}

\* What t spends of the outputs to s, and the output to s that it pays.
Spends(s, t) == {o \in Inputs[t] : o[2] = s}
Pays(s, t) == IF s \in Outputs[t] THEN {<<t, s>>} ELSE {}

\* All outputs to s that the first n references pay, spent or not.
PaidBy(k, s, n) == {<<t, s>> : t \in {u \in Txs(k, n) : s \in Outputs[u]}}

Sizes(k, s, n) == {Cardinality(UnspentAfter(k, s, m)) : m \in 0..n}

Row(s, r) == [ref |-> r, spent |-> Spends(s, r.tx), funded |-> Pays(s, r.tx)]
Rows(s, rs) == [i \in DOMAIN rs |-> Row(s, rs[i])]

\* The fold is the history of s in the first n references of the chain.
Good(fold, k, s, n) ==
  /\ fold.rows = Rows(s, Among(Touching(Txids, s), SubSeq(Chain[k], 1, n)))
  /\ fold.funded = PaidBy(k, s, n)
  /\ fold.live = UnspentAfter(k, s, n) /\ IsFiniteSet(fold.live)
  /\ fold.peak \in Sizes(k, s, n) /\ \A m \in Sizes(k, s, n) : m <= fold.peak

\* The next transaction of a chain is new, and no transaction before it spends
\* from it; what it spends was there before it.
LEMMA ChainStep ==
  ASSUME NEW k \in Tips, NEW n \in Nat, n < Len(Chain[k]), NEW r, r = Chain[k][n + 1]
  PROVE  /\ r \in Refs /\ r.tx \in Txids
         /\ Txs(k, n) \subseteq Txids /\ Txs(k, n + 1) = Txs(k, n) \cup {r.tx}
         /\ \A o \in Inputs[r.tx] : o[1] \in Txs(k, n) /\ o[1] # r.tx
         /\ \A v \in Txs(k, n) : \A o \in Inputs[v] : o[1] # r.tx
<1> DEFINE C == Chain[k]
<1>1. C \in Seq(Refs) /\ Len(C) \in Nat /\ \A i \in 1..Len(C) : C[i] \in Refs
  BY ScriptHistoryAssumption DEF ScriptHistoryAssumption
<1>2. \A i \in 1..Len(C) :
        /\ \A j \in 1..(i - 1) : C[j].tx # C[i].tx
        /\ \A o \in Inputs[C[i].tx] : \E j \in 1..(i - 1) : C[j].tx = o[1]
  BY ChainAssumption DEF ChainAssumption
<1>3. \A i \in 1..Len(C) : C[i].tx \in Txids
  BY <1>1 DEF Refs
<1>4. r = C[n + 1] /\ Txs(k, n) = {C[i].tx : i \in 1..n} /\ Txs(k, n + 1) = {C[i].tx : i \in 1..(n + 1)}
  BY DEF Txs
<1>5. n < Len(C)
  OBVIOUS
<1> HIDE DEF C
<1>6. n + 1 \in 1..Len(C) /\ \A i \in 1..n : i \in 1..Len(C)
  BY <1>1, <1>5
<1>7. r \in Refs /\ r.tx \in Txids
  BY <1>1, <1>3, <1>4, <1>6
<1>8. Txs(k, n) \subseteq Txids
  BY <1>3, <1>4, <1>6
<1>9. Txs(k, n + 1) = Txs(k, n) \cup {r.tx}
  <2>1. \A i : i \in 1..(n + 1) <=> i \in 1..n \/ i = n + 1
    OBVIOUS
  <2> QED BY <1>4, <2>1
<1>10. \A j \in 1..n : C[j].tx # r.tx
  <2>1. \A j \in 1..((n + 1) - 1) : C[j].tx # C[n + 1].tx
    BY <1>2, <1>6
  <2>2. (n + 1) - 1 = n
    OBVIOUS
  <2> QED BY <1>4, <2>1, <2>2
<1>11. ASSUME NEW o \in Inputs[r.tx] PROVE o[1] \in Txs(k, n) /\ o[1] # r.tx
  <2>1. \E j \in 1..((n + 1) - 1) : C[j].tx = o[1]
    BY <1>2, <1>4, <1>6
  <2>2. (n + 1) - 1 = n
    OBVIOUS
  <2>3. PICK j \in 1..n : C[j].tx = o[1]
    BY <2>1, <2>2
  <2> QED BY <1>4, <1>10, <2>3
<1>12. ASSUME NEW v \in Txs(k, n), NEW o \in Inputs[v] PROVE o[1] # r.tx
  <2>1. PICK i \in 1..n : v = C[i].tx
    BY <1>4
  <2>2. i \in 1..Len(C)
    BY <1>6
  <2>3. PICK j \in 1..(i - 1) : C[j].tx = o[1]
    BY <1>2, <2>1, <2>2
  <2>4. j \in 1..n
    OBVIOUS
  <2> QED BY <1>10, <2>3, <2>4
<1> QED BY <1>7, <1>8, <1>9, <1>11, <1>12

SetsNext(k, s, n, t) ==
  /\ Inputs[t] \cap PaidBy(k, s, n) = Spends(s, t)
  /\ PaidBy(k, s, n + 1) = PaidBy(k, s, n) \cup Pays(s, t)
  /\ UnspentAfter(k, s, n + 1) = (UnspentAfter(k, s, n) \ Spends(s, t)) \cup Pays(s, t)

\* What one more transaction changes; the inputs the fold takes for the script's
\* own, those that spend an output it has seen, are the script's own.
LEMMA SetsStep ==
  ASSUME NEW k \in Tips, NEW s \in Scripts, NEW n \in Nat, n < Len(Chain[k]),
         NEW t, t = Chain[k][n + 1].tx
  PROVE  SetsNext(k, s, n, t)
<1> DEFINE S == Txs(k, n)
<1>1. /\ t \in Txids /\ S \subseteq Txids /\ Txs(k, n + 1) = S \cup {t}
      /\ \A o \in Inputs[t] : o[1] \in S /\ o[1] # t
      /\ \A v \in S : \A o \in Inputs[v] : o[1] # t
  BY ChainStep
<1>2. \A o \in Inputs[t] : o \in Txids \X Scripts /\ o = <<o[1], o[2]>> /\ o[2] \in Outputs[o[1]]
  BY <1>1, TransactionsAssumption DEF TransactionsAssumption, Outpoints
<1>3. UnspentAfter(k, s, n) = Unspent(S, s) /\ UnspentAfter(k, s, n + 1) = Unspent(S \cup {t}, s)
  BY <1>1 DEF UnspentAfter, Txs
<1>4. PaidBy(k, s, n) = {<<u, s>> : u \in {v \in S : s \in Outputs[v]}}
  BY DEF PaidBy
<1>5. PaidBy(k, s, n + 1) = {<<u, s>> : u \in {v \in S \cup {t} : s \in Outputs[v]}}
  BY <1>1 DEF PaidBy
<1> HIDE DEF S
<1>6. Inputs[t] \cap PaidBy(k, s, n) = Spends(s, t)
  <2>1. ASSUME NEW o \in Inputs[t], o[2] = s PROVE o \in PaidBy(k, s, n)
    <3>1. o = <<o[1], s>> /\ o[1] \in S /\ s \in Outputs[o[1]]
      BY <1>1, <1>2, <2>1
    <3> QED BY <1>4, <3>1
  <2>2. ASSUME NEW o \in Inputs[t], o \in PaidBy(k, s, n) PROVE o[2] = s
    BY <1>4, <2>2
  <2> QED BY <2>1, <2>2 DEF Spends
<1>7. PaidBy(k, s, n + 1) = PaidBy(k, s, n) \cup Pays(s, t)
  BY <1>4, <1>5 DEF Pays
<1>8. Unspent(S \cup {t}, s) = (Unspent(S, s) \ Spends(s, t)) \cup Pays(s, t)
  <2>1. ASSUME NEW u \in S
        PROVE  (\A v \in S \cup {t} : <<u, s>> \notin Inputs[v])
               <=> (\A v \in S : <<u, s>> \notin Inputs[v]) /\ <<u, s>> \notin Spends(s, t)
    BY DEF Spends
  <2>2. \A v \in S \cup {t} : <<t, s>> \notin Inputs[v]
    <3>1. <<t, s>>[1] = t
      OBVIOUS
    <3> QED BY <1>1, <3>1
  <2>3. ASSUME NEW o \in Unspent(S \cup {t}, s)
        PROVE  o \in (Unspent(S, s) \ Spends(s, t)) \cup Pays(s, t)
    <3>1. PICK u \in S \cup {t} : o = <<u, s>> /\ s \in Outputs[u]
                                  /\ \A v \in S \cup {t} : <<u, s>> \notin Inputs[v]
      BY DEF Unspent
    <3>2. CASE u = t
      BY <3>1, <3>2 DEF Pays
    <3>3. CASE u \in S
      BY <2>1, <3>1, <3>3 DEF Unspent
    <3> QED BY <3>1, <3>2, <3>3
  <2>4. ASSUME NEW o \in Unspent(S, s), o \notin Spends(s, t)
        PROVE  o \in Unspent(S \cup {t}, s)
    <3>1. PICK u \in S : o = <<u, s>> /\ s \in Outputs[u]
                         /\ \A v \in S : <<u, s>> \notin Inputs[v]
      BY DEF Unspent
    <3>2. \A v \in S \cup {t} : <<u, s>> \notin Inputs[v]
      BY <2>1, <2>4, <3>1
    <3> QED BY <3>1, <3>2 DEF Unspent
  <2>5. ASSUME NEW o \in Pays(s, t) PROVE o \in Unspent(S \cup {t}, s)
    <3>1. o = <<t, s>> /\ s \in Outputs[t]
      BY DEF Pays
    <3> QED BY <2>2, <3>1 DEF Unspent
  <2> QED BY <2>3, <2>4, <2>5
<1> QED BY <1>3, <1>6, <1>7, <1>8 DEF SetsNext

LEMMA RowsNext ==
  ASSUME NEW s, NEW x \in Seq(Refs), NEW r \in Refs
  PROVE  Rows(s, Append(x, r)) = Append(Rows(s, x), Row(s, r))
<1> DEFINE X == {Row(s, q) : q \in Refs}
           y == Append(x, r)
<1>1. y \in Seq(Refs) /\ Len(y) = Len(x) + 1 /\ y[Len(x) + 1] = r
      /\ \A i \in 1..Len(x) : y[i] = x[i]
  OBVIOUS
<1> HIDE DEF y
<1>2. ASSUME NEW z \in Seq(Refs)
      PROVE  /\ Rows(s, z) \in Seq(X) /\ Len(Rows(s, z)) = Len(z)
             /\ \A i \in 1..Len(z) : Rows(s, z)[i] = Row(s, z[i])
  <2>1. DOMAIN z = 1..Len(z) /\ Len(z) \in Nat /\ \A i \in 1..Len(z) : z[i] \in Refs
    OBVIOUS
  <2> DEFINE w == [i \in 1..Len(z) |-> Row(s, z[i])]
  <2>2. \A i \in 1..Len(z) : Row(s, z[i]) \in X
    BY <2>1
  <2> HIDE DEF X
  <2>3. w \in Seq(X) /\ Len(w) = Len(z) /\ \A i \in 1..Len(z) : w[i] = Row(s, z[i])
    BY <2>1, <2>2
  <2>4. Rows(s, z) = w
    BY <2>1 DEF Rows
  <2> QED BY <2>3, <2>4
<1>3. Row(s, r) \in X
  OBVIOUS
<1> DEFINE a == Rows(s, y)
           b == Rows(s, x)
           e == Row(s, r)
<1> HIDE DEF X
<1>4. /\ a \in Seq(X) /\ Len(a) = Len(y) /\ \A i \in 1..Len(y) : a[i] = Row(s, y[i])
      /\ b \in Seq(X) /\ Len(b) = Len(x) /\ \A i \in 1..Len(x) : b[i] = Row(s, x[i])
      /\ e \in X
  BY <1>1, <1>2, <1>3
<1>5. e = Row(s, r)
  OBVIOUS
<1> HIDE DEF a, b, e
<1>6. b \in Seq(X) /\ e \in X
  BY <1>4
<1>7. /\ Append(b, e) \in Seq(X) /\ Len(Append(b, e)) = Len(b) + 1
      /\ \A i \in 1..Len(b) : Append(b, e)[i] = b[i]
      /\ Append(b, e)[Len(b) + 1] = e
  BY <1>6
<1>8. ASSUME NEW i \in 1..Len(a) PROVE a[i] = Append(b, e)[i]
  <2>1. i \in 1..Len(y) /\ Len(x) \in Nat
    BY <1>4
  <2>2. CASE i = Len(x) + 1
    BY <1>1, <1>4, <1>5, <1>7, <2>1, <2>2
  <2>3. CASE i # Len(x) + 1
    <3>1. i \in 1..Len(x)
      BY <1>1, <2>1, <2>3
    <3> QED BY <1>1, <1>4, <1>7, <2>1, <3>1
  <2> QED BY <2>2, <2>3
<1>9. Len(a) = Len(Append(b, e))
  BY <1>1, <1>4, <1>7
<1>10. a = Append(b, e)
  BY <1>4, <1>7, <1>8, <1>9, SameSequence
<1> QED BY <1>10 DEF a, b, e, y

\* The prefix of a chain, with one more reference.
LEMMA AmongStep ==
  ASSUME NEW k \in Tips, NEW n \in Nat, n < Len(Chain[k]), NEW S
  PROVE  /\ Among(S, SubSeq(Chain[k], 1, n)) \in Seq(Refs)
         /\ Among(S, SubSeq(Chain[k], 1, n + 1)) =
              Keep(S, Among(S, SubSeq(Chain[k], 1, n)), Chain[k][n + 1])
<1> DEFINE C == Chain[k]
           p == SubSeq(C, 1, n)
           q == SubSeq(C, 1, n + 1)
<1>1. C \in Seq(Refs) /\ Len(C) \in Nat
  BY ScriptHistoryAssumption DEF ScriptHistoryAssumption
<1>2. n \in 0..Len(C) /\ n + 1 \in 0..Len(C) /\ n + 1 \in 1..(n + 1)
  BY <1>1
<1> HIDE DEF C
<1>3. /\ p \in Seq(Refs) /\ Len(p) = n /\ \A i \in 1..n : p[i] = C[i]
      /\ q \in Seq(Refs) /\ Len(q) = n + 1 /\ \A i \in 1..(n + 1) : q[i] = C[i]
  BY <1>1, <1>2, PrefixFacts
<1> HIDE DEF p, q
<1>4. Len(p) \in Nat /\ Len(q) = Len(p) + 1 /\ \A i \in 1..Len(p) : q[i] = p[i]
  BY <1>3
<1>5. Among(S, q) = Keep(S, Among(S, p), q[Len(q)])
  BY <1>4, AmongNext
<1>6. q[Len(q)] = C[n + 1]
  BY <1>2, <1>3
<1>7. Among(S, p) \in Seq(Refs)
  BY <1>3, AmongTyped
<1> QED BY <1>5, <1>6, <1>7 DEF p, q, C

LEMMA SizesStep ==
  ASSUME NEW k, NEW s, NEW n \in Nat
  PROVE  Sizes(k, s, n + 1) = Sizes(k, s, n) \cup {Cardinality(UnspentAfter(k, s, n + 1))}
<1>1. \A m : m \in 0..(n + 1) <=> m \in 0..n \/ m = n + 1
  OBVIOUS
<1> QED BY <1>1 DEF Sizes

LEMMA TouchingFacts ==
  ASSUME NEW s, NEW t \in Txids
  PROVE  t \in Touching(Txids, s) <=> Spends(s, t) \cup Pays(s, t) # {}
BY DEF Touching, Spends, Pays

\* Applying the next transaction to the history of n references is the history
\* of n + 1, be it the script's or a collision ...
LEMMA ApplyStep ==
  ASSUME NEW k \in Tips, NEW s \in Scripts, NEW n \in Nat, n < Len(Chain[k]),
         NEW fold, Good(fold, k, s, n), \A m \in Sizes(k, s, n) : m \in Nat
  PROVE  /\ Good(Apply(fold, s, Chain[k][n + 1]), k, s, n + 1)
         /\ \A m \in Sizes(k, s, n + 1) : m \in Nat
<1> DEFINE r == Chain[k][n + 1]
           t == r.tx
           S == Touching(Txids, s)
           x == Among(S, SubSeq(Chain[k], 1, n))
           y == Among(S, SubSeq(Chain[k], 1, n + 1))
           spent == Spends(s, t)
           paid == Pays(s, t)
           live == (fold.live \ spent) \cup paid
           size == Cardinality(live)
           peak == IF size > fold.peak THEN size ELSE fold.peak
           rows == IF spent \cup paid = {} THEN fold.rows
                     ELSE Append(fold.rows, [ref |-> r, spent |-> spent, funded |-> paid])
           new == Apply(fold, s, r)
<1>1. r \in Refs /\ t \in Txids
  BY ChainStep
<1>2. /\ Inputs[t] \cap fold.funded = spent
      /\ PaidBy(k, s, n + 1) = fold.funded \cup paid
      /\ UnspentAfter(k, s, n + 1) = live
  <2>1. SetsNext(k, s, n, t)
    <3>1. t = Chain[k][n + 1].tx
      OBVIOUS
    <3> HIDE DEF t
    <3> QED BY <3>1, SetsStep
  <2>2. fold.funded = PaidBy(k, s, n) /\ fold.live = UnspentAfter(k, s, n)
    BY DEF Good
  <2> QED BY <2>1, <2>2 DEF SetsNext
<1>3. new = [rows |-> rows, funded |-> fold.funded \cup paid, live |-> live, peak |-> peak]
  BY <1>2 DEF Apply, Pays
<1>4. x \in Seq(Refs) /\ y = Keep(S, x, r)
  BY AmongStep
<1>5. t \in S <=> spent \cup paid # {}
  BY <1>1, TouchingFacts
<1>6. fold.rows = Rows(s, x) /\ IsFiniteSet(fold.live) /\ fold.peak \in Sizes(k, s, n)
      /\ \A m \in Sizes(k, s, n) : m <= fold.peak
  BY DEF Good
<1>7. Row(s, r) = [ref |-> r, spent |-> spent, funded |-> paid]
  BY DEF Row
<1>8. IsFiniteSet(live) /\ size \in Nat
  <2>1. IsFiniteSet(paid)
    BY FS_EmptySet, FS_Singleton DEF Pays
  <2>2. IsFiniteSet(fold.live \ spent)
    BY <1>6, FS_Difference
  <2>3. IsFiniteSet(live)
    BY <2>1, <2>2, FS_Union
  <2> QED BY <2>3, FS_CardinalityType
<1> HIDE DEF x, y, S, spent, paid, live, r, new
<1>9. rows = Rows(s, y)
  <2>1. CASE t \in S
    <3>1. y = Append(x, r)
      BY <1>4, <2>1 DEF Keep
    <3>2. Rows(s, y) = Append(Rows(s, x), Row(s, r))
      BY <1>1, <1>4, <3>1, RowsNext
    <3> QED BY <1>5, <1>6, <1>7, <2>1, <3>2
  <2>2. CASE t \notin S
    <3>1. y = x
      BY <1>4, <2>2 DEF Keep
    <3> QED BY <1>5, <1>6, <2>2, <3>1
  <2> QED BY <2>1, <2>2
<1>10. Sizes(k, s, n + 1) = Sizes(k, s, n) \cup {size}
  BY <1>2, SizesStep
<1> HIDE DEF size, rows
<1>11. /\ peak \in Sizes(k, s, n + 1) /\ \A m \in Sizes(k, s, n + 1) : m <= peak
       /\ \A m \in Sizes(k, s, n + 1) : m \in Nat
  <2>1. fold.peak \in Nat
    BY <1>6
  <2>2. peak \in Nat /\ size <= peak /\ fold.peak <= peak /\ peak \in {size, fold.peak}
    BY <1>8, <2>1
  <2> HIDE DEF peak
  <2>3. \A m \in Sizes(k, s, n) : m <= peak
    BY <1>6, <2>1, <2>2
  <2> QED BY <1>6, <1>8, <1>10, <2>2, <2>3
<1> HIDE DEF peak
<1>12. new.rows = rows /\ new.funded = fold.funded \cup paid /\ new.live = live /\ new.peak = peak
  BY <1>3
<1>13. Good(new, k, s, n + 1)
  BY <1>2, <1>8, <1>9, <1>11, <1>12 DEF Good, S, y
<1> QED BY <1>11, <1>13 DEF new, r

\* ... and passing over one that is not the script's is, too.
LEMMA PassStep ==
  ASSUME NEW k \in Tips, NEW s \in Scripts, NEW n \in Nat, n < Len(Chain[k]),
         NEW fold, Good(fold, k, s, n), \A m \in Sizes(k, s, n) : m \in Nat,
         Chain[k][n + 1].tx \notin Touching(Txids, s)
  PROVE  /\ Good(fold, k, s, n + 1)
         /\ \A m \in Sizes(k, s, n + 1) : m \in Nat
<1> DEFINE r == Chain[k][n + 1]
           t == r.tx
           S == Touching(Txids, s)
           x == Among(S, SubSeq(Chain[k], 1, n))
           y == Among(S, SubSeq(Chain[k], 1, n + 1))
<1>1. t \in Txids
  BY ChainStep
<1>2. Spends(s, t) = {} /\ Pays(s, t) = {}
  BY <1>1, TouchingFacts
<1>3. PaidBy(k, s, n + 1) = PaidBy(k, s, n) /\ UnspentAfter(k, s, n + 1) = UnspentAfter(k, s, n)
  <2>1. t = Chain[k][n + 1].tx
    OBVIOUS
  <2> HIDE DEF t
  <2>2. SetsNext(k, s, n, t)
    BY <2>1, SetsStep
  <2> QED BY <1>2, <2>2 DEF SetsNext
<1>4. y = x
  BY AmongStep DEF Keep
<1>5. Cardinality(UnspentAfter(k, s, n)) \in Sizes(k, s, n)
  BY DEF Sizes
<1>6. Sizes(k, s, n + 1) = Sizes(k, s, n)
  <2>1. Sizes(k, s, n + 1) = Sizes(k, s, n) \cup {Cardinality(UnspentAfter(k, s, n + 1))}
    BY SizesStep
  <2> QED BY <1>3, <1>5, <2>1
<1> QED BY <1>3, <1>4, <1>6 DEF Good

\* The fold of the indexed ones among the first n references, and what it is.
FoldAt(k, s, n) == FoldOn(EmptyFold, s, Among(Indexed(s), SubSeq(Chain[k], 1, n)))

Right(k, s, n) ==
  Good(FoldAt(k, s, n), k, s, n) /\ \A m \in Sizes(k, s, n) : m \in Nat

LEMMA RightAtFirst ==
  ASSUME NEW k \in Tips, NEW s \in Scripts
  PROVE  Right(k, s, 0)
<1> DEFINE p == SubSeq(Chain[k], 1, 0)
<1>1. Len(p) = 0
  <2>1. Chain[k] \in Seq(Refs)
    BY ScriptHistoryAssumption DEF ScriptHistoryAssumption
  <2>2. 0 \in 0..Len(Chain[k])
    BY <2>1
  <2> QED BY <2>1, <2>2, PrefixFacts
<1> HIDE DEF p
<1>2. \A S : Among(S, p) = <<>>
  BY <1>1, AmongEmpty
<1>3. Len(<<>>) = 0
  OBVIOUS
<1>4. FoldOn(EmptyFold, s, <<>>) = EmptyFold
  BY <1>3, FoldOnEmpty
<1>5. FoldAt(k, s, 0) = EmptyFold
  BY <1>2, <1>4 DEF FoldAt, p
<1>6. EmptyFold.rows = <<>> /\ EmptyFold.funded = {} /\ EmptyFold.live = {} /\ EmptyFold.peak = 0
  BY DEF EmptyFold
<1>7. Rows(s, <<>>) = <<>>
  BY DEF Rows
<1>8. 1..0 = {}
  OBVIOUS
<1>9. Txs(k, 0) = {} /\ PaidBy(k, s, 0) = {} /\ UnspentAfter(k, s, 0) = {}
  BY <1>8 DEF Txs, PaidBy, UnspentAfter, Unspent
<1>10. IsFiniteSet({}) /\ Cardinality({}) = 0
  BY FS_EmptySet
<1>11. Sizes(k, s, 0) = {0}
  <2>1. 0..0 = {0}
    OBVIOUS
  <2> QED BY <1>9, <1>10, <2>1 DEF Sizes
<1>12. Among(Touching(Txids, s), SubSeq(Chain[k], 1, 0)) = <<>>
  BY <1>2 DEF p
<1>13. Good(EmptyFold, k, s, 0)
  BY <1>6, <1>7, <1>9, <1>10, <1>11, <1>12 DEF Good
<1> QED BY <1>5, <1>11, <1>13 DEF Right

LEMMA RightStep ==
  ASSUME NEW k \in Tips, NEW s \in Scripts, NEW n \in Nat, n < Len(Chain[k]), Right(k, s, n)
  PROVE  Right(k, s, n + 1)
<1> DEFINE r == Chain[k][n + 1]
           x == Among(Indexed(s), SubSeq(Chain[k], 1, n))
           y == Among(Indexed(s), SubSeq(Chain[k], 1, n + 1))
           old == FoldAt(k, s, n)
           new == FoldAt(k, s, n + 1)
<1>1. x \in Seq(Refs) /\ y = Keep(Indexed(s), x, r)
  BY AmongStep
<1>2. old = FoldOn(EmptyFold, s, x) /\ new = FoldOn(EmptyFold, s, y)
  BY DEF FoldAt
<1>3. Good(old, k, s, n) /\ \A m \in Sizes(k, s, n) : m \in Nat
  BY DEF Right
<1>4. r \in Refs
  BY ChainStep
<1> HIDE DEF x, y, old, new
<1>5. CASE r.tx \in Indexed(s)
  <2>1. y = Append(x, r)
    BY <1>1, <1>5 DEF Keep
  <2>2. /\ Len(x) \in Nat /\ Len(y) = Len(x) + 1 /\ y[Len(y)] = r
        /\ \A i \in 1..Len(x) : y[i] = x[i]
    <3> HIDE DEF r
    <3>1. x \in Seq(Refs) /\ r \in Refs
      BY <1>1, <1>4
    <3> QED BY <2>1, <3>1
  <2>3. new = Apply(old, s, r)
    BY <1>2, <2>2, FoldOnNext
  <2>4. Good(new, k, s, n + 1) /\ \A m \in Sizes(k, s, n + 1) : m \in Nat
    BY <1>3, <2>3, ApplyStep
  <2> QED BY <2>4 DEF Right, new
<1>6. CASE r.tx \notin Indexed(s)
  <2>1. new = old
    BY <1>1, <1>2, <1>6 DEF Keep
  <2>2. r.tx \notin Touching(Txids, s)
    BY <1>6 DEF Indexed
  <2>3. Good(new, k, s, n + 1) /\ \A m \in Sizes(k, s, n + 1) : m \in Nat
    BY <1>3, <2>1, <2>2, PassStep
  <2> QED BY <2>3 DEF Right, new
<1> QED BY <1>5, <1>6

LEMMA RightAlways ==
  ASSUME NEW k \in Tips, NEW s \in Scripts
  PROVE  Right(k, s, Len(Chain[k]))
<1> DEFINE N == Len(Chain[k])
           bad == {n \in 0..N : ~Right(k, s, n)}
<1>1. N \in Nat
  <2>1. Chain[k] \in Seq(Refs)
    BY ScriptHistoryAssumption DEF ScriptHistoryAssumption
  <2> QED BY <2>1
<1> HIDE DEF N
<1>2. SUFFICES ASSUME bad # {} PROVE FALSE
  BY <1>1 DEF N
<1>3. PICK n \in bad : \A m \in bad : n <= m
  <2>1. bad \subseteq Nat
    BY <1>1
  <2> HIDE DEF bad
  <2> QED BY <1>2, <2>1, LeastNumber
<1>4. n \in 0..N /\ ~Right(k, s, n)
  OBVIOUS
<1>5. n # 0
  BY <1>4, RightAtFirst
<1>6. n - 1 \in 0..N /\ n - 1 \in Nat /\ n - 1 < N /\ n - 1 < n /\ (n - 1) + 1 = n
  BY <1>1, <1>4, <1>5
<1>7. n - 1 \notin bad
  <2> HIDE DEF bad
  <2> QED BY <1>3, <1>4, <1>6
<1>8. Right(k, s, n - 1)
  BY <1>6, <1>7
<1>9. Right(k, s, (n - 1) + 1)
  <2> DEFINE m == n - 1
  <2>1. m \in Nat /\ m < Len(Chain[k]) /\ Right(k, s, m)
    BY <1>6, <1>8 DEF N
  <2> HIDE DEF m
  <2>2. Right(k, s, m + 1)
    BY <2>1, RightStep
  <2> QED BY <2>2 DEF m
<1> QED BY <1>4, <1>6, <1>9

\* Folding what script_refs lists is the history of the script in the chain:
\* its collisions leave no trace, and the fold, which knows only what it has
\* seen, misses none of the script's inputs.
LEMMA FoldIsReference ==
  ASSUME NEW k \in Tips, NEW s \in Scripts
  PROVE  Finish(FoldOn(EmptyFold, s, ScriptRefs(k, s))) = Reference(k, s)
<1> DEFINE N == Len(Chain[k])
           fold == FoldOn(EmptyFold, s, ScriptRefs(k, s))
           txs == Among(Touching(Txids, s), Chain[k])
<1>1. SubSeq(Chain[k], 1, N) = Chain[k]
  <2>1. Chain[k] \in Seq(Refs)
    BY ScriptHistoryAssumption DEF ScriptHistoryAssumption
  <2> QED BY <2>1, WholePrefix
<1>2. FoldAt(k, s, N) = fold
  BY <1>1 DEF FoldAt, ScriptRefs
<1>3. Right(k, s, N)
  BY RightAlways
<1> HIDE DEF fold
<1>4. Good(fold, k, s, N) /\ \A m \in Sizes(k, s, N) : m \in Nat
  BY <1>2, <1>3 DEF Right
<1>5. fold.rows = Rows(s, txs) /\ fold.live = UnspentAfter(k, s, N)
      /\ fold.peak \in Sizes(k, s, N) /\ \A m \in Sizes(k, s, N) : m <= fold.peak
  BY <1>1, <1>4 DEF Good
<1> DEFINE top == CHOOSE m \in Sizes(k, s, N) : \A n \in Sizes(k, s, N) : n <= m
<1>6. fold.peak = top
  <2> DEFINE Z == Sizes(k, s, N)
  <2>1. fold.peak \in Z /\ (\A n \in Z : n <= fold.peak) /\ \A m \in Z : m \in Nat
    BY <1>4, <1>5
  <2> HIDE DEF Z
  <2> DEFINE most == CHOOSE m \in Z : \A n \in Z : n <= m
  <2>2. most \in Z /\ \A n \in Z : n <= most
    BY <2>1
  <2> HIDE DEF most
  <2>3. fold.peak = most
    BY <2>1, <2>2
  <2> QED BY <2>3 DEF most, Z
<1>7. Reference(k, s) = [rows |-> Rows(s, txs), utxos |-> UnspentAfter(k, s, N), peak |-> top]
  BY DEF Reference, Rows, Row, Spends, Pays, Sizes
<1> HIDE DEF top, txs
<1> QED BY <1>5, <1>6, <1>7 DEF Finish, fold

\* Every answer to a script-history query is the script's history in the chain
\* whose tip the query read (rows, unspent outputs and the peak of their
\* number), whatever it found in the cache, whoever put it there and at
\* whichever tip, and whatever other transactions are indexed under the
\* script's prefix; and no query is tried more than REORG_RETRIES times.
THEOREM HistoryStaysExact == Spec => []HistoryExact
<1>1. IInv => HistoryExact
  <2> SUFFICES ASSUME IInv PROVE HistoryExact
    OBVIOUS
  <2>1. /\ entries \in Seq(Entries) /\ Distinct(entries) /\ refs = RefsIn(entries)
        /\ tip \in Tips /\ query \in [Clients -> QueryType]
        /\ \A c \in Clients : Knows(query[c])
    BY DEF IInv, CacheInv, QueryInv
  <2>2. refs \in Nat
    BY <2>1, RefsInNat
  <2>3. \A i, j \in DOMAIN entries : entries[i].script = entries[j].script => i = j
    BY <2>1 DEF Distinct
  <2>4. ASSUME NEW c \in Clients
        PROVE  /\ query[c].at \in {"idle", "refs", "get", "check", "put", "done"}
               /\ query[c].script \in Scripts /\ query[c].tip \in Tips
               /\ query[c].tries \in 0..(REORG_RETRIES - 1)
               /\ query[c].start \in 0..Len(query[c].refs)
    <3>1. query[c] \in QueryType /\ query[c].start \in 0..Len(query[c].refs)
      BY <2>1 DEF Knows
    <3> QED BY <3>1 DEF QueryType
  <2>5. TypeOK
    BY <2>1, <2>2, <2>3, <2>4 DEF TypeOK
  <2>6. ASSUME NEW c \in Clients, query[c].at = "done"
        PROVE  query[c].history = Reference(query[c].tip, query[c].script)
    <3>1. query[c].history =
            Finish(FoldOn(EmptyFold, query[c].script, ScriptRefs(query[c].tip, query[c].script)))
      BY <2>1, <2>6 DEF Knows
    <3>2. query[c].script \in Scripts /\ query[c].tip \in Tips
      BY <2>4
    <3> QED BY <3>1, <3>2, FoldIsReference
  <2> QED BY <2>5, <2>6 DEF HistoryExact
<1> QED BY <1>1, InvAlways, PTL
=============================================================================
