--------------------------- MODULE FilteringProofs ---------------------------
(***************************************************************************)
(* What Filter returns.  The library's induction theorems take an operator *)
(* as a parameter; induction is done here from the least element of a set  *)
(* of naturals, and recursive functions are shown to exist the same way.   *)
(***************************************************************************)
EXTENDS Filtering, WellFoundedInduction, TLAPS

\* A non-empty set of naturals has a least element (std::find_if, and every
\* loop, stops at a first place).
LEMMA LeastNatural ==
    ASSUME NEW T \in SUBSET Nat, T # {}
    PROVE  \E x \in T : \A y \in T : x <= y
<1> DEFINE R == OpToRel(<, Nat)
<1>1. PICK x \in T : \A y \in T : ~(<<y, x>> \in R)
  <2>1. IsWellFoundedOn(R, Nat)
    BY Zenon, NatLessThanWellFounded
  <2> HIDE DEF R
  <2> QED BY Zenon, <2>1, WFMin
<1>2. ASSUME NEW y \in T PROVE x <= y
  <2>1. <<y, x>> \notin R
    BY Zenon, <1>1
  <2>2. y \in Nat /\ x \in Nat
    OBVIOUS
  <2>3. ~(y < x)
    BY <2>1, <2>2 DEF OpToRel
  <2> QED BY <2>2, <2>3
<1> QED BY <1>2

\* Induction up to a bound, for a set instead of a predicate: a loop over the
\* entries of a list keeps what it starts with.
LEMMA CountingUp ==
    ASSUME NEW N \in Nat, NEW G, 0 \in G, \A n \in 0..(N - 1) : n \in G => n + 1 \in G
    PROVE  \A n \in 0..N : n \in G
<1> SUFFICES ASSUME \E n \in 0..N : n \notin G PROVE FALSE
  OBVIOUS
<1> DEFINE B == {n \in 0..N : n \notin G}
<1>1. PICK m \in B : \A y \in B : m <= y
  <2>1. B \in SUBSET Nat /\ B # {}
    OBVIOUS
  <2> HIDE DEF B
  <2> QED BY <2>1, LeastNatural
<1>2. m \in 0..N /\ m \notin G /\ m # 0
  OBVIOUS
<1>3. m - 1 \in 0..(N - 1) /\ m - 1 \notin B
  BY <1>1, <1>2
<1>4. m - 1 \in G
  BY <1>2, <1>3
<1>5. (m - 1) + 1 \in G
  BY <1>3, <1>4
<1>6. (m - 1) + 1 = m
  BY <1>2
<1> QED BY <1>2, <1>5, <1>6

\* The values of a loop's accumulator: x before it, step[n] applied by its n-th
\* iteration.
IsLoop(f, N, X, x, step) ==
    /\ f \in [0..N -> X]
    /\ f[0] = x
    /\ \A n \in 1..N : f[n] = step[n][f[n - 1]]

\* A function defined by what it does from one place to the next exists: a loop
\* that runs N times ends.
LEMMA LoopExists ==
    ASSUME NEW N \in Nat, NEW X, NEW x \in X, NEW step \in [1..N -> [X -> X]]
    PROVE  \E f : IsLoop(f, N, X, x, step)
<1> DEFINE IsRun(f, m) == IsLoop(f, m, X, x, step)
<1> DEFINE G == {m \in 0..N : \E f : IsRun(f, m)}
<1>1. 0 \in G
  <2>1. IsRun([n \in 0..0 |-> x], 0)
    BY DEF IsLoop
  <2>2. 0 \in 0..N
    OBVIOUS
  <2> HIDE DEF IsRun
  <2> QED BY <2>1, <2>2
<1>2. ASSUME NEW m \in 0..(N - 1), m \in G PROVE m + 1 \in G
  <2>1. PICK f : IsRun(f, m)
    BY <1>2
  <2> DEFINE y == step[m + 1][f[m]]
  <2> DEFINE g == [n \in 0..(m + 1) |-> IF n = m + 1 THEN y ELSE f[n]]
  <2>2. y \in X
    <3>1. m + 1 \in 1..N /\ f[m] \in X
      BY <2>1 DEF IsLoop
    <3> QED BY <3>1
  <2>3. \A n \in 0..m : f[n] \in X
    BY <2>1 DEF IsLoop
  <2> HIDE DEF y
  <2>4. g \in [0..(m + 1) -> X] /\ g[0] = x
    BY <2>1, <2>2, <2>3 DEF IsLoop
  <2>5. ASSUME NEW n \in 1..(m + 1) PROVE g[n] = step[n][g[n - 1]]
    <3>1. CASE n = m + 1
      BY <3>1 DEF y
    <3>2. CASE n # m + 1
      BY <2>1, <3>2 DEF IsLoop
    <3> QED BY <3>1, <3>2
  <2>6. IsRun(g, m + 1)
    BY <2>4, <2>5 DEF IsLoop
  <2> HIDE DEF g, IsRun
  <2> QED BY <2>6
<1>3. N \in G
  <2>1. N \in 0..N
    OBVIOUS
  <2> HIDE DEF G
  <2>2. \A n \in 0..N : n \in G
    BY <1>1, <1>2, CountingUp
  <2> QED BY <2>1, <2>2
<1> QED BY <1>3, Zenon

\* f[n] is what Filter has kept after n entries.
IsFilterRun(f, S, s, T) ==
    /\ f \in [0..Len(s) -> Seq(S)]
    /\ f[0] = <<>>
    /\ \A n \in 1..Len(s) : f[n] = IF s[n] \in T THEN Append(f[n - 1], s[n]) ELSE f[n - 1]
    /\ Filter(s, T) = f[Len(s)]

\* The running result of Filter satisfies its own definition.
LEMMA FilterRuns ==
    ASSUME NEW S, NEW s \in Seq(S), NEW T
    PROVE  \E f : IsFilterRun(f, S, s, T)
<1> DEFINE Step(n, t) == IF s[n] \in T THEN Append(t, s[n]) ELSE t
<1> DEFINE step == [n \in 1..Len(s) |-> [t \in Seq(S) |-> Step(n, t)]]
<1> DEFINE IsKept(g) == g = [n \in 0..Len(s) |-> IF n = 0 THEN <<>> ELSE Step(n, g[n - 1])]
<1>1. Len(s) \in Nat /\ <<>> \in Seq(S)
  OBVIOUS
<1>2. \A n \in 1..Len(s) : \A t \in Seq(S) : Step(n, t) \in Seq(S)
  OBVIOUS
<1>3. step \in [1..Len(s) -> [Seq(S) -> Seq(S)]]
  BY <1>2
<1>4. PICK f : IsLoop(f, Len(s), Seq(S), <<>>, step)
  <2> HIDE DEF step
  <2> QED BY <1>1, <1>3, LoopExists
<1>5. \A n \in 1..Len(s) : f[n] = Step(n, f[n - 1])
  <2> TAKE n \in 1..Len(s)
  <2>1. f[n - 1] \in Seq(S) /\ f[n] = step[n][f[n - 1]]
    <3> HIDE DEF step
    <3> QED BY <1>4 DEF IsLoop
  <2> QED BY <2>1
<1>6. IsKept(f)
  <2> HIDE DEF Step, step
  <2> QED BY <1>4, <1>5 DEF IsLoop
<1> DEFINE K == CHOOSE g : IsKept(g)
<1>7. IsKept(K)
  <2> HIDE DEF IsKept
  <2> QED BY <1>6, Zenon
<1>8. Filter(s, T) = K[Len(s)]
  BY Zenon DEF Filter
<1>9. K[0] = <<>> /\ \A n \in 1..Len(s) : K[n] = Step(n, K[n - 1])
  <2> HIDE DEF Step, K
  <2> QED BY <1>7
<1>10. \A n \in 0..Len(s) : n \in {m \in Nat : K[m] = f[m]}
  <2> DEFINE G == {m \in Nat : K[m] = f[m]}
  <2>1. 0 \in G
    BY <1>4, <1>9 DEF IsLoop
  <2>2. \A n \in 0..(Len(s) - 1) : n \in G => n + 1 \in G
    <3> HIDE DEF K, Step
    <3> QED BY <1>5, <1>9
  <2> HIDE DEF G, K
  <2>3. \A n \in 0..Len(s) : n \in G
    BY <1>1, <2>1, <2>2, CountingUp
  <2> QED BY <2>3 DEF G
<1>11. Filter(s, T) = f[Len(s)]
  <2> HIDE DEF K
  <2> QED BY <1>8, <1>10
<1> QED BY <1>4, <1>5, <1>11, Zenon DEF IsLoop, IsFilterRun

\* h says where the entries of t stand in s: t holds the entries of s up to
\* place n that are in T, each once and in order.
Picks(h, s, T, n, t) ==
    /\ h \in [1..Len(t) -> 1..n] /\ Len(t) <= n
    /\ \A i, j \in 1..Len(t) : i < j => h[i] < h[j]
    /\ \A k \in 1..Len(t) : t[k] = s[h[k]] /\ t[k] \in T
    /\ \A i \in 1..n : s[i] \in T => \E k \in 1..Len(t) : h[k] = i

\* One iteration of the loop, for an entry that is kept ...
LEMMA PicksOneMore ==
    ASSUME NEW S, NEW s \in Seq(S), NEW T, NEW n \in 1..Len(s), NEW t \in Seq(S),
           NEW h, Picks(h, s, T, n - 1, t), s[n] \in T
    PROVE  \E g : Picks(g, s, T, n, Append(t, s[n]))
<1> DEFINE l == Len(t)
<1> DEFINE u == Append(t, s[n])
<1> DEFINE g == [k \in 1..(l + 1) |-> IF k = l + 1 THEN n ELSE h[k]]
<1>1. l \in Nat /\ Len(u) = l + 1 /\ s[n] \in S
  OBVIOUS
<1>2. \A k \in 1..l : u[k] = t[k]
  OBVIOUS
<1>3. u[l + 1] = s[n]
  OBVIOUS
<1>4. \A k \in 1..l : h[k] \in 1..(n - 1)
  BY DEF Picks
<1> HIDE DEF l
<1>5. g \in [1..(l + 1) -> 1..n]
  BY <1>1, <1>4
<1>6. \A k \in 1..l : g[k] = h[k] /\ k # l + 1
  BY <1>1
<1>7. g[l + 1] = n
  BY <1>1
<1>8. \A k \in 1..(l + 1) : k = l + 1 \/ k \in 1..l
  BY <1>1
<1> HIDE DEF g, u
<1>9. \A i, j \in 1..(l + 1) : i < j => g[i] < g[j]
  <2> SUFFICES ASSUME NEW i \in 1..(l + 1), NEW j \in 1..(l + 1), i < j PROVE g[i] < g[j]
    OBVIOUS
  <2>1. i \in 1..l
    BY <1>1
  <2>2. CASE j = l + 1
    BY <1>4, <1>6, <1>7, <2>1, <2>2
  <2>3. CASE j \in 1..l
    <3>1. h[i] < h[j]
      BY <2>1, <2>3 DEF Picks, l
    <3> QED BY <1>6, <2>1, <2>3, <3>1
  <2> QED BY <1>8, <2>2, <2>3
<1>10. \A k \in 1..(l + 1) : u[k] = s[g[k]] /\ u[k] \in T
  <2> SUFFICES ASSUME NEW k \in 1..(l + 1) PROVE u[k] = s[g[k]] /\ u[k] \in T
    OBVIOUS
  <2>1. CASE k = l + 1
    BY <1>3, <1>7, <2>1
  <2>2. CASE k \in 1..l
    <3>1. t[k] = s[h[k]] /\ t[k] \in T
      BY <2>2 DEF Picks, l
    <3> QED BY <1>2, <1>6, <2>2, <3>1
  <2> QED BY <1>8, <2>1, <2>2
<1>11. ASSUME NEW i \in 1..n, s[i] \in T PROVE \E k \in 1..(l + 1) : g[k] = i
  <2>1. CASE i = n
    BY <1>1, <1>7, <2>1
  <2>2. CASE i # n
    <3>1. i \in 1..(n - 1)
      BY <2>2
    <3>2. PICK k \in 1..l : h[k] = i
      BY <1>11, <3>1 DEF Picks, l
    <3>3. k \in 1..(l + 1)
      BY <1>1
    <3> QED BY <1>6, <3>2, <3>3
  <2> QED BY <2>1, <2>2
<1>12. l + 1 <= n
  BY <1>1 DEF Picks, l
<1>13. Picks(g, s, T, n, u)
  BY <1>1, <1>5, <1>9, <1>10, <1>11, <1>12 DEF Picks
<1> QED BY <1>13 DEF u

\* ... and for one that is not.
LEMMA PicksNoMore ==
    ASSUME NEW s, NEW T, NEW n \in Nat \ {0}, NEW t, Len(t) \in Nat,
           NEW h, Picks(h, s, T, n - 1, t), s[n] \notin T
    PROVE  Picks(h, s, T, n, t)
<1>1. h \in [1..Len(t) -> 1..n] /\ Len(t) <= n
  <2>1. 1..(n - 1) \subseteq 1..n
    OBVIOUS
  <2> QED BY <2>1 DEF Picks
<1>2. ASSUME NEW i \in 1..n, s[i] \in T PROVE \E k \in 1..Len(t) : h[k] = i
  <2>1. i \in 1..(n - 1)
    BY <1>2
  <2> QED BY <1>2, <2>1 DEF Picks
<1>3. \A i, j \in 1..Len(t) : i < j => h[i] < h[j]
  BY DEF Picks
<1>4. \A k \in 1..Len(t) : t[k] = s[h[k]] /\ t[k] \in T
  BY DEF Picks
<1> QED BY <1>1, <1>2, <1>3, <1>4 DEF Picks

\* Filter returns the entries that are in T, each once and in order.
LEMMA FilterPicks ==
    ASSUME NEW S, NEW s \in Seq(S), NEW T
    PROVE  Filter(s, T) \in Seq(S) /\ \E h : Picks(h, s, T, Len(s), Filter(s, T))
<1>1. PICK f : IsFilterRun(f, S, s, T)
  BY FilterRuns
<1> DEFINE G == {n \in Nat : \E h : Picks(h, s, T, n, f[n])}
<1>2. 0 \in G
  <2>1. Picks([k \in 1..0 |-> 0], s, T, 0, <<>>)
    BY DEF Picks
  <2> QED BY <1>1, <2>1 DEF IsFilterRun
<1>3. ASSUME NEW m \in 0..(Len(s) - 1), m \in G PROVE m + 1 \in G
  <2> DEFINE n == m + 1
  <2>1. n \in 1..Len(s) /\ n - 1 = m /\ n \in Nat \ {0}
    OBVIOUS
  <2>2. PICK h : Picks(h, s, T, m, f[m])
    BY <1>3
  <2>3. f[m] \in Seq(S) /\ Len(f[m]) \in Nat
    BY <1>1 DEF IsFilterRun
  <2> HIDE DEF n
  <2>4. f[n] = IF s[n] \in T THEN Append(f[m], s[n]) ELSE f[m]
    BY <1>1, <2>1 DEF IsFilterRun
  <2>5. CASE s[n] \in T
    <3>1. \E g : Picks(g, s, T, n, Append(f[m], s[n]))
      BY <2>1, <2>2, <2>3, <2>5, PicksOneMore
    <3> QED BY <2>1, <2>4, <2>5, <3>1 DEF n
  <2>6. CASE s[n] \notin T
    <3>1. Picks(h, s, T, n, f[m])
      BY <2>1, <2>2, <2>3, <2>6, PicksNoMore
    <3> QED BY <2>1, <2>4, <2>6, <3>1 DEF n
  <2> QED BY <2>5, <2>6
<1>4. Len(s) \in Nat /\ Len(s) \in 0..Len(s)
  OBVIOUS
<1>5. \A n \in 0..Len(s) : n \in G
  <2> HIDE DEF G
  <2> QED BY <1>2, <1>3, <1>4, CountingUp
<1>6. Len(s) \in G
  BY <1>4, <1>5
<1>7. \E h : Picks(h, s, T, Len(s), Filter(s, T))
  BY <1>1, <1>6 DEF IsFilterRun
<1> QED BY <1>1, <1>4, <1>7 DEF IsFilterRun

\* What is left out of a list by Filter is exactly what is not in T.
LEMMA FilterMembers ==
    ASSUME NEW S, NEW s \in Seq(S), NEW T
    PROVE  /\ {Filter(s, T)[i] : i \in DOMAIN Filter(s, T)} = {s[i] : i \in DOMAIN s} \cap T
           /\ Filter(s, T) \in Seq(S)
<1> DEFINE t == Filter(s, T)
<1>1. t \in Seq(S) /\ \E h : Picks(h, s, T, Len(s), t)
  BY FilterPicks
<1> HIDE DEF t
<1>2. PICK h : Picks(h, s, T, Len(s), t)
  BY <1>1
<1>3. DOMAIN s = 1..Len(s) /\ DOMAIN t = 1..Len(t) /\ Len(s) \in Nat
  BY <1>1
<1>4. ASSUME NEW k \in DOMAIN t PROVE t[k] \in {s[i] : i \in DOMAIN s} \cap T
  <2>1. t[k] = s[h[k]] /\ t[k] \in T /\ h[k] \in 1..Len(s)
    BY <1>2, <1>3 DEF Picks
  <2> QED BY <1>3, <2>1
<1>5. ASSUME NEW i \in DOMAIN s, s[i] \in T PROVE \E k \in DOMAIN t : t[k] = s[i]
  <2>1. PICK k \in 1..Len(t) : h[k] = i
    BY <1>2, <1>3, <1>5 DEF Picks
  <2>2. t[k] = s[h[k]]
    BY <1>2 DEF Picks
  <2> QED BY <1>3, <2>1, <2>2
<1>6. {t[i] : i \in DOMAIN t} = {s[i] : i \in DOMAIN s} \cap T
  BY <1>4, <1>5
<1> QED BY <1>1, <1>6 DEF t

\* The list becomes no longer.
LEMMA FilterNoLonger ==
    ASSUME NEW S, NEW s \in Seq(S), NEW T PROVE Len(Filter(s, T)) <= Len(s)
BY FilterPicks DEF Picks

\* A list whose entries are all different, in whatever way R says it of two
\* entries in their order, stays so: Filter keeps an order on the entries.
LEMMA FilterKeepsOrder ==
    ASSUME NEW S, NEW s \in Seq(S), NEW T, NEW R,
           \A i, j \in DOMAIN s : i < j => <<s[i], s[j]>> \in R
    PROVE  \A i, j \in DOMAIN Filter(s, T) : i < j => <<Filter(s, T)[i], Filter(s, T)[j]>> \in R
<1> DEFINE t == Filter(s, T)
<1>1. t \in Seq(S) /\ \E h : Picks(h, s, T, Len(s), t)
  BY FilterPicks
<1> HIDE DEF t
<1>2. PICK h : Picks(h, s, T, Len(s), t)
  BY <1>1
<1>3. DOMAIN s = 1..Len(s) /\ DOMAIN t = 1..Len(t) /\ Len(s) \in Nat
  BY <1>1
<1>4. ASSUME NEW i \in DOMAIN t, NEW j \in DOMAIN t, i < j PROVE <<t[i], t[j]>> \in R
  <2>1. t[i] = s[h[i]] /\ h[i] \in 1..Len(s)
    BY <1>2, <1>3 DEF Picks
  <2>2. t[j] = s[h[j]] /\ h[j] \in 1..Len(s)
    BY <1>2, <1>3 DEF Picks
  <2>3. h[i] < h[j]
    BY <1>2, <1>3, <1>4 DEF Picks
  <2> QED BY <1>3, <2>1, <2>2, <2>3
<1> QED BY <1>4 DEF t

\* Find stops at the first entry that is in T.
LEMMA FindFirst ==
    ASSUME NEW S, NEW s \in Seq(S), NEW T
    PROVE  \/ Find(s, T) = 0 /\ \A k \in DOMAIN s : s[k] \notin T
           \/ /\ Find(s, T) \in DOMAIN s /\ s[Find(s, T)] \in T
              /\ \A k \in DOMAIN s : s[k] \in T => Find(s, T) <= k
<1>1. CASE \A k \in DOMAIN s : s[k] \notin T
  BY <1>1 DEF Find
<1>2. CASE \E k \in DOMAIN s : s[k] \in T
  <2> DEFINE P == {k \in DOMAIN s : s[k] \in T}
  <2>1. P \in SUBSET Nat /\ P # {}
    BY <1>2
  <2>2. \E x \in P : \A y \in P : x <= y
    <3> HIDE DEF P
    <3> QED BY <2>1, LeastNatural
  <2>3. \E k \in DOMAIN s : s[k] \in T /\ \A j \in DOMAIN s : s[j] \in T => k <= j
    BY <2>2
  <2> QED BY Zenon, <1>2, <2>3 DEF Find
<1> QED BY <1>1, <1>2

==============================================================================
