----------------------------- MODULE PagesProofs -----------------------------
(* Proofs about the pages a printer is billed for (DevicePages,             *)
(* src/api/src/common/device-pages.service.ts with counter.util.ts), for    *)
(* every fleet, every calendar of periods and every number of readings, and *)
(* about the chart of its pages (PageTrend) and the forecast of its         *)
(* supplies (SupplyForecast), for every history.                            *)
EXTENDS DevicePages, PageTrend, SupplyForecast, SequenceTheorems, FiniteSetTheorems,
        WellFoundedInduction, TLAPS

(* Sums, choices and the filter of transient dropouts (Counters).           *)
\* Counting up.
LEMMA UpToAll ==
  ASSUME NEW T, 0 \in T, \A n \in Nat : n \in T => n + 1 \in T
  PROVE  Nat \subseteq T
<1> DEFINE R == OpToRel(<, Nat)
<1>1. IsWellFoundedOn(R, Nat) /\ \A x, y \in Nat : <<y, x>> \in R <=> y < x
  BY NatLessThanWellFounded DEF OpToRel
<1> HIDE DEF R
<1>2. SUFFICES ASSUME Nat \ T # {} PROVE FALSE
  OBVIOUS
<1>3. PICK m \in Nat \ T : \A k \in Nat \ T : ~ (<<k, m>> \in R)
  <2>1. \E x \in Nat \ T : \A y \in Nat \ T : ~ (<<y, x>> \in R)
    BY <1>1, <1>2, WFMin
  <2> QED BY <2>1
<1>4. \A k \in Nat : k < m => k \in T
  BY <1>1, <1>3
<1>5. m - 1 \in Nat /\ m - 1 \in T
  BY <1>4
<1> QED BY <1>3, <1>5

\* What Total adds up, step by step.
LEMMA TotalDef ==
  ASSUME NEW h \in Seq(Int)
  PROVE  \E f \in [0 .. Len(h) -> Int] :
           /\ f[0] = 0 /\ \A i \in 1 .. Len(h) : f[i] = f[i - 1] + h[i]
           /\ Total(h) = f[Len(h)]
<1> DEFINE Sum(g, n) == g = [i \in 0 .. n |-> IF i = 0 THEN 0 ELSE g[i - 1] + h[i]]
           T == {n \in Nat : n <= Len(h) => \E g \in [0 .. n -> Int] : Sum(g, n)}
<1>0. Len(h) \in Nat /\ \A i \in 1 .. Len(h) : h[i] \in Int
  BY LenProperties, ElementOfSeq
<1>1. 0 \in T
  <2> DEFINE z == [i \in 0 .. 0 |-> 0]
  <2>1. z \in [0 .. 0 -> Int] /\ Sum(z, 0)
    OBVIOUS
  <2> HIDE DEF z, Sum
  <2>2. \E g \in [0 .. 0 -> Int] : Sum(g, 0)
    BY <2>1
  <2> QED BY <2>2
<1>2. ASSUME NEW n \in Nat, n \in T PROVE n + 1 \in T
  <2>1. SUFFICES ASSUME n + 1 <= Len(h) PROVE \E g \in [0 .. n + 1 -> Int] : Sum(g, n + 1)
    <3> HIDE DEF Sum
    <3>1. n + 1 \in Nat
      OBVIOUS
    <3> QED BY <3>1
  <2>2. PICK g \in [0 .. n -> Int] : Sum(g, n)
    BY <1>0, <1>2, <2>1
  <2>3. h[n + 1] \in Int /\ g[n] \in Int
    BY <1>0, <2>1
  <2> DEFINE k == [i \in 0 .. n + 1 |-> IF i = n + 1 THEN g[n] + h[n + 1] ELSE g[i]]
  <2>4. k \in [0 .. n + 1 -> Int]
    BY <2>3
  <2>5. ASSUME NEW i \in 0 .. n + 1
        PROVE  k[i] = IF i = 0 THEN 0 ELSE k[i - 1] + h[i]
    <3>1. CASE i = n + 1
      BY <3>1
    <3>2. CASE i \in 0 .. n
      <4>1. g[i] = IF i = 0 THEN 0 ELSE g[i - 1] + h[i]
        BY <2>2, <3>2
      <4>2. k[i] = g[i] /\ (i # 0 => k[i - 1] = g[i - 1])
        BY <3>2
      <4> QED BY <4>1, <4>2
    <3> QED BY <3>1, <3>2
  <2>6. Sum(k, n + 1)
    BY <2>5
  <2> QED BY <2>4, <2>6
<1>3. PICK g \in [0 .. Len(h) -> Int] : Sum(g, Len(h))
  <2> HIDE DEF Sum
  <2>1. Nat \subseteq T
    <3> HIDE DEF T
    <3> QED BY <1>1, <1>2, UpToAll
  <2> QED BY <2>1, <1>0
<1> DEFINE f == CHOOSE x : x = [i \in 0 .. Len(h) |-> IF i = 0 THEN 0 ELSE x[i - 1] + h[i]]
<1>4. Total(h) = f[Len(h)]
  BY DEF Total
<1>5. f = [i \in 0 .. Len(h) |-> IF i = 0 THEN 0 ELSE f[i - 1] + h[i]]
  BY <1>3
<1> HIDE DEF f
<1>6. f[0] = 0 /\ \A i \in 1 .. Len(h) : f[i] = f[i - 1] + h[i]
  BY <1>0, <1>5
<1>7. ASSUME NEW n \in Nat PROVE n <= Len(h) => f[n] \in Int
  <2> DEFINE U == {i \in Nat : i <= Len(h) => f[i] \in Int}
  <2>1. 0 \in U
    BY <1>6
  <2>2. ASSUME NEW i \in Nat, i \in U PROVE i + 1 \in U
    <3>1. SUFFICES ASSUME i + 1 <= Len(h) PROVE f[i + 1] \in Int
      OBVIOUS
    <3>2. i + 1 \in 1 .. Len(h) /\ (i + 1) - 1 = i /\ f[i] \in Int
      BY <3>1, <2>2, <1>0
    <3> QED BY <3>2, <1>0, <1>6
  <2>3. Nat \subseteq U
    <3> HIDE DEF U
    <3> QED BY <2>1, <2>2, UpToAll
  <2> QED BY <2>3
<1>8. f \in [0 .. Len(h) -> Int]
  BY <1>0, <1>5, <1>7
<1> QED BY <1>4, <1>6, <1>8

\* A sum of differences telescopes.
LEMMA TotalTelescopes ==
  ASSUME NEW h \in Seq(Int), NEW v, \A i \in 0 .. Len(h) : v[i] \in Int,
         \A i \in 1 .. Len(h) : h[i] <= v[i] - v[i - 1]
  PROVE  /\ Total(h) \in Int
         /\ Total(h) <= v[Len(h)] - v[0]
         /\ (\A i \in 1 .. Len(h) : h[i] = v[i] - v[i - 1]) => Total(h) = v[Len(h)] - v[0]
<1>1. PICK f \in [0 .. Len(h) -> Int] :
           /\ f[0] = 0 /\ \A i \in 1 .. Len(h) : f[i] = f[i - 1] + h[i]
           /\ Total(h) = f[Len(h)]
  BY TotalDef
<1>2. Len(h) \in Nat /\ \A i \in 1 .. Len(h) : h[i] \in Int
  BY LenProperties, ElementOfSeq
<1> DEFINE Exact == \A i \in 1 .. Len(h) : h[i] = v[i] - v[i - 1]
           T == {n \in Nat : n <= Len(h) => /\ f[n] <= v[n] - v[0]
                                            /\ Exact => f[n] = v[n] - v[0]}
<1>3. 0 \in T
  <2>1. v[0] \in Int
    BY <1>2
  <2> QED BY <2>1, <1>1
<1>4. ASSUME NEW n \in Nat, n \in T PROVE n + 1 \in T
  <2>1. SUFFICES ASSUME n + 1 <= Len(h)
                 PROVE  f[n + 1] <= v[n + 1] - v[0] /\ (Exact => f[n + 1] = v[n + 1] - v[0])
    BY <1>2
  <2>2. n + 1 \in 1 .. Len(h) /\ (n + 1) - 1 = n /\ n \in 0 .. Len(h) /\ n + 1 \in 0 .. Len(h) /\ 0 \in 0 .. Len(h)
    BY <2>1, <1>2
  <2>3. /\ f[n + 1] = f[n] + h[n + 1]
        /\ h[n + 1] <= v[n + 1] - v[n]
        /\ Exact => h[n + 1] = v[n + 1] - v[n]
    BY <2>2, <1>1
  <2>4. f[n] \in Int /\ h[n + 1] \in Int /\ v[n + 1] \in Int /\ v[n] \in Int /\ v[0] \in Int
    BY <2>2, <1>1, <1>2
  <2>5. f[n] <= v[n] - v[0] /\ (Exact => f[n] = v[n] - v[0])
    BY <1>4, <2>1, <1>2
  <2> HIDE DEF Exact
  <2>6. f[n] <= v[n] - v[0] /\ h[n + 1] <= v[n + 1] - v[n] /\ f[n + 1] = f[n] + h[n + 1]
    BY <2>3, <2>5
  <2>7. f[n + 1] <= v[n + 1] - v[0]
    BY <2>4, <2>6
  <2>8. ASSUME Exact PROVE f[n + 1] = v[n + 1] - v[0]
    BY <2>3, <2>4, <2>5, <2>8
  <2> QED BY <2>7, <2>8
<1>5. Len(h) \in T
  <2>1. Nat \subseteq T
    <3> HIDE DEF T
    <3> QED BY <1>3, <1>4, UpToAll
  <2> HIDE DEF T
  <2> QED BY <2>1, <1>2
<1> QED BY <1>1, <1>2, <1>5

\* A function to sequences that is defined from its value one number before exists.
StaysIn(nth, S, n) == \A i \in 1 .. n : \A q \in Seq(S) : nth[i][q] \in Seq(S)
Follows(f, nth, S, n) ==
  /\ \A i \in 0 .. n : f[i] \in Seq(S)
  /\ f = [i \in 0 .. n |-> f[i]]
  /\ f[0] = <<>>
  /\ \A i \in 1 .. n : f[i] = nth[i][f[i - 1]]
\* A sequence of steps that stay in Seq(S) can be followed to its end.
LEMMA StepByStep ==
  ASSUME NEW S, NEW nth, NEW n, n \in Nat, StaysIn(nth, S, n)
  PROVE  \E f : Follows(f, nth, S, n)
<1> DEFINE D == Seq(S)
           Steps(g, k) == /\ \A i \in 0 .. k : g[i] \in D
                          /\ g = [i \in 0 .. k |-> IF i = 0 THEN <<>> ELSE nth[i][g[i - 1]]]
           T == {k \in Nat : k <= n => \E g : Steps(g, k)}
<1>0. <<>> \in D /\ \A i \in 1 .. n : \A q \in D : nth[i][q] \in D
  BY EmptySeq DEF StaysIn
<1> HIDE DEF D
<1>1. 0 \in T
  <2> DEFINE z == [i \in 0 .. 0 |-> <<>>]
  <2>1. Steps(z, 0)
    BY <1>0
  <2> HIDE DEF z, Steps
  <2>2. \E g : Steps(g, 0)
    BY <2>1
  <2> QED BY <2>2
<1>2. ASSUME NEW k \in Nat, k \in T PROVE k + 1 \in T
  <2>0. SUFFICES ASSUME k + 1 <= n PROVE \E g : Steps(g, k + 1)
    OBVIOUS
  <2>1. PICK g : Steps(g, k)
    BY <1>2, <2>0
  <2>2. g[k] \in D /\ k + 1 \in 1 .. n
    BY <2>0, <2>1
  <2>3. nth[k + 1][g[k]] \in D
    BY <2>2, <1>0
  <2> DEFINE h == [i \in 0 .. k + 1 |-> IF i = k + 1 THEN nth[k + 1][g[k]] ELSE g[i]]
  <2>4. \A i \in 0 .. k + 1 : h[i] \in D
    BY <2>1, <2>3
  <2>5. ASSUME NEW i \in 0 .. k + 1 PROVE h[i] = IF i = 0 THEN <<>> ELSE nth[i][h[i - 1]]
    <3>1. CASE i = k + 1
      BY <3>1
    <3>2. CASE i \in 0 .. k
      <4>1. g[i] = IF i = 0 THEN <<>> ELSE nth[i][g[i - 1]]
        BY <3>2, <2>1
      <4>2. h[i] = g[i] /\ (i # 0 => h[i - 1] = g[i - 1])
        BY <3>2
      <4> QED BY <4>1, <4>2
    <3> QED BY <3>1, <3>2
  <2>6. Steps(h, k + 1)
    BY <2>4, <2>5
  <2> HIDE DEF h, Steps
  <2>7. \E x : Steps(x, k + 1)
    BY <2>6
  <2> QED BY <2>7
<1>3. Nat \subseteq T
  <2> HIDE DEF T
  <2> QED BY <1>1, <1>2, UpToAll
<1>4. \E g : Steps(g, n)
  <2> HIDE DEF Steps
  <2> QED BY <1>3
<1>5. PICK f : Steps(f, n)
  BY <1>4
<1>6. f = [i \in 0 .. n |-> f[i]] /\ \A i \in 0 .. n : f[i] = IF i = 0 THEN <<>> ELSE nth[i][f[i - 1]]
  BY <1>5
<1>7. f[0] = <<>> /\ \A i \in 1 .. n : f[i] = nth[i][f[i - 1]]
  BY <1>6
<1>8. \A i \in 0 .. n : f[i] \in Seq(S)
  BY <1>5 DEF D
<1>9. Follows(f, nth, S, n)
  BY <1>6, <1>7, <1>8, Zenon DEF Follows
<1> QED BY <1>9

\* q holds the rows of s at the positions g, in their order, up to n.
Picks(q, s, g, n) ==
  /\ g \in [1 .. Len(q) -> 1 .. n]
  /\ \A a, b \in 1 .. Len(q) : a < b => g[a] < g[b]
  /\ \A a \in 1 .. Len(q) : q[a] = s[g[a]]

\* A pick of the first n rows, and the next one.
LEMMA PickOneMore ==
  ASSUME NEW S, NEW s \in Seq(S), NEW q \in Seq(S), NEW n \in Nat, n + 1 <= Len(s),
         NEW g, Picks(q, s, g, n)
  PROVE  \E h : /\ Picks(Append(q, s[n + 1]), s, h, n + 1)
                /\ h[Len(q) + 1] = n + 1
                /\ \A a \in 1 .. Len(q) : h[a] = g[a]
<1> DEFINE r == Append(q, s[n + 1])
           h == [a \in 1 .. Len(q) + 1 |-> IF a = Len(q) + 1 THEN n + 1 ELSE g[a]]
<1>1. s[n + 1] \in S /\ Len(q) \in Nat
  BY LenProperties, ElementOfSeq
<1>2. /\ Len(r) = Len(q) + 1
      /\ \A a \in 1 .. Len(q) : r[a] = q[a]
      /\ r[Len(q) + 1] = s[n + 1]
  BY <1>1, AppendProperties
<1>3. \A a \in 1 .. Len(q) : g[a] \in 1 .. n /\ h[a] = g[a]
  BY <1>1 DEF Picks
<1>4. h[Len(q) + 1] = n + 1
  BY <1>1
<1>5. h \in [1 .. Len(r) -> 1 .. n + 1]
  <2>1. \A a \in 1 .. Len(q) + 1 : h[a] \in 1 .. n + 1
    <3>1. n + 1 \in 1 .. n + 1 /\ \A x \in 1 .. n : x \in 1 .. n + 1
      OBVIOUS
    <3>2. \A a \in 1 .. Len(q) + 1 : a = Len(q) + 1 \/ a \in 1 .. Len(q)
      BY <1>1
    <3> HIDE DEF h
    <3> QED BY <3>1, <3>2, <1>3, <1>4
  <2>2. h \in [1 .. Len(q) + 1 -> 1 .. n + 1]
    BY <2>1
  <2> HIDE DEF h
  <2> QED BY <2>2, <1>2
<1>6. ASSUME NEW a \in 1 .. Len(r), NEW b \in 1 .. Len(r), a < b PROVE h[a] < h[b]
  <2>1. a \in 1 .. Len(q)
    BY <1>1, <1>2, <1>6
  <2>2. CASE b = Len(q) + 1
    <3>1. h[a] \in 1 .. n /\ h[b] = n + 1
      BY <2>1, <2>2, <1>3, <1>4
    <3> QED BY <3>1
  <2>3. CASE b \in 1 .. Len(q)
    BY <2>1, <2>3, <1>3, <1>6 DEF Picks
  <2> QED BY <2>2, <2>3, <1>1, <1>2
<1>7. ASSUME NEW a \in 1 .. Len(r) PROVE r[a] = s[h[a]]
  <2>1. CASE a = Len(q) + 1
    BY <2>1, <1>2, <1>4
  <2>2. CASE a \in 1 .. Len(q)
    BY <2>2, <1>2, <1>3 DEF Picks
  <2> QED BY <2>1, <2>2, <1>1, <1>2
<1> HIDE DEF h
<1>8. Picks(r, s, h, n + 1)
  BY <1>5, <1>6, <1>7 DEF Picks
<1> QED BY <1>3, <1>4, <1>8

\* Chosen, row by row.
LEMMA ChosenRec ==
  ASSUME NEW S, NEW s \in Seq(S), NEW I
  PROVE  \E f : /\ f[0] = <<>>
                /\ \A i \in 1 .. Len(s) : i \in I => f[i] = Append(f[i - 1], s[i])
                /\ \A i \in 1 .. Len(s) : i \notin I => f[i] = f[i - 1]
                /\ Chosen(s, I) = f[Len(s)]
<1>1. Len(s) \in Nat /\ \A i \in 1 .. Len(s) : s[i] \in S
  BY LenProperties, ElementOfSeq
<1> DEFINE nth == [i \in Nat |-> [q \in Seq(S) |-> IF i \in I THEN Append(q, s[i]) ELSE q]]
<1>2. \A i \in 1 .. Len(s) : \A q \in Seq(S) : nth[i][q] = IF i \in I THEN Append(q, s[i]) ELSE q
  BY <1>1
<1>3. \A i \in 1 .. Len(s) : \A q \in Seq(S) : nth[i][q] \in Seq(S)
  <2>1. \A i \in 1 .. Len(s) : \A q \in Seq(S) : Append(q, s[i]) \in Seq(S)
    BY <1>1, AppendProperties
  <2> HIDE DEF nth
  <2> QED BY <1>2, <2>1
<1> HIDE DEF nth
<1>n. Len(s) \in Nat /\ StaysIn(nth, S, Len(s))
  BY <1>1, <1>3 DEF StaysIn
<1>4. PICK g : Follows(g, nth, S, Len(s))
  BY <1>n, StepByStep, Zenon
<1>6. ASSUME NEW i \in 0 .. Len(s)
      PROVE  g[i] = IF i = 0 THEN <<>> ELSE IF i \in I THEN Append(g[i - 1], s[i]) ELSE g[i - 1]
  <2>1. CASE i = 0
    BY <2>1, <1>4 DEF Follows
  <2>2. CASE i \in 1 .. Len(s)
    <3>0. i - 1 \in 0 .. Len(s) /\ i # 0
      BY <2>2, <1>1
    <3>1. g[i] = nth[i][g[i - 1]]
      BY <2>2, <1>4, Zenon DEF Follows
    <3>3. g[i - 1] \in Seq(S)
      BY <3>0, <1>4, Zenon DEF Follows
    <3>2. nth[i][g[i - 1]] = IF i \in I THEN Append(g[i - 1], s[i]) ELSE g[i - 1]
      BY <2>2, <3>3, <1>2, Zenon
    <3> QED BY <3>0, <3>1, <3>2
  <2> QED BY <2>1, <2>2, <1>1
<1>5. g = [i \in 0 .. Len(s) |-> g[i]]
  BY <1>4 DEF Follows
<1> DEFINE f == CHOOSE x : x = [i \in 0 .. Len(s) |->
                  IF i = 0 THEN <<>> ELSE IF i \in I THEN Append(x[i - 1], s[i]) ELSE x[i - 1]]
<1>7. g = [i \in 0 .. Len(s) |->
                  IF i = 0 THEN <<>> ELSE IF i \in I THEN Append(g[i - 1], s[i]) ELSE g[i - 1]]
  BY <1>5, <1>6
<1>8. f = [i \in 0 .. Len(s) |->
                  IF i = 0 THEN <<>> ELSE IF i \in I THEN Append(f[i - 1], s[i]) ELSE f[i - 1]]
  BY <1>7
<1>9. Chosen(s, I) = f[Len(s)]
  BY DEF Chosen
<1> HIDE DEF f
<1>10. /\ f[0] = <<>>
       /\ \A i \in 1 .. Len(s) : i \in I => f[i] = Append(f[i - 1], s[i])
       /\ \A i \in 1 .. Len(s) : i \notin I => f[i] = f[i - 1]
  <2>1. \A i \in 0 .. Len(s) : f[i] = IF i = 0 THEN <<>> ELSE IF i \in I THEN Append(f[i - 1], s[i]) ELSE f[i - 1]
    BY <1>8
  <2>2. f[0] = <<>>
    BY <2>1, <1>1
  <2>3. \A i \in 1 .. Len(s) : i \in 0 .. Len(s) /\ i # 0
    BY <1>1
  <2> QED BY <2>1, <2>2, <2>3, Zenon
<1> QED BY <1>9, <1>10

\* Chosen takes the rows at I and no others, in their order.
LEMMA ChosenSound ==
  ASSUME NEW S, NEW s \in Seq(S), NEW I \in SUBSET (1 .. Len(s))
  PROVE  /\ Chosen(s, I) \in Seq(S)
         /\ I = {} => Len(Chosen(s, I)) = 0
         /\ \E g : /\ Picks(Chosen(s, I), s, g, Len(s))
                   /\ \A a \in 1 .. Len(Chosen(s, I)) : g[a] \in I
                   /\ I # {} => /\ Len(Chosen(s, I)) >= 1
                                /\ \A k \in I : g[1] <= k /\ k <= g[Len(Chosen(s, I))]
                   /\ \A k \in I : \E a \in 1 .. Len(Chosen(s, I)) : g[a] = k
<1>1. PICK f :
        /\ f[0] = <<>>
        /\ \A i \in 1 .. Len(s) : i \in I => f[i] = Append(f[i - 1], s[i])
        /\ \A i \in 1 .. Len(s) : i \notin I => f[i] = f[i - 1]
        /\ Chosen(s, I) = f[Len(s)]
  BY ChosenRec
<1>2. Len(s) \in Nat /\ \A i \in 1 .. Len(s) : s[i] \in S
  BY LenProperties, ElementOfSeq
<1> DEFINE Good(q, g, n) ==
             /\ Picks(q, s, g, n)
             /\ \A a \in 1 .. Len(q) : g[a] \in I
             /\ \A k \in I : k <= n => Len(q) >= 1 /\ g[1] <= k /\ k <= g[Len(q)]
             /\ \A k \in I : k <= n => \E a \in 1 .. Len(q) : g[a] = k
           T == {n \in Nat : n <= Len(s) => /\ f[n] \in Seq(S)
                                            /\ (\A k \in I : k > n) => Len(f[n]) = 0
                                            /\ \E g : Good(f[n], g, n)}
<1>3. 0 \in T
  <2>1. f[0] \in Seq(S) /\ Len(f[0]) = 0
    BY <1>1, EmptySeq
  <2> DEFINE g == [a \in 1 .. 0 |-> 1]
  <2>2. Good(f[0], g, 0)
    BY <2>1 DEF Picks
  <2> HIDE DEF Good, g
  <2>3. \E x : Good(f[0], x, 0)
    BY <2>2
  <2> QED BY <2>1, <2>3
<1>4. ASSUME NEW n \in Nat, n \in T PROVE n + 1 \in T
  <2>1. SUFFICES ASSUME n + 1 <= Len(s)
                 PROVE  /\ f[n + 1] \in Seq(S)
                        /\ (\A k \in I : k > n + 1) => Len(f[n + 1]) = 0
                        /\ \E g : Good(f[n + 1], g, n + 1)
    <3> HIDE DEF Good
    <3>1. n + 1 \in Nat
      OBVIOUS
    <3> QED BY <3>1
  <2>2. f[n] \in Seq(S) /\ ((\A k \in I : k > n) => Len(f[n]) = 0) /\ \E g : Good(f[n], g, n)
    <3> HIDE DEF Good
    <3> QED BY <1>2, <1>4, <2>1
  <2>3. PICK g : Good(f[n], g, n)
    BY <2>2
  <2>4. n + 1 \in 1 .. Len(s) /\ (n + 1) - 1 = n
    BY <2>1, <1>2
  <2>5. (n + 1 \in I => f[n + 1] = Append(f[n], s[n + 1])) /\ (n + 1 \notin I => f[n + 1] = f[n])
    <3>1. (n + 1 \in I => f[n + 1] = Append(f[(n + 1) - 1], s[n + 1]))
          /\ (n + 1 \notin I => f[n + 1] = f[(n + 1) - 1])
      BY <2>4, <1>1, Zenon
    <3> QED BY <2>4, <3>1, Zenon
  <2>6. Len(f[n]) \in Nat
    BY <2>2, LenProperties
  <2>7. CASE n + 1 \in I
    <3>1. f[n + 1] = Append(f[n], s[n + 1])
      BY <2>5, <2>7
    <3>2. f[n + 1] \in Seq(S) /\ Len(f[n + 1]) = Len(f[n]) + 1
      BY <3>1, <2>2, <2>4, <1>2, AppendProperties
    <3>3. PICK h : /\ Picks(f[n + 1], s, h, n + 1)
                   /\ h[Len(f[n]) + 1] = n + 1
                   /\ \A a \in 1 .. Len(f[n]) : h[a] = g[a]
      <4>1. Picks(f[n], s, g, n)
        BY <2>3
      <4>2. \E h : /\ Picks(Append(f[n], s[n + 1]), s, h, n + 1)
                   /\ h[Len(f[n]) + 1] = n + 1
                   /\ \A a \in 1 .. Len(f[n]) : h[a] = g[a]
        BY <4>1, <2>1, <2>2, PickOneMore
      <4> QED BY <4>2, <3>1, Zenon
    <3>4. \A a \in 1 .. Len(f[n + 1]) : h[a] \in I
      <4>1. \A a \in 1 .. Len(f[n + 1]) : a = Len(f[n]) + 1 \/ a \in 1 .. Len(f[n])
        BY <3>2, <2>6
      <4> QED BY <4>1, <3>3, <2>3, <2>7
    <3>5. ASSUME NEW k \in I, k <= n + 1
          PROVE  Len(f[n + 1]) >= 1 /\ h[1] <= k /\ k <= h[Len(f[n + 1])]
      <4>1. k \in Int /\ Len(f[n + 1]) >= 1 /\ h[Len(f[n + 1])] = n + 1
        BY <3>2, <3>3, <2>6
      <4>2. CASE k <= n
        <5>1. Len(f[n]) >= 1 /\ g[1] <= k
          BY <4>2, <2>3
        <5>2. h[1] = g[1]
          BY <5>1, <3>3, <2>6
        <5> QED BY <4>1, <5>1, <5>2, <3>5
      <4>3. CASE k = n + 1
        <5>1. h[1] \in 1 .. n + 1
          BY <3>3, <4>1, <3>2, <2>6 DEF Picks
        <5> QED BY <5>1, <4>1, <4>3
      <4> QED BY <4>1, <4>2, <4>3, <3>5
    <3>9. ASSUME NEW k \in I, k <= n + 1
          PROVE  \E a \in 1 .. Len(f[n + 1]) : h[a] = k
      <4>1. CASE k <= n
        <5>1. PICK a \in 1 .. Len(f[n]) : g[a] = k
          BY <4>1, <2>3
        <5>2. a \in 1 .. Len(f[n + 1]) /\ h[a] = k
          BY <5>1, <3>2, <3>3, <2>6
        <5> QED BY <5>2
      <4>2. CASE k = n + 1
        <5>1. Len(f[n]) + 1 \in 1 .. Len(f[n + 1])
          BY <3>2, <2>6
        <5> QED BY <5>1, <3>3, <4>2
      <4>3. k \in Int
        BY <3>9
      <4> QED BY <4>1, <4>2, <4>3, <3>9
    <3>6. Good(f[n + 1], h, n + 1)
      BY <3>3, <3>4, <3>5, <3>9
    <3>7. ~ \A k \in I : k > n + 1
      BY <2>7
    <3> HIDE DEF Good
    <3>8. \E x : Good(f[n + 1], x, n + 1)
      BY <3>6
    <3> QED BY <3>2, <3>7, <3>8
  <2>8. CASE n + 1 \notin I
    <3>1. f[n + 1] = f[n]
      BY <2>5, <2>8
    <3>2. \A k \in I : (k > n <=> k > n + 1) /\ (k <= n <=> k <= n + 1)
      BY <2>8
    <3>3. Good(f[n], g, n + 1)
      <4>1. Picks(f[n], s, g, n + 1)
        <5>1. Picks(f[n], s, g, n) /\ \A x \in 1 .. n : x \in 1 .. n + 1
          BY <2>3
        <5> QED BY <5>1 DEF Picks
      <4> QED BY <4>1, <2>3, <3>2
    <3> HIDE DEF Good
    <3>4. (\A k \in I : k > n + 1) => Len(f[n]) = 0
      BY <2>2, <3>2
    <3>5. \E x : Good(f[n], x, n + 1)
      BY <3>3
    <3> QED BY <3>1, <2>2, <3>4, <3>5
  <2> QED BY <2>7, <2>8
<1>5. Len(s) \in T
  <2>1. Nat \subseteq T
    <3> HIDE DEF T
    <3> QED BY <1>3, <1>4, UpToAll
  <2> HIDE DEF T
  <2> QED BY <2>1, <1>2
<1>6. /\ f[Len(s)] \in Seq(S)
      /\ (\A k \in I : k > Len(s)) => Len(f[Len(s)]) = 0
      /\ \E g : Good(f[Len(s)], g, Len(s))
  <2> HIDE DEF Good
  <2> QED BY <1>5, <1>2
<1>7. PICK g : Good(f[Len(s)], g, Len(s))
  BY <1>6
<1>8. \A k \in I : k <= Len(s)
  BY <1>2
<1>9. Good(Chosen(s, I), g, Len(s))
  <2> HIDE DEF Good
  <2> QED BY <1>1, <1>7, Zenon
<1>10. /\ Picks(Chosen(s, I), s, g, Len(s))
       /\ \A a \in 1 .. Len(Chosen(s, I)) : g[a] \in I
       /\ I # {} => /\ Len(Chosen(s, I)) >= 1
                    /\ \A k \in I : g[1] <= k /\ k <= g[Len(Chosen(s, I))]
       /\ \A k \in I : \E a \in 1 .. Len(Chosen(s, I)) : g[a] = k
  BY <1>8, <1>9
<1>11. Chosen(s, I) \in Seq(S) /\ (I = {} => Len(Chosen(s, I)) = 0)
  <2> HIDE DEF Good
  <2>1. Chosen(s, I) = f[Len(s)]
    BY <1>1
  <2>2. I = {} => \A k \in I : k > Len(s)
    OBVIOUS
  <2> QED BY <2>1, <2>2, <1>6, Zenon
<1> QED BY <1>10, <1>11

Skips(s, c, q, i) ==
  /\ i > 1
  /\ s[i][c] < Last(q)[c]
  /\ \E j \in (i + 1) .. Len(s) : s[j][c] >= Last(q)[c]

\* Filtered, row by row.
LEMMA FilteredRec ==
  ASSUME NEW S, NEW s \in Seq(S), NEW c
  PROVE  \E f : /\ f[0] = <<>>
                /\ \A i \in 1 .. Len(s) : Skips(s, c, f[i - 1], i) => f[i] = f[i - 1]
                /\ \A i \in 1 .. Len(s) : ~Skips(s, c, f[i - 1], i) => f[i] = Append(f[i - 1], s[i])
                /\ Filtered(s, c) = f[Len(s)]
<1>1. Len(s) \in Nat /\ \A i \in 1 .. Len(s) : s[i] \in S
  BY LenProperties, ElementOfSeq
<1> DEFINE nth == [i \in Nat |-> [q \in Seq(S) |-> IF Skips(s, c, q, i) THEN q ELSE Append(q, s[i])]]
<1>2. \A i \in 1 .. Len(s) : \A q \in Seq(S) : nth[i][q] = IF Skips(s, c, q, i) THEN q ELSE Append(q, s[i])
  BY <1>1
<1>3. \A i \in 1 .. Len(s) : \A q \in Seq(S) : nth[i][q] \in Seq(S)
  <2>1. \A i \in 1 .. Len(s) : \A q \in Seq(S) : Append(q, s[i]) \in Seq(S)
    BY <1>1, AppendProperties
  <2> HIDE DEF nth
  <2> QED BY <1>2, <2>1
<1> HIDE DEF nth
<1>n. Len(s) \in Nat /\ StaysIn(nth, S, Len(s))
  BY <1>1, <1>3 DEF StaysIn
<1>4. PICK g : Follows(g, nth, S, Len(s))
  BY <1>n, StepByStep, Zenon
<1>6. ASSUME NEW i \in 0 .. Len(s)
      PROVE  g[i] = IF i = 0 THEN <<>> ELSE IF Skips(s, c, g[i - 1], i) THEN g[i - 1] ELSE Append(g[i - 1], s[i])
  <2>1. CASE i = 0
    BY <2>1, <1>4 DEF Follows
  <2>2. CASE i \in 1 .. Len(s)
    <3>0. i - 1 \in 0 .. Len(s) /\ i # 0
      BY <2>2, <1>1
    <3>1. g[i] = nth[i][g[i - 1]]
      BY <2>2, <1>4, Zenon DEF Follows
    <3>3. g[i - 1] \in Seq(S)
      BY <3>0, <1>4, Zenon DEF Follows
    <3>2. nth[i][g[i - 1]] = IF Skips(s, c, g[i - 1], i) THEN g[i - 1] ELSE Append(g[i - 1], s[i])
      BY <2>2, <3>3, <1>2, Zenon
    <3> QED BY <3>0, <3>1, <3>2
  <2> QED BY <2>1, <2>2, <1>1
<1>5. g = [i \in 0 .. Len(s) |-> g[i]]
  BY <1>4 DEF Follows
<1> DEFINE f == CHOOSE x : x = [i \in 0 .. Len(s) |->
                  IF i = 0 THEN <<>> ELSE IF Skips(s, c, x[i - 1], i) THEN x[i - 1] ELSE Append(x[i - 1], s[i])]
<1>7. g = [i \in 0 .. Len(s) |->
                  IF i = 0 THEN <<>> ELSE IF Skips(s, c, g[i - 1], i) THEN g[i - 1] ELSE Append(g[i - 1], s[i])]
  BY <1>5, <1>6
<1>8. f = [i \in 0 .. Len(s) |->
                  IF i = 0 THEN <<>> ELSE IF Skips(s, c, f[i - 1], i) THEN f[i - 1] ELSE Append(f[i - 1], s[i])]
  BY <1>7
<1>9. Filtered(s, c) = f[Len(s)]
  BY DEF Filtered, Skips
<1> HIDE DEF f
<1>10. /\ f[0] = <<>>
       /\ \A i \in 1 .. Len(s) : Skips(s, c, f[i - 1], i) => f[i] = f[i - 1]
       /\ \A i \in 1 .. Len(s) : ~Skips(s, c, f[i - 1], i) => f[i] = Append(f[i - 1], s[i])
  <2>1. \A i \in 0 .. Len(s) : f[i] = IF i = 0 THEN <<>> ELSE IF Skips(s, c, f[i - 1], i) THEN f[i - 1] ELSE Append(f[i - 1], s[i])
    BY <1>8
  <2>2. f[0] = <<>>
    BY <2>1, <1>1
  <2>3. \A i \in 1 .. Len(s) : i \in 0 .. Len(s) /\ i # 0
    BY <1>1
  <2> QED BY <2>1, <2>2, <2>3, Zenon
<1> QED BY <1>9, <1>10

\* The filter keeps the first row; when no row is above the last one, it keeps the
\* last one too, and what it keeps does not fall.
LEMMA FilteredSound ==
  ASSUME NEW S, NEW s \in Seq(S), NEW c, \A i \in 1 .. Len(s) : s[i][c] \in Int
  PROVE  /\ Filtered(s, c) \in Seq(S)
         /\ \E g : /\ Picks(Filtered(s, c), s, g, Len(s))
                   /\ Len(s) > 0 => Len(Filtered(s, c)) >= 1 /\ g[1] = 1
                   /\ Len(s) > 0 /\ (\A i \in 1 .. Len(s) : s[i][c] <= s[Len(s)][c]) =>
                        /\ g[Len(Filtered(s, c))] = Len(s)
                        /\ \A a \in 2 .. Len(Filtered(s, c)) :
                             Filtered(s, c)[a - 1][c] <= Filtered(s, c)[a][c]
<1>1. PICK f : /\ f[0] = <<>>
               /\ \A i \in 1 .. Len(s) : Skips(s, c, f[i - 1], i) => f[i] = f[i - 1]
               /\ \A i \in 1 .. Len(s) : ~Skips(s, c, f[i - 1], i) => f[i] = Append(f[i - 1], s[i])
               /\ Filtered(s, c) = f[Len(s)]
  BY FilteredRec
<1>2. Len(s) \in Nat /\ \A i \in 1 .. Len(s) : s[i] \in S
  BY LenProperties, ElementOfSeq
<1> DEFINE Top == \A i \in 1 .. Len(s) : s[i][c] <= s[Len(s)][c]
           Rises(q) == \A a \in 2 .. Len(q) : q[a - 1][c] <= q[a][c]
           Good(q, g, n) == /\ Picks(q, s, g, n)
                            /\ n > 0 => Len(q) >= 1 /\ g[1] = 1
                            /\ n > 0 /\ n = Len(s) /\ Top => g[Len(q)] = Len(s)
                            /\ Top => Rises(q)
           T == {n \in Nat : n <= Len(s) => f[n] \in Seq(S) /\ \E g : Good(f[n], g, n)}
<1>3. 0 \in T
  <2>1. f[0] \in Seq(S) /\ Len(f[0]) = 0
    BY <1>1, EmptySeq
  <2> DEFINE g == [a \in 1 .. 0 |-> 1]
  <2>2. Good(f[0], g, 0)
    BY <2>1 DEF Picks
  <2> HIDE DEF Good, g
  <2>3. \E x : Good(f[0], x, 0)
    BY <2>2
  <2> QED BY <2>1, <2>3
<1>4. ASSUME NEW n \in Nat, n \in T PROVE n + 1 \in T
  <2>1. SUFFICES ASSUME n + 1 <= Len(s)
                 PROVE  f[n + 1] \in Seq(S) /\ \E g : Good(f[n + 1], g, n + 1)
    <3> HIDE DEF Good
    <3>1. n + 1 \in Nat
      OBVIOUS
    <3> QED BY <3>1
  <2>2. f[n] \in Seq(S) /\ \E g : Good(f[n], g, n)
    <3> HIDE DEF Good
    <3> QED BY <1>2, <1>4, <2>1
  <2>3. PICK g : Good(f[n], g, n)
    BY <2>2
  <2>4. n + 1 \in 1 .. Len(s) /\ (n + 1) - 1 = n /\ Len(f[n]) \in Nat
    BY <2>1, <2>2, <1>2, LenProperties
  <2>5. (Skips(s, c, f[n], n + 1) => f[n + 1] = f[n])
        /\ (~Skips(s, c, f[n], n + 1) => f[n + 1] = Append(f[n], s[n + 1]))
    <3>1. (Skips(s, c, f[(n + 1) - 1], n + 1) => f[n + 1] = f[(n + 1) - 1])
          /\ (~Skips(s, c, f[(n + 1) - 1], n + 1) => f[n + 1] = Append(f[(n + 1) - 1], s[n + 1]))
      BY <2>4, <1>1, Zenon
    <3> QED BY <2>4, <3>1, Zenon
  <2>6. CASE Skips(s, c, f[n], n + 1)
    <3>1. f[n + 1] = f[n]
      BY <2>5, <2>6
    <3>2. n > 0 /\ n + 1 # Len(s)
      BY <2>6, <1>2 DEF Skips
    <3>3. Picks(f[n], s, g, n + 1)
      <4>1. Picks(f[n], s, g, n) /\ \A x \in 1 .. n : x \in 1 .. n + 1
        BY <2>3
      <4> QED BY <4>1 DEF Picks
    <3>4. Good(f[n], g, n + 1)
      BY <3>2, <3>3, <2>3
    <3> HIDE DEF Good
    <3>5. \E x : Good(f[n], x, n + 1)
      BY <3>4
    <3> QED BY <3>1, <2>2, <3>5
  <2>7. CASE ~Skips(s, c, f[n], n + 1)
    <3>1. f[n + 1] = Append(f[n], s[n + 1])
      BY <2>5, <2>7
    <3>2. /\ f[n + 1] \in Seq(S) /\ Len(f[n + 1]) = Len(f[n]) + 1
          /\ \A a \in 1 .. Len(f[n]) : f[n + 1][a] = f[n][a]
          /\ f[n + 1][Len(f[n]) + 1] = s[n + 1]
      BY <3>1, <2>2, <2>4, <1>2, AppendProperties
    <3>3. PICK h : /\ Picks(f[n + 1], s, h, n + 1)
                   /\ h[Len(f[n]) + 1] = n + 1
                   /\ \A a \in 1 .. Len(f[n]) : h[a] = g[a]
      <4>1. Picks(f[n], s, g, n)
        BY <2>3
      <4>2. \E h : /\ Picks(Append(f[n], s[n + 1]), s, h, n + 1)
                   /\ h[Len(f[n]) + 1] = n + 1
                   /\ \A a \in 1 .. Len(f[n]) : h[a] = g[a]
        <5>1. f[n] \in Seq(S) /\ n \in Nat /\ n + 1 <= Len(s)
          BY <2>1, <2>2
        <5> HIDE DEF Good, Top, Rises, T
        <5> QED BY <4>1, <5>1, PickOneMore
      <4> QED BY <4>2, <3>1, Zenon
    <3>4. Len(f[n + 1]) >= 1 /\ h[1] = 1
      <4>1. CASE n = 0
        <5>1. ~ (1 \in 1 .. Len(f[n]))
          <6>1. \A a \in 1 .. Len(f[n]) : g[a] \in 1 .. 0
            BY <2>3, <4>1 DEF Picks
          <6> QED BY <6>1
        <5>2. Len(f[n]) = 0
          BY <5>1, <2>4
        <5> QED BY <5>2, <4>1, <3>2, <3>3
      <4>2. CASE n > 0
        <5>1. Len(f[n]) >= 1 /\ g[1] = 1
          BY <2>3, <4>2
        <5> QED BY <5>1, <3>2, <3>3, <2>4
      <4> QED BY <4>1, <4>2
    <3>5. h[Len(f[n + 1])] = n + 1
      BY <3>2, <3>3
    <3>6. Top => Rises(f[n + 1])
      <4>1. SUFFICES ASSUME Top, NEW a \in 2 .. Len(f[n + 1])
                     PROVE  f[n + 1][a - 1][c] <= f[n + 1][a][c]
        OBVIOUS
      <4>2. CASE a \in 2 .. Len(f[n])
        <5>1. f[n][a - 1][c] <= f[n][a][c]
          BY <2>3, <4>1, <4>2
        <5>2. f[n + 1][a - 1] = f[n][a - 1] /\ f[n + 1][a] = f[n][a]
          <6>1. a - 1 \in 1 .. Len(f[n]) /\ a \in 1 .. Len(f[n])
            BY <4>2, <2>4
          <6> QED BY <6>1, <3>2
        <5> QED BY <5>1, <5>2
      <4>3. CASE a = Len(f[n]) + 1
        <5>1. Len(f[n]) >= 1 /\ a - 1 = Len(f[n]) /\ Len(f[n]) \in 1 .. Len(f[n])
          BY <4>1, <4>3, <2>4
        <5>2. f[n + 1][a - 1] = f[n][Len(f[n])] /\ f[n + 1][a] = s[n + 1]
          BY <3>2, <4>3, <5>1
        <5>3. g[Len(f[n])] \in 1 .. n /\ f[n][Len(f[n])] = s[g[Len(f[n])]]
          BY <2>3, <5>1 DEF Picks
        <5>4. g[Len(f[n])] \in 1 .. Len(s)
          BY <5>3, <2>1, <1>2
        <5>5. /\ s[g[Len(f[n])]][c] <= s[Len(s)][c]
              /\ s[g[Len(f[n])]][c] \in Int /\ s[Len(s)][c] \in Int /\ s[n + 1][c] \in Int
          <6>1. Len(s) \in 1 .. Len(s)
            BY <2>4, <1>2
          <6> QED BY <5>4, <4>1, <2>4, <6>1
        <5>6. n > 0 /\ n + 1 > 1
          BY <5>3
        <5>7. Last(f[n]) = f[n][Len(f[n])]
          BY DEF Last
        <5>8. ~ (s[n + 1][c] < f[n][Len(f[n])][c])
          <6>1. SUFFICES ASSUME s[n + 1][c] < f[n][Len(f[n])][c] PROVE FALSE
            OBVIOUS
          <6>2. \A j \in (n + 2) .. Len(s) : ~ (s[j][c] >= f[n][Len(f[n])][c])
            <7>1. ~ \E j \in ((n + 1) + 1) .. Len(s) : s[j][c] >= f[n][Len(f[n])][c]
              BY <2>7, <5>6, <5>7, <6>1 DEF Skips
            <7> QED BY <7>1
          <6>3. n + 1 # Len(s)
            BY <6>1, <5>3, <5>5
          <6>4. Len(s) \in (n + 2) .. Len(s)
            BY <6>3, <2>4, <1>2
          <6> QED BY <6>2, <6>4, <5>3, <5>5
        <5> QED BY <5>2, <5>3, <5>5, <5>8
      <4> QED BY <4>1, <4>2, <4>3, <3>2, <2>4
    <3>7. Good(f[n + 1], h, n + 1)
      BY <3>3, <3>4, <3>5, <3>6
    <3> HIDE DEF Good
    <3>8. \E x : Good(f[n + 1], x, n + 1)
      BY <3>7
    <3> QED BY <3>2, <3>8
  <2> QED BY <2>6, <2>7
<1>5. Len(s) \in T
  <2>1. Nat \subseteq T
    <3> HIDE DEF T
    <3> QED BY <1>3, <1>4, UpToAll
  <2> HIDE DEF T
  <2> QED BY <2>1, <1>2
<1>6. f[Len(s)] \in Seq(S) /\ \E g : Good(f[Len(s)], g, Len(s))
  <2> HIDE DEF Good
  <2> QED BY <1>5, <1>2
<1>7. Filtered(s, c) \in Seq(S) /\ \E g : Good(Filtered(s, c), g, Len(s))
  <2> HIDE DEF Good
  <2> QED BY <1>1, <1>6, Zenon
<1>8. PICK g : Good(Filtered(s, c), g, Len(s))
  BY <1>7
<1>9. /\ Picks(Filtered(s, c), s, g, Len(s))
      /\ Len(s) > 0 => Len(Filtered(s, c)) >= 1 /\ g[1] = 1
      /\ Len(s) > 0 /\ Top => g[Len(Filtered(s, c))] = Len(s) /\ Rises(Filtered(s, c))
  BY <1>8
<1> QED BY <1>7, <1>9

\* The printer's counters now, as a reading would have them.
Current == [at |-> now, engine |-> engine, split |-> printed, manual |-> FALSE,
            cycles |-> cycles, pages |-> pages]
\* y is what a counter reads that turned by d since it read x, or since a reset.
TurnedBy(x, y, d) == y = x + d \/ y <= d
ByEngine(p) == p.billEngine \/ ~p.hasSplit
\* What b may be when it is read of printer p after a.
Comes(p, a, b) ==
  /\ a.cycles <= b.cycles /\ a.pages <= b.pages /\ b.pages - a.pages <= b.cycles - a.cycles
  /\ "dip" \notin p.faults /\ a.engine # None /\ b.engine # None /\ (a.manual => ByEngine(p)) =>
       TurnedBy(a.engine, b.engine, b.cycles - a.cycles)
  /\ a.split # None /\ b.split # None /\ (a.manual => ~ByEngine(p)) =>
       TurnedBy(a.split, b.split, b.pages - a.pages)
RowsCome ==
  /\ \A i \in 1 .. Len(metrics) : metrics[i].at <= now /\ Comes(printer, metrics[i], Current)
  /\ \A i, j \in 1 .. Len(metrics) : i < j => Comes(printer, metrics[i], metrics[j])
ManualComes ==
  manual # NoManual =>
    /\ May("baseline") /\ manual.at \in 0 .. now /\ Comes(printer, ManualRow, Current)
    /\ \A i \in 1 .. Len(metrics) : manual.at < metrics[i].at => Comes(printer, ManualRow, metrics[i])
SplitsRead ==
  \A i \in 1 .. Len(metrics) :
    /\ metrics[i].split # None => printer.hasSplit /\ HasCounter(metrics[i])
    /\ HasCounter(metrics[i]) /\ metrics[i].split = None => May("dip") \/ May("noSplit") \/ ~printer.hasSplit

\* A reading of all the counters of a printer that is never reset.
Full(p, m) ==
  /\ m.engine = Installed.engine + m.cycles
  /\ m.split = IF p.hasSplit THEN Installed.printed + m.pages ELSE None
SteadyRow(i) ==
  /\ metrics[i].at \notin FirstInstants
  /\ Full(printer, metrics[i]) \/ (metrics[i].engine = 1 /\ metrics[i].split = None)
  /\ \E j \in 1 .. i : Full(printer, metrics[j])
  /\ ~dipped => \E j \in i .. Len(metrics) : Full(printer, metrics[j])
  /\ \A t \in FirstInstants : metrics[i].at < t /\ t <= now =>
       \E j \in i .. Len(metrics) : Full(printer, metrics[j]) /\ metrics[j].at < t
SteadyInv ==
  Steady =>
    /\ engine = Installed.engine + cycles /\ printed = Installed.printed + pages
    /\ manual # NoManual =>
         manual.count = IF BilledByEngine THEN Installed.engine + manual.cycles
                        ELSE Installed.printed + manual.pages
    /\ \A i \in 1 .. Len(metrics) : HasCounter(metrics[i]) => SteadyRow(i)
PagesInv == PagesTypeOK /\ RowsCome /\ ManualComes /\ SplitsRead /\ SteadyInv

MetricRow == [at : 0 .. LastInstant, engine : (Nat \ {0}) \cup {None},
              split : Nat \cup {None}, manual : {FALSE}, cycles : Nat, pages : Nat]
Row == [at : Int, engine : Nat \cup {None}, split : Nat \cup {None}, manual : BOOLEAN,
        cycles : Nat, pages : Nat]

\* After a page or a turn of the engine.
LEMMA ComesPrinted ==
  ASSUME NEW p, NEW a \in Row, NEW b \in Row, NEW c \in Row, Comes(p, a, b),
         b.engine # None, b.split # None,
         c.engine = b.engine + 1, c.cycles = b.cycles + 1,
         \/ c.split = b.split + 1 /\ c.pages = b.pages + 1
         \/ c.split = b.split /\ c.pages = b.pages
  PROVE  Comes(p, a, c)
<1>1. /\ {a.engine, a.split, b.engine, b.split, c.engine, c.split} \subseteq Int
      /\ {a.cycles, a.pages, b.cycles, b.pages, c.cycles, c.pages} \subseteq Nat
  BY DEF Row, None
<1>2. a.cycles <= c.cycles /\ a.pages <= c.pages /\ c.pages - a.pages <= c.cycles - a.cycles
  BY <1>1 DEF Comes
<1>3. TurnedBy(a.engine, b.engine, b.cycles - a.cycles) => TurnedBy(a.engine, c.engine, c.cycles - a.cycles)
  BY <1>1 DEF TurnedBy
<1>4. TurnedBy(a.split, b.split, b.pages - a.pages) => TurnedBy(a.split, c.split, c.pages - a.pages)
  BY <1>1 DEF TurnedBy
<1> QED BY <1>2, <1>3, <1>4 DEF Comes

\* After a reset of the printed counter, or of the device.
LEMMA ComesReset ==
  ASSUME NEW p, NEW a \in Row, NEW b \in Row, NEW c \in Row, Comes(p, a, b),
         b.engine # None, c.engine \in {b.engine, 0}, c.split = 0,
         c.cycles = b.cycles, c.pages = b.pages
  PROVE  Comes(p, a, c)
<1>1. /\ {a.engine, a.split, b.engine, b.split, c.engine, c.split} \subseteq Int
      /\ {a.cycles, a.pages, b.cycles, b.pages, c.cycles, c.pages} \subseteq Nat
  BY DEF Row, None
<1>2. a.cycles <= c.cycles /\ a.pages <= c.pages /\ c.pages - a.pages <= c.cycles - a.cycles
  BY <1>1 DEF Comes
<1>3. TurnedBy(a.engine, b.engine, b.cycles - a.cycles) => TurnedBy(a.engine, c.engine, c.cycles - a.cycles)
  BY <1>1, <1>2 DEF TurnedBy
<1>4. TurnedBy(a.split, c.split, c.pages - a.pages)
  BY <1>1, <1>2 DEF TurnedBy
<1> QED BY <1>2, <1>3, <1>4 DEF Comes

\* A reading takes the counters as they are, or not at all.
LEMMA ComesRead ==
  ASSUME NEW p, NEW a \in Row, NEW b \in Row, NEW c \in Row, Comes(p, a, b),
         b.engine # None, b.split # None, c.cycles = b.cycles, c.pages = b.pages,
         "dip" \in p.faults \/ c.engine \in {b.engine, None},
         c.split \in {b.split, None}
  PROVE  Comes(p, a, c)
  BY DEF Comes

\* What a reading or a baseline entered now is followed by.
LEMMA ComesFrom ==
  ASSUME NEW p, NEW b \in Row, NEW c \in Row, c.cycles = b.cycles, c.pages = b.pages,
         "dip" \in p.faults \/ c.engine \in {b.engine, None} \/ (c.manual /\ ~ByEngine(p)),
         c.split \in {b.split, None} \/ (c.manual /\ ByEngine(p))
  PROVE  Comes(p, c, b)
<1>1. /\ {b.engine, b.split, c.engine, c.split} \subseteq Int
      /\ {b.cycles, b.pages} \subseteq Nat
  BY DEF Row, None
<1>2. c.engine = b.engine => TurnedBy(c.engine, b.engine, b.cycles - c.cycles)
  BY <1>1 DEF TurnedBy
<1>3. c.split = b.split => TurnedBy(c.split, b.split, b.pages - c.pages)
  BY <1>1 DEF TurnedBy
<1>4. c.cycles <= b.cycles /\ c.pages <= b.pages /\ b.pages - c.pages <= b.cycles - c.cycles
  BY <1>1
<1> QED BY <1>2, <1>3, <1>4 DEF Comes

\* What is known of a state.
LEMMA PagesTypes ==
  ASSUME PagesTypeOK
  PROVE  /\ Current \in Row /\ Current.engine # None /\ Current.split # None
         /\ metrics \in Seq(MetricRow) /\ Len(metrics) \in Nat
         /\ \A i \in 1 .. Len(metrics) : metrics[i] \in MetricRow /\ metrics[i] \in Row
         /\ ManualRow \in Row
         /\ printer \in Printer
         /\ now \in Nat /\ LastInstant \in Nat /\ {engine, printed, cycles, pages, resets} \subseteq Nat
<1>1. LastInstant \in Nat
  BY PagesAssumption, ElementOfSeq, LenProperties DEF LastInstant
<1>2. now \in Nat /\ {engine, printed, cycles, pages, resets} \subseteq Nat
  BY <1>1 DEF PagesTypeOK
<1>3. Current \in Row /\ Current.engine # None /\ Current.split # None
  BY <1>2 DEF Current, Row, None
<1>4. metrics \in Seq(MetricRow)
  BY DEF PagesTypeOK, MetricRow
<1>5. Len(metrics) \in Nat /\ \A i \in 1 .. Len(metrics) : metrics[i] \in MetricRow
  BY <1>4, LenProperties, ElementOfSeq
<1>6. MetricRow \subseteq Row
  <2>1. SUFFICES ASSUME NEW m \in MetricRow PROVE m \in Row
    OBVIOUS
  <2>2. /\ m.at \in Int /\ m.engine \in Nat \cup {None} /\ m.split \in Nat \cup {None}
        /\ m.cycles \in Nat /\ m.pages \in Nat
    BY <1>1 DEF MetricRow
  <2>3. m.manual \in BOOLEAN
    BY DEF MetricRow
  <2>4. m = [at |-> m.at, engine |-> m.engine, split |-> m.split, manual |-> m.manual,
             cycles |-> m.cycles, pages |-> m.pages]
    BY DEF MetricRow
  <2> QED BY <2>2, <2>3, <2>4, Zenon DEF Row
<1>7. ManualRow \in Row
  BY <1>1 DEF PagesTypeOK, ManualRow, Row, None
<1>8. printer \in Printer
  BY PagesAssumption DEF PagesTypeOK
<1> QED BY <1>1, <1>2, <1>3, <1>4, <1>5, <1>6, <1>7, <1>8

\* A printer that was just installed.
LEMMA PagesStart == Init => PagesInv
<1>1. SUFFICES ASSUME Init PROVE PagesInv
  OBVIOUS
<1>2. LastInstant \in Nat /\ Len(metrics) = 0 /\ metrics = <<>>
  BY <1>1, PagesAssumption, ElementOfSeq, LenProperties DEF Init, LastInstant
<1>3. PagesTypeOK
  <2>1. NoManual \in [at : 0 .. LastInstant \cup {None}, count : Nat, cycles : Nat, pages : Nat]
    BY DEF NoManual, None
  <2>2. engine \in Nat /\ printed \in Nat
    BY <1>1, PagesAssumption DEF Init
  <2>3. metrics \in Seq(MetricRow)
    BY <1>2, EmptySeq
  <2>5. cycles \in Nat /\ pages \in Nat /\ resets \in Nat
    BY <1>1 DEF Init
  <2>6. dipped \in BOOLEAN
    BY <1>1 DEF Init
  <2>7. now \in 0 .. LastInstant
    BY <1>1, <1>2 DEF Init
  <2>4. {engine, printed, cycles, pages, resets} \subseteq Nat
    BY <2>2, <2>5
  <2> QED BY <1>1, <1>2, <2>1, <2>3, <2>4, <2>6, <2>7 DEF Init, PagesTypeOK, MetricRow
<1>4. RowsCome /\ SplitsRead
  BY <1>2 DEF RowsCome, SplitsRead
<1>5. ManualComes
  BY <1>1 DEF ManualComes, Init
<1>6. SteadyInv
  <2>1. engine = Installed.engine + cycles /\ printed = Installed.printed + pages
    BY <1>1, PagesAssumption DEF Init
  <2> QED BY <1>1, <1>2, <2>1 DEF SteadyInv, Init
<1> QED BY <1>3, <1>4, <1>5, <1>6 DEF PagesInv

\* The steps that store no reading.
StayPut == UNCHANGED <<printer, metrics>>
\* What the steps that store no reading do to the counters.
LEMMA CurrentStep ==
  ASSUME PagesInv, PagesTypeOK', UNCHANGED <<printer, metrics>>,
         PrintPage \/ Reset \/ SetBaseline \/ Tick
  PROVE  /\ \A a \in Row : Comes(printer, a, Current) => Comes(printer, a, Current')
         /\ RowsCome' /\ SplitsRead'
<1>1. /\ Current \in Row /\ Current.engine # None /\ Current.split # None
      /\ \A i \in 1 .. Len(metrics) : metrics[i] \in Row
      /\ now \in Nat
  BY PagesTypes DEF PagesInv
<1> DEFINE c == Current'
<1>2. /\ c.engine = engine' /\ c.split = printed' /\ c.cycles = cycles' /\ c.pages = pages'
      /\ c.manual = FALSE /\ c.at = now'
  BY DEF Current
<1>3. c \in Row
  <2>1. engine' \in Nat /\ printed' \in Nat /\ cycles' \in Nat /\ pages' \in Nat /\ now' \in Int
    BY DEF PagesTypeOK
  <2> QED BY <2>1 DEF Current, Row
<1>4. /\ Current.engine = engine /\ Current.split = printed /\ Current.cycles = cycles
      /\ Current.pages = pages
  BY DEF Current
<1> HIDE DEF c
<1>5. ASSUME NEW a \in Row, Comes(printer, a, Current) PROVE Comes(printer, a, c)
  <2>1. CASE PrintPage
    <3>1. /\ c.engine = Current.engine + 1 /\ c.cycles = Current.cycles + 1
          /\ \/ c.split = Current.split + 1 /\ c.pages = Current.pages + 1
             \/ c.split = Current.split /\ c.pages = Current.pages
      BY <2>1, <1>2, <1>4 DEF PrintPage
    <3> QED BY <1>1, <1>3, <1>5, <3>1, ComesPrinted
  <2>2. CASE Reset
    <3>1. /\ c.engine \in {Current.engine, 0} /\ c.split = 0
          /\ c.cycles = Current.cycles /\ c.pages = Current.pages
      BY <2>2, <1>2, <1>4 DEF Reset
    <3> QED BY <1>1, <1>3, <1>5, <3>1, ComesReset
  <2>3. CASE SetBaseline \/ Tick
    <3>1. /\ c.engine = Current.engine /\ c.split = Current.split
          /\ c.cycles = Current.cycles /\ c.pages = Current.pages
      BY <2>3, <1>2, <1>4 DEF SetBaseline, Tick, counters
    <3> QED BY <1>1, <1>3, <1>5, <3>1, ComesRead
  <2> QED BY <2>1, <2>2, <2>3
<1>6. now <= now'
  BY <1>1 DEF PrintPage, Reset, SetBaseline, Tick
<1>7. RowsCome'
  <2>1. \A i \in 1 .. Len(metrics) : metrics[i].at <= now /\ Comes(printer, metrics[i], Current)
    BY DEF PagesInv, RowsCome
  <2>2. \A i \in 1 .. Len(metrics) : metrics[i].at <= now'
    BY <1>1, <1>6, <2>1, <1>2, <1>3 DEF Row
  <2>3. \A i \in 1 .. Len(metrics) : Comes(printer, metrics[i], c)
    BY <1>1, <1>5, <2>1
  <2>4. \A i, j \in 1 .. Len(metrics) : i < j => Comes(printer, metrics[i], metrics[j])
    BY DEF PagesInv, RowsCome
  <2>5. printer' = printer /\ metrics' = metrics
    OBVIOUS
  <2>6. \A i \in 1 .. Len(metrics') : metrics'[i].at <= now' /\ Comes(printer', metrics'[i], Current')
    BY <2>2, <2>3, <2>5, Zenon DEF c
  <2>7. \A i, j \in 1 .. Len(metrics') : i < j => Comes(printer', metrics'[i], metrics'[j])
    BY <2>4, <2>5, Zenon
  <2> QED BY <2>6, <2>7, Zenon DEF RowsCome
<1>8. SplitsRead'
  BY DEF PagesInv, SplitsRead, HasCounter, May
<1> QED BY <1>5, <1>7, <1>8 DEF c

\* One reading more.
LEMMA RowAppended ==
  ASSUME NEW R, NEW s \in Seq(R), NEW r \in R, NEW t, t = Append(s, r)
  PROVE  /\ Len(s) \in Nat /\ Len(t) = Len(s) + 1 /\ t \in Seq(R)
         /\ t[Len(t)] = r
         /\ \A i \in 1 .. Len(s) : t[i] = s[i] /\ i \in 1 .. Len(t)
         /\ \A i \in 1 .. Len(t) : i \in 1 .. Len(s) \/ (i = Len(t) /\ t[i] = r)
<1>1. /\ Len(s) \in Nat /\ Len(t) = Len(s) + 1 /\ t \in Seq(R) /\ t[Len(s) + 1] = r
      /\ \A i \in 1 .. Len(s) : t[i] = s[i]
  BY AppendProperties, LenProperties
<1> QED BY <1>1

\* What a poll may store.
Reading(r) ==
  /\ r \in MetricRow /\ r.at = now /\ r.cycles = cycles /\ r.pages = pages
  /\ May("dip") \/ r.engine \in {engine, None}
  /\ r.split \in {printed, None}
  /\ r.split # None => printer.hasSplit /\ HasCounter(r)
  /\ HasCounter(r) /\ r.split = None => May("dip") \/ May("noSplit") \/ ~printer.hasSplit

\* The step that stores a reading.
LEMMA ReadStep ==
  ASSUME PagesInv, UNCHANGED <<printer, counters, manual, resets, now>>, MayPoll,
         NEW r, Reading(r), metrics' = Append(metrics, r), dipped' \in BOOLEAN
  PROVE  PagesTypeOK' /\ RowsCome' /\ ManualComes' /\ SplitsRead'
<1>1. /\ Current \in Row /\ Current.engine # None /\ Current.split # None
      /\ \A i \in 1 .. Len(metrics) : metrics[i] \in Row
      /\ now \in Nat /\ metrics \in Seq(MetricRow) /\ ManualRow \in Row
  BY PagesTypes DEF PagesInv
<1>2. r \in MetricRow /\ r \in Row /\ r.at = now /\ r.manual = FALSE
  <2>1. r \in MetricRow /\ r.at = now
    BY DEF Reading
  <2>2. r.manual = FALSE
    BY <2>1 DEF MetricRow
  <2>3. r \in Row
    <3>1. r.at \in Int /\ r.engine \in Nat \cup {None} /\ r.split \in Nat \cup {None} /\ r.cycles \in Nat /\ r.pages \in Nat
      BY <1>1, <2>1 DEF MetricRow
    <3>2. r = [at |-> r.at, engine |-> r.engine, split |-> r.split, manual |-> r.manual,
               cycles |-> r.cycles, pages |-> r.pages]
      BY <2>1 DEF MetricRow
    <3> QED BY <2>2, <3>1, <3>2, Zenon DEF Row
  <2> QED BY <2>1, <2>2, <2>3
<1>3. /\ Len(metrics) \in Nat /\ Len(metrics') = Len(metrics) + 1 /\ metrics' \in Seq(MetricRow)
      /\ metrics'[Len(metrics')] = r
      /\ \A i \in 1 .. Len(metrics) : metrics'[i] = metrics[i] /\ i \in 1 .. Len(metrics')
      /\ \A i \in 1 .. Len(metrics') : i \in 1 .. Len(metrics) \/ (i = Len(metrics') /\ metrics'[i] = r)
  BY <1>1, <1>2, RowAppended
<1>4. /\ printer' = printer /\ manual' = manual /\ now' = now /\ Current' = Current
      /\ ManualRow' = ManualRow
  BY DEF counters, Current, ManualRow
<1>5. Comes(printer, r, Current) /\ \A a \in Row : Comes(printer, a, Current) => Comes(printer, a, r)
  <2>1. /\ Current.engine = engine /\ Current.split = printed /\ Current.cycles = cycles
        /\ Current.pages = pages
    BY DEF Current
  <2>2. /\ r.cycles = Current.cycles /\ r.pages = Current.pages
        /\ "dip" \in printer.faults \/ r.engine \in {Current.engine, None}
        /\ r.split \in {Current.split, None}
    BY <2>1 DEF Reading, May
  <2> QED BY <1>1, <1>2, <2>2, ComesRead, ComesFrom
<1>6. RowsCome'
  <2>1. ASSUME NEW i \in 1 .. Len(metrics') PROVE metrics'[i].at <= now /\ Comes(printer, metrics'[i], Current)
    <3>1. CASE i \in 1 .. Len(metrics)
      BY <3>1, <1>3 DEF PagesInv, RowsCome
    <3>2. CASE metrics'[i] = r
      BY <3>2, <1>1, <1>2, <1>5
    <3> QED BY <3>1, <3>2, <1>3
  <2>2. ASSUME NEW i \in 1 .. Len(metrics'), NEW j \in 1 .. Len(metrics'), i < j
        PROVE  Comes(printer, metrics'[i], metrics'[j])
    <3>1. i \in 1 .. Len(metrics) /\ metrics'[i] = metrics[i]
      BY <2>2, <1>3
    <3>2. CASE j \in 1 .. Len(metrics)
      BY <2>2, <3>1, <3>2, <1>3 DEF PagesInv, RowsCome
    <3>3. CASE metrics'[j] = r
      <4>1. Comes(printer, metrics[i], Current)
        BY <3>1 DEF PagesInv, RowsCome
      <4> QED BY <3>1, <3>3, <4>1, <1>1, <1>5
    <3> QED BY <3>2, <3>3, <1>3
  <2> QED BY <2>1, <2>2, <1>4, Zenon DEF RowsCome
<1>7. ManualComes'
  <2>1. SUFFICES ASSUME manual # NoManual
                 PROVE  /\ May("baseline") /\ manual.at \in 0 .. now /\ Comes(printer, ManualRow, Current)
                        /\ \A i \in 1 .. Len(metrics') : manual.at < metrics'[i].at => Comes(printer, ManualRow, metrics'[i])
    BY <1>4, Zenon DEF ManualComes, May
  <2>2. /\ May("baseline") /\ manual.at \in 0 .. now /\ Comes(printer, ManualRow, Current)
        /\ \A i \in 1 .. Len(metrics) : manual.at < metrics[i].at => Comes(printer, ManualRow, metrics[i])
    BY <2>1 DEF PagesInv, ManualComes
  <2>3. Comes(printer, ManualRow, r)
    BY <2>2, <1>1, <1>5
  <2> QED BY <2>2, <2>3, <1>3
<1>8. SplitsRead'
  <2>1. ASSUME NEW i \in 1 .. Len(metrics')
        PROVE  /\ metrics'[i].split # None => printer.hasSplit /\ HasCounter(metrics'[i])
               /\ HasCounter(metrics'[i]) /\ metrics'[i].split = None => May("dip") \/ May("noSplit") \/ ~printer.hasSplit
    <3>1. CASE i \in 1 .. Len(metrics)
      BY <3>1, <1>3 DEF PagesInv, SplitsRead
    <3>2. CASE metrics'[i] = r
      BY <3>2, Zenon DEF Reading
    <3> QED BY <3>1, <3>2, <1>3
  <2> QED BY <2>1, <1>4, Zenon DEF SplitsRead, May, HasCounter
<1>9. PagesTypeOK'
  <2>1. ASSUME NEW i \in 1 .. Len(metrics'), NEW j \in 1 .. Len(metrics'), i < j
        PROVE  metrics'[i].at < metrics'[j].at
    <3>1. i \in 1 .. Len(metrics) /\ metrics'[i] = metrics[i]
      BY <2>1, <1>3
    <3>2. CASE j \in 1 .. Len(metrics)
      BY <2>1, <3>1, <3>2, <1>3 DEF PagesInv, PagesTypeOK
    <3>3. CASE metrics'[j] = r
      BY <3>1, <3>3, <1>2 DEF MayPoll
    <3> QED BY <3>2, <3>3, <1>3
  <2>2. /\ printer' \in Printers /\ now' \in 0 .. LastInstant
        /\ manual' \in [at : 0 .. LastInstant \cup {None}, count : Nat, cycles : Nat, pages : Nat]
    BY <1>4 DEF PagesInv, PagesTypeOK
  <2>3. {engine', printed', cycles', pages', resets'} \subseteq Nat
    BY DEF PagesInv, PagesTypeOK, counters
  <2> QED BY <2>1, <2>2, <2>3, <1>3 DEF PagesTypeOK, MetricRow
<1> QED BY <1>6, <1>7, <1>8, <1>9

\* The other steps keep the types,
LEMMA TypesKept ==
  ASSUME PagesTypeOK, PrintPage \/ Reset \/ SetBaseline \/ Tick
  PROVE  PagesTypeOK'
<1>1. /\ LastInstant \in Nat /\ now \in 0 .. LastInstant
      /\ engine \in Nat /\ printed \in Nat /\ cycles \in Nat /\ pages \in Nat /\ resets \in Nat
      /\ printer \in Printers /\ dipped \in BOOLEAN
      /\ manual \in [at : 0 .. LastInstant \cup {None}, count : Nat, cycles : Nat, pages : Nat]
  BY PagesTypes DEF PagesTypeOK
<1>2. metrics' = metrics /\ printer' = printer /\ dipped' = dipped
  BY DEF PrintPage, Reset, SetBaseline, Tick
<1>3. engine' \in Nat /\ printed' \in Nat /\ cycles' \in Nat /\ pages' \in Nat /\ resets' \in Nat
  BY <1>1 DEF PrintPage, Reset, SetBaseline, Tick, counters
<1>4. now' \in 0 .. LastInstant
  BY <1>1 DEF PrintPage, Reset, SetBaseline, Tick
<1>5. manual' \in [at : 0 .. LastInstant \cup {None}, count : Nat, cycles : Nat, pages : Nat]
  <2>1. CASE SetBaseline
    <3>1. (IF BilledByEngine THEN engine ELSE printed) \in Nat
      BY <1>1
    <3>2. now \in 0 .. LastInstant \cup {None}
      BY <1>1
    <3> QED BY <1>1, <2>1, <3>1, <3>2 DEF SetBaseline
  <2>2. CASE PrintPage \/ Reset \/ Tick
    <3>1. manual' = manual
      BY <2>2 DEF PrintPage, Reset, Tick
    <3> QED BY <1>1, <3>1
  <2> QED BY <2>1, <2>2
<1>6. /\ metrics' \in Seq(MetricRow)
      /\ \A i, j \in 1 .. Len(metrics') : i < j => metrics'[i].at < metrics'[j].at
  BY <1>2 DEF PagesTypeOK, MetricRow
<1> QED BY <1>1, <1>2, <1>3, <1>4, <1>5, <1>6 DEF PagesTypeOK, MetricRow

\* the baseline before what is read after it,
LEMMA ManualKept ==
  ASSUME PagesInv, PagesTypeOK', UNCHANGED <<printer, metrics>>,
         PrintPage \/ Reset \/ SetBaseline \/ Tick
  PROVE  ManualComes'
<1>1. /\ Current \in Row /\ Current.engine # None /\ Current.split # None
      /\ \A i \in 1 .. Len(metrics) : metrics[i] \in Row /\ metrics[i] \in MetricRow
      /\ now \in Nat /\ ManualRow \in Row
  BY PagesTypes DEF PagesInv
<1>2. CASE PrintPage \/ Reset \/ Tick
  <2>1. manual' = manual /\ ManualRow' = ManualRow /\ (now' = now \/ now' = now + 1)
    BY <1>2 DEF PrintPage, Reset, Tick, ManualRow
  <2>2. SUFFICES ASSUME manual # NoManual
                 PROVE  /\ May("baseline") /\ manual.at \in 0 .. now' /\ Comes(printer, ManualRow, Current')
                        /\ \A i \in 1 .. Len(metrics) : manual.at < metrics[i].at => Comes(printer, ManualRow, metrics[i])
    BY <2>1, Zenon DEF ManualComes, May
  <2>3. /\ May("baseline") /\ manual.at \in 0 .. now /\ Comes(printer, ManualRow, Current)
        /\ \A i \in 1 .. Len(metrics) : manual.at < metrics[i].at => Comes(printer, ManualRow, metrics[i])
    BY <2>2 DEF PagesInv, ManualComes
  <2>4. Comes(printer, ManualRow, Current')
    BY <1>1, <1>2, <2>3, CurrentStep
  <2>5. manual.at \in 0 .. now'
    BY <1>1, <2>1, <2>3
  <2> QED BY <2>3, <2>4, <2>5
<1>3. CASE SetBaseline
  <2>1. /\ ManualRow'.at = now /\ ManualRow'.manual = TRUE
        /\ ManualRow'.engine = (IF BilledByEngine THEN engine ELSE printed)
        /\ ManualRow'.split = (IF BilledByEngine THEN engine ELSE printed)
        /\ ManualRow'.cycles = cycles /\ ManualRow'.pages = pages
    BY <1>3 DEF SetBaseline, ManualRow
  <2>2. Current' = Current /\ now' = now
    BY <1>3 DEF SetBaseline, Current, counters
  <2> DEFINE m == ManualRow'
  <2>3. m \in Row
    <3>1. manual' \in [at : 0 .. LastInstant \cup {None}, count : Nat, cycles : Nat, pages : Nat]
      BY DEF PagesTypeOK
    <3>2. LastInstant \in Nat
      BY PagesTypes DEF PagesInv
    <3> QED BY <3>1, <3>2 DEF ManualRow, Row, None
  <2> HIDE DEF m
  <2>4. /\ Current.engine = engine /\ Current.split = printed /\ Current.cycles = cycles
        /\ Current.pages = pages
    BY DEF Current
  <2>5. BilledByEngine <=> ByEngine(printer)
    BY DEF BilledByEngine, ByEngine
  <2>6. Comes(printer, m, Current)
    <3>1. m.cycles = Current.cycles /\ m.pages = Current.pages
      BY <2>1, <2>4 DEF m
    <3>2. m.engine = Current.engine \/ (m.manual /\ ~ByEngine(printer))
      BY <2>1, <2>4, <2>5 DEF m
    <3>3. m.split = Current.split \/ (m.manual /\ ByEngine(printer))
      BY <2>1, <2>4, <2>5 DEF m
    <3> QED BY <3>1, <3>2, <3>3, <1>1, <2>3, ComesFrom
  <2>7. manual'.at = now /\ May("baseline")
    BY <1>3 DEF SetBaseline
  <2>8. \A i \in 1 .. Len(metrics) : ~ (manual'.at < metrics[i].at)
    <3>1. \A i \in 1 .. Len(metrics) : metrics[i].at <= now /\ metrics[i].at \in Int
      BY <1>1 DEF PagesInv, RowsCome, Row
    <3> QED BY <3>1, <2>7, <1>1
  <2>9. manual'.at \in 0 .. now'
    BY <2>7, <2>2, <1>1
  <2>10. May("baseline")' /\ Comes(printer', ManualRow', Current')
    BY <2>2, <2>6, <2>7 DEF m, May
  <2>11. metrics' = metrics
    OBVIOUS
  <2> QED BY <2>8, <2>9, <2>10, <2>11 DEF ManualComes
<1> QED BY <1>2, <1>3

\* and what is known of a printer that is never reset;
LEMMA SteadyKept ==
  ASSUME PagesInv, UNCHANGED <<printer, metrics, dipped>>,
         PrintPage \/ Reset \/ SetBaseline \/ Tick
  PROVE  SteadyInv'
<1>1. SUFFICES ASSUME Steady
               PROVE  /\ engine' = Installed.engine + cycles' /\ printed' = Installed.printed + pages'
                      /\ manual' # NoManual =>
                           manual'.count = IF BilledByEngine THEN Installed.engine + manual'.cycles
                                           ELSE Installed.printed + manual'.pages
                      /\ \A i \in 1 .. Len(metrics) : HasCounter(metrics[i]) => SteadyRow(i)'
  <2>1. Steady' <=> Steady
    BY DEF Steady
  <2>2. BilledByEngine' <=> BilledByEngine
    BY DEF BilledByEngine
  <2>3. \A i \in 1 .. Len(metrics) : HasCounter(metrics[i])' <=> HasCounter(metrics[i])
    BY DEF HasCounter
  <2> QED BY <2>1, <2>2, <2>3 DEF SteadyInv
<1>2. /\ Installed.engine \in Nat /\ Installed.printed \in Nat
      /\ engine \in Nat /\ printed \in Nat /\ cycles \in Nat /\ pages \in Nat /\ now \in Nat
      /\ Len(metrics) \in Nat /\ \A i \in 1 .. Len(metrics) : metrics[i].at \in Int
  <2>1. \A i \in 1 .. Len(metrics) : metrics[i] \in Row
    BY PagesTypes DEF PagesInv
  <2>2. \A i \in 1 .. Len(metrics) : metrics[i].at \in Int
    BY <2>1 DEF Row
  <2> QED BY <2>2, PagesTypes, PagesAssumption DEF PagesInv
<1>3. /\ engine = Installed.engine + cycles /\ printed = Installed.printed + pages
      /\ manual # NoManual =>
           manual.count = IF BilledByEngine THEN Installed.engine + manual.cycles
                          ELSE Installed.printed + manual.pages
      /\ \A i \in 1 .. Len(metrics) : HasCounter(metrics[i]) => SteadyRow(i)
  BY <1>1 DEF PagesInv, SteadyInv
<1>4. ~Reset
  BY <1>1 DEF Reset, Steady, May
<1>5. engine' = Installed.engine + cycles' /\ printed' = Installed.printed + pages'
  BY <1>2, <1>3, <1>4 DEF PrintPage, SetBaseline, Tick, counters
<1>6. manual' # NoManual =>
           manual'.count = IF BilledByEngine THEN Installed.engine + manual'.cycles
                           ELSE Installed.printed + manual'.pages
  <2>1. CASE SetBaseline
    <3>1. /\ manual'.count = (IF BilledByEngine THEN engine ELSE printed)
          /\ manual'.cycles = cycles /\ manual'.pages = pages
      BY <2>1 DEF SetBaseline
    <3> QED BY <3>1, <1>3
  <2>2. CASE PrintPage \/ Tick
    <3>1. manual' = manual
      BY <2>2 DEF PrintPage, Tick
    <3> QED BY <3>1, <1>3
  <2> QED BY <1>4, <2>1, <2>2
<1>7. now' = now \/ (now' = now + 1 /\ (dipped => now + 1 \notin FirstInstants))
  BY DEF PrintPage, Reset, SetBaseline, Tick
<1>8. ASSUME NEW i \in 1 .. Len(metrics), HasCounter(metrics[i]) PROVE SteadyRow(i)'
  <2>1. SteadyRow(i)
    BY <1>3, <1>8
  <2>2. ASSUME NEW t \in FirstInstants, metrics[i].at < t, t <= now'
        PROVE  \E j \in i .. Len(metrics) : Full(printer, metrics[j]) /\ metrics[j].at < t
    <3>0. t \in Nat
      BY PagesAssumption, ElementOfSeq, LenProperties DEF FirstInstants
    <3>1. CASE t <= now
      BY <2>1, <2>2, <3>1 DEF SteadyRow
    <3>2. CASE t = now + 1
      <4>1. ~dipped
        BY <1>7, <3>2, <2>2, <1>2
      <4>2. PICK j \in i .. Len(metrics) : Full(printer, metrics[j])
        BY <2>1, <4>1 DEF SteadyRow
      <4>3. metrics[j].at <= now /\ metrics[j].at \in Int
        BY <1>2 DEF PagesInv, RowsCome
      <4> QED BY <4>2, <4>3, <3>2, <1>2
    <3> QED BY <3>0, <3>1, <3>2, <1>2, <1>7, <2>2
  <2> QED BY <2>1, <2>2 DEF SteadyRow
<1> QED BY <1>5, <1>6, <1>8

\* so does a reading.
LEMMA SteadyRead ==
  ASSUME PagesInv, UNCHANGED <<printer, counters, manual, resets, now>>, MayPoll,
         NEW r \in MetricRow, r.at = now, metrics' = Append(metrics, r),
         \/ Full(printer, r) /\ dipped' = FALSE
         \/ r.engine = None /\ dipped' = dipped
         \/ r.engine = 1 /\ r.split = None /\ dipped' = TRUE /\ Upto(now) # {}
         \/ ~Steady
  PROVE  SteadyInv'
<1>1. /\ Steady' <=> Steady
      /\ BilledByEngine' <=> BilledByEngine
      /\ printer' = printer /\ now' = now /\ manual' = manual
      /\ engine' = engine /\ printed' = printed /\ cycles' = cycles /\ pages' = pages
  BY DEF Steady, BilledByEngine, counters
<1>2. SUFFICES ASSUME Steady, NEW i \in 1 .. Len(metrics'), HasCounter(metrics'[i])
               PROVE  SteadyRow(i)'
  <2>1. (\A i \in 1 .. Len(metrics') : HasCounter(metrics'[i]) => SteadyRow(i)') =>
        (\A i \in 1 .. Len(metrics) : HasCounter(metrics[i]) => SteadyRow(i))'
    BY DEF HasCounter
  <2> QED BY <1>1, <2>1 DEF PagesInv, SteadyInv
<1>3. /\ metrics \in Seq(MetricRow) /\ now \in Nat
      /\ \A k \in 1 .. Len(metrics) : metrics[k].at \in Int
  <2>1. \A k \in 1 .. Len(metrics) : metrics[k] \in Row
    BY PagesTypes DEF PagesInv
  <2>2. \A k \in 1 .. Len(metrics) : metrics[k].at \in Int
    BY <2>1 DEF Row
  <2> QED BY <2>2, PagesTypes DEF PagesInv
<1>4. /\ Len(metrics) \in Nat /\ Len(metrics') = Len(metrics) + 1
      /\ metrics'[Len(metrics')] = r
      /\ \A k \in 1 .. Len(metrics) : metrics'[k] = metrics[k] /\ k \in 1 .. Len(metrics')
      /\ \A k \in 1 .. Len(metrics') : k \in 1 .. Len(metrics) \/ (k = Len(metrics') /\ metrics'[k] = r)
  BY <1>3, RowAppended
<1>5. \A k \in 1 .. Len(metrics) : HasCounter(metrics[k]) => SteadyRow(k)
  BY <1>2 DEF PagesInv, SteadyInv
<1>6. now \notin FirstInstants
  BY <1>2 DEF MayPoll, May, Steady
<1>7. CASE i \in 1 .. Len(metrics)
  <2>1. metrics'[i] = metrics[i] /\ HasCounter(metrics[i]) /\ SteadyRow(i)
    BY <1>2, <1>4, <1>5, <1>7
  <2>2. \E j \in 1 .. i : Full(printer, metrics'[j])
    <3>1. PICK j \in 1 .. i : Full(printer, metrics[j])
      BY <2>1 DEF SteadyRow
    <3>2. metrics'[j] = metrics[j]
      BY <1>4, <1>7
    <3> QED BY <3>1, <3>2
  <2>3. ~dipped' => \E j \in i .. Len(metrics') : Full(printer, metrics'[j])
    <3>1. SUFFICES ASSUME ~dipped' PROVE \E j \in i .. Len(metrics') : Full(printer, metrics'[j])
      OBVIOUS
    <3>2. CASE Full(printer, r)
      <4>1. Len(metrics') \in i .. Len(metrics')
        BY <1>4, <1>7
      <4> QED BY <4>1, <3>2, <1>4
    <3>3. CASE ~dipped
      <4>1. PICK j \in i .. Len(metrics) : Full(printer, metrics[j])
        BY <2>1, <3>3 DEF SteadyRow
      <4>2. metrics'[j] = metrics[j] /\ j \in i .. Len(metrics')
        BY <1>4, <1>7
      <4> QED BY <4>1, <4>2
    <3> QED BY <3>1, <3>2, <3>3, <1>2
  <2>4. ASSUME NEW t \in FirstInstants, metrics[i].at < t, t <= now
        PROVE  \E j \in i .. Len(metrics') : Full(printer, metrics'[j]) /\ metrics'[j].at < t
    <3>1. PICK j \in i .. Len(metrics) : Full(printer, metrics[j]) /\ metrics[j].at < t
      BY <2>1, <2>4 DEF SteadyRow
    <3>2. metrics'[j] = metrics[j] /\ j \in i .. Len(metrics')
      BY <1>4, <1>7
    <3> QED BY <3>1, <3>2
  <2>5. /\ metrics'[i].at \notin FirstInstants
        /\ Full(printer, metrics'[i]) \/ (metrics'[i].engine = 1 /\ metrics'[i].split = None)
    BY <2>1 DEF SteadyRow
  <2> QED BY <2>1, <2>2, <2>3, <2>4, <2>5, <1>1 DEF SteadyRow
<1>8. CASE i = Len(metrics') /\ metrics'[i] = r
  <2>0. r.engine # None
    BY <1>2, <1>8 DEF HasCounter
  <2>1. Full(printer, r) \/ (r.engine = 1 /\ r.split = None)
    BY <2>0, <1>2
  <2>2. \E j \in 1 .. i : Full(printer, metrics'[j])
    <3>1. CASE Full(printer, r)
      <4>1. i \in 1 .. i
        BY <1>4, <1>8
      <4> QED BY <3>1, <4>1, <1>8
    <3>2. CASE ~Full(printer, r)
      <4>1. PICK k \in 1 .. Len(metrics) : HasCounter(metrics[k])
        BY <2>0, <3>2, <1>2 DEF Upto
      <4>2. PICK j \in 1 .. k : Full(printer, metrics[j])
        BY <4>1, <1>5 DEF SteadyRow
      <4>3. j \in 1 .. i /\ metrics'[j] = metrics[j]
        BY <4>1, <4>2, <1>4, <1>8
      <4> QED BY <4>2, <4>3
    <3> QED BY <3>1, <3>2
  <2>3. ~dipped' => \E j \in i .. Len(metrics') : Full(printer, metrics'[j])
    <3>1. ~dipped' => Full(printer, r)
      BY <2>0, <1>2
    <3>2. i \in i .. Len(metrics')
      BY <1>4, <1>8
    <3> QED BY <3>1, <3>2, <1>8
  <2>4. ASSUME NEW t \in FirstInstants, metrics'[i].at < t, t <= now PROVE FALSE
    <3>1. t \in Nat
      BY PagesAssumption, ElementOfSeq, LenProperties DEF FirstInstants
    <3> QED BY <2>4, <3>1, <1>3, <1>8
  <2> QED BY <2>1, <2>2, <2>3, <2>4, <1>1, <1>6, <1>8 DEF SteadyRow
<1> QED BY <1>2, <1>4, <1>7, <1>8

\* Every step keeps all of it.
LEMMA PagesStep == PagesInv /\ [Next]_vars => PagesInv'
<1>1. SUFFICES ASSUME PagesInv, [Next]_vars PROVE PagesInv'
  OBVIOUS
<1>2. CASE PrintPage \/ Reset \/ SetBaseline \/ Tick
  <2>1. UNCHANGED <<printer, metrics, dipped>>
    BY <1>2 DEF PrintPage, Reset, SetBaseline, Tick
  <2>2. PagesTypeOK'
    BY <1>1, <1>2, TypesKept DEF PagesInv
  <2> QED BY <1>1, <1>2, <2>1, <2>2, CurrentStep, ManualKept, SteadyKept DEF PagesInv
<1>t. /\ now \in 0 .. LastInstant /\ engine \in Nat /\ printed \in Nat /\ cycles \in Nat /\ pages \in Nat
      /\ printer.hasSplit \in BOOLEAN /\ dipped \in BOOLEAN
      /\ Installed.engine \in Nat \ {0}
  <2>1. printer \in Printer
    BY <1>1, PagesTypes DEF PagesInv
  <2> QED BY <1>1, <2>1, PagesAssumption DEF PagesInv, PagesTypeOK, Printer
<1>3. CASE Poll
  <2>0. MayPoll /\ UNCHANGED <<printer, counters, manual, resets, now>>
    BY <1>3 DEF Poll
  <2>1. CASE metrics' = Append(metrics, Stored(engine, Split)) /\ dipped' = FALSE
    <3> DEFINE r == Stored(engine, Split)
    <3>1. /\ r.at = now /\ r.cycles = cycles /\ r.pages = pages /\ r.manual = FALSE
          /\ r.engine = (IF engine > 0 THEN engine ELSE None)
          /\ r.split = (IF engine > 0 THEN Split ELSE None)
      BY DEF Stored
    <3>2. r \in MetricRow
      BY <1>t DEF Stored, MetricRow, Split, None
    <3> HIDE DEF r
    <3>3. Reading(r)
      BY <1>t, <3>1, <3>2 DEF Reading, Split, HasCounter, None
    <3>4. Full(printer, r) \/ ~Steady
      <4>1. Steady => engine = Installed.engine + cycles /\ printed = Installed.printed + pages
        BY <1>1 DEF PagesInv, SteadyInv
      <4>2. Steady => engine > 0
        BY <4>1, <1>t
      <4> QED BY <4>1, <4>2, <3>1 DEF Full, Split
    <3>5. metrics' = Append(metrics, r)
      BY <2>1 DEF r
    <3>6. SteadyInv'
      BY <1>1, <2>0, <2>1, <3>1, <3>2, <3>4, <3>5, SteadyRead
    <3>7. PagesTypeOK' /\ RowsCome' /\ ManualComes' /\ SplitsRead'
      BY <1>1, <2>0, <2>1, <3>3, <3>5, ReadStep
    <3> QED BY <3>6, <3>7 DEF PagesInv
  <2>2. CASE May("noCounter") /\ metrics' = Append(metrics, Stored(0, None)) /\ dipped' = dipped
    <3> DEFINE r == Stored(0, None)
    <3>1. /\ r.at = now /\ r.cycles = cycles /\ r.pages = pages /\ r.manual = FALSE
          /\ r.engine = None /\ r.split = None
      BY DEF Stored
    <3>2. r \in MetricRow
      BY <1>t DEF Stored, MetricRow, None
    <3> HIDE DEF r
    <3>3. Reading(r)
      BY <1>t, <3>1, <3>2 DEF Reading, HasCounter
    <3>5. metrics' = Append(metrics, r)
      BY <2>2 DEF r
    <3>6. SteadyInv'
      BY <1>1, <2>0, <2>2, <3>1, <3>2, <3>5, SteadyRead
    <3>7. PagesTypeOK' /\ RowsCome' /\ ManualComes' /\ SplitsRead'
      BY <1>1, <1>t, <2>0, <2>2, <3>3, <3>5, ReadStep
    <3> QED BY <3>6, <3>7 DEF PagesInv
  <2>3. CASE May("noSplit") /\ printer.hasSplit /\ metrics' = Append(metrics, Stored(engine, None)) /\ dipped' = FALSE
    <3> DEFINE r == Stored(engine, None)
    <3>1. /\ r.at = now /\ r.cycles = cycles /\ r.pages = pages /\ r.manual = FALSE
          /\ r.engine = (IF engine > 0 THEN engine ELSE None) /\ r.split = None
      BY DEF Stored
    <3>2. r \in MetricRow
      BY <1>t DEF Stored, MetricRow, None
    <3> HIDE DEF r
    <3>3. Reading(r)
      BY <1>t, <2>3, <3>1, <3>2 DEF Reading, HasCounter
    <3>4. ~Steady
      BY <2>3 DEF Steady, May
    <3>5. metrics' = Append(metrics, r)
      BY <2>3 DEF r
    <3>6. SteadyInv'
      BY <1>1, <2>0, <3>1, <3>2, <3>4, <3>5, SteadyRead
    <3>7. PagesTypeOK' /\ RowsCome' /\ ManualComes' /\ SplitsRead'
      BY <1>1, <2>0, <2>3, <3>3, <3>5, ReadStep
    <3> QED BY <3>6, <3>7 DEF PagesInv
  <2> QED BY <1>3, <2>1, <2>2, <2>3 DEF Poll
<1>4. CASE PollDip
  <2>0. MayPoll /\ UNCHANGED <<printer, counters, manual, resets, now>> /\ May("dip") /\ Upto(now) # {}
        /\ dipped' = TRUE /\ metrics' = Append(metrics, Stored(1, None))
    BY <1>4 DEF PollDip
  <2> DEFINE r == Stored(1, None)
  <2>1. /\ r.at = now /\ r.cycles = cycles /\ r.pages = pages /\ r.manual = FALSE
        /\ r.engine = 1 /\ r.split = None
    BY DEF Stored
  <2>2. r \in MetricRow
    BY <1>t DEF Stored, MetricRow, None
  <2>3. metrics' = Append(metrics, r)
    BY <2>0 DEF r
  <2> HIDE DEF r
  <2>4. Reading(r)
    BY <1>t, <2>0, <2>1, <2>2 DEF Reading, HasCounter
  <2>5. SteadyInv'
    BY <1>1, <2>0, <2>1, <2>2, <2>3, SteadyRead
  <2>6. PagesTypeOK' /\ RowsCome' /\ ManualComes' /\ SplitsRead'
    BY <1>1, <2>0, <2>3, <2>4, ReadStep
  <2> QED BY <2>5, <2>6 DEF PagesInv
<1>5. CASE UNCHANGED vars
  <2>1. /\ printer' = printer /\ metrics' = metrics /\ engine' = engine /\ printed' = printed
        /\ cycles' = cycles /\ pages' = pages /\ manual' = manual /\ dipped' = dipped
        /\ resets' = resets /\ now' = now
    BY <1>5 DEF vars, counters
  <2>2. PagesTypeOK' /\ Current' = Current /\ ManualRow' = ManualRow
    BY <1>1, <2>1 DEF PagesInv, PagesTypeOK, Current, ManualRow
  <2>3. RowsCome' /\ ManualComes' /\ SplitsRead'
    BY <1>1, <2>1, <2>2 DEF PagesInv, RowsCome, ManualComes, SplitsRead, HasCounter, May
  <2>4. SteadyInv'
    <3>1. \A i \in 1 .. Len(metrics) : SteadyRow(i)' <=> SteadyRow(i)
      BY <2>1 DEF SteadyRow
    <3> QED BY <1>1, <2>1, <3>1 DEF PagesInv, SteadyInv, Steady, BilledByEngine, HasCounter
  <2> QED BY <2>2, <2>3, <2>4 DEF PagesInv
<1> QED BY <1>1, <1>2, <1>3, <1>4, <1>5 DEF Next

(* Type correctness of the readings, for every calendar of periods and every *)
(* fleet of printers: they come in the order of their instants, and none is  *)
(* the zero of a poll that could not read the counter (ingest.service.ts).   *)
THEOREM PagesTyped == Spec => []PagesTypeOK
<1>1. PagesInv => PagesTypeOK
  BY DEF PagesInv
<1> QED BY <1>1, PagesStart, PagesStep, PTL DEF Spec

\* A set of positions has a first and a last one.
LEMMA ExtremesOf ==
  ASSUME NEW n \in Nat, NEW S \in SUBSET (1 .. n), S # {}
  PROVE  /\ Max(S) \in S /\ \A k \in S : k <= Max(S)
         /\ Min(S) \in S /\ \A k \in S : Min(S) <= k
<1>1. \A k \in S : k \in Nat /\ k >= 1 /\ k <= n
  OBVIOUS
<1> DEFINE T == {i \in Nat : (\E k \in S : k <= i) => \E m \in S : m <= i /\ \A k \in S : m <= k}
           U == {i \in Nat : (\E k \in S : k >= n - i) => \E m \in S : m >= n - i /\ \A k \in S : k <= m}
<1>2. 0 \in T
  BY <1>1
<1>3. ASSUME NEW i \in Nat, i \in T PROVE i + 1 \in T
  <2>1. SUFFICES ASSUME NEW k \in S, k <= i + 1
                 PROVE  \E m \in S : m <= i + 1 /\ \A x \in S : m <= x
    OBVIOUS
  <2>2. CASE \E x \in S : x <= i
    <3>1. PICK m \in S : m <= i /\ \A x \in S : m <= x
      BY <1>3, <2>2
    <3> QED BY <3>1, <1>1
  <2>3. CASE ~ \E x \in S : x <= i
    <3>1. \A x \in S : k <= x
      BY <2>1, <2>3, <1>1
    <3> QED BY <2>1, <3>1
  <2> QED BY <2>2, <2>3
<1>4. 0 \in U
  <2>1. SUFFICES ASSUME NEW k \in S, k >= n - 0
                 PROVE  \E m \in S : m >= n - 0 /\ \A x \in S : x <= m
    OBVIOUS
  <2>2. \A x \in S : x <= k
    BY <1>1, <2>1
  <2> QED BY <2>1, <2>2
<1>5. ASSUME NEW i \in Nat, i \in U PROVE i + 1 \in U
  <2>1. SUFFICES ASSUME NEW k \in S, k >= n - (i + 1)
                 PROVE  \E m \in S : m >= n - (i + 1) /\ \A x \in S : x <= m
    OBVIOUS
  <2>2. CASE \E x \in S : x >= n - i
    <3>1. PICK m \in S : m >= n - i /\ \A x \in S : x <= m
      BY <1>5, <2>2
    <3>2. m >= n - (i + 1)
      BY <3>1, <1>1
    <3> QED BY <3>1, <3>2
  <2>3. CASE ~ \E x \in S : x >= n - i
    <3>1. \A x \in S : x <= k
      BY <2>1, <2>3, <1>1
    <3> QED BY <2>1, <3>1
  <2> QED BY <2>2, <2>3
<1>6. n \in T /\ n \in U
  <2> HIDE DEF T, U
  <2>1. Nat \subseteq T
    BY <1>2, <1>3, UpToAll
  <2>2. Nat \subseteq U
    BY <1>4, <1>5, UpToAll
  <2> QED BY <2>1, <2>2
<1>7. \E m \in S : \A k \in S : m <= k
  BY <1>1, <1>6
<1>8. \E m \in S : \A k \in S : k <= m
  <2>1. \E k \in S : k >= n - n
    <3>1. PICK k \in S : TRUE
      OBVIOUS
    <3>2. k >= n - n
      BY <1>1
    <3> QED BY <3>2
  <2>2. (\E k \in S : k >= n - n) => \E m \in S : m >= n - n /\ \A k \in S : k <= m
    BY <1>6
  <2> HIDE DEF U
  <2> QED BY <2>1, <2>2
<1>9. Min(S) \in S /\ \A k \in S : Min(S) <= k
  BY <1>7 DEF Min
<1>10. Max(S) \in S /\ \A k \in S : Max(S) >= k
  <2>1. \E m \in S : \A k \in S : m >= k
    BY <1>1, <1>8
  <2> QED BY <2>1 DEF Max
<1> QED BY <1>1, <1>9, <1>10

\* The rows up to an instant.
LEMMA UptoSound ==
  ASSUME PagesInv
  PROVE  /\ \A t : Upto(t) \subseteq 1 .. Len(metrics)
         /\ \A t, u \in Int : t <= u => Upto(t) \subseteq Upto(u)
         /\ \A t \in Int : \A i \in Upto(t) : \A j \in 1 .. i : HasCounter(metrics[j]) => j \in Upto(t)
         /\ \A t \in Int : \A i \in Upto(t) : \A j \in 1 .. Len(metrics) :
              metrics[j].at > t => i < j
<1>1. \A i \in 1 .. Len(metrics) : metrics[i].at \in Int
  <2>1. \A i \in 1 .. Len(metrics) : metrics[i] \in Row
    BY PagesTypes DEF PagesInv
  <2> QED BY <2>1 DEF Row
<1>2. \A i, j \in 1 .. Len(metrics) : i < j => metrics[i].at < metrics[j].at
  BY DEF PagesInv, PagesTypeOK
<1>3. Len(metrics) \in Nat
  BY PagesTypes DEF PagesInv
<1>4. \A t : Upto(t) \subseteq 1 .. Len(metrics)
  BY DEF Upto
<1>5. \A t, u \in Int : t <= u => Upto(t) \subseteq Upto(u)
  BY <1>1 DEF Upto
<1>6. ASSUME NEW t \in Int, NEW i \in Upto(t), NEW j \in 1 .. i, HasCounter(metrics[j]) PROVE j \in Upto(t)
  <2>1. i \in 1 .. Len(metrics) /\ j \in 1 .. Len(metrics) /\ metrics[i].at <= t
    BY <1>3 DEF Upto
  <2>2. metrics[j].at <= metrics[i].at
    <3>1. j = i \/ j < i
      BY <2>1
    <3> QED BY <3>1, <2>1, <1>1, <1>2
  <2> QED BY <2>1, <2>2, <1>1, <1>6 DEF Upto
<1>7. ASSUME NEW t \in Int, NEW i \in Upto(t), NEW j \in 1 .. Len(metrics), metrics[j].at > t PROVE i < j
  <2>1. i \in 1 .. Len(metrics) /\ metrics[i].at <= t
    BY DEF Upto
  <2>2. j = i \/ j < i \/ i < j
    BY <2>1
  <2> QED BY <2>1, <2>2, <1>1, <1>2, <1>7
<1> QED BY <1>4, <1>5, <1>6, <1>7

BaselineOf(t) == IF Upto(t) = {} THEN {} ELSE {Max(Upto(t))}
\* A period begins with the last real reading before it.
LEMMA BaselineSound ==
  ASSUME PagesInv, NEW t
  PROVE  /\ Baseline(t) = BaselineOf(t)
         /\ Upto(t) # {} => /\ Max(Upto(t)) \in Upto(t) /\ \A k \in Upto(t) : k <= Max(Upto(t))
                            /\ Min(Upto(t)) \in Upto(t) /\ \A k \in Upto(t) : Min(Upto(t)) <= k
<1>1. Len(metrics) \in Nat /\ Upto(t) \in SUBSET (1 .. Len(metrics))
  BY PagesTypes DEF PagesInv, Upto
<1>2. Upto(t) # {} => /\ Max(Upto(t)) \in Upto(t) /\ \A k \in Upto(t) : k <= Max(Upto(t))
                      /\ Min(Upto(t)) \in Upto(t) /\ \A k \in Upto(t) : Min(Upto(t)) <= k
  BY <1>1, ExtremesOf
<1>3. Baseline(t) = {i \in Upto(t) : \A j \in Upto(t) : j <= i}
  BY DEF Baseline
<1>4. CASE Upto(t) = {}
  BY <1>2, <1>3, <1>4 DEF BaselineOf
<1>5. CASE Upto(t) # {}
  <2>1. \A i \in Upto(t) : i \in Int
    BY <1>1
  <2>2. {i \in Upto(t) : \A j \in Upto(t) : j <= i} = {Max(Upto(t))}
    <3>1. ASSUME NEW i \in Upto(t), \A j \in Upto(t) : j <= i PROVE i = Max(Upto(t))
      <4>1. i <= Max(Upto(t)) /\ Max(Upto(t)) <= i
        BY <1>2, <1>5, <3>1
      <4> QED BY <4>1, <1>2, <1>5, <2>1
    <3> QED BY <3>1, <1>2, <1>5
  <2> QED BY <1>2, <1>3, <1>5, <2>2 DEF BaselineOf
<1> QED BY <1>4, <1>5

InPeriod(start, end) == Baseline(start) \cup {i \in Upto(end) : start < metrics[i].at}
FirstOf(start, end) == IF Upto(start) = {} THEN Min(Upto(end)) ELSE Max(Upto(start))
\* The readings of a period lie between its first and its last.
LEMMA InPeriodSound ==
  ASSUME PagesInv, NEW start \in Int, NEW end \in Int, start <= end
  PROVE  /\ Upto(start) \subseteq Upto(end)
         /\ InPeriod(start, end) \subseteq Upto(end)
         /\ Upto(end) # {} =>
              /\ FirstOf(start, end) \in InPeriod(start, end)
              /\ \A k \in InPeriod(start, end) : FirstOf(start, end) <= k
              /\ Max(Upto(end)) \in InPeriod(start, end)
              /\ \A k \in InPeriod(start, end) : k <= Max(Upto(end))
<1>1. /\ Upto(start) \subseteq Upto(end) /\ Upto(end) \subseteq 1 .. Len(metrics)
      /\ Len(metrics) \in Nat
      /\ \A i \in Upto(start) : \A j \in 1 .. Len(metrics) : metrics[j].at > start => i < j
  BY UptoSound, PagesTypes DEF PagesInv
<1>2. \A i \in 1 .. Len(metrics) : metrics[i].at \in Int
  <2>1. \A i \in 1 .. Len(metrics) : metrics[i] \in Row
    BY PagesTypes DEF PagesInv
  <2> QED BY <2>1 DEF Row
<1>3. /\ Baseline(start) = BaselineOf(start)
      /\ Upto(start) # {} => /\ Max(Upto(start)) \in Upto(start) /\ \A k \in Upto(start) : k <= Max(Upto(start))
                             /\ Min(Upto(start)) \in Upto(start) /\ \A k \in Upto(start) : Min(Upto(start)) <= k
      /\ Upto(end) # {} => /\ Max(Upto(end)) \in Upto(end) /\ \A k \in Upto(end) : k <= Max(Upto(end))
                           /\ Min(Upto(end)) \in Upto(end) /\ \A k \in Upto(end) : Min(Upto(end)) <= k
  BY BaselineSound
<1>4. InPeriod(start, end) \subseteq Upto(end)
  BY <1>1, <1>3 DEF InPeriod, BaselineOf
<1>5. \A i \in Upto(end) : i \in Upto(start) \/ start < metrics[i].at
  BY <1>1, <1>2 DEF Upto
<1>6. ASSUME Upto(end) # {}
      PROVE  /\ Max(Upto(end)) \in InPeriod(start, end)
             /\ \A k \in InPeriod(start, end) : k <= Max(Upto(end))
  <2>1. \A k \in InPeriod(start, end) : k <= Max(Upto(end))
    BY <1>3, <1>4, <1>6
  <2>2. CASE start < metrics[Max(Upto(end))].at
    BY <1>3, <1>6, <2>1, <2>2 DEF InPeriod
  <2>3. CASE Max(Upto(end)) \in Upto(start)
    <3>1. Max(Upto(start)) <= Max(Upto(end)) /\ Max(Upto(end)) <= Max(Upto(start))
      BY <1>1, <1>3, <1>6, <2>3
    <3>2. Max(Upto(start)) = Max(Upto(end))
      BY <3>1, <1>1, <1>3, <1>6, <2>3
    <3> QED BY <3>2, <2>1, <2>3, <1>3 DEF InPeriod, BaselineOf
  <2> QED BY <2>2, <2>3, <1>3, <1>5, <1>6
<1>7. ASSUME Upto(end) # {}
      PROVE  /\ FirstOf(start, end) \in InPeriod(start, end)
             /\ \A k \in InPeriod(start, end) : FirstOf(start, end) <= k
  <2>1. CASE Upto(start) = {}
    <3>1. InPeriod(start, end) = Upto(end)
      BY <2>1, <1>3, <1>5 DEF InPeriod, BaselineOf
    <3> QED BY <3>1, <2>1, <1>3, <1>7 DEF FirstOf
  <2>2. CASE Upto(start) # {}
    <3>1. FirstOf(start, end) = Max(Upto(start)) /\ Baseline(start) = {Max(Upto(start))}
      BY <2>2, <1>3 DEF FirstOf, BaselineOf
    <3>2. ASSUME NEW k \in InPeriod(start, end) PROVE Max(Upto(start)) <= k
      <4>1. CASE k = Max(Upto(start))
        BY <4>1, <1>1, <1>3, <2>2
      <4>2. CASE k \in Upto(end) /\ start < metrics[k].at
        <5>1. k \in 1 .. Len(metrics) /\ metrics[k].at > start
          BY <4>2, <1>1, <1>2
        <5>2. Max(Upto(start)) < k
          BY <5>1, <1>1, <1>3, <2>2
        <5> QED BY <5>1, <5>2, <1>1, <1>3, <2>2
      <4> QED BY <3>1, <3>2, <4>1, <4>2 DEF InPeriod
    <3> QED BY <3>1, <3>2 DEF InPeriod
  <2> QED BY <2>1, <2>2
<1> QED BY <1>1, <1>4, <1>6, <1>7

At(t) == IF Upto(t) = {} THEN Anchor ELSE metrics[Max(Upto(t))]
\* The periods that are over are the first ones.
LEMMA ClosedSound ==
  ASSUME PagesInv, NEW p \in Periods, Closed(p)
  PROVE  /\ Max(ClosedPeriods) \in Periods /\ p <= Max(ClosedPeriods)
         /\ ClosedPeriods = 1 .. Max(ClosedPeriods)
         /\ Starts[p] \in Nat /\ Starts[p + 1] \in Nat
         /\ Starts[p] <= Starts[p + 1] - 1 /\ Starts[p + 1] - 1 < now
         /\ Starts[1] \in Nat /\ Starts[1] <= Starts[p]
         /\ Starts[p + 1] - 1 <= Starts[Max(ClosedPeriods) + 1] - 1
         /\ Starts[Max(ClosedPeriods) + 1] \in Nat
<1>1. /\ Len(Starts) \in Nat /\ \A i \in 1 .. Len(Starts) : Starts[i] \in Nat
      /\ \A i, j \in 1 .. Len(Starts) : i < j => Starts[i] < Starts[j]
      /\ Len(Starts) > 1
  BY PagesAssumption, LenProperties, ElementOfSeq
<1>2. now \in Nat
  BY PagesTypes DEF PagesInv
<1>3. ClosedPeriods \in SUBSET (1 .. Len(Starts) - 1) /\ p \in ClosedPeriods /\ Len(Starts) - 1 \in Nat
  BY <1>1 DEF ClosedPeriods, Periods
<1>4. Max(ClosedPeriods) \in ClosedPeriods /\ \A k \in ClosedPeriods : k <= Max(ClosedPeriods)
  BY <1>3, ExtremesOf
<1> DEFINE M == Max(ClosedPeriods)
<1>5. M \in 1 .. Len(Starts) - 1 /\ p <= M /\ Starts[M + 1] <= now
  BY <1>3, <1>4 DEF ClosedPeriods, Closed
<1> HIDE DEF M
<1>6. p \in 1 .. Len(Starts) - 1 /\ Starts[p + 1] <= now
  BY <1>3 DEF Closed
<1>7. p \in 1 .. Len(Starts) /\ p + 1 \in 1 .. Len(Starts) /\ M + 1 \in 1 .. Len(Starts) /\ 1 \in 1 .. Len(Starts)
  BY <1>1, <1>5, <1>6
<1>8. \A i, j \in 1 .. Len(Starts) : i <= j => Starts[i] <= Starts[j]
  <2>1. \A i, j \in 1 .. Len(Starts) : i <= j => i = j \/ i < j
    BY <1>1
  <2> QED BY <2>1, <1>1
<1>9. Starts[p + 1] <= Starts[M + 1] /\ Starts[1] <= Starts[p] /\ Starts[p] < Starts[p + 1]
  <2>1. p + 1 <= M + 1 /\ 1 <= p /\ p < p + 1
    BY <1>5, <1>6, <1>1
  <2> QED BY <2>1, <1>1, <1>7, <1>8
<1>10. ClosedPeriods = 1 .. M
  <2>1. ASSUME NEW k \in 1 .. M PROVE k \in ClosedPeriods
    <3>1. k \in 1 .. Len(Starts) - 1 /\ k + 1 \in 1 .. Len(Starts) /\ k + 1 <= M + 1
      BY <1>1, <1>5
    <3>2. Starts[k + 1] <= now
      BY <3>1, <1>1, <1>2, <1>5, <1>7, <1>8
    <3> QED BY <3>1, <3>2 DEF ClosedPeriods, Periods, Closed
  <2>2. ASSUME NEW k \in ClosedPeriods PROVE k \in 1 .. M
    BY <1>3, <1>4, <1>5, <2>2 DEF M
  <2> QED BY <2>1, <2>2
<1>11. Starts[p] \in Nat /\ Starts[p + 1] \in Nat /\ Starts[1] \in Nat /\ Starts[M + 1] \in Nat
  BY <1>1, <1>7
<1> QED BY <1>2, <1>5, <1>6, <1>9, <1>10, <1>11 DEF M, Periods

Helped(start, end, s) == ManualValid(start, end) /\ (s = <<>> \/ manual.at < s[1].at)
Used(start, end, J) == WithManual(Chosen(metrics, J), Helped(start, end, Chosen(metrics, J)))

\* The baseline put before the readings.
LEMMA ManualFirst ==
  ASSUME NEW s \in Seq(Row), NEW m \in Row
  PROVE  /\ <<m>> \o s \in Seq(Row) /\ Len(<<m>> \o s) = Len(s) + 1
         /\ (<<m>> \o s)[1] = m
         /\ \A b \in 1 .. Len(s) + 1 : b # 1 => b - 1 \in 1 .. Len(s) /\ (<<m>> \o s)[b] = s[b - 1]
<1>1. Len(s) \in Nat
  BY LenProperties
<1>2. <<m>> \in Seq(Row) /\ Len(<<m>>) = 1 /\ <<m>>[1] = m
  OBVIOUS
<1>3. /\ <<m>> \o s \in Seq(Row) /\ Len(<<m>> \o s) = Len(<<m>>) + Len(s)
      /\ \A i \in 1 .. Len(<<m>>) + Len(s) :
           (<<m>> \o s)[i] = IF i <= Len(<<m>>) THEN <<m>>[i] ELSE s[i - Len(<<m>>)]
  BY <1>2, ConcatProperties
<1> QED BY <1>1, <1>2, <1>3

\* The rows a bill is computed over.
LEMMA UsedSound ==
  ASSUME PagesInv, NEW start \in Int, NEW end \in Int, NEW J \in SUBSET Upto(end)
  PROVE  LET U == Used(start, end, J)
         IN /\ U \in Seq(Row) /\ Len(U) \in Nat
            /\ \A a, b \in 1 .. Len(U) : a < b => Comes(printer, U[a], U[b])
            /\ \A b \in 1 .. Len(U) : U[b].engine # None
            /\ \A b \in 1 .. Len(U) : \/ U[b] = ManualRow /\ b = 1 /\ manual # NoManual
                                      \/ \E j \in J : U[b] = metrics[j]
            /\ J = {} => Len(U) <= 1
            /\ J # {} => /\ Len(U) >= 1
                         /\ \E j \in J : (\A k \in J : k <= j) /\ U[Len(U)] = metrics[j]
                         /\ \E j \in J : /\ \A k \in J : j <= k
                                         /\ ManualValid(start, end) /\ manual.at < metrics[j].at => U[1] = ManualRow
                                         /\ ~(ManualValid(start, end) /\ manual.at < metrics[j].at) => U[1] = metrics[j]
            /\ J # {} /\ Len(U) = 1 => \E j : J = {j}
<1> DEFINE s == Chosen(metrics, J)
           U == Used(start, end, J)
           h == Helped(start, end, s)
<1>1. /\ metrics \in Seq(Row) /\ Len(metrics) \in Nat /\ J \in SUBSET (1 .. Len(metrics))
      /\ \A i \in 1 .. Len(metrics) : metrics[i] \in Row
      /\ ManualRow \in Row
  <2>1. /\ metrics \in Seq(MetricRow) /\ Len(metrics) \in Nat
        /\ \A i \in 1 .. Len(metrics) : metrics[i] \in Row
        /\ ManualRow \in Row
    BY PagesTypes DEF PagesInv
  <2>2. metrics \in Seq(Row)
    BY <2>1
  <2> QED BY <2>1, <2>2 DEF Upto
<1>2. s \in Seq(Row) /\ (J = {} => Len(s) = 0)
      /\ \E g : /\ Picks(s, metrics, g, Len(metrics))
                /\ \A a \in 1 .. Len(s) : g[a] \in J
                /\ J # {} => /\ Len(s) >= 1
                             /\ \A k \in J : g[1] <= k /\ k <= g[Len(s)]
  BY <1>1, ChosenSound
<1>3. PICK g : /\ Picks(s, metrics, g, Len(metrics))
               /\ \A a \in 1 .. Len(s) : g[a] \in J
               /\ J # {} => /\ Len(s) >= 1
                            /\ \A k \in J : g[1] <= k /\ k <= g[Len(s)]
  BY <1>2
<1>4. Len(s) \in Nat
  BY <1>2, LenProperties
<1>5. /\ h => U = <<ManualRow>> \o s
      /\ ~h => U = s
  BY DEF Used, WithManual
<1> HIDE DEF s, U, h
<1>6. /\ \A a \in 1 .. Len(s) : s[a] = metrics[g[a]] /\ g[a] \in J /\ g[a] \in 1 .. Len(metrics)
      /\ \A a, b \in 1 .. Len(s) : a < b => g[a] < g[b]
  BY <1>1, <1>3 DEF Picks
<1>7. \A a, b \in 1 .. Len(s) : a < b => Comes(printer, s[a], s[b])
  BY <1>6 DEF PagesInv, RowsCome
<1>8. h => /\ U \in Seq(Row) /\ Len(U) = Len(s) + 1 /\ U[1] = ManualRow
           /\ \A b \in 1 .. Len(U) : b # 1 => b - 1 \in 1 .. Len(s) /\ U[b] = s[b - 1]
  <2> DEFINE V == <<ManualRow>> \o s
  <2>1. /\ V \in Seq(Row) /\ Len(V) = Len(s) + 1 /\ V[1] = ManualRow
        /\ \A b \in 1 .. Len(s) + 1 : b # 1 => b - 1 \in 1 .. Len(s) /\ V[b] = s[b - 1]
    BY <1>1, <1>2, ManualFirst
  <2>2. h => U = V
    BY <1>5
  <2> HIDE DEF V
  <2>3. /\ V \in Seq(Row) /\ Len(V) = Len(s) + 1 /\ V[1] = ManualRow
        /\ \A b \in 1 .. Len(V) : b # 1 => b - 1 \in 1 .. Len(s) /\ V[b] = s[b - 1]
    BY <2>1
  <2> QED BY <2>2, <2>3, Zenon
<1>9. U \in Seq(Row) /\ Len(U) \in Nat
  BY <1>2, <1>5, <1>8, <1>4
<1>10. h => manual # NoManual /\ \A a \in 1 .. Len(s) : Comes(printer, ManualRow, s[a])
  <2>1. SUFFICES ASSUME h, NEW a \in 1 .. Len(s) PROVE manual # NoManual /\ Comes(printer, ManualRow, s[a])
    <3>1. h => manual # NoManual
      BY DEF h, Helped, ManualValid
    <3> QED BY <3>1
  <2>2. manual # NoManual /\ (s = <<>> \/ manual.at < s[1].at)
    BY <2>1 DEF h, Helped, ManualValid
  <2>3. Len(s) # 0 /\ 1 \in 1 .. Len(s)
    BY <1>4
  <2>4. manual.at < s[1].at
    BY <2>2, <2>3
  <2>5. s[1].at <= s[a].at
    <3>1. a = 1 \/ g[1] < g[a]
      BY <1>6, <2>3
    <3>2. s[1].at \in Int /\ s[a].at \in Int
      BY <1>1, <1>6, <2>3 DEF Row
    <3>3. g[1] < g[a] => metrics[g[1]].at < metrics[g[a]].at
      BY <1>6, <2>3 DEF PagesInv, PagesTypeOK
    <3> QED BY <3>1, <3>2, <3>3, <1>6, <2>3
  <2>6. manual.at \in Int /\ s[1].at \in Int /\ s[a].at \in Int
    <3>1. manual.at \in Int
      BY <2>2 DEF PagesInv, ManualComes
    <3>2. s[1] \in Row /\ s[a] \in Row
      BY <1>1, <1>6, <2>3
    <3> QED BY <3>1, <3>2 DEF Row
  <2>7. manual.at < metrics[g[a]].at /\ g[a] \in 1 .. Len(metrics) /\ s[a] = metrics[g[a]]
    BY <2>4, <2>5, <2>6, <1>6
  <2> QED BY <2>2, <2>7 DEF PagesInv, ManualComes
<1>11. \A a, b \in 1 .. Len(U) : a < b => Comes(printer, U[a], U[b])
  <2>1. CASE ~h
    BY <2>1, <1>5, <1>7
  <2>2. CASE h
    <3>1. SUFFICES ASSUME NEW a \in 1 .. Len(U), NEW b \in 1 .. Len(U), a < b
                   PROVE  Comes(printer, U[a], U[b])
      OBVIOUS
    <3>2. b # 1 /\ b - 1 \in 1 .. Len(s) /\ U[b] = s[b - 1]
      BY <3>1, <2>2, <1>8
    <3>3. CASE a = 1
      BY <3>2, <3>3, <2>2, <1>8, <1>10
    <3>4. CASE a # 1
      <4>1. a - 1 \in 1 .. Len(s) /\ U[a] = s[a - 1] /\ a - 1 < b - 1
        BY <3>1, <3>4, <2>2, <1>8
      <4> QED BY <3>2, <4>1, <1>7
    <3> QED BY <3>3, <3>4
  <2> QED BY <2>1, <2>2
<1>12. \A b \in 1 .. Len(U) : \/ U[b] = ManualRow /\ b = 1 /\ manual # NoManual
                              \/ \E j \in J : U[b] = metrics[j]
  <2>1. ASSUME NEW b \in 1 .. Len(U), ~(U[b] = ManualRow /\ b = 1 /\ manual # NoManual)
        PROVE  \E j \in J : U[b] = metrics[j]
    <3>1. CASE h
      <4>1. b # 1
        BY <2>1, <3>1, <1>8, <1>10
      <4> QED BY <4>1, <3>1, <1>6, <1>8
    <3>2. CASE ~h
      BY <3>2, <1>5, <1>6
    <3> QED BY <3>1, <3>2
  <2> QED BY <2>1
<1>13. \A b \in 1 .. Len(U) : U[b].engine # None
  <2>1. \A j \in J : metrics[j].engine # None
    BY DEF Upto, HasCounter
  <2>2. manual # NoManual => ManualRow.engine # None
    <3>1. manual.count \in Nat
      BY DEF PagesInv, PagesTypeOK
    <3> QED BY <3>1 DEF ManualRow, None
  <2> QED BY <2>1, <2>2, <1>12
<1>14. J = {} => Len(U) <= 1
  BY <1>2, <1>5, <1>8 DEF s
<1>15. ASSUME J # {}
       PROVE  /\ Len(U) >= 1
              /\ \E j \in J : (\A k \in J : k <= j) /\ U[Len(U)] = metrics[j]
              /\ \E j \in J : /\ \A k \in J : j <= k
                              /\ ManualValid(start, end) /\ manual.at < metrics[j].at => U[1] = ManualRow
                              /\ ~(ManualValid(start, end) /\ manual.at < metrics[j].at) => U[1] = metrics[j]
  <2>1. /\ Len(s) >= 1 /\ 1 \in 1 .. Len(s) /\ Len(s) \in 1 .. Len(s)
        /\ \A k \in J : g[1] <= k /\ k <= g[Len(s)]
    BY <1>3, <1>4, <1>15
  <2>2. Len(U) >= 1 /\ U[Len(U)] = s[Len(s)]
    <3>1. CASE h
      <4>1. Len(U) = Len(s) + 1 /\ Len(U) # 1 /\ Len(U) \in 1 .. Len(U) /\ Len(U) - 1 = Len(s)
        BY <3>1, <2>1, <1>4, <1>8
      <4> QED BY <4>1, <3>1, <1>8
    <3>2. CASE ~h
      BY <3>2, <2>1, <1>5
    <3> QED BY <3>1, <3>2
  <2>3. U[Len(U)] = metrics[g[Len(s)]] /\ g[Len(s)] \in J
    BY <2>1, <2>2, <1>6
  <2>4. s # <<>>
    BY <2>1
  <2>5. h <=> ManualValid(start, end) /\ manual.at < metrics[g[1]].at
    BY <2>1, <2>4, <1>6 DEF h, Helped
  <2>6. /\ ManualValid(start, end) /\ manual.at < metrics[g[1]].at => U[1] = ManualRow
        /\ ~(ManualValid(start, end) /\ manual.at < metrics[g[1]].at) => U[1] = metrics[g[1]]
    BY <2>1, <2>5, <1>5, <1>6, <1>8
  <2>7. g[1] \in J
    BY <2>1, <1>6
  <2> QED BY <2>1, <2>2, <2>3, <2>6, <2>7
<1>16. ASSUME J # {}, Len(U) = 1 PROVE \E j : J = {j}
  <2>1. Len(s) >= 1 /\ \A k \in J : g[1] <= k /\ k <= g[Len(s)]
    BY <1>3, <1>16
  <2>2. Len(s) = 1
    BY <2>1, <1>4, <1>5, <1>8, <1>16
  <2>3. g[1] \in J /\ \A k \in J : k \in Int
    BY <2>2, <1>6, <1>1
  <2>4. \A k \in J : k = g[1]
    BY <2>1, <2>2, <2>3
  <2>5. J = {g[1]}
    BY <2>3, <2>4
  <2> QED BY <2>5
<1> QED BY <1>9, <1>11, <1>12, <1>13, <1>14, <1>15, <1>16 DEF U

\* Hops that count no more than the values between them add up to no more.
LEMMA HopsTelescope ==
  ASSUME NEW n \in Nat, n >= 1, NEW h \in [1 .. n -> Int], h[1] = 0,
         NEW v, \A i \in 1 .. n : v[i] \in Int, \A i \in 2 .. n : h[i] <= v[i] - v[i - 1]
  PROVE  /\ Total(h) \in Int
         /\ Total(h) <= v[n] - v[1]
         /\ (\A i \in 2 .. n : h[i] = v[i] - v[i - 1]) => Total(h) = v[n] - v[1]
<1> DEFINE w == [i \in 0 .. n |-> IF i = 0 THEN v[1] ELSE v[i]]
<1>1. h \in Seq(Int) /\ Len(h) = n
  OBVIOUS
<1>2. w[0] = v[1] /\ w[n] = v[n] /\ w[1] = v[1] /\ \A i \in 1 .. n : w[i] = v[i]
  OBVIOUS
<1>3. \A i \in 0 .. n : w[i] \in Int
  OBVIOUS
<1> HIDE DEF w
<1>4. \A i \in 1 .. n : h[i] <= w[i] - w[i - 1] /\ h[i] \in Int
  <2>1. ASSUME NEW i \in 1 .. n PROVE h[i] <= w[i] - w[i - 1]
    <3>1. CASE i = 1
      BY <3>1, <1>2
    <3>2. CASE i \in 2 .. n
      <4>1. i - 1 \in 1 .. n
        BY <3>2
      <4> QED BY <4>1, <3>2, <1>2
    <3> QED BY <3>1, <3>2
  <2> QED BY <2>1
<1>5. /\ Total(h) \in Int
      /\ Total(h) <= w[n] - w[0]
      /\ (\A i \in 1 .. n : h[i] = w[i] - w[i - 1]) => Total(h) = w[n] - w[0]
  <2>1. /\ \A i \in 0 .. Len(h) : w[i] \in Int
        /\ \A i \in 1 .. Len(h) : h[i] <= w[i] - w[i - 1]
    BY <1>1, <1>3, <1>4
  <2>2. /\ Total(h) \in Int
        /\ Total(h) <= w[Len(h)] - w[0]
        /\ (\A i \in 1 .. Len(h) : h[i] = w[i] - w[i - 1]) => Total(h) = w[Len(h)] - w[0]
    BY <1>1, <2>1, TotalTelescopes
  <2> QED BY <1>1, <2>2
<1>6. ASSUME \A i \in 2 .. n : h[i] = v[i] - v[i - 1] PROVE \A i \in 1 .. n : h[i] = w[i] - w[i - 1]
  <2>1. SUFFICES ASSUME NEW i \in 1 .. n PROVE h[i] = w[i] - w[i - 1]
    OBVIOUS
  <2>2. CASE i = 1
    BY <2>2, <1>2
  <2>3. CASE i \in 2 .. n
    <3>1. i - 1 \in 1 .. n
      BY <2>3
    <3> QED BY <3>1, <2>3, <1>2, <1>6
  <2> QED BY <2>2, <2>3
<1> QED BY <1>2, <1>5, <1>6

\* The engine pipeline bills no more than the cycles from first to last row,
LEMMA EngineBound ==
  ASSUME NEW F \in Seq(Row), Len(F) >= 1, "dip" \notin printer.faults,
         \A a \in 2 .. Len(F) : Comes(printer, F[a - 1], F[a]),
         \A a \in 1 .. Len(F) : F[a].engine # None /\ (F[a].manual => ByEngine(printer))
  PROVE  EnginePages(F) <= F[Len(F)].cycles - F[1].cycles /\ EnginePages(F) \in Int
<1> DEFINE h == [i \in 1 .. Len(F) |-> IF i = 1 THEN 0 ELSE EngineHop(F[i - 1], F[i])]
           v == [i \in 1 .. Len(F) |-> F[i].cycles]
<1>1. Len(F) \in Nat /\ \A a \in 1 .. Len(F) : F[a] \in Row
  BY LenProperties, ElementOfSeq
<1>2. \A a \in 1 .. Len(F) : F[a].engine \in Nat /\ F[a].cycles \in Nat
  BY <1>1 DEF Row
<1>3. EnginePages(F) = Total(h)
  BY DEF EnginePages
<1>4. h[1] = 0
  BY <1>1
<1>5. \A i \in 2 .. Len(F) : /\ i \in 1 .. Len(F) /\ i - 1 \in 1 .. Len(F)
                             /\ h[i] = EngineHop(F[i - 1], F[i])
                             /\ v[i] = F[i].cycles /\ v[i - 1] = F[i - 1].cycles
  BY <1>1
<1>6. h \in [1 .. Len(F) -> Int]
  <2>1. \A i \in 2 .. Len(F) : EngineHop(F[i - 1], F[i]) \in Int
    BY <1>2, <1>5 DEF EngineHop, Hop
  <2>2. \A i \in 1 .. Len(F) : (IF i = 1 THEN 0 ELSE EngineHop(F[i - 1], F[i])) \in Int
    BY <2>1, <1>1
  <2> QED BY <2>2
<1>7. v[1] = F[1].cycles /\ v[Len(F)] = F[Len(F)].cycles /\ \A i \in 1 .. Len(F) : v[i] \in Int
  BY <1>1, <1>2
<1> HIDE DEF h, v
<1>8. ASSUME NEW i \in 2 .. Len(F) PROVE h[i] <= v[i] - v[i - 1]
  <2>1. /\ Comes(printer, F[i - 1], F[i]) /\ F[i - 1].engine # None /\ F[i].engine # None
        /\ F[i - 1].manual => ByEngine(printer)
    BY <1>5
  <2>2. TurnedBy(F[i - 1].engine, F[i].engine, F[i].cycles - F[i - 1].cycles)
        /\ F[i - 1].cycles <= F[i].cycles
    BY <2>1 DEF Comes
  <2>3. /\ F[i - 1].engine \in Nat /\ F[i].engine \in Nat
        /\ F[i - 1].cycles \in Nat /\ F[i].cycles \in Nat
    BY <1>2, <1>5
  <2>4. EngineHop(F[i - 1], F[i]) <= F[i].cycles - F[i - 1].cycles
    BY <2>2, <2>3 DEF TurnedBy, EngineHop, Hop
  <2> QED BY <2>4, <1>5
<1>9. Total(h) \in Int /\ Total(h) <= v[Len(F)] - v[1]
  BY <1>1, <1>4, <1>6, <1>7, <1>8, HopsTelescope
<1> QED BY <1>3, <1>7, <1>9

\* and where its counter never falls what it rose by;
LEMMA EngineExact ==
  ASSUME NEW F \in Seq(Row), Len(F) >= 1, \A a \in 2 .. Len(F) : F[a - 1].engine <= F[a].engine
  PROVE  EnginePages(F) = F[Len(F)].engine - F[1].engine
<1> DEFINE h == [i \in 1 .. Len(F) |-> IF i = 1 THEN 0 ELSE EngineHop(F[i - 1], F[i])]
           v == [i \in 1 .. Len(F) |-> F[i].engine]
<1>1. Len(F) \in Nat /\ \A a \in 1 .. Len(F) : F[a] \in Row
  BY LenProperties, ElementOfSeq
<1>2. \A a \in 1 .. Len(F) : F[a].engine \in Int
  BY <1>1 DEF Row, None
<1>3. EnginePages(F) = Total(h)
  BY DEF EnginePages
<1>4. h[1] = 0
  BY <1>1
<1>5. \A i \in 2 .. Len(F) : /\ i \in 1 .. Len(F) /\ i - 1 \in 1 .. Len(F)
                             /\ h[i] = EngineHop(F[i - 1], F[i])
                             /\ v[i] = F[i].engine /\ v[i - 1] = F[i - 1].engine
  BY <1>1
<1>6. h \in [1 .. Len(F) -> Int]
  <2>1. \A i \in 2 .. Len(F) : EngineHop(F[i - 1], F[i]) \in Int
    BY <1>2, <1>5 DEF EngineHop, Hop
  <2>2. \A i \in 1 .. Len(F) : (IF i = 1 THEN 0 ELSE EngineHop(F[i - 1], F[i])) \in Int
    BY <2>1, <1>1
  <2> QED BY <2>2
<1>7. v[1] = F[1].engine /\ v[Len(F)] = F[Len(F)].engine /\ \A i \in 1 .. Len(F) : v[i] \in Int
  BY <1>1, <1>2
<1> HIDE DEF h, v
<1>8. ASSUME NEW i \in 2 .. Len(F) PROVE h[i] = v[i] - v[i - 1] /\ h[i] <= v[i] - v[i - 1]
  BY <1>2, <1>5 DEF EngineHop, Hop
<1>9. Total(h) = v[Len(F)] - v[1]
  BY <1>1, <1>4, <1>6, <1>7, <1>8, HopsTelescope
<1> QED BY <1>3, <1>7, <1>9

\* of one row or none it bills nothing.
LEMMA NoHops ==
  ASSUME NEW F \in Seq(Row), Len(F) <= 1
  PROVE  EnginePages(F) = 0
<1>1. Len(F) \in Nat
  BY LenProperties
<1>2. CASE Len(F) = 1
  <2>1. F[1].engine \in Int
    <3>1. F[1] \in Row
      <4>1. 1 \in 1 .. Len(F)
        BY <1>2
      <4> QED BY <4>1, ElementOfSeq
    <3> QED BY <3>1 DEF Row, None
  <2>2. EnginePages(F) = F[1].engine - F[1].engine
    BY <1>2, EngineExact
  <2> QED BY <2>1, <2>2
<1>3. CASE Len(F) = 0
  <2> DEFINE h == [i \in 1 .. Len(F) |-> IF i = 1 THEN 0 ELSE EngineHop(F[i - 1], F[i])]
             v == [i \in 0 .. 0 |-> 0]
  <2>1. EnginePages(F) = Total(h) /\ h \in Seq(Int) /\ Len(h) = 0 /\ v[0] = 0
    BY <1>3 DEF EnginePages
  <2> HIDE DEF h, v
  <2>2. Total(h) = v[0] - v[0]
    <3>1. /\ \A i \in 0 .. Len(h) : v[i] \in Int
          /\ \A i \in 1 .. Len(h) : h[i] <= v[i] - v[i - 1]
          /\ \A i \in 1 .. Len(h) : h[i] = v[i] - v[i - 1]
      BY <2>1
    <3>2. Total(h) = v[Len(h)] - v[0]
      BY <2>1, <3>1, TotalTelescopes
    <3> QED BY <2>1, <3>2
  <2> QED BY <2>1, <2>2
<1>4. Len(F) = 0 \/ Len(F) = 1
  <2>1. \A n \in Nat : n <= 1 => n = 0 \/ n = 1
    OBVIOUS
  <2> QED BY <2>1, <1>1
<1> QED BY <1>2, <1>3, <1>4

\* The split pipeline bills no more than the cycles either,
LEMMA SplitBound ==
  ASSUME NEW F \in Seq(Row), Len(F) >= 1, "dip" \notin printer.faults, ~ByEngine(printer),
         \A a \in 2 .. Len(F) : Comes(printer, F[a - 1], F[a]),
         \A a \in 1 .. Len(F) : F[a].engine # None /\ F[a].split # None
  PROVE  SplitPages(F) <= F[Len(F)].cycles - F[1].cycles /\ SplitPages(F) \in Int
<1> DEFINE h == [i \in 1 .. Len(F) |-> IF i = 1 THEN 0 ELSE SplitHop(F[i - 1], F[i])]
           v == [i \in 1 .. Len(F) |-> F[i].cycles]
<1>1. Len(F) \in Nat /\ \A a \in 1 .. Len(F) : F[a] \in Row
  BY LenProperties, ElementOfSeq
<1>2. \A a \in 1 .. Len(F) : /\ F[a].engine \in Nat /\ F[a].cycles \in Nat /\ F[a].split \in Nat
                             /\ F[a].pages \in Nat /\ F[a].manual \in BOOLEAN
  BY <1>1 DEF Row
<1>3. SplitPages(F) = Total(h)
  BY DEF SplitPages
<1>4. h[1] = 0
  BY <1>1
<1>5. \A i \in 2 .. Len(F) : /\ i \in 1 .. Len(F) /\ i - 1 \in 1 .. Len(F)
                             /\ h[i] = SplitHop(F[i - 1], F[i])
                             /\ v[i] = F[i].cycles /\ v[i - 1] = F[i - 1].cycles
  BY <1>1
<1>6. h \in [1 .. Len(F) -> Int]
  <2>1. \A i \in 2 .. Len(F) : SplitHop(F[i - 1], F[i]) \in Int
    BY <1>2, <1>5 DEF SplitHop
  <2>2. \A i \in 1 .. Len(F) : (IF i = 1 THEN 0 ELSE SplitHop(F[i - 1], F[i])) \in Int
    BY <2>1, <1>1
  <2> QED BY <2>2
<1>7. v[1] = F[1].cycles /\ v[Len(F)] = F[Len(F)].cycles /\ \A i \in 1 .. Len(F) : v[i] \in Int
  BY <1>1, <1>2
<1> HIDE DEF h, v
<1>8. ASSUME NEW i \in 2 .. Len(F) PROVE h[i] <= v[i] - v[i - 1]
  <2>1. /\ Comes(printer, F[i - 1], F[i])
        /\ F[i - 1].engine # None /\ F[i].engine # None
        /\ F[i - 1].split # None /\ F[i].split # None
    BY <1>5
  <2>2. /\ TurnedBy(F[i - 1].split, F[i].split, F[i].pages - F[i - 1].pages)
        /\ F[i - 1].cycles <= F[i].cycles
        /\ F[i].pages - F[i - 1].pages <= F[i].cycles - F[i - 1].cycles
        /\ F[i - 1].pages <= F[i].pages
    BY <2>1 DEF Comes
  <2>3. ~F[i - 1].manual => TurnedBy(F[i - 1].engine, F[i].engine, F[i].cycles - F[i - 1].cycles)
    BY <2>1 DEF Comes
  <2>4. /\ F[i - 1].engine \in Nat /\ F[i].engine \in Nat
        /\ F[i - 1].split \in Nat /\ F[i].split \in Nat
        /\ F[i - 1].cycles \in Nat /\ F[i].cycles \in Nat
        /\ F[i - 1].pages \in Nat /\ F[i].pages \in Nat
    BY <1>2, <1>5
  <2>5. CASE F[i].split >= F[i - 1].split
    <3>1. SplitHop(F[i - 1], F[i]) = F[i].split - F[i - 1].split
      BY <2>5 DEF SplitHop
    <3> QED BY <3>1, <2>2, <2>4, <2>5, <1>5 DEF TurnedBy
  <2>6. CASE ~(F[i].split >= F[i - 1].split) /\ ~F[i - 1].manual /\ F[i].engine >= F[i - 1].engine
    <3>1. SplitHop(F[i - 1], F[i]) = F[i].engine - F[i - 1].engine
      BY <2>6 DEF SplitHop
    <3>2. TurnedBy(F[i - 1].engine, F[i].engine, F[i].cycles - F[i - 1].cycles)
      BY <2>3, <2>6
    <3>3. \A x, y, c, e \in Nat : TurnedBy(x, y, e - c) /\ c <= e => y - x <= e - c
      BY DEF TurnedBy
    <3>4. F[i].engine - F[i - 1].engine <= F[i].cycles - F[i - 1].cycles
      BY <3>2, <3>3, <2>2, <2>4, Zenon
    <3> QED BY <3>1, <3>4, <1>5
  <2>7. CASE ~(F[i].split >= F[i - 1].split) /\ ~(~F[i - 1].manual /\ F[i].engine >= F[i - 1].engine)
    <3>1. SplitHop(F[i - 1], F[i]) = F[i].split
      BY <2>7 DEF SplitHop
    <3>2. ~(F[i].split >= F[i - 1].split)
      BY <2>7
    <3> QED BY <3>1, <3>2, <2>2, <2>4, <1>5 DEF TurnedBy
  <2> QED BY <2>5, <2>6, <2>7
<1>9. Total(h) \in Int /\ Total(h) <= v[Len(F)] - v[1]
  BY <1>1, <1>4, <1>6, <1>7, <1>8, HopsTelescope
<1> QED BY <1>3, <1>7, <1>9

\* and where its counter never falls what it rose by.
LEMMA SplitExact ==
  ASSUME NEW F \in Seq(Row), Len(F) >= 1, \A a \in 2 .. Len(F) : F[a - 1].split <= F[a].split
  PROVE  SplitPages(F) = F[Len(F)].split - F[1].split
<1> DEFINE h == [i \in 1 .. Len(F) |-> IF i = 1 THEN 0 ELSE SplitHop(F[i - 1], F[i])]
           v == [i \in 1 .. Len(F) |-> F[i].split]
<1>1. Len(F) \in Nat /\ \A a \in 1 .. Len(F) : F[a] \in Row
  BY LenProperties, ElementOfSeq
<1>2. \A a \in 1 .. Len(F) : F[a].split \in Int
  BY <1>1 DEF Row, None
<1>3. SplitPages(F) = Total(h)
  BY DEF SplitPages
<1>4. h[1] = 0
  BY <1>1
<1>5. \A i \in 2 .. Len(F) : /\ i \in 1 .. Len(F) /\ i - 1 \in 1 .. Len(F)
                             /\ h[i] = SplitHop(F[i - 1], F[i])
                             /\ v[i] = F[i].split /\ v[i - 1] = F[i - 1].split
  BY <1>1
<1>6. \A i \in 2 .. Len(F) : SplitHop(F[i - 1], F[i]) = F[i].split - F[i - 1].split
  BY <1>2, <1>5 DEF SplitHop
<1>7. h \in [1 .. Len(F) -> Int]
  <2>1. \A i \in 2 .. Len(F) : SplitHop(F[i - 1], F[i]) \in Int
    BY <1>2, <1>5, <1>6
  <2>2. \A i \in 1 .. Len(F) : (IF i = 1 THEN 0 ELSE SplitHop(F[i - 1], F[i])) \in Int
    BY <2>1, <1>1
  <2> QED BY <2>2
<1>8. v[1] = F[1].split /\ v[Len(F)] = F[Len(F)].split /\ \A i \in 1 .. Len(F) : v[i] \in Int
  BY <1>1, <1>2
<1> HIDE DEF h, v
<1>9. ASSUME NEW i \in 2 .. Len(F) PROVE h[i] = v[i] - v[i - 1] /\ h[i] <= v[i] - v[i - 1]
  <2>1. /\ i \in 1 .. Len(F) /\ i - 1 \in 1 .. Len(F)
        /\ h[i] = SplitHop(F[i - 1], F[i])
        /\ v[i] = F[i].split /\ v[i - 1] = F[i - 1].split
    BY <1>5
  <2>2. SplitHop(F[i - 1], F[i]) = F[i].split - F[i - 1].split
    BY <1>6
  <2>3. F[i].split - F[i - 1].split \in Int
    BY <1>2, <2>1
  <2>4. h[i] = v[i] - v[i - 1]
    BY <2>1, <2>2
  <2>5. v[i] - v[i - 1] \in Int
    BY <2>1, <2>3
  <2> HIDE DEF h, v
  <2>6. \A x \in Int : x <= x
    OBVIOUS
  <2> QED BY <2>4, <2>5, <2>6, Zenon
<1>10. Total(h) = v[Len(F)] - v[1]
  BY <1>1, <1>4, <1>7, <1>8, <1>9, HopsTelescope
<1> QED BY <1>3, <1>8, <1>10

\* What the filter leaves of rows that come one after the other.
LEMMA FilteredUsed ==
  ASSUME NEW q \in Seq(Row), NEW c, \A i \in 1 .. Len(q) : q[i][c] \in Int,
         \A a, b \in 1 .. Len(q) : a < b => Comes(printer, q[a], q[b])
  PROVE  /\ Filtered(q, c) \in Seq(Row) /\ Len(Filtered(q, c)) \in Nat
         /\ \A a \in 1 .. Len(Filtered(q, c)) : \E b \in 1 .. Len(q) : Filtered(q, c)[a] = q[b]
         /\ \A a \in 2 .. Len(Filtered(q, c)) : Comes(printer, Filtered(q, c)[a - 1], Filtered(q, c)[a])
         /\ Len(q) <= 1 => Len(Filtered(q, c)) <= 1
         /\ Len(q) >= 1 => /\ Len(Filtered(q, c)) >= 1
                           /\ Filtered(q, c)[1] = q[1]
                           /\ Filtered(q, c)[Len(Filtered(q, c))].cycles <= q[Len(q)].cycles
         /\ Len(q) >= 1 /\ (\A i \in 1 .. Len(q) : q[i][c] <= q[Len(q)][c]) =>
              /\ Filtered(q, c)[Len(Filtered(q, c))] = q[Len(q)]
              /\ \A a \in 2 .. Len(Filtered(q, c)) : Filtered(q, c)[a - 1][c] <= Filtered(q, c)[a][c]
<1> DEFINE F == Filtered(q, c)
<1>1. F \in Seq(Row) /\
      \E g : /\ Picks(F, q, g, Len(q))
             /\ Len(q) > 0 => Len(F) >= 1 /\ g[1] = 1
             /\ Len(q) > 0 /\ (\A i \in 1 .. Len(q) : q[i][c] <= q[Len(q)][c]) =>
                  /\ g[Len(F)] = Len(q)
                  /\ \A a \in 2 .. Len(F) : F[a - 1][c] <= F[a][c]
  BY FilteredSound
<1>2. PICK g : /\ Picks(F, q, g, Len(q))
               /\ Len(q) > 0 => Len(F) >= 1 /\ g[1] = 1
               /\ Len(q) > 0 /\ (\A i \in 1 .. Len(q) : q[i][c] <= q[Len(q)][c]) =>
                    /\ g[Len(F)] = Len(q)
                    /\ \A a \in 2 .. Len(F) : F[a - 1][c] <= F[a][c]
  BY <1>1
<1> HIDE DEF F
<1>3. Len(F) \in Nat /\ Len(q) \in Nat /\ \A b \in 1 .. Len(q) : q[b] \in Row /\ q[b].cycles \in Nat
  <2>1. \A b \in 1 .. Len(q) : q[b] \in Row
    BY ElementOfSeq
  <2> QED BY <1>1, <2>1, LenProperties DEF Row
<1>4. /\ \A a \in 1 .. Len(F) : F[a] = q[g[a]] /\ g[a] \in 1 .. Len(q)
      /\ \A a, b \in 1 .. Len(F) : a < b => g[a] < g[b]
  BY <1>2 DEF Picks
<1>5. \A a \in 1 .. Len(F) : \E b \in 1 .. Len(q) : F[a] = q[b]
  BY <1>4
<1>6. ASSUME NEW a \in 2 .. Len(F) PROVE Comes(printer, F[a - 1], F[a])
  <2>1. a - 1 \in 1 .. Len(F) /\ a \in 1 .. Len(F) /\ a - 1 < a
    BY <1>3
  <2> QED BY <2>1, <1>4
<1>7. Len(q) <= 1 => Len(F) <= 1
  <2>1. SUFFICES ASSUME Len(q) <= 1, Len(F) > 1 PROVE FALSE
    BY <1>3
  <2>2. 1 \in 1 .. Len(F) /\ 2 \in 1 .. Len(F)
    BY <2>1, <1>3
  <2>3. g[1] < g[2] /\ g[1] \in 1 .. Len(q) /\ g[2] \in 1 .. Len(q)
    BY <2>2, <1>4
  <2> QED BY <2>1, <2>3, <1>3
<1>8. ASSUME Len(q) >= 1
      PROVE  Len(F) >= 1 /\ F[1] = q[1] /\ F[Len(F)].cycles <= q[Len(q)].cycles
  <2>1. Len(F) >= 1 /\ g[1] = 1 /\ 1 \in 1 .. Len(F) /\ Len(F) \in 1 .. Len(F)
    BY <1>2, <1>3, <1>8
  <2>2. F[1] = q[1]
    BY <2>1, <1>4
  <2>3. F[Len(F)] = q[g[Len(F)]] /\ g[Len(F)] \in 1 .. Len(q) /\ Len(q) \in 1 .. Len(q)
    BY <2>1, <1>4, <1>3, <1>8
  <2>4. g[Len(F)] = Len(q) \/ g[Len(F)] < Len(q)
    BY <2>3
  <2>5. q[g[Len(F)]].cycles <= q[Len(q)].cycles
    BY <2>3, <2>4, <1>3 DEF Comes
  <2> QED BY <2>1, <2>2, <2>3, <2>5
<1>9. ASSUME Len(q) >= 1, \A i \in 1 .. Len(q) : q[i][c] <= q[Len(q)][c]
      PROVE  F[Len(F)] = q[Len(q)] /\ \A a \in 2 .. Len(F) : F[a - 1][c] <= F[a][c]
  <2>1. Len(F) >= 1 /\ g[Len(F)] = Len(q) /\ \A a \in 2 .. Len(F) : F[a - 1][c] <= F[a][c]
    BY <1>2, <1>3, <1>9
  <2>2. F[Len(F)] = q[g[Len(F)]]
    BY <2>1, <1>3, <1>4
  <2> QED BY <2>1, <2>2
<1> QED BY <1>1, <1>3, <1>5, <1>6, <1>7, <1>8, <1>9 DEF F

\* The row billing counts from.
LEMMA AnchorSound ==
  ASSUME PagesInv, Counted # {}
  PROVE  /\ Anchor \in Row
         /\ \A i \in Counted : Anchor.cycles <= metrics[i].cycles \/ Upto(Starts[1]) # {}
         /\ Min(Counted) \in Counted /\ \A k \in Counted : Min(Counted) <= k
<1>1. /\ Len(metrics) \in Nat /\ ManualRow \in Row
      /\ \A i \in 1 .. Len(metrics) : metrics[i] \in Row
      /\ Counted \subseteq 1 .. Len(metrics)
      /\ Upto(Starts[1]) \subseteq 1 .. Len(metrics)
  BY PagesTypes, UptoSound DEF PagesInv, Counted
<1>2. Min(Counted) \in Counted /\ \A k \in Counted : Min(Counted) <= k
  BY BaselineSound DEF Counted
<1>3. /\ Baseline(Starts[1]) = BaselineOf(Starts[1])
      /\ Upto(Starts[1]) # {} => Max(Upto(Starts[1])) \in Upto(Starts[1])
  BY BaselineSound
<1>4. CASE Upto(Starts[1]) # {}
  <2>1. Baseline(Starts[1]) # {} /\ Max(Baseline(Starts[1])) \in Upto(Starts[1])
    <3>1. Baseline(Starts[1]) = {Max(Upto(Starts[1]))} /\ Max(Upto(Starts[1])) \in 1 .. Len(metrics)
      BY <1>1, <1>3, <1>4 DEF BaselineOf
    <3>2. Max(Baseline(Starts[1])) \in Baseline(Starts[1])
      BY <3>1, <1>1, ExtremesOf
    <3> QED BY <3>1, <3>2, <1>3, <1>4
  <2>2. Anchor = metrics[Max(Baseline(Starts[1]))]
    BY <2>1 DEF Anchor
  <2> QED BY <1>1, <1>2, <1>4, <2>1, <2>2
<1>5. CASE Upto(Starts[1]) = {}
  <2>1. Baseline(Starts[1]) = {}
    BY <1>3, <1>5 DEF BaselineOf
  <2>2. \A i \in Counted : metrics[Min(Counted)].cycles <= metrics[i].cycles
    <3> SUFFICES ASSUME NEW i \in Counted PROVE metrics[Min(Counted)].cycles <= metrics[i].cycles
      OBVIOUS
    <3>1. PICK m : m = Min(Counted)
      OBVIOUS
    <3>2. m \in 1 .. Len(metrics) /\ i \in 1 .. Len(metrics) /\ m <= i
      BY <3>1, <1>1, <1>2
    <3>3. metrics[i].cycles \in Nat /\ metrics[m].cycles \in Nat
      BY <3>2, <1>1 DEF Row
    <3>4. CASE m = i
      BY <3>1, <3>3, <3>4
    <3>5. CASE m < i
      <4>1. Comes(printer, metrics[m], metrics[i])
        BY <3>2, <3>5 DEF PagesInv, RowsCome
      <4> QED BY <3>1, <4>1 DEF Comes
    <3> QED BY <3>2, <3>4, <3>5
  <2>3. CASE manual # NoManual /\ manual.at < metrics[Min(Counted)].at
    <3>1. Anchor = ManualRow
      BY <2>1, <2>3 DEF Anchor
    <3>2. ManualRow.cycles <= metrics[Min(Counted)].cycles
      BY <2>3, <1>1, <1>2 DEF PagesInv, ManualComes, Comes
    <3>3. ManualRow.cycles \in Nat /\ \A i \in Counted : metrics[i].cycles \in Nat
      BY <1>1 DEF Row
    <3>4. Anchor \in Row
      BY <3>1, <1>1
    <3>5. ASSUME NEW i \in Counted PROVE Anchor.cycles <= metrics[i].cycles
      <4>1. metrics[Min(Counted)].cycles <= metrics[i].cycles /\ Min(Counted) \in Counted
        BY <2>2, <1>2
      <4>2. metrics[Min(Counted)].cycles \in Nat /\ metrics[i].cycles \in Nat
        BY <3>3, <4>1
      <4> QED BY <3>1, <3>2, <3>3, <4>1, <4>2
    <3> QED BY <3>4, <3>5, <1>2
  <2>4. CASE ~(manual # NoManual /\ manual.at < metrics[Min(Counted)].at)
    <3>1. Anchor = metrics[Min(Counted)]
      BY <2>1, <2>4 DEF Anchor
    <3> QED BY <3>1, <2>2, <1>1, <1>2
  <2> QED BY <2>3, <2>4
<1> QED BY <1>4, <1>5

ClosingOf(p) == Starts[p + 1] - 1
\* What At is at the two ends of a period that is over.
LEMMA AtSound ==
  ASSUME PagesInv, NEW p \in Periods, Closed(p), Counted # {}
  PROVE  /\ At(Starts[p]) \in Row /\ At(ClosingOf(p)) \in Row
         /\ Upto(ClosingOf(p)) = {} => At(Starts[p]) = At(ClosingOf(p))
         /\ Upto(ClosingOf(p)) # {} =>
              LET f == FirstOf(Starts[p], ClosingOf(p))
                  helps == ManualValid(Starts[p], ClosingOf(p)) /\ manual.at < metrics[f].at
              IN /\ At(ClosingOf(p)) = metrics[Max(Upto(ClosingOf(p)))]
                 /\ helps => At(Starts[p]) = ManualRow
                 /\ ~helps => At(Starts[p]) = metrics[f]
<1> DEFINE start == Starts[p]
           end == ClosingOf(p)
           f == FirstOf(start, end)
<1>1. /\ start \in Int /\ end \in Int /\ start <= end /\ Starts[1] \in Int /\ Starts[1] <= start
      /\ end <= Starts[Max(ClosedPeriods) + 1] - 1 /\ Starts[Max(ClosedPeriods) + 1] - 1 \in Int
  BY ClosedSound DEF ClosingOf
<1>2. /\ Len(metrics) \in Nat /\ ManualRow \in Row
      /\ \A i \in 1 .. Len(metrics) : metrics[i] \in Row /\ metrics[i].at \in Int
  <2>1. \A i \in 1 .. Len(metrics) : metrics[i] \in Row
    BY PagesTypes DEF PagesInv
  <2> QED BY <2>1, PagesTypes DEF PagesInv, Row
<1> HIDE DEF start, end
<1>3. /\ Upto(start) \subseteq Upto(end) /\ Upto(end) \subseteq Counted /\ Upto(Starts[1]) \subseteq Upto(start)
      /\ Counted \subseteq 1 .. Len(metrics)
  BY <1>1, UptoSound DEF Counted
<1>4. /\ Upto(start) # {} => Max(Upto(start)) \in Upto(start)
      /\ Upto(end) # {} => /\ Max(Upto(end)) \in Upto(end)
                           /\ Min(Upto(end)) \in Upto(end) /\ \A k \in Upto(end) : Min(Upto(end)) <= k
      /\ Baseline(start) = BaselineOf(start) /\ Baseline(Starts[1]) = BaselineOf(Starts[1])
  BY BaselineSound
<1>5. At(start) \in Row /\ At(end) \in Row
  BY <1>2, <1>3, <1>4, AnchorSound DEF At
<1>6. Upto(end) = {} => At(start) = At(end)
  BY <1>3 DEF At
<1>7. ASSUME Upto(end) # {}
      PROVE  /\ ManualValid(start, end) /\ manual.at < metrics[f].at => At(start) = ManualRow
             /\ ~(ManualValid(start, end) /\ manual.at < metrics[f].at) => At(start) = metrics[f]
  <2>1. CASE Upto(start) # {}
    <3>1. ~ManualValid(start, end)
      BY <2>1, <1>4 DEF ManualValid, BaselineOf
    <3> QED BY <3>1, <2>1 DEF At, FirstOf
  <2>2. CASE Upto(start) = {}
    <3>1. At(start) = Anchor /\ f = Min(Upto(end)) /\ Baseline(start) = {} /\ Baseline(Starts[1]) = {}
      BY <2>2, <1>3, <1>4 DEF At, FirstOf, BaselineOf
    <3>2. Min(Counted) \in Counted /\ \A k \in Counted : Min(Counted) <= k
      BY AnchorSound
    <3>3. Min(Counted) = f
      <4>1. Min(Counted) <= f
        BY <3>1, <3>2, <1>3, <1>4, <1>7
      <4>2. f \in Upto(end) /\ Min(Counted) \in 1 .. f /\ HasCounter(metrics[Min(Counted)])
        BY <3>1, <3>2, <4>1, <1>3, <1>4, <1>7 DEF Counted, Upto
      <4>3. Min(Counted) \in Upto(end)
        BY <4>2, <1>1, UptoSound
      <4>4. f <= Min(Counted)
        BY <3>1, <4>3, <1>4, <1>7
      <4>5. PICK m : m = Min(Counted)
        OBVIOUS
      <4>6. PICK k : k = f
        OBVIOUS
      <4>7. m \in Int /\ k \in Int /\ m <= k /\ k <= m
        <5>1. f \in 1 .. Len(metrics) /\ Min(Counted) \in 1 .. Len(metrics)
          BY <4>2, <4>3, <1>3
        <5> HIDE DEF f
        <5>2. k \in 1 .. Len(metrics) /\ m \in 1 .. Len(metrics) /\ m <= k /\ k <= m
          BY <5>1, <4>1, <4>4, <4>5, <4>6
        <5> QED BY <5>2
      <4>8. m = k
        BY <4>7
      <4> QED BY <4>5, <4>6, <4>8
    <3>4. metrics[f].at <= end /\ metrics[f].at \in Int
      BY <3>1, <1>2, <1>3, <1>4, <1>7 DEF Upto
    <3>5. manual # NoManual => manual.at \in Int
      BY DEF PagesInv, ManualComes
    <3>6. manual # NoManual /\ manual.at < metrics[f].at => ManualValid(start, end)
      BY <3>1, <3>4, <3>5, <1>1 DEF ManualValid
    <3>7. Anchor = IF manual # NoManual /\ manual.at < metrics[f].at THEN ManualRow ELSE metrics[f]
      BY <3>1, <3>3 DEF Anchor
    <3>8. ManualValid(start, end) => manual # NoManual
      BY DEF ManualValid
    <3> QED BY <3>1, <3>6, <3>7, <3>8
  <2> QED BY <2>1, <2>2
<1>8. Upto(end) # {} => At(end) = metrics[Max(Upto(end))]
  BY DEF At
<1> QED BY <1>5, <1>6, <1>7, <1>8 DEF start, end

\* The rows a bill is computed over begin and end where At says.
LEMMA EndsOfUsed ==
  ASSUME PagesInv, NEW p \in Periods, Closed(p), Counted # {},
         NEW J \in SUBSET InPeriod(Starts[p], ClosingOf(p)),
         Upto(ClosingOf(p)) # {} => /\ FirstOf(Starts[p], ClosingOf(p)) \in J
                                    /\ Max(Upto(ClosingOf(p))) \in J
  PROVE  LET U == Used(Starts[p], ClosingOf(p), J)
         IN /\ Upto(ClosingOf(p)) # {} => /\ Len(U) >= 1
                                          /\ U[1] = At(Starts[p]) /\ U[Len(U)] = At(ClosingOf(p))
            /\ Upto(ClosingOf(p)) = {} => Len(U) <= 1
            /\ Len(U) <= 1 => At(Starts[p]) = At(ClosingOf(p))
<1> DEFINE start == Starts[p]
           end == ClosingOf(p)
           f == FirstOf(start, end)
           U == Used(start, end, J)
<1>1. start \in Int /\ end \in Int /\ start <= end
  BY ClosedSound DEF ClosingOf
<1> HIDE DEF start, end
<1>2. /\ J \subseteq Upto(end) /\ Upto(end) \subseteq 1 .. Len(metrics) /\ Len(metrics) \in Nat
      /\ Upto(end) # {} => /\ f \in J /\ Max(Upto(end)) \in J
                           /\ \A k \in J : f <= k /\ k <= Max(Upto(end))
  <2>1. Upto(end) \subseteq 1 .. Len(metrics) /\ Len(metrics) \in Nat
    BY UptoSound, PagesTypes DEF PagesInv
  <2>2. /\ InPeriod(start, end) \subseteq Upto(end)
        /\ Upto(end) # {} => \A k \in InPeriod(start, end) : f <= k /\ k <= Max(Upto(end))
    BY <1>1, InPeriodSound
  <2>3. J \subseteq InPeriod(start, end) /\ (Upto(end) # {} => f \in J /\ Max(Upto(end)) \in J)
    BY DEF start, end
  <2> QED BY <2>1, <2>2, <2>3
<1>3. /\ Len(U) \in Nat
      /\ J = {} => Len(U) <= 1
      /\ J # {} => /\ Len(U) >= 1
                   /\ \E j \in J : (\A k \in J : k <= j) /\ U[Len(U)] = metrics[j]
                   /\ \E j \in J : /\ \A k \in J : j <= k
                                   /\ ManualValid(start, end) /\ manual.at < metrics[j].at => U[1] = ManualRow
                                   /\ ~(ManualValid(start, end) /\ manual.at < metrics[j].at) => U[1] = metrics[j]
  BY <1>1, <1>2, UsedSound
<1>4. /\ Upto(end) = {} => At(start) = At(end)
      /\ Upto(end) # {} =>
           /\ At(end) = metrics[Max(Upto(end))]
           /\ ManualValid(start, end) /\ manual.at < metrics[f].at => At(start) = ManualRow
           /\ ~(ManualValid(start, end) /\ manual.at < metrics[f].at) => At(start) = metrics[f]
  BY AtSound DEF start, end
<1>5. ASSUME Upto(end) # {}
      PROVE  Len(U) >= 1 /\ U[1] = At(start) /\ U[Len(U)] = At(end)
  <2>1. J # {}
    BY <1>2, <1>5
  <2>2. PICK j \in J : (\A k \in J : k <= j) /\ U[Len(U)] = metrics[j]
    BY <1>3, <2>1
  <2>3. PICK i \in J : /\ \A k \in J : i <= k
                       /\ ManualValid(start, end) /\ manual.at < metrics[i].at => U[1] = ManualRow
                       /\ ~(ManualValid(start, end) /\ manual.at < metrics[i].at) => U[1] = metrics[i]
    BY <1>3, <2>1
  <2>4. PICK m : m = Max(Upto(end))
    OBVIOUS
  <2>5. PICK k : k = f
    OBVIOUS
  <2> HIDE DEF f, U
  <2>6. m \in J /\ k \in J /\ k <= i /\ i <= k /\ j <= m /\ m <= j
    BY <1>2, <1>5, <2>2, <2>3, <2>4, <2>5
  <2>7. m \in Int /\ k \in Int /\ i \in Int /\ j \in Int
    BY <1>2, <2>6
  <2>8. m = j /\ k = i
    BY <2>6, <2>7
  <2> QED BY <1>3, <1>4, <1>5, <2>1, <2>2, <2>3, <2>4, <2>5, <2>8
<1>6. Upto(end) = {} => Len(U) <= 1
  BY <1>2, <1>3
<1>7. Len(U) <= 1 => At(start) = At(end)
  <2>1. SUFFICES ASSUME Len(U) <= 1, Upto(end) # {} PROVE At(start) = At(end)
    BY <1>4
  <2>2. Len(U) \in Nat /\ Len(U) >= 1 /\ Len(U) <= 1
    BY <2>1, <1>3, <1>5
  <2>3. \A n \in Nat : n >= 1 /\ n <= 1 => n = 1
    OBVIOUS
  <2> HIDE DEF U
  <2>4. Len(U) = 1
    BY <2>2, <2>3
  <2> QED BY <2>1, <2>4, <1>5
<1> QED BY <1>5, <1>6, <1>7 DEF start, end

\* The rows of a period that have the printed counter.
SplitRows(start, end) == {i \in InPeriod(start, end) : metrics[i].split # None}
\* What PagesInPeriod computes, and over which rows.
LEMMA PipelineOf ==
  ASSUME PagesInv, NEW start, NEW end
  PROVE  LET S == Used(start, end, SplitRows(start, end))
             E == Used(start, end, InPeriod(start, end))
         IN /\ ~printer.billEngine /\ Len(S) >= 2 => PagesInPeriod(start, end) = SplitPages(Filtered(S, "split"))
            /\ printer.billEngine \/ ~(Len(S) >= 2) => PagesInPeriod(start, end) = EnginePages(Filtered(E, "engine"))
<1> DEFINE S == Used(start, end, SplitRows(start, end))
           E == Used(start, end, InPeriod(start, end))
           real == IF printer.billEngine THEN <<>> ELSE Chosen(metrics, SplitRows(start, end))
           split == WithManual(real, Helped(start, end, real))
<1>1. PagesInPeriod(start, end) = IF Len(split) >= 2 THEN SplitPages(Filtered(split, "split"))
                                  ELSE EnginePages(Filtered(E, "engine"))
  BY DEF PagesInPeriod, Used, InPeriod, SplitRows, Helped
<1>2. printer.billEngine => ~(Len(split) >= 2)
  <2>1. SUFFICES ASSUME printer.billEngine PROVE ~(Len(split) >= 2)
    OBVIOUS
  <2>2. real = <<>>
    BY <2>1
  <2>3. <<ManualRow>> \o <<>> = <<ManualRow>>
    OBVIOUS
  <2>4. split = <<>> \/ split = <<ManualRow>>
    BY <2>2, <2>3 DEF WithManual
  <2>5. \A x : x = <<>> \/ x = <<ManualRow>> => ~(Len(x) >= 2)
    <3>1. Len(<<>>) = 0
      OBVIOUS
    <3>2. Len(<<ManualRow>>) = 1
      OBVIOUS
    <3>3. ~(0 >= 2) /\ ~(1 >= 2)
      OBVIOUS
    <3> QED BY <3>1, <3>2, <3>3, Zenon
  <2> QED BY <2>4, <2>5, Zenon
<1>3. ~printer.billEngine => split = S
  BY DEF Used
<1> QED BY <1>1, <1>2, <1>3

\* What the engine did only grows.
LEMMA RowsOrdered ==
  ASSUME PagesInv, NEW i \in 1 .. Len(metrics), NEW j \in 1 .. Len(metrics), i <= j
  PROVE  /\ metrics[i].cycles \in Nat /\ metrics[j].cycles \in Nat
         /\ metrics[i].cycles <= metrics[j].cycles
<1>1. Len(metrics) \in Nat /\ metrics[i] \in Row /\ metrics[j] \in Row
  BY PagesTypes DEF PagesInv
<1>2. metrics[i].cycles \in Nat /\ metrics[j].cycles \in Nat
  BY <1>1 DEF Row
<1>3. CASE i = j
  BY <1>2, <1>3
<1>4. CASE i < j
  BY <1>2, <1>4 DEF PagesInv, RowsCome, Comes
<1> QED BY <1>1, <1>2, <1>3, <1>4

\* A bill over the engine's rows alone, or over the printed counter's.
LEMMA EngineBill ==
  ASSUME PagesInv, NEW start \in Int, NEW end \in Int, NEW J \in SUBSET Upto(end),
         "dip" \notin printer.faults, ByEngine(printer) \/ manual = NoManual,
         Len(Used(start, end, J)) >= 1
  PROVE  LET U == Used(start, end, J)
         IN /\ EnginePages(Filtered(U, "engine")) \in Int
            /\ EnginePages(Filtered(U, "engine")) <= U[Len(U)].cycles - U[1].cycles
<1> DEFINE U == Used(start, end, J)
           F == Filtered(U, "engine")
<1>1. /\ U \in Seq(Row) /\ Len(U) \in Nat /\ Len(U) >= 1
      /\ \A a, b \in 1 .. Len(U) : a < b => Comes(printer, U[a], U[b])
      /\ \A b \in 1 .. Len(U) : U[b].engine # None
      /\ \A b \in 1 .. Len(U) : \/ U[b] = ManualRow /\ b = 1 /\ manual # NoManual
                                \/ \E j \in J : U[b] = metrics[j]
  BY UsedSound
<1>2. Upto(end) \subseteq 1 .. Len(metrics) /\ \A i \in 1 .. Len(metrics) : metrics[i].manual = FALSE
  <2>1. \A i \in 1 .. Len(metrics) : metrics[i] \in MetricRow
    BY PagesTypes DEF PagesInv
  <2> QED BY <2>1, UptoSound DEF MetricRow
<1> HIDE DEF U
<1>3. \A b \in 1 .. Len(U) : U[b].manual => ByEngine(printer)
  BY <1>1, <1>2
<1>4. \A b \in 1 .. Len(U) : U[b].engine \in Int /\ U[b].cycles \in Nat
  <2>1. \A b \in 1 .. Len(U) : U[b] \in Row
    BY <1>1, ElementOfSeq
  <2> QED BY <2>1 DEF Row, None
<1>5. /\ F \in Seq(Row) /\ Len(F) \in Nat
      /\ \A a \in 1 .. Len(F) : \E b \in 1 .. Len(U) : F[a] = U[b]
      /\ \A a \in 2 .. Len(F) : Comes(printer, F[a - 1], F[a])
      /\ Len(F) >= 1 /\ F[1] = U[1] /\ F[Len(F)].cycles <= U[Len(U)].cycles
  BY <1>1, <1>4, FilteredUsed
<1> HIDE DEF F
<1>6. \A a \in 1 .. Len(F) : F[a].engine # None /\ (F[a].manual => ByEngine(printer))
  BY <1>1, <1>3, <1>5
<1>7. EnginePages(F) <= F[Len(F)].cycles - F[1].cycles /\ EnginePages(F) \in Int
  BY <1>5, <1>6, EngineBound
<1>8. U[1].cycles \in Nat /\ U[Len(U)].cycles \in Nat /\ F[Len(F)].cycles \in Nat
  <2>1. 1 \in 1 .. Len(U) /\ Len(U) \in 1 .. Len(U) /\ Len(F) \in 1 .. Len(F)
    BY <1>1, <1>5
  <2>2. \E b \in 1 .. Len(U) : F[Len(F)] = U[b]
    BY <2>1, <1>5
  <2> QED BY <2>1, <2>2, <1>4
<1>9. F[1].cycles = U[1].cycles
  BY <1>5
<1>10. EnginePages(F) <= U[Len(U)].cycles - U[1].cycles
  BY <1>5, <1>7, <1>8, <1>9
<1> QED BY <1>7, <1>10 DEF U, F

\* A bill over rows that all have the printed counter.
LEMMA SplitBill ==
  ASSUME PagesInv, NEW start \in Int, NEW end \in Int, NEW J \in SUBSET Upto(end),
         "dip" \notin printer.faults, ~ByEngine(printer),
         \A j \in J : metrics[j].split # None,
         Len(Used(start, end, J)) >= 1
  PROVE  LET U == Used(start, end, J)
         IN /\ SplitPages(Filtered(U, "split")) \in Int
            /\ SplitPages(Filtered(U, "split")) <= U[Len(U)].cycles - U[1].cycles
<1> DEFINE U == Used(start, end, J)
           F == Filtered(U, "split")
<1>1. /\ U \in Seq(Row) /\ Len(U) \in Nat /\ Len(U) >= 1
      /\ \A a, b \in 1 .. Len(U) : a < b => Comes(printer, U[a], U[b])
      /\ \A b \in 1 .. Len(U) : U[b].engine # None
      /\ \A b \in 1 .. Len(U) : \/ U[b] = ManualRow /\ b = 1 /\ manual # NoManual
                                \/ \E j \in J : U[b] = metrics[j]
  BY UsedSound
<1>2. ManualRow.split # None
  BY DEF PagesInv, PagesTypeOK, ManualRow, None
<1> HIDE DEF U
<1>3. \A b \in 1 .. Len(U) : U[b].split # None
  BY <1>1, <1>2
<1>4. \A b \in 1 .. Len(U) : U[b].split \in Int /\ U[b].cycles \in Nat
  <2>1. \A b \in 1 .. Len(U) : U[b] \in Row
    BY <1>1, ElementOfSeq
  <2> QED BY <2>1 DEF Row, None
<1>5. /\ F \in Seq(Row) /\ Len(F) \in Nat
      /\ \A a \in 1 .. Len(F) : \E b \in 1 .. Len(U) : F[a] = U[b]
      /\ \A a \in 2 .. Len(F) : Comes(printer, F[a - 1], F[a])
      /\ Len(F) >= 1 /\ F[1] = U[1] /\ F[Len(F)].cycles <= U[Len(U)].cycles
  BY <1>1, <1>4, FilteredUsed
<1> HIDE DEF F
<1>6. \A a \in 1 .. Len(F) : F[a].engine # None /\ F[a].split # None
  BY <1>1, <1>3, <1>5
<1>7. SplitPages(F) <= F[Len(F)].cycles - F[1].cycles /\ SplitPages(F) \in Int
  BY <1>5, <1>6, SplitBound
<1>8. U[1].cycles \in Nat /\ U[Len(U)].cycles \in Nat /\ F[Len(F)].cycles \in Nat
  <2>1. 1 \in 1 .. Len(U) /\ Len(U) \in 1 .. Len(U) /\ Len(F) \in 1 .. Len(F)
    BY <1>1, <1>5
  <2>2. \E b \in 1 .. Len(U) : F[Len(F)] = U[b]
    BY <2>1, <1>5
  <2> QED BY <2>1, <2>2, <1>4
<1>9. F[1].cycles = U[1].cycles
  BY <1>5
<1>10. SplitPages(F) <= U[Len(U)].cycles - U[1].cycles
  BY <1>5, <1>7, <1>8, <1>9
<1> QED BY <1>7, <1>10 DEF U, F

\* Of one row or none nothing is billed.
LEMMA NoBill ==
  ASSUME PagesInv, NEW start \in Int, NEW end \in Int, NEW J \in SUBSET Upto(end),
         Len(Used(start, end, J)) <= 1
  PROVE  EnginePages(Filtered(Used(start, end, J), "engine")) = 0
<1> DEFINE U == Used(start, end, J)
           F == Filtered(U, "engine")
<1>1. /\ U \in Seq(Row) /\ Len(U) <= 1
      /\ \A a, b \in 1 .. Len(U) : a < b => Comes(printer, U[a], U[b])
  BY UsedSound
<1> HIDE DEF U
<1>2. \A b \in 1 .. Len(U) : U[b].engine \in Int
  <2>1. \A b \in 1 .. Len(U) : U[b] \in Row
    BY <1>1, ElementOfSeq
  <2> QED BY <2>1 DEF Row, None
<1>3. F \in Seq(Row) /\ Len(F) <= 1
  BY <1>1, <1>2, FilteredUsed
<1> HIDE DEF F
<1>4. EnginePages(F) = 0
  BY <1>3, NoHops
<1> QED BY <1>4 DEF F, U

\* No counter reads low, and a printed counter that some polls do not read is
\* not also billed from a baseline staff entered.
ReadWhole(p) ==
  /\ "dip" \notin p.faults
  /\ p.hasSplit /\ ~p.billEngine => ~({"noSplit", "baseline"} \subseteq p.faults)

\* The rows of a period that is over.
LEMMA RowsInPeriod ==
  ASSUME PagesInv, NEW p \in Periods, Closed(p), Counted # {}
  PROVE  LET start == Starts[p]
             end == ClosingOf(p)
         IN /\ start \in Int /\ end \in Int /\ start <= end
            /\ Upto(end) \subseteq 1 .. Len(metrics) /\ Len(metrics) \in Nat
            /\ InPeriod(start, end) \subseteq Upto(end)
            /\ SplitRows(start, end) \subseteq InPeriod(start, end)
            /\ ByEngine(printer) /\ ~printer.billEngine => SplitRows(start, end) = {}
            /\ printer.hasSplit /\ "dip" \notin printer.faults /\ "noSplit" \notin printer.faults =>
                 SplitRows(start, end) = InPeriod(start, end)
<1> DEFINE start == Starts[p]
           end == ClosingOf(p)
<1>1. start \in Int /\ end \in Int /\ start <= end
  BY ClosedSound DEF ClosingOf
<1> HIDE DEF start, end
<1>2. Upto(end) \subseteq 1 .. Len(metrics) /\ Len(metrics) \in Nat
  BY UptoSound, PagesTypes DEF PagesInv
<1>3. InPeriod(start, end) \subseteq Upto(end)
  BY <1>1, InPeriodSound
<1>4. SplitRows(start, end) \subseteq InPeriod(start, end)
  BY DEF SplitRows
<1>5. \A i \in InPeriod(start, end) :
        /\ metrics[i].split # None => printer.hasSplit
        /\ metrics[i].split = None => May("dip") \/ May("noSplit") \/ ~printer.hasSplit
  BY <1>2, <1>3 DEF PagesInv, SplitsRead, Upto
<1>6. ByEngine(printer) /\ ~printer.billEngine => SplitRows(start, end) = {}
  BY <1>5 DEF SplitRows, ByEngine
<1>7. printer.hasSplit /\ "dip" \notin printer.faults /\ "noSplit" \notin printer.faults =>
        SplitRows(start, end) = InPeriod(start, end)
  BY <1>5 DEF SplitRows, May
<1> QED BY <1>1, <1>2, <1>3, <1>4, <1>6, <1>7 DEF start, end

\* What is read at a period's end was printed after what it begins with.
LEMMA AtOrdered ==
  ASSUME PagesInv, NEW p \in Periods, Closed(p), Counted # {}
  PROVE  /\ At(Starts[p]).cycles \in Nat /\ At(ClosingOf(p)).cycles \in Nat
         /\ At(Starts[p]).cycles <= At(ClosingOf(p)).cycles
<1> DEFINE start == Starts[p]
           end == ClosingOf(p)
           U == Used(start, end, InPeriod(start, end))
<1>1. /\ start \in Int /\ end \in Int /\ start <= end
      /\ InPeriod(start, end) \subseteq Upto(end)
  BY RowsInPeriod
<1>2. At(start) \in Row /\ At(end) \in Row
  BY AtSound
<1>3. At(start).cycles \in Nat /\ At(end).cycles \in Nat
  BY <1>2 DEF Row
<1>4. /\ Upto(end) # {} => Len(U) >= 1 /\ U[1] = At(start) /\ U[Len(U)] = At(end)
      /\ Upto(end) = {} => Len(U) <= 1
      /\ Len(U) <= 1 => At(start) = At(end)
  <2>1. Upto(end) # {} => /\ FirstOf(start, end) \in InPeriod(start, end)
                          /\ Max(Upto(end)) \in InPeriod(start, end)
    BY <1>1, InPeriodSound
  <2> QED BY <2>1, EndsOfUsed
<1>5. Len(U) \in Nat /\ \A a, b \in 1 .. Len(U) : a < b => Comes(printer, U[a], U[b])
  BY <1>1, UsedSound
<1> HIDE DEF U, start, end
<1>6. CASE Len(U) <= 1
  <2>1. At(start) = At(end)
    BY <1>4, <1>6
  <2> QED BY <2>1, <1>3 DEF start, end
<1>7. CASE Len(U) > 1
  <2>1. Upto(end) # {} /\ 1 \in 1 .. Len(U) /\ Len(U) \in 1 .. Len(U) /\ 1 < Len(U)
    BY <1>4, <1>5, <1>7
  <2>2. Comes(printer, U[1], U[Len(U)])
    BY <2>1, <1>5
  <2> QED BY <2>1, <2>2, <1>3, <1>4 DEF Comes, start, end
<1> QED BY <1>5, <1>6, <1>7

(* No period bills more than the cycles between the readings at its ends.   *)
LEMMA PeriodBound ==
  ASSUME PagesInv, NEW p \in Periods, Closed(p), Counted # {}, ReadWhole(printer)
  PROVE  BilledIn(p) \in Int /\ BilledIn(p) <= At(ClosingOf(p)).cycles - At(Starts[p]).cycles
<1> DEFINE start == Starts[p]
           end == ClosingOf(p)
           I == InPeriod(start, end)
           J == SplitRows(start, end)
           E == Used(start, end, I)
           S == Used(start, end, J)
           bound == At(end).cycles - At(start).cycles
<1>1. /\ start \in Int /\ end \in Int /\ start <= end
      /\ Upto(end) \subseteq 1 .. Len(metrics) /\ Len(metrics) \in Nat
      /\ I \subseteq Upto(end) /\ J \subseteq I
      /\ ByEngine(printer) /\ ~printer.billEngine => J = {}
      /\ printer.hasSplit /\ "dip" \notin printer.faults /\ "noSplit" \notin printer.faults => J = I
  BY RowsInPeriod
<1>2. /\ "dip" \notin printer.faults
      /\ ~ByEngine(printer) => "noSplit" \notin printer.faults \/ manual = NoManual
  BY DEF ReadWhole, ByEngine, PagesInv, ManualComes, May
<1>3. /\ At(start) \in Row /\ At(end) \in Row
      /\ At(start).cycles \in Nat /\ At(end).cycles \in Nat /\ At(start).cycles <= At(end).cycles
  BY AtOrdered, AtSound
<1>4. /\ ~printer.billEngine /\ Len(S) >= 2 => BilledIn(p) = SplitPages(Filtered(S, "split"))
      /\ printer.billEngine \/ ~(Len(S) >= 2) => BilledIn(p) = EnginePages(Filtered(E, "engine"))
  <2>1. BilledIn(p) = PagesInPeriod(start, end)
    BY DEF BilledIn, ClosingOf
  <2> QED BY <2>1, PipelineOf
<1>5. Upto(end) # {} => FirstOf(start, end) \in I /\ Max(Upto(end)) \in I
                        /\ \A k \in I : FirstOf(start, end) <= k /\ k <= Max(Upto(end))
  BY <1>1, InPeriodSound
<1>6. /\ Upto(end) # {} => Len(E) >= 1 /\ E[1] = At(start) /\ E[Len(E)] = At(end)
      /\ Upto(end) = {} => Len(E) <= 1
  BY <1>5, EndsOfUsed
<1>7. Len(E) \in Nat /\ Len(S) \in Nat /\ (J = {} => Len(S) <= 1)
  BY <1>1, UsedSound
<1>8. Len(E) <= 1 => EnginePages(Filtered(E, "engine")) = 0
  BY <1>1, NoBill
<1>9. 0 \in Int /\ 0 <= bound
  BY <1>3
<1>10. CASE printer.billEngine \/ ~(Len(S) >= 2)
  <2>1. BilledIn(p) = EnginePages(Filtered(E, "engine"))
    BY <1>4, <1>10
  <2>2. CASE Len(E) <= 1
    BY <2>1, <2>2, <1>8, <1>9
  <2>3. CASE Len(E) > 1 /\ (ByEngine(printer) \/ manual = NoManual)
    <3>1. Upto(end) # {} /\ Len(E) >= 1
      BY <2>3, <1>6, <1>7
    <3>2. /\ EnginePages(Filtered(E, "engine")) \in Int
          /\ EnginePages(Filtered(E, "engine")) <= E[Len(E)].cycles - E[1].cycles
      BY <3>1, <2>3, <1>1, <1>2, EngineBill
    <3> QED BY <2>1, <3>1, <3>2, <1>6
  <2>4. CASE Len(E) > 1 /\ ~ByEngine(printer) /\ manual # NoManual
    <3>1. printer.hasSplit /\ ~printer.billEngine /\ "noSplit" \notin printer.faults
      BY <2>4, <1>2 DEF ByEngine
    <3>2. J = I
      BY <3>1, <1>1, <1>2
    <3>3. S = E /\ ~(Len(S) >= 2)
      BY <3>1, <3>2, <1>10
    <3> HIDE DEF S, E
    <3> QED BY <3>3, <2>4, <1>7
  <2>5. Len(E) <= 1 \/ Len(E) > 1
    BY <1>7
  <2> QED BY <2>2, <2>3, <2>4, <2>5
<1>11. CASE ~printer.billEngine /\ Len(S) >= 2
  <2>1. BilledIn(p) = SplitPages(Filtered(S, "split"))
    BY <1>4, <1>11
  <2>2. J # {} /\ Len(S) >= 1
    <3> HIDE DEF S, J
    <3> QED BY <1>7, <1>11
  <2>3. ~ByEngine(printer) /\ printer.hasSplit
    BY <2>2, <1>1, <1>11 DEF ByEngine
  <2>4. Upto(end) # {}
    BY <2>2, <1>1
  <2>5. /\ SplitPages(Filtered(S, "split")) \in Int
        /\ SplitPages(Filtered(S, "split")) <= S[Len(S)].cycles - S[1].cycles
    <3>1. \A j \in J : metrics[j].split # None
      BY DEF SplitRows
    <3> QED BY <3>1, <2>2, <2>3, <1>1, <1>2, SplitBill
  <2>6. CASE J = I
    <3>1. S[1] = At(start) /\ S[Len(S)] = At(end)
      BY <2>4, <2>6, <1>6
    <3> QED BY <2>1, <2>5, <3>1
  <2>7. CASE manual = NoManual
    <3>1. PICK j \in J : S[Len(S)] = metrics[j]
      BY <1>1, <2>2, UsedSound
    <3>2. PICK i \in J : S[1] = metrics[i]
      <4>1. ~ManualValid(start, end)
        BY <2>7 DEF ManualValid
      <4> QED BY <4>1, <1>1, <2>2, UsedSound
    <3>3. PICK m : m = Max(Upto(end))
      OBVIOUS
    <3>4. PICK k : k = FirstOf(start, end)
      OBVIOUS
    <3>5. At(end) = metrics[m] /\ At(start) = metrics[k]
      <4>1. ~ManualValid(start, end)
        BY <2>7 DEF ManualValid
      <4> QED BY <4>1, <2>4, <3>3, <3>4, AtSound
    <3>6. /\ m \in 1 .. Len(metrics) /\ k \in 1 .. Len(metrics)
          /\ i \in 1 .. Len(metrics) /\ j \in 1 .. Len(metrics)
          /\ k <= i /\ j <= m
      BY <1>1, <1>5, <2>4, <3>1, <3>2, <3>3, <3>4
    <3>7. /\ metrics[k].cycles <= metrics[i].cycles /\ metrics[j].cycles <= metrics[m].cycles
          /\ metrics[k].cycles \in Nat /\ metrics[i].cycles \in Nat
          /\ metrics[j].cycles \in Nat /\ metrics[m].cycles \in Nat
      BY <3>6, RowsOrdered
    <3>8. SplitPages(Filtered(S, "split")) <= metrics[j].cycles - metrics[i].cycles
      BY <2>5, <3>1, <3>2
    <3>9. bound = metrics[m].cycles - metrics[k].cycles
      BY <3>5
    <3> HIDE DEF S, bound
    <3> QED BY <2>1, <2>5, <3>7, <3>8, <3>9 DEF bound
  <2>8. J = I \/ manual = NoManual
    BY <2>3, <1>1, <1>2
  <2> QED BY <2>6, <2>7, <2>8
<1>12. printer.billEngine \/ ~(Len(S) >= 2) \/ (~printer.billEngine /\ Len(S) >= 2)
  OBVIOUS
<1> QED BY <1>10, <1>11, <1>12

\* A row's counter, which a printer that is never reset counts from the start.
Exact(m) ==
  /\ ByEngine(printer) => m.engine = Installed.engine + m.cycles
  /\ ~ByEngine(printer) => m.split = Installed.printed + m.pages

\* A full reading counts from the start,
LEMMA FullExact ==
  ASSUME PagesInv, NEW m, Full(printer, m)
  PROVE  Exact(m)
  BY DEF Full, Exact, ByEngine

\* and so does a baseline.
LEMMA ManualExact ==
  ASSUME PagesInv, Steady, manual # NoManual
  PROVE  Exact(ManualRow)
<1>1. manual.count = IF BilledByEngine THEN Installed.engine + manual.cycles
                     ELSE Installed.printed + manual.pages
  BY DEF PagesInv, SteadyInv
<1>2. BilledByEngine <=> ByEngine(printer)
  BY DEF BilledByEngine, ByEngine
<1>3. ManualRow.engine = manual.count /\ ManualRow.split = manual.count
      /\ ManualRow.cycles = manual.cycles /\ ManualRow.pages = manual.pages
  BY DEF ManualRow
<1> QED BY <1>1, <1>2, <1>3 DEF Exact

\* What the readings before a closed period's end are.
LEMMA SteadyRows ==
  ASSUME PagesInv, Steady, NEW p \in Periods, Closed(p), Counted # {}
  PROVE  /\ \A i \in Upto(ClosingOf(p)) :
              Full(printer, metrics[i]) \/ (metrics[i].engine = 1 /\ metrics[i].split = None)
         /\ Upto(ClosingOf(p)) # {} =>
              /\ Full(printer, metrics[FirstOf(Starts[p], ClosingOf(p))])
              /\ Full(printer, metrics[Max(Upto(ClosingOf(p)))])
         /\ Upto(ClosingOf(p)) = Upto(Starts[p + 1])
<1> DEFINE start == Starts[p]
           end == ClosingOf(p)
           next == Starts[p + 1]
<1>1. /\ start \in Nat /\ next \in Nat /\ end \in Int /\ start <= end /\ end = next - 1
      /\ start <= now /\ next <= now /\ now \in Nat
      /\ start \in FirstInstants /\ next \in FirstInstants
  <2>1. p \in 1 .. Len(Starts) /\ p + 1 \in 1 .. Len(Starts)
    BY PagesAssumption, LenProperties DEF Periods
  <2>2. start \in FirstInstants /\ next \in FirstInstants
    BY <2>1 DEF FirstInstants
  <2>3. now \in Nat
    BY PagesTypes DEF PagesInv
  <2>4. start \in Nat /\ next \in Nat /\ start <= next - 1 /\ next - 1 < now
    BY ClosedSound
  <2>5. next <= now
    BY DEF Closed
  <2> HIDE DEF start, next
  <2> QED BY <2>2, <2>3, <2>4, <2>5 DEF ClosingOf, next
<1> HIDE DEF start, next
<1>2. /\ \A i \in 1 .. Len(metrics) : HasCounter(metrics[i]) => SteadyRow(i)
      /\ \A i \in 1 .. Len(metrics) : metrics[i].at \in Nat
      /\ \A i, j \in 1 .. Len(metrics) : i < j => metrics[i].at < metrics[j].at
      /\ Len(metrics) \in Nat
  <2>1. \A i \in 1 .. Len(metrics) : metrics[i] \in MetricRow
    BY PagesTypes DEF PagesInv
  <2>2. LastInstant \in Nat
    BY PagesTypes DEF PagesInv
  <2>3. ASSUME NEW i \in 1 .. Len(metrics) PROVE metrics[i].at \in Nat
    <3>1. metrics[i].at \in 0 .. LastInstant
      BY <2>1, Zenon DEF MetricRow
    <3> QED BY <3>1, <2>2
  <2>4. \A i \in 1 .. Len(metrics) : HasCounter(metrics[i]) => SteadyRow(i)
    BY DEF PagesInv, SteadyInv
  <2>5. \A i, j \in 1 .. Len(metrics) : i < j => metrics[i].at < metrics[j].at
    BY DEF PagesInv, PagesTypeOK
  <2> QED BY <2>3, <2>4, <2>5, PagesTypes DEF PagesInv
<1>3. \A i \in 1 .. Len(metrics) : Full(printer, metrics[i]) => HasCounter(metrics[i])
  <2>1. SUFFICES ASSUME NEW i \in 1 .. Len(metrics), Full(printer, metrics[i]) PROVE HasCounter(metrics[i])
    OBVIOUS
  <2>2. metrics[i] \in Row
    BY PagesTypes DEF PagesInv
  <2>3. metrics[i].cycles \in Nat /\ Installed.engine \in Nat
    BY <2>2, PagesAssumption DEF Row
  <2> QED BY <2>1, <2>3 DEF Full, HasCounter, None
<1>4. /\ \A i : i \in Upto(end) <=> i \in 1 .. Len(metrics) /\ HasCounter(metrics[i]) /\ metrics[i].at <= end
      /\ \A i : i \in Upto(start) <=> i \in 1 .. Len(metrics) /\ HasCounter(metrics[i]) /\ metrics[i].at <= start
      /\ \A i : i \in Upto(next) <=> i \in 1 .. Len(metrics) /\ HasCounter(metrics[i]) /\ metrics[i].at <= next
  BY DEF Upto
<1>5. ASSUME NEW i \in Upto(end)
      PROVE  Full(printer, metrics[i]) \/ (metrics[i].engine = 1 /\ metrics[i].split = None)
  BY <1>2, <1>4 DEF SteadyRow
<1>6. ASSUME NEW t \in Nat, t \in FirstInstants, t <= now, NEW S,
             \A i : i \in S <=> i \in 1 .. Len(metrics) /\ HasCounter(metrics[i]) /\ metrics[i].at < t,
             NEW m \in S, \A k \in S : k <= m
      PROVE  Full(printer, metrics[m])
  <2>1. PICK j \in m .. Len(metrics) : Full(printer, metrics[j]) /\ metrics[j].at < t
    BY <1>2, <1>6 DEF SteadyRow
  <2>2. m \in 1 .. Len(metrics)
    BY <1>6
  <2>3. j \in 1 .. Len(metrics)
    BY <2>1, <2>2
  <2>4. j \in S
    BY <1>3, <1>6, <2>1, <2>3
  <2>5. j = m
    BY <2>1, <2>2, <2>4, <1>6
  <2> QED BY <2>1, <2>5
<1>7. \A i : i \in Upto(end) <=> i \in 1 .. Len(metrics) /\ HasCounter(metrics[i]) /\ metrics[i].at < next
  BY <1>1, <1>2, <1>4
<1>8. \A i : i \in Upto(start) <=> i \in 1 .. Len(metrics) /\ HasCounter(metrics[i]) /\ metrics[i].at < start
  BY <1>1, <1>2, <1>4 DEF SteadyRow
<1>9. Upto(end) # {} => Full(printer, metrics[Max(Upto(end))])
  BY <1>1, <1>6, <1>7, BaselineSound
<1>10. Upto(start) # {} => Full(printer, metrics[Max(Upto(start))])
  BY <1>1, <1>6, <1>8, BaselineSound
<1>11. ASSUME Upto(end) # {}, Upto(start) = {} PROVE Full(printer, metrics[Min(Upto(end))])
  <2>1. PICK m : m = Min(Upto(end))
    OBVIOUS
  <2>2. m \in Upto(end) /\ \A k \in Upto(end) : m <= k
    BY <2>1, <1>11, BaselineSound
  <2>3. PICK j \in 1 .. m : Full(printer, metrics[j])
    BY <2>2, <1>2, <1>4 DEF SteadyRow
  <2>4. j \in 1 .. Len(metrics) /\ m \in 1 .. Len(metrics) /\ (j = m \/ j < m)
    BY <2>2, <2>3, <1>2, <1>4
  <2>5. metrics[m].at < next
    BY <2>2, <1>7
  <2>6. metrics[j].at < next
    BY <2>4, <2>5, <1>1, <1>2
  <2>7. j \in Upto(end)
    BY <2>3, <2>4, <2>6, <1>3, <1>7
  <2>8. j = m
    BY <2>2, <2>4, <2>7
  <2> QED BY <2>1, <2>3, <2>8
<1>12. Upto(end) = Upto(next)
  <2>1. \A i : i \in Upto(next) => metrics[i].at # next
    BY <1>1, <1>2, <1>4 DEF SteadyRow
  <2>2. \A i : i \in Upto(next) <=> i \in Upto(end)
    BY <2>1, <1>1, <1>2, <1>4, <1>7
  <2> QED BY <2>2, Zenon
<1> QED BY <1>5, <1>9, <1>10, <1>11, <1>12 DEF FirstOf, start, next

\* A bill over rows of which the last counts the most.
LEMMA ExactBill ==
  ASSUME NEW U \in Seq(Row), Len(U) >= 1,
         \A a, b \in 1 .. Len(U) : a < b => Comes(printer, U[a], U[b])
  PROVE  /\ (\A b \in 1 .. Len(U) : U[b].engine <= U[Len(U)].engine) =>
              EnginePages(Filtered(U, "engine")) = U[Len(U)].engine - U[1].engine
         /\ (\A b \in 1 .. Len(U) : U[b].split <= U[Len(U)].split) =>
              SplitPages(Filtered(U, "split")) = U[Len(U)].split - U[1].split
<1>1. \A b \in 1 .. Len(U) : U[b].engine \in Int /\ U[b].split \in Int
  <2>1. \A b \in 1 .. Len(U) : U[b] \in Row
    BY ElementOfSeq
  <2> QED BY <2>1 DEF Row, None
<1>2. ASSUME \A b \in 1 .. Len(U) : U[b].engine <= U[Len(U)].engine
      PROVE  EnginePages(Filtered(U, "engine")) = U[Len(U)].engine - U[1].engine
  <2> DEFINE F == Filtered(U, "engine")
  <2>1. /\ F \in Seq(Row) /\ Len(F) >= 1 /\ F[1] = U[1] /\ F[Len(F)] = U[Len(U)]
        /\ \A a \in 2 .. Len(F) : F[a - 1].engine <= F[a].engine
    BY <1>1, <1>2, FilteredUsed
  <2> HIDE DEF F
  <2>2. EnginePages(F) = F[Len(F)].engine - F[1].engine
    BY <2>1, EngineExact
  <2>3. EnginePages(F) = U[Len(U)].engine - U[1].engine
    BY <2>1, <2>2
  <2> QED BY <2>3 DEF F
<1>3. ASSUME \A b \in 1 .. Len(U) : U[b].split <= U[Len(U)].split
      PROVE  SplitPages(Filtered(U, "split")) = U[Len(U)].split - U[1].split
  <2> DEFINE F == Filtered(U, "split")
  <2>1. /\ F \in Seq(Row) /\ Len(F) >= 1 /\ F[1] = U[1] /\ F[Len(F)] = U[Len(U)]
        /\ \A a \in 2 .. Len(F) : F[a - 1].split <= F[a].split
    BY <1>1, <1>3, FilteredUsed
  <2> HIDE DEF F
  <2>2. SplitPages(F) = F[Len(F)].split - F[1].split
    BY <2>1, SplitExact
  <2>3. SplitPages(F) = U[Len(U)].split - U[1].split
    BY <2>1, <2>2
  <2> QED BY <2>3 DEF F
<1> QED BY <1>2, <1>3

\* Of the rows of a printer that is never reset the last counts the most.
LEMMA LastIsMost ==
  ASSUME PagesInv, NEW a \in Row, NEW b \in Row, Exact(b),
         Exact(a) \/ (ByEngine(printer) /\ a.engine = 1),
         a = b \/ Comes(printer, a, b)
  PROVE  /\ ByEngine(printer) => a.engine <= b.engine
         /\ ~ByEngine(printer) => a.split <= b.split
<1>1. /\ Installed.engine \in Nat /\ Installed.engine >= 1 /\ Installed.printed \in Nat
  BY PagesAssumption
<1>2. /\ a.cycles \in Nat /\ b.cycles \in Nat /\ a.pages \in Nat /\ b.pages \in Nat
      /\ a.engine \in Int /\ b.engine \in Int /\ a.split \in Int /\ b.split \in Int
  BY DEF Row, None
<1>3. a.cycles <= b.cycles /\ a.pages <= b.pages
  BY <1>2 DEF Comes
<1>4. CASE Exact(a)
  <2>1. ByEngine(printer) => a.engine = Installed.engine + a.cycles /\ b.engine = Installed.engine + b.cycles
    BY <1>4 DEF Exact
  <2>2. ~ByEngine(printer) => a.split = Installed.printed + a.pages /\ b.split = Installed.printed + b.pages
    BY <1>4 DEF Exact
  <2>3. ByEngine(printer) => a.engine <= b.engine
    BY <2>1, <1>1, <1>2, <1>3
  <2>4. ~ByEngine(printer) => a.split <= b.split
    BY <2>2, <1>1, <1>2, <1>3
  <2> QED BY <2>3, <2>4
<1>5. CASE ByEngine(printer) /\ a.engine = 1
  <2>1. b.engine = Installed.engine + b.cycles
    BY <1>5 DEF Exact
  <2>2. a.engine <= b.engine
    BY <2>1, <1>1, <1>2, <1>5
  <2> QED BY <2>2, <1>5
<1> QED BY <1>4, <1>5

\* The rows of such a printer's bill, and what it comes to.
LEMMA SteadyBill ==
  ASSUME PagesInv, Steady, NEW p \in Periods, Closed(p), Counted # {},
         NEW J \in SUBSET InPeriod(Starts[p], ClosingOf(p)),
         FirstOf(Starts[p], ClosingOf(p)) \in J, Max(Upto(ClosingOf(p))) \in J,
         Upto(ClosingOf(p)) # {},
         ~ByEngine(printer) => \A j \in J : metrics[j].split # None
  PROVE  LET U == Used(Starts[p], ClosingOf(p), J)
         IN /\ ByEngine(printer) =>
                 EnginePages(Filtered(U, "engine")) = At(ClosingOf(p)).cycles - At(Starts[p]).cycles
            /\ ~ByEngine(printer) =>
                 SplitPages(Filtered(U, "split")) = At(ClosingOf(p)).pages - At(Starts[p]).pages
<1> DEFINE start == Starts[p]
           end == ClosingOf(p)
           U == Used(start, end, J)
<1>1. /\ start \in Int /\ end \in Int /\ Upto(end) \subseteq 1 .. Len(metrics)
      /\ J \subseteq Upto(end)
  BY RowsInPeriod
<1>2. /\ Len(U) >= 1 /\ U[1] = At(start) /\ U[Len(U)] = At(end)
  BY EndsOfUsed
<1>3. /\ U \in Seq(Row) /\ Len(U) \in Nat
      /\ \A a, b \in 1 .. Len(U) : a < b => Comes(printer, U[a], U[b])
      /\ \A b \in 1 .. Len(U) : \/ U[b] = ManualRow /\ b = 1 /\ manual # NoManual
                                \/ \E j \in J : U[b] = metrics[j]
  BY <1>1, UsedSound
<1>4. \A j \in J : Exact(metrics[j]) \/ (ByEngine(printer) /\ metrics[j].engine = 1)
  <2>1. \A j \in J : Full(printer, metrics[j]) \/ (metrics[j].engine = 1 /\ metrics[j].split = None)
    BY <1>1, SteadyRows
  <2> QED BY <2>1, FullExact
<1>5. Exact(At(end)) /\ Exact(At(start))
  <2>1. Full(printer, metrics[FirstOf(start, end)]) /\ Full(printer, metrics[Max(Upto(end))])
    BY SteadyRows
  <2>2. /\ At(end) = metrics[Max(Upto(end))]
        /\ (At(start) = ManualRow /\ manual # NoManual) \/ At(start) = metrics[FirstOf(start, end)]
    <3>1. ManualValid(start, end) => manual # NoManual
      BY DEF ManualValid
    <3>2. LET f == FirstOf(Starts[p], ClosingOf(p))
              helps == ManualValid(Starts[p], ClosingOf(p)) /\ manual.at < metrics[f].at
          IN /\ At(ClosingOf(p)) = metrics[Max(Upto(ClosingOf(p)))]
             /\ helps => At(Starts[p]) = ManualRow
             /\ ~helps => At(Starts[p]) = metrics[f]
      BY AtSound
    <3> QED BY <3>1, <3>2
  <2> QED BY <2>1, <2>2, FullExact, ManualExact
<1> HIDE DEF U
<1>6. 1 \in 1 .. Len(U) /\ Len(U) \in 1 .. Len(U) /\ \A b \in 1 .. Len(U) : U[b] \in Row
  BY <1>2, <1>3, ElementOfSeq
<1>7. ASSUME NEW b \in 1 .. Len(U)
      PROVE  /\ ByEngine(printer) => U[b].engine <= U[Len(U)].engine
             /\ ~ByEngine(printer) => U[b].split <= U[Len(U)].split
  <2>1. Exact(U[b]) \/ (ByEngine(printer) /\ U[b].engine = 1)
    BY <1>3, <1>4, ManualExact
  <2>2. Exact(U[Len(U)])
    BY <1>2, <1>5
  <2>3. b = Len(U) \/ b < Len(U)
    BY <1>3
  <2>4. U[b] = U[Len(U)] \/ Comes(printer, U[b], U[Len(U)])
    BY <2>3, <1>3, <1>6
  <2> QED BY <2>1, <2>2, <2>4, <1>6, LastIsMost
<1>8. /\ At(start).cycles \in Nat /\ At(end).cycles \in Nat /\ At(start).pages \in Nat /\ At(end).pages \in Nat
      /\ Installed.engine \in Nat /\ Installed.printed \in Nat
  <2>1. At(start) \in Row /\ At(end) \in Row
    BY <1>2, <1>6
  <2> QED BY <2>1, PagesAssumption DEF Row
<1>9. ASSUME ByEngine(printer) PROVE EnginePages(Filtered(U, "engine")) = At(end).cycles - At(start).cycles
  <2>1. EnginePages(Filtered(U, "engine")) = U[Len(U)].engine - U[1].engine
    BY <1>2, <1>3, <1>7, <1>9, ExactBill
  <2>2. At(end).engine = Installed.engine + At(end).cycles /\ At(start).engine = Installed.engine + At(start).cycles
    BY <1>5, <1>9 DEF Exact
  <2> HIDE DEF start, end
  <2> QED BY <2>1, <2>2, <1>2, <1>8
<1>10. ASSUME ~ByEngine(printer) PROVE SplitPages(Filtered(U, "split")) = At(end).pages - At(start).pages
  <2>1. SplitPages(Filtered(U, "split")) = U[Len(U)].split - U[1].split
    BY <1>2, <1>3, <1>7, <1>10, ExactBill
  <2>2. At(end).split = Installed.printed + At(end).pages /\ At(start).split = Installed.printed + At(start).pages
    BY <1>5, <1>10 DEF Exact
  <2> HIDE DEF start, end
  <2> QED BY <2>1, <2>2, <1>2, <1>8
<1> QED BY <1>9, <1>10 DEF U, start, end

(* While no counter is reset a period bills what was printed between the    *)
(* readings at its ends.                                                    *)
LEMMA PeriodExact ==
  ASSUME PagesInv, Steady, NEW p \in Periods, Closed(p), Counted # {}
  PROVE  BilledIn(p) = Really(At(ClosingOf(p))) - Really(At(Starts[p]))
<1> DEFINE start == Starts[p]
           end == ClosingOf(p)
           I == InPeriod(start, end)
           J == SplitRows(start, end)
           E == Used(start, end, I)
           S == Used(start, end, J)
<1>1. /\ start \in Int /\ end \in Int /\ start <= end
      /\ Upto(end) \subseteq 1 .. Len(metrics) /\ Len(metrics) \in Nat
      /\ I \subseteq Upto(end) /\ J \subseteq I
      /\ ByEngine(printer) /\ ~printer.billEngine => J = {}
  BY RowsInPeriod
<1>2. /\ ~printer.billEngine /\ Len(S) >= 2 => BilledIn(p) = SplitPages(Filtered(S, "split"))
      /\ printer.billEngine \/ ~(Len(S) >= 2) => BilledIn(p) = EnginePages(Filtered(E, "engine"))
  <2>1. BilledIn(p) = PagesInPeriod(start, end)
    BY DEF BilledIn, ClosingOf
  <2> QED BY <2>1, PipelineOf
<1>3. Upto(end) # {} => FirstOf(start, end) \in I /\ Max(Upto(end)) \in I
                        /\ \A k \in I : FirstOf(start, end) <= k /\ k <= Max(Upto(end))
  BY <1>1, InPeriodSound
<1>4. ~ByEngine(printer) /\ Upto(end) # {} => FirstOf(start, end) \in J /\ Max(Upto(end)) \in J
  <2>1. SUFFICES ASSUME ~ByEngine(printer), Upto(end) # {}
                 PROVE  metrics[FirstOf(start, end)].split # None /\ metrics[Max(Upto(end))].split # None
    BY <1>3 DEF SplitRows
  <2>2. \A i \in 1 .. Len(metrics) : metrics[i].pages \in Nat
    <3>1. \A i \in 1 .. Len(metrics) : metrics[i] \in Row
      BY PagesTypes DEF PagesInv
    <3> QED BY <3>1 DEF Row
  <2>3. \A i \in 1 .. Len(metrics) : Full(printer, metrics[i]) => metrics[i].split # None
    BY <2>1, <2>2, PagesAssumption DEF Full, ByEngine, None
  <2> QED BY <2>1, <2>3, <1>1, <1>3, SteadyRows
<1>5. BilledByEngine <=> ByEngine(printer)
  BY DEF BilledByEngine, ByEngine
<1>6. /\ At(start).cycles \in Nat /\ At(start).pages \in Nat
  <2>1. At(start) \in Row
    BY AtSound
  <2> QED BY <2>1 DEF Row
<1>7. Len(E) \in Nat /\ Len(S) \in Nat /\ (J = {} => Len(S) <= 1)
  BY <1>1, UsedSound
<1>8. ASSUME Len(E) <= 1, BilledIn(p) = EnginePages(Filtered(E, "engine"))
      PROVE  BilledIn(p) = Really(At(end)) - Really(At(start))
  <2>1. BilledIn(p) = 0
    BY <1>1, <1>8, NoBill
  <2>2. At(start) = At(end)
    BY <1>3, <1>8, EndsOfUsed
  <2>3. Really(At(start)) \in Nat
    BY <1>6 DEF Really
  <2> QED BY <2>1, <2>2, <2>3
<1>9. CASE Upto(end) = {}
  <2>1. I = {} /\ J = {}
    BY <1>1, <1>9
  <2>2. Len(E) <= 1 /\ Len(S) <= 1
    BY <2>1, <1>7
  <2>3. ~(Len(S) >= 2)
    <3> HIDE DEF S
    <3> QED BY <2>2, <1>7
  <2> QED BY <2>2, <2>3, <1>2, <1>8
<1>10. CASE Upto(end) # {} /\ ByEngine(printer)
  <2>1. printer.billEngine \/ Len(S) <= 1
    BY <1>1, <1>7, <1>10 DEF ByEngine
  <2>2. printer.billEngine \/ ~(Len(S) >= 2)
    <3> HIDE DEF S
    <3> QED BY <2>1, <1>7
  <2>3. BilledIn(p) = EnginePages(Filtered(E, "engine"))
    BY <2>2, <1>2
  <2>4. EnginePages(Filtered(E, "engine")) = At(end).cycles - At(start).cycles
    BY <1>3, <1>10, SteadyBill
  <2> QED BY <2>3, <2>4, <1>5, <1>10 DEF Really
<1>11. CASE Upto(end) # {} /\ ~ByEngine(printer) /\ Len(S) >= 2
  <2>1. BilledIn(p) = SplitPages(Filtered(S, "split"))
    BY <1>2, <1>11 DEF ByEngine
  <2>2. \A j \in J : metrics[j].split # None
    BY DEF SplitRows
  <2>3. SplitPages(Filtered(S, "split")) = At(end).pages - At(start).pages
    BY <2>2, <1>1, <1>4, <1>11, SteadyBill
  <2> QED BY <2>1, <2>3, <1>5, <1>11 DEF Really
<1>12. CASE Upto(end) # {} /\ ~ByEngine(printer) /\ ~(Len(S) >= 2)
  <2>1. J # {} /\ Len(S) >= 1
    BY <1>1, <1>4, <1>12, UsedSound
  <2>2. Len(S) = 1
    <3> HIDE DEF S
    <3>1. \A n \in Nat : n >= 1 /\ ~(n >= 2) => n = 1
      OBVIOUS
    <3> QED BY <2>1, <3>1, <1>7, <1>12
  <2>3. PICK j : J = {j}
    <3>1. J \in SUBSET Upto(end)
      BY <1>1
    <3>2. J # {} /\ Len(S) = 1 => \E j : J = {j}
      <4>1. start \in Int /\ end \in Int
        BY <1>1
      <4> QED BY <3>1, <4>1, UsedSound, ZenonT(40)
    <3> QED BY <3>2, <2>1, <2>2, Zenon
  <2>4. PICK m : m = Max(Upto(end))
    OBVIOUS
  <2>5. PICK k : k = FirstOf(start, end)
    OBVIOUS
  <2>6. m = j /\ k = j /\ j \in I /\ I \subseteq 1 .. Len(metrics)
    BY <2>3, <2>4, <2>5, <1>1, <1>4, <1>12
  <2>7. \A i \in I : k <= i /\ i <= m
    BY <2>4, <2>5, <1>3, <1>12
  <2>8. \A i \in I : i = j
    BY <2>6, <2>7
  <2>9. I = J
    BY <2>3, <2>6, <2>8
  <2>10. E = S /\ Len(E) <= 1
    <3>1. E = S
      BY <2>9
    <3> HIDE DEF E, S
    <3>2. 1 <= 1
      OBVIOUS
    <3> QED BY <2>2, <3>1, <3>2, Zenon
  <2>11. BilledIn(p) = EnginePages(Filtered(E, "engine"))
    BY <1>2, <1>12
  <2> QED BY <2>10, <2>11, <1>8
<1> QED BY <1>9, <1>10, <1>11, <1>12

(* The bills of the closed periods, one after the other.                    *)
LEMMA BillsTelescope ==
  ASSUME PagesInv, ClosedPeriods # {},
         NEW a \in [Periods -> Int], NEW b \in [Periods -> Int],
         \A p \in ClosedPeriods : BilledIn(p) \in Int /\ BilledIn(p) <= b[p] - a[p],
         \A p \in ClosedPeriods : p > 1 => b[p - 1] <= a[p]
  PROVE  /\ Billed \in Int /\ Billed <= b[Max(ClosedPeriods)] - a[1]
         /\ (\A p \in ClosedPeriods : BilledIn(p) = b[p] - a[p] /\ (p > 1 => b[p - 1] = a[p])) =>
              Billed = b[Max(ClosedPeriods)] - a[1]
<1> DEFINE L == Len(Starts) - 1
           h == [p \in Periods |-> IF Closed(p) THEN BilledIn(p) ELSE 0]
<1>1. L \in Nat /\ L >= 1 /\ Periods = 1 .. L
  BY PagesAssumption, LenProperties DEF Periods
<1>2. PICK M : M = Max(ClosedPeriods)
  OBVIOUS
<1>3. M \in 1 .. L /\ ClosedPeriods = 1 .. M
  <2>1. PICK p \in Periods : Closed(p)
    BY DEF ClosedPeriods
  <2> QED BY <2>1, <1>1, <1>2, ClosedSound
<1> DEFINE w == [i \in 0 .. L |-> IF i = 0 THEN a[1] ELSE IF i <= M THEN b[i] ELSE b[M]]
<1> HIDE DEF L
<1>4. \A i \in 1 .. L : (i \in ClosedPeriods <=> Closed(i)) /\ (i \in ClosedPeriods <=> i <= M)
  <2>1. \A i \in 1 .. L : i \in ClosedPeriods <=> Closed(i)
    BY <1>1, Zenon DEF ClosedPeriods
  <2>2. \A i \in 1 .. L : i \in 1 .. M <=> i <= M
    BY <1>1, <1>3
  <2> QED BY <2>1, <2>2, <1>3, Zenon
<1>5. \A i \in 1 .. M : h[i] = BilledIn(i) /\ w[i] = b[i]
  BY <1>1, <1>3, <1>4
<1>6. \A i \in 1 .. L : i > M => h[i] = 0 /\ w[i] = b[M]
  BY <1>1, <1>3, <1>4
<1>7. h \in Seq(Int) /\ Len(h) = L
  <2>1. \A i \in 1 .. L : h[i] \in Int
    BY <1>1, <1>3, <1>4
  <2>2. h \in [1 .. L -> Int]
    BY <2>1, <1>1
  <2> QED BY <2>2, <1>1
<1>8. w[0] = a[1] /\ \A i \in 0 .. L : w[i] \in Int
  <2>1. a[1] \in Int /\ \A i \in 1 .. L : b[i] \in Int
    BY <1>1
  <2>2. b[M] \in Int
    BY <2>1, <1>3
  <2> QED BY <2>1, <2>2, <1>1, <1>3
<1>9. \A i \in 1 .. M : a[i] \in Int /\ b[i] \in Int /\ BilledIn(i) \in Int
  BY <1>1, <1>3
<1>10. Billed = Total(h)
  BY DEF Billed
<1>11. w[L] = b[M]
  BY <1>1, <1>3, <1>5, <1>6
<1> HIDE DEF h, w
<1>12. ASSUME NEW i \in 1 .. L
       PROVE  h[i] <= w[i] - w[i - 1]
  <2>1. CASE i = 1
    <3>1. 1 \in 1 .. M /\ 1 - 1 = 0
      BY <1>1, <1>3
    <3>2. BilledIn(1) <= b[1] - a[1]
      BY <3>1, <1>3
    <3> QED BY <2>1, <3>1, <3>2, <1>5, <1>8
  <2>2. CASE i > 1 /\ i <= M
    <3>1. i \in 1 .. M /\ i - 1 \in 1 .. M
      BY <2>2, <1>1, <1>3
    <3>2. BilledIn(i) <= b[i] - a[i] /\ b[i - 1] <= a[i]
      BY <2>2, <3>1, <1>3
    <3>3. h[i] = BilledIn(i) /\ w[i] = b[i] /\ w[i - 1] = b[i - 1]
      BY <3>1, <1>5
    <3>4. BilledIn(i) \in Int /\ b[i] \in Int /\ a[i] \in Int /\ b[i - 1] \in Int
      BY <3>1, <1>9
    <3> QED BY <3>2, <3>3, <3>4
  <2>3. CASE i > M
    <3>1. h[i] = 0 /\ w[i] = b[M]
      BY <2>3, <1>6
    <3>2. w[i - 1] = b[M]
      <4>1. CASE i - 1 = M
        BY <4>1, <1>3, <1>5
      <4>2. CASE i - 1 > M
        <5>1. i - 1 \in 1 .. L
          BY <4>2, <1>1, <1>3
        <5> QED BY <5>1, <4>2, <1>6
      <4> QED BY <2>3, <4>1, <4>2, <1>1, <1>3
    <3>3. b[M] \in Int
      BY <1>3, <1>9
    <3> QED BY <3>1, <3>2, <3>3
  <2> QED BY <2>1, <2>2, <2>3, <1>1, <1>3
<1>13. ASSUME \A p \in ClosedPeriods : BilledIn(p) = b[p] - a[p] /\ (p > 1 => b[p - 1] = a[p]),
              NEW i \in 1 .. L
       PROVE  h[i] = w[i] - w[i - 1]
  <2>1. CASE i = 1
    <3>1. 1 \in 1 .. M /\ 1 - 1 = 0
      BY <1>1, <1>3
    <3>2. BilledIn(1) = b[1] - a[1]
      BY <3>1, <1>3, <1>13
    <3> QED BY <2>1, <3>1, <3>2, <1>5, <1>8
  <2>2. CASE i > 1 /\ i <= M
    <3>1. i \in 1 .. M /\ i - 1 \in 1 .. M
      BY <2>2, <1>1, <1>3
    <3>2. BilledIn(i) = b[i] - a[i] /\ b[i - 1] = a[i]
      BY <2>2, <3>1, <1>3, <1>13
    <3>3. h[i] = BilledIn(i) /\ w[i] = b[i] /\ w[i - 1] = b[i - 1]
      BY <3>1, <1>5
    <3> QED BY <3>2, <3>3
  <2>3. CASE i > M
    <3>1. h[i] = 0 /\ w[i] = b[M]
      BY <2>3, <1>6
    <3>2. w[i - 1] = b[M]
      <4>1. CASE i - 1 = M
        BY <4>1, <1>3, <1>5
      <4>2. CASE i - 1 > M
        <5>1. i - 1 \in 1 .. L
          BY <4>2, <1>1, <1>3
        <5> QED BY <5>1, <4>2, <1>6
      <4> QED BY <2>3, <4>1, <4>2, <1>1, <1>3
    <3>3. b[M] \in Int
      BY <1>3, <1>9
    <3> QED BY <3>1, <3>2, <3>3
  <2> QED BY <2>1, <2>2, <2>3, <1>1, <1>3
<1>14. /\ Total(h) \in Int /\ Total(h) <= w[L] - w[0]
       /\ (\A i \in 1 .. L : h[i] = w[i] - w[i - 1]) => Total(h) = w[L] - w[0]
  BY <1>7, <1>8, <1>12, TotalTelescopes
<1> QED BY <1>2, <1>8, <1>10, <1>11, <1>13, <1>14

\* Where the closed periods begin and end.
LEMMA WholeSpan ==
  ASSUME PagesInv, ClosedPeriods # {}, Counted # {}
  PROVE  /\ Max(ClosedPeriods) \in Periods /\ Closed(Max(ClosedPeriods)) /\ 1 \in Periods /\ Closed(1)
         /\ At(Starts[1]) = Anchor
         /\ At(ClosingOf(Max(ClosedPeriods))) = metrics[Max(Counted)]
         /\ Max(Counted) \in 1 .. Len(metrics)
<1>1. PICK p \in Periods : Closed(p)
  BY DEF ClosedPeriods
<1>2. PICK M : M = Max(ClosedPeriods)
  OBVIOUS
<1>3. M \in Periods /\ p <= M /\ ClosedPeriods = 1 .. M /\ p \in Nat /\ p >= 1
  <2>1. p \in Nat /\ p >= 1
    BY <1>1, PagesAssumption, LenProperties DEF Periods
  <2> QED BY <2>1, <1>1, <1>2, ClosedSound
<1>4. 1 \in ClosedPeriods /\ M \in ClosedPeriods
  BY <1>3, PagesAssumption, LenProperties DEF Periods
<1>5. 1 \in Periods /\ Closed(1) /\ Closed(M)
  BY <1>4 DEF ClosedPeriods
<1>6. Upto(ClosingOf(M)) = Counted
  BY <1>2 DEF Counted, ClosingOf
<1>7. At(ClosingOf(M)) = metrics[Max(Counted)]
  BY <1>6 DEF At
<1>8. Max(Counted) \in 1 .. Len(metrics)
  BY <1>6, BaselineSound, UptoSound
<1>9. At(Starts[1]) = Anchor
  <2>1. CASE Upto(Starts[1]) = {}
    BY <2>1 DEF At
  <2>2. CASE Upto(Starts[1]) # {}
    <3>1. PICK x : x = Max(Upto(Starts[1]))
      OBVIOUS
    <3>2. Baseline(Starts[1]) = {x} /\ x \in 1 .. Len(metrics)
      BY <3>1, <2>2, BaselineSound, UptoSound DEF BaselineOf
    <3>3. Len(metrics) \in Nat
      BY PagesTypes DEF PagesInv
    <3>4. Max({x}) = x
      <4>1. {x} \in SUBSET (1 .. Len(metrics)) /\ {x} # {}
        BY <3>2
      <4>2. Max({x}) \in {x}
        BY <4>1, <3>3, ExtremesOf
      <4> QED BY <4>2
    <3>5. Anchor = metrics[Max({x})]
      BY <3>2 DEF Anchor
    <3>6. At(Starts[1]) = metrics[x]
      BY <2>2, <3>1 DEF At
    <3> QED BY <3>4, <3>5, <3>6
  <2> QED BY <2>1, <2>2
<1> QED BY <1>2, <1>3, <1>5, <1>7, <1>8, <1>9

\* From one period to the next.
LEMMA AtBetween ==
  ASSUME PagesInv, NEW p \in Periods, p > 1, Closed(p), Counted # {}
  PROVE  /\ p - 1 \in Periods /\ Closed(p - 1)
         /\ At(ClosingOf(p - 1)).cycles <= At(Starts[p]).cycles
<1> DEFINE t == ClosingOf(p - 1)
           u == Starts[p]
<1>1. p \in Nat /\ p - 1 \in Periods /\ p - 1 \in Nat /\ p - 1 >= 1
  BY PagesAssumption, LenProperties DEF Periods
<1>2. Closed(p - 1)
  <2>1. PICK M : M = Max(ClosedPeriods)
    OBVIOUS
  <2>2. M \in Periods /\ p <= M /\ ClosedPeriods = 1 .. M
    BY <2>1, ClosedSound
  <2>3. M \in Nat
    BY <2>2, PagesAssumption, LenProperties DEF Periods
  <2>4. p - 1 \in ClosedPeriods
    BY <2>2, <2>3, <1>1
  <2> QED BY <2>4 DEF ClosedPeriods
<1>3. t = u - 1 /\ t \in Int /\ u \in Int
  <2>1. (p - 1) + 1 = p
    BY <1>1
  <2>2. u \in Int
    BY ClosedSound
  <2> QED BY <2>1, <2>2 DEF ClosingOf
<1>4. Upto(t) \subseteq Upto(u) /\ Upto(u) \subseteq Counted /\ Upto(Starts[1]) \subseteq Upto(t)
  <2>1. /\ u <= Starts[p + 1] - 1 /\ Starts[p + 1] - 1 \in Int
        /\ Starts[p + 1] - 1 <= Starts[Max(ClosedPeriods) + 1] - 1
        /\ Starts[Max(ClosedPeriods) + 1] - 1 \in Int
    BY ClosedSound
  <2>2. Starts[1] \in Int /\ Starts[1] <= t
    <3>1. /\ Starts[1] \in Nat /\ Starts[1] <= Starts[p - 1] /\ Starts[p - 1] \in Nat
          /\ Starts[p - 1] <= Starts[(p - 1) + 1] - 1
      BY <1>1, <1>2, ClosedSound
    <3>2. (p - 1) + 1 = p
      BY <1>1
    <3> QED BY <3>1, <3>2, <1>3
  <2> HIDE DEF t, u
  <2>3. t <= u /\ u <= Starts[Max(ClosedPeriods) + 1] - 1
    BY <2>1, <1>3
  <2> QED BY <2>1, <2>2, <2>3, <1>3, UptoSound DEF Counted
<1>5. CASE Upto(t) # {}
  <2>1. PICK i : i = Max(Upto(t))
    OBVIOUS
  <2>2. PICK j : j = Max(Upto(u))
    OBVIOUS
  <2>3. At(t) = metrics[i] /\ At(u) = metrics[j]
    BY <2>1, <2>2, <1>4, <1>5 DEF At
  <2>4. i \in 1 .. Len(metrics) /\ j \in 1 .. Len(metrics) /\ i <= j
    BY <2>1, <2>2, <1>4, <1>5, BaselineSound, UptoSound
  <2> QED BY <2>3, <2>4, <1>1, <1>2, RowsOrdered
<1>6. CASE Upto(t) = {} /\ Upto(u) # {}
  <2>1. PICK j : j = Max(Upto(u))
    OBVIOUS
  <2>2. At(t) = Anchor /\ At(u) = metrics[j]
    BY <2>1, <1>6 DEF At
  <2>3. j \in Counted
    BY <2>1, <1>4, <1>6, BaselineSound
  <2>4. Anchor.cycles <= metrics[j].cycles
    BY <2>3, <1>4, <1>6, AnchorSound
  <2> QED BY <2>2, <2>4, <1>1, <1>2
<1>7. CASE Upto(t) = {} /\ Upto(u) = {}
  <2>1. At(t) = At(u)
    BY <1>7 DEF At
  <2>2. At(u).cycles \in Nat
    BY AtOrdered
  <2> QED BY <2>1, <2>2, <1>1, <1>2
<1> QED BY <1>5, <1>6, <1>7

\* What is billed over all the closed periods.
LEMMA BilledBound ==
  ASSUME PagesInv, ClosedPeriods # {}, Counted # {}, ReadWhole(printer)
  PROVE  Billed <= metrics[Max(Counted)].cycles - Anchor.cycles
<1> DEFINE a == [p \in Periods |-> IF Closed(p) THEN At(Starts[p]).cycles ELSE 0]
           b == [p \in Periods |-> IF Closed(p) THEN At(ClosingOf(p)).cycles ELSE 0]
<1>1. \A p \in Periods : Closed(p) => /\ At(Starts[p]).cycles \in Int /\ At(ClosingOf(p)).cycles \in Int
                                      /\ a[p] = At(Starts[p]).cycles /\ b[p] = At(ClosingOf(p)).cycles
  BY AtOrdered
<1>2. a \in [Periods -> Int] /\ b \in [Periods -> Int]
  BY <1>1
<1> HIDE DEF a, b
<1>3. ASSUME NEW p \in ClosedPeriods
      PROVE  /\ p \in Periods /\ Closed(p)
             /\ BilledIn(p) \in Int /\ BilledIn(p) <= b[p] - a[p]
  <2>1. p \in Periods /\ Closed(p)
    BY DEF ClosedPeriods
  <2> QED BY <2>1, <1>1, PeriodBound
<1>4. ASSUME NEW p \in ClosedPeriods, p > 1 PROVE b[p - 1] <= a[p]
  BY <1>1, <1>3, <1>4, AtBetween
<1>5. Billed <= b[Max(ClosedPeriods)] - a[1]
  BY <1>2, <1>3, <1>4, BillsTelescope
<1>6. /\ b[Max(ClosedPeriods)] = metrics[Max(Counted)].cycles
      /\ a[1] = Anchor.cycles
  BY <1>1, WholeSpan
<1> QED BY <1>5, <1>6

\* And a printer that is never reset bills exactly what it really did.
LEMMA BilledExactly ==
  ASSUME PagesInv, ClosedPeriods # {}, Counted # {}, Steady
  PROVE  Billed = Really(metrics[Max(Counted)]) - Really(Anchor)
<1> DEFINE a == [p \in Periods |-> IF Closed(p) THEN Really(At(Starts[p])) ELSE 0]
           b == [p \in Periods |-> IF Closed(p) THEN Really(At(ClosingOf(p))) ELSE 0]
<1>1. ASSUME NEW p \in Periods, Closed(p)
      PROVE  /\ Really(At(Starts[p])) \in Int /\ Really(At(ClosingOf(p))) \in Int
             /\ a[p] = Really(At(Starts[p])) /\ b[p] = Really(At(ClosingOf(p)))
  <2>1. At(Starts[p]) \in Row /\ At(ClosingOf(p)) \in Row
    BY <1>1, AtSound
  <2>2. \A m \in Row : m.cycles \in Nat /\ m.pages \in Nat
    BY DEF Row
  <2> QED BY <2>1, <2>2, <1>1 DEF Really
<1>2. a \in [Periods -> Int] /\ b \in [Periods -> Int]
  BY <1>1
<1> HIDE DEF a, b
<1>3. ASSUME NEW p \in ClosedPeriods
      PROVE  /\ p \in Periods /\ Closed(p)
             /\ BilledIn(p) = b[p] - a[p] /\ b[p] \in Int /\ a[p] \in Int
  <2>1. p \in Periods /\ Closed(p)
    BY DEF ClosedPeriods
  <2> QED BY <2>1, <1>1, PeriodExact
<1>4. ASSUME NEW p \in ClosedPeriods, p > 1 PROVE b[p - 1] = a[p]
  <2>1. p - 1 \in Periods /\ Closed(p - 1)
    BY <1>3, <1>4, AtBetween
  <2>2. Upto(ClosingOf(p - 1)) = Upto(Starts[(p - 1) + 1])
    BY <2>1, SteadyRows
  <2>3. (p - 1) + 1 = p
    BY <1>3, PagesAssumption, LenProperties DEF Periods
  <2>4. At(ClosingOf(p - 1)) = At(Starts[p])
    BY <2>2, <2>3 DEF At
  <2> QED BY <2>1, <2>4, <1>1, <1>3
<1>5. \A p \in ClosedPeriods : BilledIn(p) \in Int /\ BilledIn(p) <= b[p] - a[p]
  <2> SUFFICES ASSUME NEW p \in ClosedPeriods PROVE BilledIn(p) \in Int /\ BilledIn(p) <= b[p] - a[p]
    OBVIOUS
  <2>1. BilledIn(p) = b[p] - a[p] /\ b[p] \in Int /\ a[p] \in Int
    BY <1>3
  <2> QED BY <2>1
<1>6. \A p \in ClosedPeriods : p > 1 => b[p - 1] <= a[p]
  <2> SUFFICES ASSUME NEW p \in ClosedPeriods, p > 1 PROVE b[p - 1] <= a[p]
    OBVIOUS
  <2>1. b[p - 1] = a[p] /\ a[p] \in Int
    BY <1>3, <1>4
  <2> QED BY <2>1
<1>7. Billed = b[Max(ClosedPeriods)] - a[1]
  BY <1>2, <1>3, <1>4, <1>5, <1>6, BillsTelescope
<1>8. /\ b[Max(ClosedPeriods)] = Really(metrics[Max(Counted)])
      /\ a[1] = Really(Anchor)
  BY <1>1, WholeSpan
<1> QED BY <1>7, <1>8

\* The last reading comes after the one billing counts from.
LEMMA AnchorComes ==
  ASSUME PagesInv, ClosedPeriods # {}, Counted # {}
  PROVE  /\ Anchor \in Row /\ metrics[Max(Counted)] \in Row
         /\ Anchor = metrics[Max(Counted)] \/ Comes(printer, Anchor, metrics[Max(Counted)])
<1>1. PICK p \in Periods : Closed(p)
  BY DEF ClosedPeriods
<1>2. PICK x : x = Max(Counted)
  OBVIOUS
<1>3. PICK n : n = Min(Counted)
  OBVIOUS
<1>4. /\ x \in Counted /\ n \in Counted /\ \A k \in Counted : n <= k /\ k <= x
      /\ Counted \subseteq 1 .. Len(metrics) /\ Len(metrics) \in Nat
  BY <1>2, <1>3, BaselineSound, UptoSound, PagesTypes DEF Counted, PagesInv
<1>5. Anchor \in Row /\ metrics[x] \in Row
  BY <1>4, AnchorSound, PagesTypes DEF PagesInv
<1>6. ASSUME NEW i \in Counted
      PROVE  metrics[i] = metrics[x] \/ Comes(printer, metrics[i], metrics[x])
  <2>1. i \in 1 .. Len(metrics) /\ x \in 1 .. Len(metrics) /\ (i = x \/ i < x)
    BY <1>4
  <2> QED BY <2>1 DEF PagesInv, RowsCome
<1>7. CASE Baseline(Starts[1]) # {}
  <2>1. PICK y : y = Max(Upto(Starts[1]))
    OBVIOUS
  <2>2. Upto(Starts[1]) # {} /\ Baseline(Starts[1]) = {y} /\ y \in Upto(Starts[1])
    BY <2>1, <1>7, BaselineSound DEF BaselineOf
  <2>3. Upto(Starts[1]) \subseteq Counted
    <3>1. /\ Starts[1] \in Int /\ Starts[1] <= Starts[p] /\ Starts[p] <= Starts[p + 1] - 1
          /\ Starts[p] \in Int /\ Starts[p + 1] \in Int
          /\ Starts[p + 1] - 1 <= Starts[Max(ClosedPeriods) + 1] - 1
          /\ Starts[Max(ClosedPeriods) + 1] \in Int
      BY <1>1, ClosedSound
    <3>2. Starts[1] <= Starts[Max(ClosedPeriods) + 1] - 1 /\ Starts[Max(ClosedPeriods) + 1] - 1 \in Int
      BY <3>1
    <3> QED BY <3>1, <3>2, UptoSound DEF Counted
  <2>4. Max({y}) = y
    <3>1. {y} \in SUBSET (1 .. Len(metrics)) /\ {y} # {}
      BY <2>2, <2>3, <1>4
    <3>2. Max({y}) \in {y}
      BY <3>1, <1>4, ExtremesOf
    <3> QED BY <3>2
  <2>5. Anchor = metrics[y]
    BY <2>2, <2>4 DEF Anchor
  <2> QED BY <2>2, <2>3, <2>5, <1>2, <1>5, <1>6
<1>8. CASE Baseline(Starts[1]) = {} /\ manual # NoManual /\ manual.at < metrics[n].at
  <2>1. Anchor = ManualRow
    BY <1>3, <1>8 DEF Anchor
  <2>2. n \in 1 .. Len(metrics) /\ x \in 1 .. Len(metrics) /\ (n = x \/ n < x)
    BY <1>4
  <2>3. metrics[n].at \in Int /\ metrics[x].at \in Int /\ manual.at \in Int
    <3>1. metrics[n] \in Row /\ metrics[x] \in Row
      BY <2>2, PagesTypes DEF PagesInv
    <3> QED BY <3>1, <1>8 DEF PagesInv, ManualComes, Row
  <2>4. n < x => metrics[n].at < metrics[x].at
    BY <2>2 DEF PagesInv, PagesTypeOK
  <2>5. manual.at < metrics[x].at
    BY <1>8, <2>2, <2>3, <2>4
  <2>6. Comes(printer, ManualRow, metrics[x])
    BY <1>8, <2>2, <2>5 DEF PagesInv, ManualComes
  <2> QED BY <2>1, <2>6, <1>2, <1>5
<1>9. CASE Baseline(Starts[1]) = {} /\ ~(manual # NoManual /\ manual.at < metrics[n].at)
  <2>1. Anchor = metrics[n]
    BY <1>3, <1>9 DEF Anchor
  <2> QED BY <2>1, <1>2, <1>4, <1>5, <1>6
<1> QED BY <1>7, <1>8, <1>9

(* The bill adds up: without resets, what two readings bracket is billed in *)
(* exactly one of the consecutive periods, however many periods, readings,  *)
(* dips, unread counters and baselines there are.                           *)
THEOREM EveryPageBilledOnce == Spec => []BilledOnce
<1>1. Init => PagesInv
  BY PagesStart
<1>2. PagesInv /\ [Next]_vars => PagesInv'
  BY PagesStep
<1>3. PagesInv => BilledOnce
  BY BilledExactly DEF BilledOnce
<1> QED BY <1>1, <1>2, <1>3, PTL DEF Spec

\* Printers of which the theorem below speaks.
BillableFleet ==
  \A p \in Printers : ReadWhole(p) \/ p.faults \subseteq {"noCounter", "dip", "baseline"}

(* Where no counter reads low, and no printed counter that polls may miss   *)
(* is billed from a baseline staff entered, or else no counter is reset,    *)
(* all the periods never bill more than the engine's cycles: whatever is    *)
(* reset, missing, or read at a period's first instant.                     *)
THEOREM NeverBilledMore == BillableFleet => (Spec => []NeverOverbilled)
<1> SUFFICES ASSUME BillableFleet PROVE Spec => []NeverOverbilled
  OBVIOUS
<1>1. Init => PagesInv
  BY PagesStart
<1>2. PagesInv /\ [Next]_vars => PagesInv'
  BY PagesStep
<1>3. PagesInv => NeverOverbilled
  <2>1. SUFFICES ASSUME PagesInv, ClosedPeriods # {}, Counted # {}
                 PROVE  Billed <= metrics[Max(Counted)].cycles - Anchor.cycles
    BY DEF NeverOverbilled
  <2>2. ReadWhole(printer) \/ Steady
    BY <2>1 DEF BillableFleet, Steady, PagesInv, PagesTypeOK
  <2>3. CASE ReadWhole(printer)
    BY <2>1, <2>3, BilledBound
  <2>4. CASE Steady
    <3>1. Billed = Really(metrics[Max(Counted)]) - Really(Anchor)
      BY <2>1, <2>4, BilledExactly
    <3>2. PICK m : m = metrics[Max(Counted)]
      OBVIOUS
    <3>3. PICK o : o = Anchor
      OBVIOUS
    <3>4. o \in Row /\ m \in Row /\ (o = m \/ Comes(printer, o, m))
      BY <2>1, <3>2, <3>3, AnchorComes
    <3>5. o.cycles \in Nat /\ o.pages \in Nat /\ m.cycles \in Nat /\ m.pages \in Nat
      BY <3>4 DEF Row
    <3>6. m.pages - o.pages <= m.cycles - o.cycles
      BY <3>4, <3>5 DEF Comes
    <3>7. Really(m) - Really(o) <= m.cycles - o.cycles
      BY <3>5, <3>6 DEF Really
    <3> QED BY <3>1, <3>2, <3>3, <3>7
  <2> QED BY <2>2, <2>3, <2>4
<1> QED BY <1>1, <1>2, <1>3, PTL DEF Spec

(* The forecast of a supply, from rows of its levels.                       *)
LevelRow == [at : Nat, percent : Int]
\* Of the rows of S at the positions in I, j's is a replacement after i's.
Replaced(S, I, i, j) ==
  /\ i \in I /\ j \in I /\ i < j /\ \A k \in I : k <= i \/ j <= k
  /\ S[j].percent - S[i].percent >= JumpThreshold
\* There is none,
Unbroken(S, I) == \A i, j \in I : ~Replaced(S, I, i, j)
\* or j's is the last one,
Latest(S, I, i, j) == Replaced(S, I, i, j) /\ \A x, y \in I : Replaced(S, I, x, y) => y <= j
\* c is the rows at I, of which n's is the first and m's the last one,
ChosenFrom(c, S, I, n, m) ==
  /\ S \in Seq(LevelRow) /\ I \in SUBSET (1 .. Len(S)) /\ n \in I /\ m \in I
  /\ \A k \in I : n <= k /\ k <= m
  /\ c = Chosen(S, I)
\* and its last replacement is where j's is.
JumpsTo(c, S, i, j, m) ==
  /\ Jumps(c) # {} /\ Max(Jumps(c)) \in 2 .. Len(c)
  /\ c[Max(Jumps(c))] = S[j] /\ c[Max(Jumps(c)) - 1] = S[i]
  /\ Max(Jumps(c)) < Len(c) <=> j < m

\* Where the replacements among chosen rows are.
LEMMA JumpsChosen ==
  ASSUME NEW S, NEW I, NEW n, NEW m, NEW c, ChosenFrom(c, S, I, n, m)
  PROVE  /\ c \in Seq(LevelRow) /\ Len(c) \in Nat /\ Len(c) >= 1
         /\ Last(c) = S[m] /\ c[1] = S[n] /\ (1 < Len(c) <=> n < m)
         /\ Unbroken(S, I) => Jumps(c) = {}
         /\ \A i, j : Latest(S, I, i, j) => JumpsTo(c, S, i, j, m)
<1> SUFFICES ASSUME S \in Seq(LevelRow), I \in SUBSET (1 .. Len(S)), m \in I, n \in I,
                    \A k \in I : n <= k /\ k <= m, c = Chosen(S, I)
             PROVE  /\ c \in Seq(LevelRow) /\ Len(c) \in Nat /\ Len(c) >= 1
                    /\ Last(c) = S[m] /\ c[1] = S[n] /\ (1 < Len(c) <=> n < m)
                    /\ Unbroken(S, I) => Jumps(c) = {}
                    /\ \A i, j : Latest(S, I, i, j) => JumpsTo(c, S, i, j, m)
  BY DEF ChosenFrom
<1>1. PICK g : /\ Picks(c, S, g, Len(S))
               /\ \A a \in 1 .. Len(c) : g[a] \in I
               /\ I # {} => Len(c) >= 1 /\ \A k \in I : g[1] <= k /\ k <= g[Len(c)]
               /\ \A k \in I : \E a \in 1 .. Len(c) : g[a] = k
  BY ChosenSound
<1>2. c \in Seq(LevelRow) /\ Len(c) \in Nat /\ Len(c) >= 1
  <2>1. c \in Seq(LevelRow)
    BY ChosenSound
  <2> QED BY <2>1, <1>1, LenProperties
<1>3. /\ \A a \in 1 .. Len(c) : g[a] \in I /\ g[a] \in Nat /\ c[a] = S[g[a]]
      /\ \A a, b \in 1 .. Len(c) : a < b => g[a] < g[b]
      /\ \A k \in I : k \in Nat
  <2>1. \A k \in I : k \in Nat
    OBVIOUS
  <2> QED BY <1>1, <2>1 DEF Picks
<1>4. 1 \in 1 .. Len(c) /\ Len(c) \in 1 .. Len(c)
  BY <1>2
<1>5. g[1] = n /\ g[Len(c)] = m
  <2>1. g[1] <= n /\ m <= g[Len(c)] /\ n <= g[1] /\ g[Len(c)] <= m
    BY <1>1, <1>3, <1>4
  <2>2. g[1] \in Nat /\ g[Len(c)] \in Nat /\ n \in Nat /\ m \in Nat
    BY <1>3, <1>4
  <2> QED BY <2>1, <2>2
<1>6. Last(c) = S[m] /\ c[1] = S[n]
  BY <1>3, <1>4, <1>5 DEF Last
<1>7. 1 < Len(c) <=> n < m
  <2>1. 1 < Len(c) => n < m
    BY <1>3, <1>4, <1>5
  <2>2. ~(1 < Len(c)) => Len(c) = 1
    <3>1. \A x \in Nat : x >= 1 /\ ~(1 < x) => x = 1
      OBVIOUS
    <3> QED BY <3>1, <1>2, Zenon
  <2>3. Len(c) = 1 => n = m
    BY <1>5
  <2>4. n = m => ~(n < m)
    BY <1>3
  <2> QED BY <2>1, <2>2, <2>3, <2>4
<1>8. \A a, b \in 1 .. Len(c) : g[a] < g[b] => a < b
  <2> SUFFICES ASSUME NEW a \in 1 .. Len(c), NEW b \in 1 .. Len(c), g[a] < g[b], ~(a < b) PROVE FALSE
    OBVIOUS
  <2>1. a = b \/ b < a
    BY <1>2
  <2>2. g[b] <= g[a] /\ g[a] \in Nat /\ g[b] \in Nat
    BY <2>1, <1>3
  <2> QED BY <2>2
<1>9. ASSUME NEW k \in Jumps(c)
      PROVE  k \in 2 .. Len(c) /\ k - 1 \in 1 .. Len(c) /\ k \in 1 .. Len(c) /\ Replaced(S, I, g[k - 1], g[k])
  <2>1. k \in 2 .. Len(c) /\ k - 1 \in 1 .. Len(c) /\ k \in 1 .. Len(c) /\ k - 1 < k
    BY <1>2 DEF Jumps
  <2>2. S[g[k]].percent - S[g[k - 1]].percent >= JumpThreshold
    BY <2>1, <1>3 DEF Jumps
  <2>3. ASSUME NEW x \in I PROVE x <= g[k - 1] \/ g[k] <= x
    <3>1. PICK a \in 1 .. Len(c) : g[a] = x
      BY <1>1
    <3>2. a < k - 1 \/ a = k - 1 \/ a = k \/ k < a
      BY <2>1
    <3>3. g[a] \in Nat /\ g[k] \in Nat /\ g[k - 1] \in Nat
      BY <2>1, <1>3
    <3> QED BY <2>1, <3>1, <3>2, <3>3, <1>3
  <2> QED BY <2>1, <2>2, <2>3, <1>3 DEF Replaced
<1>10. ASSUME NEW i \in I, NEW j \in I, Replaced(S, I, i, j)
       PROVE  \E k \in Jumps(c) : g[k] = j /\ g[k - 1] = i
  <2>1. PICK a \in 1 .. Len(c) : g[a] = i
    BY <1>1
  <2>2. PICK b \in 1 .. Len(c) : g[b] = j
    BY <1>1
  <2>3. a < b
    BY <1>8, <1>10, <2>1, <2>2 DEF Replaced
  <2>4. a + 1 \in 1 .. Len(c) /\ a < a + 1
    BY <2>3
  <2>5. g[a + 1] <= i \/ j <= g[a + 1]
    BY <2>4, <1>3, <1>10 DEF Replaced
  <2>6. i < g[a + 1] /\ i \in Nat /\ j \in Nat /\ g[a + 1] \in Nat
    BY <2>1, <2>4, <1>3
  <2>7. ~(a + 1 < b)
    <3> SUFFICES ASSUME a + 1 < b PROVE FALSE
      OBVIOUS
    <3>1. g[a + 1] < j
      BY <2>2, <2>4, <1>3
    <3> QED BY <3>1, <2>5, <2>6
  <2>8. b - 1 = a /\ b \in 2 .. Len(c)
    BY <2>3, <2>7
  <2>9. c[b].percent - c[b - 1].percent >= JumpThreshold
    BY <2>1, <2>2, <2>8, <1>3, <1>10 DEF Replaced
  <2>10. b \in Jumps(c)
    BY <2>8, <2>9 DEF Jumps
  <2> QED BY <2>1, <2>2, <2>8, <2>10
<1>11. Unbroken(S, I) => Jumps(c) = {}
  BY <1>3, <1>9 DEF Unbroken
<1>12. ASSUME NEW i, NEW j, Latest(S, I, i, j)
       PROVE  JumpsTo(c, S, i, j, m)
  <2>0. i \in I /\ j \in I /\ Replaced(S, I, i, j) /\ \A x, y \in I : Replaced(S, I, x, y) => y <= j
    BY <1>12 DEF Latest, Replaced
  <2>1. PICK k \in Jumps(c) : g[k] = j /\ g[k - 1] = i
    BY <1>10, <2>0
  <2>2. PICK q : q = Max(Jumps(c))
    OBVIOUS
  <2>3. q \in Jumps(c) /\ k <= q
    <3>1. Jumps(c) \in SUBSET (1 .. Len(c)) /\ Jumps(c) # {}
      BY <1>9, <2>1
    <3> QED BY <3>1, <2>1, <2>2, <1>2, ExtremesOf
  <2>4. /\ q \in 1 .. Len(c) /\ q \in 2 .. Len(c) /\ q - 1 \in 1 .. Len(c) /\ Replaced(S, I, g[q - 1], g[q])
        /\ k \in 1 .. Len(c) /\ k - 1 \in 1 .. Len(c)
    BY <2>1, <2>3, <1>9
  <2>5. g[q] <= j
    BY <2>4, <1>3, <2>0
  <2>6. ~(k < q)
    <3> SUFFICES ASSUME k < q PROVE FALSE
      OBVIOUS
    <3>1. j < g[q] /\ j \in Nat /\ g[q] \in Nat
      BY <2>1, <2>4, <1>3
    <3> QED BY <3>1, <2>5
  <2>7. k = q
    BY <2>3, <2>4, <2>6
  <2>8. c[q] = S[j] /\ c[q - 1] = S[i]
    BY <2>1, <2>4, <2>7, <1>3
  <2>9. q < Len(c) <=> j < m
    <3>1. q < Len(c) => j < m
      BY <2>1, <2>4, <2>7, <1>3, <1>4, <1>5
    <3>2. ~(q < Len(c)) => q = Len(c)
      BY <2>4, <1>2
    <3>3. q = Len(c) => j = m
      BY <2>1, <2>7, <1>5
    <3>4. j = m => ~(j < m)
      BY <1>3
    <3> QED BY <3>1, <3>2, <3>3, <3>4
  <2> QED BY <2>1, <2>2, <2>4, <2>8, <2>9 DEF JumpsTo
<1> QED BY <1>2, <1>6, <1>7, <1>11, <1>12

\* Two histories with the same segment are forecast the same.
LEMMA SameForecast ==
  ASSUME NEW s, NEW t, Last(s) = Last(t),
         s[SegmentStart(s)] = t[SegmentStart(t)],
         SegmentStart(s) < Len(s) <=> SegmentStart(t) < Len(t),
         Jumps(s) = {} <=> Jumps(t) = {},
         Jumps(s) # {} => s[Max(Jumps(s)) - 1] = t[Max(Jumps(t)) - 1]
  PROVE  Forecast(s) = Forecast(t)
<1>1. Forecast(s).current = Forecast(t).current
  BY DEF Forecast
<1> DEFINE R(u) == IF /\ SegmentStart(u) < Len(u)
                      /\ Last(u).at - u[SegmentStart(u)].at >= MinSpan
                      /\ u[SegmentStart(u)].percent - Last(u).percent > 0
                   THEN [drop |-> u[SegmentStart(u)].percent - Last(u).percent,
                         span |-> Last(u).at - u[SegmentStart(u)].at]
                   ELSE [drop |-> 0, span |-> 0]
           O(u) == IF Jumps(u) = {} THEN Missing ELSE u[Max(Jumps(u)) - 1].percent
           P(u) == Jumps(u) # {} /\ u[Max(Jumps(u)) - 1].percent > JumpThreshold
<1>2. \A u : Forecast(u) = [current |-> Last(u).percent, rate |-> R(u), leftover |-> O(u), premature |-> P(u)]
  BY Zenon DEF Forecast
<1>3. R(s) = R(t)
  BY Zenon
<1>4. O(s) = O(t)
  BY Zenon
<1>5. P(s) = P(t)
  BY Zenon
<1> HIDE DEF R, O, P
<1> QED BY <1>2, <1>3, <1>4, <1>5, Zenon

\* Reports of a printer; those that have the supply, and those of the query.
History == Seq(Report)
Having(d) == {i \in DOMAIN reports : Has(d, i)}
Kept(d) == {i \in DOMAIN reports : OfRun(i) /\ Has(d, i)}

\* The rows of a supply: one a report, with its day and level.
LEMMA LevelsSound ==
  ASSUME reports \in History, NEW d \in Supplies
  PROVE  /\ Levels(d) \in Seq(LevelRow) /\ Len(Levels(d)) = Len(reports) /\ Len(reports) \in Nat
         /\ DOMAIN reports = 1 .. Len(reports)
         /\ \A i \in 1 .. Len(reports) : /\ reports[i] \in Report /\ reports[i][d] \in Percents \cup {Missing}
                                         /\ reports[i][d] \in Int /\ Levels(d)[i].at = i
                                         /\ Levels(d)[i].percent = reports[i][d]
         /\ Kept(d) \subseteq Having(d) /\ Having(d) \subseteq 1 .. Len(reports)
         /\ JumpThreshold \in Nat /\ JumpThreshold > 0
<1>1. /\ Len(reports) \in Nat /\ DOMAIN reports = 1 .. Len(reports)
      /\ \A i \in 1 .. Len(reports) : reports[i] \in Report
  BY LenProperties, ElementOfSeq DEF History
<1>2. \A i \in 1 .. Len(reports) : reports[i][d] \in Percents \cup {Missing}
  BY <1>1 DEF Report
<1>3. \A i \in 1 .. Len(reports) : Levels(d)[i] = [at |-> i, percent |-> reports[i][d]]
  BY <1>1 DEF Levels
<1>9. \A x \in Percents \cup {Missing} : x \in Int
  BY SupplyForecastAssumption DEF Missing
<1>4. \A i \in 1 .. Len(reports) : [at |-> i, percent |-> reports[i][d]] \in LevelRow
  <2> SUFFICES ASSUME NEW i \in 1 .. Len(reports) PROVE [at |-> i, percent |-> reports[i][d]] \in LevelRow
    OBVIOUS
  <2>1. i \in Nat /\ reports[i][d] \in Int
    BY <1>1, <1>2, <1>9
  <2> QED BY <2>1 DEF LevelRow
<1>5. Levels(d) = [i \in 1 .. Len(reports) |-> [at |-> i, percent |-> reports[i][d]]]
  BY <1>1 DEF Levels
<1>6. Levels(d) \in Seq(LevelRow)
  BY <1>1, <1>3, <1>4, <1>5, IsASeq
<1>7. Len(Levels(d)) = Len(reports)
  BY <1>1, <1>5, <1>6, LenProperties
<1>8. Kept(d) \subseteq Having(d) /\ Having(d) \subseteq 1 .. Len(reports)
  BY <1>1 DEF Kept, Having
<1>12. \A i \in 1 .. Len(reports) : Levels(d)[i].at = i /\ Levels(d)[i].percent = reports[i][d]
  BY <1>1 DEF Levels
<1>10. \A i \in 1 .. Len(reports) : reports[i][d] \in Int
  BY <1>2, <1>9
<1>11. JumpThreshold \in Nat /\ JumpThreshold > 0
  BY SupplyForecastAssumption
<1> QED BY <1>1, <1>2, <1>3, <1>6, <1>7, <1>8, <1>10, <1>11, <1>12, Zenon

\* Dropping equal reports keeps every replacement,
LEMMA ReplacedKept ==
  ASSUME reports \in History, NEW d \in Supplies,
         NEW i, NEW j, Replaced(Levels(d), Having(d), i, j)
  PROVE  Replaced(Levels(d), Kept(d), i, j)
<1> DEFINE N == Len(reports)
<1>1. /\ N \in Nat /\ DOMAIN reports = 1 .. N /\ Kept(d) \subseteq Having(d)
      /\ i \in 1 .. N /\ j \in 1 .. N /\ i < j /\ i \in Having(d) /\ j \in Having(d)
      /\ \A k \in Having(d) : k <= i \/ j <= k
  BY LevelsSound DEF Replaced
<1> HIDE DEF N
<1>2. reports[j][d] - reports[i][d] >= JumpThreshold
  <2>1. Levels(d)[j].percent - Levels(d)[i].percent >= JumpThreshold
    BY DEF Replaced
  <2>2. Levels(d)[j].percent = reports[j][d] /\ Levels(d)[i].percent = reports[i][d]
    BY <1>1, LevelsSound, Zenon DEF N
  <2> QED BY <2>1, <2>2
<1>3. reports[i][d] # reports[j][d] /\ reports[i] # reports[j]
  <2>1. reports[i][d] # reports[j][d]
    <3>1. reports[i][d] \in Int
      BY <1>1, LevelsSound DEF N
    <3>2. JumpThreshold \in Nat /\ JumpThreshold > 0
      BY LevelsSound
    <3>3. \A x \in Int : x - x = 0
      OBVIOUS
    <3>4. reports[i][d] = reports[j][d] => reports[j][d] - reports[i][d] = 0
      BY <3>1, <3>3, Zenon
    <3> QED BY <1>2, <3>2, <3>4
  <2> QED BY <2>1
<1>4. i \in Kept(d)
  <2> SUFFICES ASSUME ~OfRun(i) PROVE FALSE
    BY <1>1 DEF Kept, Having
  <2>1. reports[i] = reports[i + 1] /\ i # Len(reports)
    BY DEF OfRun
  <2>2. i + 1 \in 1 .. N
    <3>1. i # N
      BY <2>1 DEF N
    <3> QED BY <3>1, <1>1
  <2>3. i + 1 \in Having(d)
    BY <2>1, <2>2, <1>1 DEF Having, Has
  <2>4. i + 1 = j
    <3>1. i + 1 <= i \/ j <= i + 1
      BY <2>3, <1>1
    <3> QED BY <3>1, <1>1
  <2> QED BY <2>1, <2>4, <1>3
<1>5. j \in Kept(d)
  <2> SUFFICES ASSUME ~OfRun(j) PROVE FALSE
    BY <1>1 DEF Kept, Having
  <2>1. reports[j] = reports[j - 1] /\ j # 1
    BY DEF OfRun
  <2>2. j - 1 \in 1 .. N
    BY <2>1, <1>1
  <2>3. j - 1 \in Having(d)
    BY <2>1, <2>2, <1>1 DEF Having, Has
  <2>4. j - 1 = i
    <3>1. j - 1 <= i \/ j <= j - 1
      BY <2>3, <1>1
    <3> QED BY <3>1, <1>1
  <2> QED BY <2>1, <2>4, <1>3
<1> QED BY <1>1, <1>4, <1>5 DEF Replaced

\* and makes none;
LEMMA ReplacedNew ==
  ASSUME reports \in History, NEW d \in Supplies,
         NEW i, NEW j, Replaced(Levels(d), Kept(d), i, j)
  PROVE  Replaced(Levels(d), Having(d), i, j)
<1> DEFINE N == Len(reports)
<1>1. /\ N \in Nat /\ DOMAIN reports = 1 .. N
      /\ i \in 1 .. N /\ j \in 1 .. N /\ i < j /\ i \in Having(d) /\ j \in Having(d)
      /\ \A k \in Kept(d) : k <= i \/ j <= k
  BY LevelsSound DEF Replaced
<1> HIDE DEF N
<1>2. SUFFICES ASSUME NEW x \in Having(d), ~(x <= i \/ j <= x) PROVE FALSE
  BY <1>1, LevelsSound DEF Replaced
<1>3. \A k \in Having(d) : i < k /\ k < j => reports[k] = reports[k - 1] /\ reports[k] = reports[k + 1]
  <2> SUFFICES ASSUME NEW k \in Having(d), i < k, k < j
               PROVE  reports[k] = reports[k - 1] /\ reports[k] = reports[k + 1]
    OBVIOUS
  <2>1. k \in 1 .. N
    BY <1>1 DEF Having
  <2>2. k \notin Kept(d)
    BY <2>1, <1>1
  <2>3. ~OfRun(k)
    BY <2>1, <2>2, <1>1 DEF Kept, Having
  <2> QED BY <2>3 DEF OfRun
<1> DEFINE B == {k \in Having(d) : i < k /\ k < j}
<1>4. PICK y \in B : \A k \in B : y <= k
  <2>1. B \in SUBSET (1 .. N) /\ x \in B
    <3>1. Having(d) \subseteq 1 .. N
      BY LevelsSound DEF N
    <3>2. x \in 1 .. N
      BY <3>1
    <3>3. i < x /\ x < j
      BY <1>1, <1>2, <3>2
    <3> QED BY <3>1, <3>3
  <2> HIDE DEF B
  <2>2. Min(B) \in B /\ \A k \in B : Min(B) <= k
    BY <2>1, <1>1, ExtremesOf
  <2> QED BY <2>2
<1>5. y \in 1 .. N /\ i < y /\ y < j /\ y - 1 \in 1 .. N
  <2>1. y \in 1 .. N /\ i < y /\ y < j
    BY <1>1 DEF Having
  <2> QED BY <2>1, <1>1
<1>6. y - 1 = i
  <2> SUFFICES ASSUME y - 1 # i PROVE FALSE
    OBVIOUS
  <2>1. i < y - 1 /\ y - 1 < j
    BY <1>1, <1>5
  <2>2. reports[y - 1] = reports[y]
    BY <1>3, <1>5
  <2>3. y - 1 \in Having(d)
    BY <2>2, <1>1, <1>5 DEF Having, Has
  <2>4. y <= y - 1
    BY <2>1, <2>3, <1>4
  <2> QED BY <2>4, <1>5
<1>7. reports[i + 1] = reports[i]
  <2>1. y = i + 1
    BY <1>1, <1>5, <1>6
  <2> QED BY <2>1, <1>3, <1>5, <1>6
<1> DEFINE U == {n \in Nat : i + n <= j => reports[i + n] = reports[i]}
<1>8. 0 \in U
  <2>1. i + 0 = i
    BY <1>1
  <2> QED BY <2>1
<1>9. ASSUME NEW n \in Nat, n \in U PROVE n + 1 \in U
  <2> SUFFICES ASSUME i + (n + 1) <= j PROVE reports[i + (n + 1)] = reports[i]
    OBVIOUS
  <2>1. CASE n = 0
    <3>1. i + (n + 1) = i + 1
      BY <2>1
    <3> QED BY <3>1, <1>7
  <2>2. CASE n # 0
    <3>1. i + n \in 1 .. N /\ i < i + n /\ i + n < j /\ i + n <= j /\ i + (n + 1) = (i + n) + 1
      BY <2>2, <1>1
    <3>2. reports[i + n] = reports[i]
      BY <3>1, <1>9
    <3>3. i + n \in Having(d)
      BY <3>1, <3>2, <1>1 DEF Having, Has
    <3>4. reports[i + n] = reports[(i + n) + 1]
      BY <3>1, <3>3, <1>3
    <3> QED BY <3>1, <3>2, <3>4
  <2> QED BY <2>1, <2>2
<1>10. reports[j] = reports[i]
  <2>1. Nat \subseteq U
    <3> HIDE DEF U
    <3> QED BY <1>8, <1>9, UpToAll
  <2>2. j - i \in Nat /\ i + (j - i) = j
    BY <1>1
  <2>3. \A n \in Nat : i + n <= j => reports[i + n] = reports[i]
    BY <2>1
  <2>4. i + (j - i) <= j => reports[i + (j - i)] = reports[i]
    BY <2>2, <2>3
  <2> QED BY <2>2, <2>4, <1>1
<1>11. reports[j][d] - reports[i][d] >= JumpThreshold
  <2>1. Levels(d)[j].percent - Levels(d)[i].percent >= JumpThreshold
    BY DEF Replaced
  <2>2. Levels(d)[j].percent = reports[j][d] /\ Levels(d)[i].percent = reports[i][d]
    BY <1>1, LevelsSound, Zenon DEF N
  <2> QED BY <2>1, <2>2
<1>12. reports[i][d] \in Int /\ JumpThreshold \in Nat /\ JumpThreshold > 0
  BY <1>1, LevelsSound DEF N
<1>13. reports[i][d] - reports[i][d] = 0
  BY <1>12
<1> QED BY <1>10, <1>11, <1>12, <1>13

\* the first and the last reading are kept.
LEMMA EndsKept ==
  ASSUME reports \in History, NEW d \in Supplies, Having(d) # {}
  PROVE  \E n, m \in Kept(d) : \A k \in Having(d) : n <= k /\ k <= m
<1> DEFINE N == Len(reports)
<1>1. /\ N \in Nat /\ DOMAIN reports = 1 .. N
      /\ Having(d) \subseteq 1 .. N
  BY LevelsSound
<1> HIDE DEF N
<1>2. PICK n \in Having(d), m \in Having(d) : \A k \in Having(d) : n <= k /\ k <= m
  <2>1. /\ Max(Having(d)) \in Having(d) /\ \A k \in Having(d) : k <= Max(Having(d))
        /\ Min(Having(d)) \in Having(d) /\ \A k \in Having(d) : Min(Having(d)) <= k
    BY <1>1, ExtremesOf
  <2> QED BY <2>1
<1>3. n \in Kept(d)
  <2> SUFFICES ASSUME ~OfRun(n) PROVE FALSE
    BY DEF Kept, Having
  <2>1. reports[n] = reports[n - 1] /\ n # 1
    BY DEF OfRun
  <2>2. n - 1 \in 1 .. N
    BY <2>1, <1>1
  <2>3. n - 1 \in Having(d)
    BY <2>1, <2>2, <1>1 DEF Having, Has
  <2>4. n <= n - 1 /\ n \in Nat
    BY <2>3, <1>1, <1>2
  <2> QED BY <2>4
<1>4. m \in Kept(d)
  <2> SUFFICES ASSUME ~OfRun(m) PROVE FALSE
    BY DEF Kept, Having
  <2>1. reports[m] = reports[m + 1] /\ m # Len(reports)
    BY DEF OfRun
  <2>2. m + 1 \in 1 .. N
    BY <2>1, <1>1 DEF N
  <2>3. m + 1 \in Having(d)
    BY <2>1, <2>2, <1>1 DEF Having, Has
  <2>4. m + 1 <= m /\ m \in Nat
    BY <2>3, <1>1, <1>2
  <2> QED BY <2>4
<1> QED BY <1>2, <1>3, <1>4

\* Where the forecast of chosen rows starts, if there was no replacement
LEMMA StartAtFirst ==
  ASSUME NEW S, NEW I, NEW n, NEW m, NEW c, ChosenFrom(c, S, I, n, m), Unbroken(S, I)
  PROVE  /\ Jumps(c) = {} /\ SegmentStart(c) = 1 /\ c[SegmentStart(c)] = S[n]
         /\ SegmentStart(c) < Len(c) <=> n < m
<1>1. c[1] = S[n] /\ (1 < Len(c) <=> n < m) /\ Jumps(c) = {}
  BY JumpsChosen
<1>2. SegmentStart(c) = 1
  BY <1>1, Zenon DEF SegmentStart
<1> QED BY <1>1, <1>2, Zenon

\* and if j was the last one.
LEMMA StartAtLast ==
  ASSUME NEW S, NEW I, NEW n, NEW m, NEW c, ChosenFrom(c, S, I, n, m),
         NEW i, NEW j, Latest(S, I, i, j)
  PROVE  /\ Jumps(c) # {} /\ SegmentStart(c) = Max(Jumps(c)) /\ SegmentStart(c) \in 2 .. Len(c)
         /\ c[SegmentStart(c)] = S[j] /\ c[SegmentStart(c) - 1] = S[i]
         /\ SegmentStart(c) < Len(c) <=> j < m
<1>1. JumpsTo(c, S, i, j, m)
  BY JumpsChosen
<1>2. SegmentStart(c) = Max(Jumps(c))
  BY <1>1, Zenon DEF SegmentStart, JumpsTo
<1> QED BY <1>1, <1>2, Zenon DEF JumpsTo

\* Picking start, the one before and the last of the rows keeps the forecast.
LEMMA PickedForecast ==
  ASSUME NEW r \in Seq(LevelRow), Len(r) >= 1, SegmentStart(r) \in 1 .. Len(r),
         Jumps(r) = {} => SegmentStart(r) = 1,
         Jumps(r) # {} => SegmentStart(r) = Max(Jumps(r)) /\ SegmentStart(r) \in Jumps(r),
         ~(Last(r).percent - r[SegmentStart(r)].percent >= JumpThreshold /\ SegmentStart(r) < Len(r))
  PROVE  Forecast(Chosen(r, {Len(r), SegmentStart(r), SegmentStart(r) - 1} \cap DOMAIN r)) = Forecast(r)
<1>0. PICK q : q = SegmentStart(r)
  OBVIOUS
<1>1. /\ Len(r) \in Nat /\ DOMAIN r = 1 .. Len(r) /\ Len(r) \in 1 .. Len(r) /\ q \in 1 .. Len(r)
      /\ \A i \in 1 .. Len(r) : r[i] \in LevelRow
  BY <1>0, LenProperties, ElementOfSeq
<1> DEFINE I == {Len(r), q, q - 1} \cap DOMAIN r
           p == Chosen(r, I)
           M == Len(r)
<1>2. I \in SUBSET (1 .. Len(r)) /\ Len(r) \in I /\ q \in I /\ \A k \in I : k <= Len(r)
  BY <1>1
<1>3. \A x, y \in I : Replaced(r, I, x, y) => y <= q
  <2> SUFFICES ASSUME NEW x \in I, NEW y \in I, Replaced(r, I, x, y), ~(y <= q) PROVE FALSE
    OBVIOUS
  <2>1. y = Len(r) /\ q < Len(r)
    BY <1>1
  <2>2. x <= q /\ x < y /\ (q <= x \/ y <= q)
    BY <1>1, <1>2, <2>1 DEF Replaced
  <2>3. x = q
    BY <2>2, <1>1
  <2>4. r[y].percent - r[x].percent >= JumpThreshold
    BY DEF Replaced
  <2>5. Last(r) = r[Len(r)]
    BY DEF Last
  <2> QED BY <2>1, <2>3, <2>4, <2>5, <1>0
<1>4. Last(p) = Last(r)
  <2>1. PICK n \in I : \A k \in I : n <= k
    <3>1. Min(I) \in I /\ \A k \in I : Min(I) <= k
      BY <1>1, <1>2, ExtremesOf
    <3> QED BY <3>1
  <2>2. ChosenFrom(p, r, I, n, Len(r))
    BY <2>1, <1>2 DEF ChosenFrom
  <2> HIDE DEF I, p
  <2>3. Last(p) = r[Len(r)]
    BY <2>2, JumpsChosen
  <2> QED BY <2>3 DEF Last
<1>5. CASE Jumps(r) = {}
  <2>1. q = 1
    BY <1>0, <1>5
  <2>2. \A k \in I : 1 <= k
    BY <1>1
  <2>3. ASSUME NEW x \in I, NEW y \in I PROVE ~Replaced(r, I, x, y)
    <3>1. Replaced(r, I, x, y) => y <= 1 /\ x < y /\ x \in Nat /\ y \in Nat /\ 1 <= x
      BY <2>1, <2>2, <1>1, <1>3 DEF Replaced
    <3> QED BY <3>1
  <2> HIDE DEF I
  <2>4. /\ Jumps(p) = {} /\ SegmentStart(p) = 1 /\ p[SegmentStart(p)] = r[1]
        /\ SegmentStart(p) < Len(p) <=> 1 < M
    <3>1. ChosenFrom(p, r, I, 1, M) /\ Unbroken(r, I)
      BY <2>1, <2>2, <2>3, <1>2 DEF ChosenFrom, Unbroken
    <3> HIDE DEF p
    <3> QED BY <3>1, StartAtFirst
  <2> HIDE DEF p
  <2>5. SegmentStart(r) < Len(r) <=> 1 < M
    BY <2>1, <1>0
  <2>6. r[SegmentStart(r)] = r[1]
    BY <2>1, <1>0
  <2>7. Forecast(p) = Forecast(r)
    BY <2>4, <2>5, <2>6, <1>4, <1>5, SameForecast
  <2> QED BY <2>7, <1>0 DEF p, I
<1>6. CASE Jumps(r) # {}
  <2>1. q \in 2 .. Len(r) /\ q - 1 \in 1 .. Len(r) /\ q - 1 < q /\ r[q].percent - r[q - 1].percent >= JumpThreshold
    <3>1. q \in Jumps(r)
      BY <1>0, <1>6
    <3> QED BY <3>1, <1>1 DEF Jumps
  <2>2. q - 1 \in I /\ \A k \in I : q - 1 <= k
    BY <2>1, <1>1
  <2>3. \A k \in I : k <= q - 1 \/ q <= k
    BY <1>1
  <2>4. Replaced(r, I, q - 1, q)
    BY <2>1, <2>2, <2>3, <1>2 DEF Replaced
  <2> HIDE DEF I
  <2>10. q \in I /\ Replaced(r, I, q - 1, q) /\ \A x, y \in I : Replaced(r, I, x, y) => y <= q
    BY <2>4, <1>2, <1>3
  <2>5. /\ Jumps(p) # {} /\ SegmentStart(p) = Max(Jumps(p))
        /\ p[SegmentStart(p)] = r[q] /\ p[SegmentStart(p) - 1] = r[q - 1]
        /\ SegmentStart(p) < Len(p) <=> q < M
    <3>1. ChosenFrom(p, r, I, q - 1, M)
      BY <2>2, <1>2 DEF ChosenFrom
    <3>2. Latest(r, I, q - 1, q)
      BY <2>10 DEF Latest
    <3> HIDE DEF p, M
    <3> QED BY <3>1, <3>2, StartAtLast
  <2> HIDE DEF p
  <2>6. SegmentStart(r) < Len(r) <=> q < M
    BY <1>0
  <2>7. r[SegmentStart(r)] = r[q] /\ r[Max(Jumps(r)) - 1] = r[q - 1]
    BY <1>0, <1>6
  <2>8. p[Max(Jumps(p)) - 1] = r[Max(Jumps(r)) - 1]
    BY <2>5, <2>7
  <2>9. Forecast(p) = Forecast(r)
    BY <2>5, <2>6, <2>7, <2>8, <1>4, <1>6, SameForecast
  <2> QED BY <2>9, <1>0 DEF p, I
<1> QED BY <1>5, <1>6

\* The readings of a supply and those of the fleet's query start alike.
LEMMA RowsAlike ==
  ASSUME reports \in History, NEW d \in Supplies, Having(d) # {},
         NEW s, s = Readings(d), NEW r, r = Chosen(Levels(d), Kept(d))
  PROVE  /\ s \in Seq(LevelRow) /\ Len(s) \in Nat /\ Len(s) >= 1
         /\ r \in Seq(LevelRow) /\ Len(r) \in Nat /\ Len(r) >= 1
         /\ Last(s) = Last(r) /\ SegmentStart(r) \in 1 .. Len(r)
         /\ s[SegmentStart(s)] = r[SegmentStart(r)]
         /\ SegmentStart(s) < Len(s) <=> SegmentStart(r) < Len(r)
         /\ Jumps(s) = {} <=> Jumps(r) = {}
         /\ Jumps(s) # {} => s[Max(Jumps(s)) - 1] = r[Max(Jumps(r)) - 1]
         /\ Jumps(r) = {} => SegmentStart(r) = 1
         /\ Jumps(r) # {} => SegmentStart(r) = Max(Jumps(r)) /\ SegmentStart(r) \in Jumps(r)
<1> DEFINE T == Levels(d)
           K == Having(d)
           L == Kept(d)
<1>1. T \in Seq(LevelRow) /\ K \in SUBSET (1 .. Len(T)) /\ L \in SUBSET (1 .. Len(T)) /\ L \subseteq K
  BY LevelsSound
<1>2. PICK n \in L, m \in L : \A k \in K : n <= k /\ k <= m
  BY EndsKept
<1>3. n \in K /\ m \in K /\ \A k \in L : n <= k /\ k <= m
  BY <1>1, <1>2
<1>4. s = Chosen(T, K) /\ r = Chosen(T, L)
  BY DEF Readings, Having
<1>5. /\ \A i, j : Replaced(T, K, i, j) => Replaced(T, L, i, j)
      /\ \A i, j : Replaced(T, L, i, j) => Replaced(T, K, i, j)
  BY ReplacedKept, ReplacedNew
<1>6. \A i, j : Replaced(T, L, i, j) => i \in L /\ j \in L /\ i \in K /\ j \in K /\ j \in 1 .. Len(T)
  BY <1>1 DEF Replaced
<1> HIDE DEF T, K, L
<1>0. ChosenFrom(s, T, K, n, m) /\ ChosenFrom(r, T, L, n, m)
  BY <1>1, <1>2, <1>3, <1>4 DEF ChosenFrom
<1>7. s \in Seq(LevelRow) /\ Len(s) \in Nat /\ Len(s) >= 1 /\ Last(s) = T[m]
  BY <1>0, JumpsChosen
<1>8. r \in Seq(LevelRow) /\ Len(r) \in Nat /\ Len(r) >= 1 /\ Last(r) = T[m]
  BY <1>0, JumpsChosen
<1>9. CASE \A i, j \in L : ~Replaced(T, L, i, j)
  <2>1. Unbroken(T, K) /\ Unbroken(T, L)
    BY <1>5, <1>6, <1>9 DEF Unbroken
  <2>2. /\ Jumps(s) = {} /\ SegmentStart(s) = 1 /\ s[SegmentStart(s)] = T[n]
        /\ SegmentStart(s) < Len(s) <=> n < m
    BY <2>1, <1>0, StartAtFirst
  <2>3. /\ Jumps(r) = {} /\ SegmentStart(r) = 1 /\ r[SegmentStart(r)] = T[n]
        /\ SegmentStart(r) < Len(r) <=> n < m
    BY <2>1, <1>0, StartAtFirst
  <2>4. 1 \in 1 .. Len(r)
    BY <1>8
  <2> QED BY <2>2, <2>3, <2>4, <1>7, <1>8
<1>10. CASE \E i, j \in L : Replaced(T, L, i, j)
  <2> DEFINE J == {y \in 1 .. Len(T) : \E x \in L : Replaced(T, L, x, y)}
  <2>1. PICK j \in J : \A y \in J : y <= j
    <3>1. J \in SUBSET (1 .. Len(T)) /\ J # {}
      BY <1>6, <1>10
    <3>2. Len(T) \in Nat
      BY <1>1, LenProperties
    <3> HIDE DEF J
    <3>3. Max(J) \in J /\ \A y \in J : y <= Max(J)
      BY <3>1, <3>2, ExtremesOf
    <3> QED BY <3>3
  <2>2. PICK i \in L : Replaced(T, L, i, j)
    BY <2>1
  <2>3. j \in L /\ i \in K /\ j \in K /\ Replaced(T, K, i, j)
    BY <2>2, <1>5, <1>6
  <2>4. \A x, y \in L : Replaced(T, L, x, y) => y <= j
    BY <2>1, <1>6
  <2>5. \A x, y \in K : Replaced(T, K, x, y) => y <= j
    BY <2>1, <1>5, <1>6
  <2> HIDE DEF J
  <2>9. Latest(T, K, i, j) /\ Latest(T, L, i, j)
    BY <2>2, <2>3, <2>4, <2>5 DEF Latest
  <2>6. /\ Jumps(s) # {} /\ SegmentStart(s) = Max(Jumps(s)) /\ SegmentStart(s) \in 2 .. Len(s)
        /\ s[SegmentStart(s)] = T[j] /\ s[SegmentStart(s) - 1] = T[i]
        /\ SegmentStart(s) < Len(s) <=> j < m
    BY <2>9, <1>0, StartAtLast
  <2>7. /\ Jumps(r) # {} /\ SegmentStart(r) = Max(Jumps(r)) /\ SegmentStart(r) \in 2 .. Len(r)
        /\ r[SegmentStart(r)] = T[j] /\ r[SegmentStart(r) - 1] = T[i]
        /\ SegmentStart(r) < Len(r) <=> j < m
    BY <2>9, <1>0, StartAtLast
  <2>8. SegmentStart(r) \in Jumps(r) /\ SegmentStart(r) \in 1 .. Len(r)
    <3>1. Jumps(r) \in SUBSET (1 .. Len(r))
      BY <1>8 DEF Jumps
    <3>2. Max(Jumps(r)) \in Jumps(r)
      BY <3>1, <2>7, <1>8, ExtremesOf
    <3> QED BY <3>1, <3>2, <2>7
  <2> QED BY <2>6, <2>7, <2>8, <1>7, <1>8
<1> QED BY <1>9, <1>10

\* So both are forecast the same.
LEMMA Agree == reports \in History => ForecastsAgree
<1> SUFFICES ASSUME reports \in History, NEW d \in Reported, ~CreptUp(d)
             PROVE  Forecast(PickedReadings(d)) = Forecast(Readings(d))
  BY DEF ForecastsAgree
<1>1. d \in Supplies /\ Having(d) # {}
  BY DEF Reported, Having
<1>2. PICK s : s = Readings(d)
  OBVIOUS
<1>3. PICK r : r = Chosen(Levels(d), Kept(d))
  OBVIOUS
<1>4. /\ r \in Seq(LevelRow) /\ Len(r) >= 1 /\ SegmentStart(r) \in 1 .. Len(r)
      /\ Jumps(r) = {} => SegmentStart(r) = 1
      /\ Jumps(r) # {} => SegmentStart(r) = Max(Jumps(r)) /\ SegmentStart(r) \in Jumps(r)
  BY <1>1, <1>2, <1>3, RowsAlike
<1>5. Last(s) = Last(r) /\ s[SegmentStart(s)] = r[SegmentStart(r)]
  BY <1>1, <1>2, <1>3, RowsAlike
<1>6. SegmentStart(s) < Len(s) <=> SegmentStart(r) < Len(r)
  BY <1>1, <1>2, <1>3, RowsAlike
<1>7. ~(Last(r).percent - r[SegmentStart(r)].percent >= JumpThreshold /\ SegmentStart(r) < Len(r))
  <2>1. ~(Last(s).percent - s[SegmentStart(s)].percent >= JumpThreshold /\ SegmentStart(s) < Len(s))
    BY <1>2, Zenon DEF CreptUp
  <2> QED BY <2>1, <1>5, <1>6, Zenon
<1>8. PickedReadings(d) = Chosen(r, {Len(r), SegmentStart(r), SegmentStart(r) - 1} \cap DOMAIN r)
  BY <1>3, Zenon DEF PickedReadings, Kept
<1>9. Forecast(PickedReadings(d)) = Forecast(r)
  BY <1>4, <1>7, <1>8, PickedForecast
<1>10. /\ Jumps(s) = {} <=> Jumps(r) = {}
       /\ Jumps(s) # {} => s[Max(Jumps(s)) - 1] = r[Max(Jumps(r)) - 1]
  BY <1>1, <1>2, <1>3, RowsAlike
<1>11. Forecast(s) = Forecast(r)
  BY <1>5, <1>6, <1>10, SameForecast
<1> QED BY <1>2, <1>9, <1>11

\* Days and levels of the readings of a supply.
LEMMA ReadingsSound ==
  ASSUME reports \in History, (\A x \in Percents : x <= 100), NEW d \in Supplies, NEW s, s = Readings(d)
  PROVE  /\ \A a, b \in 1 .. Len(s) : a < b => s[a].at < s[b].at
         /\ \A a \in 1 .. Len(s) : s[a].percent \in Int /\ s[a].percent <= 100 /\ s[a].at \in Int
<1> DEFINE T == Levels(d)
           K == Having(d)
<1>1. /\ T \in Seq(LevelRow) /\ K \in SUBSET (1 .. Len(T)) /\ Len(T) = Len(reports)
      /\ \A i \in 1 .. Len(T) : /\ T[i].at = i /\ T[i].percent = reports[i][d]
                                /\ reports[i][d] \in Percents \cup {Missing}
  BY LevelsSound
<1>2. s = Chosen(T, K)
  BY DEF Readings, Having
<1> HIDE DEF T, K
<1>3. PICK g : Picks(s, T, g, Len(T))
  BY <1>1, <1>2, ChosenSound
<1>4. /\ \A a \in 1 .. Len(s) : g[a] \in 1 .. Len(T) /\ s[a] = T[g[a]]
      /\ \A a, b \in 1 .. Len(s) : a < b => g[a] < g[b]
  BY <1>3 DEF Picks
<1>5. \A x \in Percents \cup {Missing} : x \in Int /\ x <= 100
  BY SupplyForecastAssumption DEF Missing
<1>6. \A a \in 1 .. Len(s) : s[a].at = g[a] /\ s[a].at \in Int /\ s[a].percent \in Percents \cup {Missing}
  BY <1>1, <1>4
<1> QED BY <1>4, <1>5, <1>6

\* A rate is one of the readings since the last replacement.
LEMMA OneCartridge == reports \in History /\ (\A x \in Percents : x <= 100) => RateWithinOneCartridge
<1> SUFFICES ASSUME reports \in History, (\A x \in Percents : x <= 100), NEW d \in Reported,
                    NEW s, s = Readings(d), Forecast(s).rate.drop > 0
             PROVE  /\ Forecast(s).rate.span >= MinSpan
                    /\ Forecast(s).current + Forecast(s).rate.drop <= 100
                    /\ \A k \in 2 .. Len(s) :
                         s[k].at > Last(s).at - Forecast(s).rate.span =>
                           s[k].percent - s[k - 1].percent < JumpThreshold
  BY Zenon DEF RateWithinOneCartridge
<1>1. d \in Supplies /\ Having(d) # {}
  BY DEF Reported, Having
<1>2. s \in Seq(LevelRow) /\ Len(s) \in Nat /\ Len(s) >= 1
  BY <1>1, RowsAlike
<1>3. /\ \A a, b \in 1 .. Len(s) : a < b => s[a].at < s[b].at
      /\ \A a \in 1 .. Len(s) : s[a].percent \in Int /\ s[a].percent <= 100 /\ s[a].at \in Int
  BY <1>1, ReadingsSound
<1>4. PICK q : q = SegmentStart(s)
  OBVIOUS
<1>5. q \in 1 .. Len(s) /\ \A k \in Jumps(s) : k <= q
  <2>1. CASE Jumps(s) = {}
    BY <2>1, <1>2, <1>4 DEF SegmentStart
  <2>2. CASE Jumps(s) # {}
    <3>1. Jumps(s) \in SUBSET (1 .. Len(s))
      BY <1>2 DEF Jumps
    <3>2. Max(Jumps(s)) \in Jumps(s) /\ \A k \in Jumps(s) : k <= Max(Jumps(s))
      BY <3>1, <2>2, <1>2, ExtremesOf
    <3>3. q = Max(Jumps(s))
      BY <2>2, <1>4, Zenon DEF SegmentStart
    <3> QED BY <3>1, <3>2, <3>3
  <2> QED BY <2>1, <2>2
<1>6. Len(s) \in 1 .. Len(s) /\ Last(s) = s[Len(s)]
  BY <1>2 DEF Last
<1>7. PICK drop : drop = s[q].percent - Last(s).percent
  OBVIOUS
<1>8. PICK span : span = Last(s).at - s[q].at
  OBVIOUS
<1>9. Forecast(s).current = Last(s).percent
  BY DEF Forecast
<1>10. Forecast(s).rate = IF q < Len(s) /\ span >= MinSpan /\ drop > 0
                          THEN [drop |-> drop, span |-> span] ELSE [drop |-> 0, span |-> 0]
  BY <1>4, <1>7, <1>8 DEF Forecast
<1>11. q < Len(s) /\ span >= MinSpan /\ drop > 0
  <2> SUFFICES ASSUME ~(q < Len(s) /\ span >= MinSpan /\ drop > 0) PROVE FALSE
    OBVIOUS
  <2>1. Forecast(s).rate = [drop |-> 0, span |-> 0]
    BY <1>10, Zenon
  <2>2. Forecast(s).rate.drop = 0
    BY <2>1
  <2> QED BY <2>2
<1>12. Forecast(s).rate = [drop |-> drop, span |-> span]
  BY <1>10, <1>11, Zenon
<1>13. Forecast(s).rate.drop = drop /\ Forecast(s).rate.span = span
  BY <1>12
<1>14. Last(s).percent + drop <= 100
  BY <1>3, <1>5, <1>6, <1>7
<1>15. ASSUME NEW k \in 2 .. Len(s), s[k].at > Last(s).at - span
       PROVE  s[k].percent - s[k - 1].percent < JumpThreshold
  <2>1. k \in 1 .. Len(s) /\ k - 1 \in 1 .. Len(s)
    BY <1>2
  <2>2. s[k].at > s[q].at
    BY <2>1, <1>3, <1>5, <1>6, <1>8, <1>15
  <2>3. ~(k <= q)
    <3> SUFFICES ASSUME k <= q PROVE FALSE
      OBVIOUS
    <3>1. k = q \/ k < q
      BY <2>1, <1>5
    <3>2. s[k].at <= s[q].at
      BY <3>1, <2>1, <1>3, <1>5
    <3> QED BY <3>2, <2>1, <2>2, <1>3, <1>5
  <2>4. k \notin Jumps(s)
    BY <2>3, <1>5
  <2>5. ~(s[k].percent - s[k - 1].percent >= JumpThreshold)
    BY <2>4 DEF Jumps
  <2>6. JumpThreshold \in Int
    BY SupplyForecastAssumption
  <2> QED BY <2>1, <2>5, <2>6, <1>3
<1> QED BY <1>9, <1>11, <1>13, <1>14, <1>15, Zenon

\* The history is one of reports.
StoredReports == reports \in History
\* Every step adds a report to it.
LEMMA ReportsStored == SupplyForecastSpec => []StoredReports
<1>1. SupplyForecastInit => StoredReports
  BY EmptySeq DEF StoredReports, SupplyForecastInit, History
<1>2. StoredReports /\ [SupplyForecastNext]_reports => StoredReports'
  <2> SUFFICES ASSUME reports \in History, [SupplyForecastNext]_reports PROVE reports' \in History
    BY DEF StoredReports
  <2>1. CASE UNCHANGED reports
    BY <2>1
  <2>2. CASE SupplyForecastNext
    BY <2>2, AppendProperties DEF SupplyForecastNext, StoreReport, History
  <2> QED BY <2>1, <2>2
<1> QED BY <1>1, <1>2, PTL DEF SupplyForecastSpec

(* However the levels of a fleet's supplies went, the fleet's list of       *)
(* forecastInputs forecasts what the printer's own page does, unless a      *)
(* level crept up by as much as a replacement without one.                  *)
THEOREM FleetForecasts == SupplyForecastSpec => []ForecastsAgree
<1>1. StoredReports => ForecastsAgree
  BY Agree DEF StoredReports
<1> QED BY <1>1, ReportsStored, PTL

\* No printer reports a supply as more than full; nothing in the code checks it.
NeverOverfull == \A x \in Percents : x <= 100

(* And forecastSupply forecasts no rate across a replacement and none       *)
(* faster than the whole supply, on the fleet's list or the printer's page. *)
THEOREM NoBlendedForecast == NeverOverfull => (SupplyForecastSpec => []ForecastSound)
<1> SUFFICES ASSUME NeverOverfull PROVE SupplyForecastSpec => []ForecastSound
  OBVIOUS
<1>1. StoredReports => ForecastSound
  BY Agree, OneCartridge DEF ForecastSound, StoredReports, NeverOverfull
<1> QED BY <1>1, ReportsStored, PTL

(* Rows chosen in two ways, and what the filter leaves alone.               *)
\* An increasing map of 1 .. n onto 1 .. k changes nothing.
Onto(m, n, k) ==
  /\ \A a \in 1 .. n : m[a] \in 1 .. k
  /\ \A a, b \in 1 .. n : a < b => m[a] < m[b]
  /\ \A c \in 1 .. k : \E a \in 1 .. n : m[a] = c
\* It counts.
LEMMA OntoIsSame ==
  ASSUME NEW n \in Nat, NEW k \in Nat, NEW m, Onto(m, n, k)
  PROVE  n = k /\ \A a \in 1 .. n : m[a] = a
<1>0. /\ \A a \in 1 .. n : m[a] \in 1 .. k
      /\ \A a, b \in 1 .. n : a < b => m[a] < m[b]
      /\ \A c \in 1 .. k : \E a \in 1 .. n : m[a] = c
  BY DEF Onto
<1> DEFINE T == {i \in Nat : \A a \in 1 .. n : a <= i => m[a] = a}
<1>1. 0 \in T
  OBVIOUS
<1>2. ASSUME NEW i \in Nat, i \in T PROVE i + 1 \in T
  <2> SUFFICES ASSUME i + 1 \in 1 .. n PROVE m[i + 1] = i + 1
    BY <1>2
  <2>1. m[i + 1] \in 1 .. k
    BY <1>0
  <2>2. m[i + 1] >= i + 1
    <3>1. CASE i = 0
      BY <3>1, <2>1
    <3>2. CASE i \in 1 .. n
      <4>1. m[i] = i /\ m[i] < m[i + 1]
        BY <3>2, <1>0, <1>2
      <4> QED BY <4>1, <2>1
    <3> QED BY <3>1, <3>2
  <2>3. i + 1 \in 1 .. k
    BY <2>1, <2>2
  <2>4. PICK x \in 1 .. n : m[x] = i + 1
    BY <2>3, <1>0
  <2>5. x <= i => m[x] = x
    BY <1>2
  <2>6. i + 1 < x => m[i + 1] < m[x]
    BY <1>0
  <2>7. ~(x <= i) /\ ~(i + 1 < x)
    BY <2>1, <2>2, <2>4, <2>5, <2>6
  <2>8. x = i + 1
    BY <2>7
  <2> QED BY <2>4, <2>8
<1>3. \A a \in 1 .. n : m[a] = a
  <2>1. Nat \subseteq T
    <3> HIDE DEF T
    <3> QED BY <1>1, <1>2, UpToAll
  <2>2. n \in T
    BY <2>1
  <2> QED BY <2>2
<1>4. k <= n
  <2>1. CASE k = 0
    BY <2>1
  <2>2. CASE k >= 1
    <3>1. PICK a \in 1 .. n : m[a] = k
      BY <2>2, <1>0
    <3> QED BY <3>1, <1>3
  <2> QED BY <2>1, <2>2
<1>5. n <= k
  <2>1. CASE n = 0
    BY <2>1
  <2>2. CASE n >= 1
    <3>1. n \in 1 .. n
      BY <2>2
    <3>2. m[n] \in 1 .. k /\ m[n] = n
      BY <3>1, <1>0, <1>3
    <3> QED BY <3>2
  <2> QED BY <2>1, <2>2
<1> QED BY <1>3, <1>4, <1>5

\* Two ways to choose the same rows in the same order.
Alike(s, I, t, J, h) ==
  /\ \A i \in I : h[i] \in J /\ s[i] = t[h[i]]
  /\ \A i, j \in I : i < j => h[i] < h[j]
  /\ \A j \in J : \E i \in I : h[i] = j
\* The rows at I of s are those at J of t.
LEMMA ChosenAlike ==
  ASSUME NEW S, NEW s \in Seq(S), NEW I \in SUBSET (1 .. Len(s)),
         NEW t \in Seq(S), NEW J \in SUBSET (1 .. Len(t)), NEW h, Alike(s, I, t, J, h)
  PROVE  Chosen(s, I) = Chosen(t, J)
<1>0. /\ \A i \in I : h[i] \in J /\ s[i] = t[h[i]]
      /\ \A i, j \in I : i < j => h[i] < h[j]
      /\ \A j \in J : \E i \in I : h[i] = j
  BY DEF Alike
<1>1. PICK c : c = Chosen(s, I)
  OBVIOUS
<1>2. PICK e : e = Chosen(t, J)
  OBVIOUS
<1>3. PICK g : /\ Picks(c, s, g, Len(s)) /\ \A a \in 1 .. Len(c) : g[a] \in I
               /\ \A k \in I : \E a \in 1 .. Len(c) : g[a] = k
  BY <1>1, ChosenSound
<1>4. PICK d : /\ Picks(e, t, d, Len(t)) /\ \A a \in 1 .. Len(e) : d[a] \in J
               /\ \A k \in J : \E a \in 1 .. Len(e) : d[a] = k
  BY <1>2, ChosenSound
<1>5. c \in Seq(S) /\ e \in Seq(S)
  BY <1>1, <1>2, ChosenSound
<1>6. Len(c) \in Nat /\ Len(e) \in Nat
  BY <1>5, LenProperties
<1>7. /\ \A a, b \in 1 .. Len(c) : a < b => g[a] < g[b]
      /\ \A a \in 1 .. Len(c) : c[a] = s[g[a]]
  BY <1>3 DEF Picks
<1>8. /\ \A a, b \in 1 .. Len(e) : a < b => d[a] < d[b]
      /\ \A a \in 1 .. Len(e) : e[a] = t[d[a]]
  BY <1>4 DEF Picks
<1>j. \A j \in J : j \in Nat
  OBVIOUS
<1>9. \A a \in 1 .. Len(c) : \E b \in 1 .. Len(e) : d[b] = h[g[a]]
  BY <1>0, <1>3, <1>4
<1> DEFINE m == [a \in 1 .. Len(c) |-> CHOOSE b \in 1 .. Len(e) : d[b] = h[g[a]]]
<1>10. \A a \in 1 .. Len(c) : m[a] \in 1 .. Len(e) /\ d[m[a]] = h[g[a]]
  BY <1>9
<1> HIDE DEF m
<1>11. ASSUME NEW a \in 1 .. Len(c), NEW b \in 1 .. Len(c), a < b PROVE m[a] < m[b]
  <2>1. h[g[a]] < h[g[b]]
    BY <1>0, <1>3, <1>7, <1>11
  <2>2. d[m[a]] < d[m[b]] /\ m[a] \in 1 .. Len(e) /\ m[b] \in 1 .. Len(e)
    BY <2>1, <1>10
  <2>3. d[m[a]] \in J /\ d[m[b]] \in J
    BY <2>2, <1>4
  <2>4. d[m[a]] \in Nat /\ d[m[b]] \in Nat
    BY <2>3, <1>j
  <2>5. ~(m[b] < m[a]) /\ m[a] # m[b]
    BY <2>2, <2>4, <1>8
  <2> QED BY <2>2, <2>5
<1>12. ASSUME NEW b \in 1 .. Len(e) PROVE \E a \in 1 .. Len(c) : m[a] = b
  <2>1. PICK i \in I : h[i] = d[b]
    BY <1>0, <1>4
  <2>2. PICK a \in 1 .. Len(c) : g[a] = i
    BY <1>3
  <2>3. d[m[a]] = d[b] /\ m[a] \in 1 .. Len(e)
    BY <2>1, <2>2, <1>10
  <2>4. d[b] \in J
    BY <1>4
  <2>5. d[b] \in Nat
    BY <2>4, <1>j
  <2>6. ~(m[a] < b) /\ ~(b < m[a])
    BY <2>3, <2>5, <1>8
  <2>7. m[a] = b
    BY <2>3, <2>6
  <2> QED BY <2>7
<1>13. Len(c) = Len(e) /\ \A a \in 1 .. Len(c) : m[a] = a
  <2>1. \A a \in 1 .. Len(c) : m[a] \in 1 .. Len(e)
    BY <1>10
  <2>2. \A a, b \in 1 .. Len(c) : a < b => m[a] < m[b]
    BY <1>11
  <2>3. \A b \in 1 .. Len(e) : \E a \in 1 .. Len(c) : m[a] = b
    BY <1>12
  <2>4. PICK n \in Nat : n = Len(c)
    BY <1>6
  <2>5. PICK k \in Nat : k = Len(e)
    BY <1>6
  <2>6. n = k /\ \A a \in 1 .. n : m[a] = a
    <3>1. \A a \in 1 .. n : m[a] \in 1 .. k
      BY <2>1, <2>4, <2>5
    <3>2. \A a, b \in 1 .. n : a < b => m[a] < m[b]
      BY <2>2, <2>4
    <3>3. \A b \in 1 .. k : \E a \in 1 .. n : m[a] = b
      BY <2>3, <2>4, <2>5
    <3>4. Onto(m, n, k)
      BY <3>1, <3>2, <3>3, Zenon DEF Onto
    <3> QED BY <3>4, OntoIsSame, Zenon
  <2> QED BY <2>4, <2>5, <2>6
<1>14. ASSUME NEW a \in 1 .. Len(c) PROVE c[a] = e[a]
  <2>1. d[a] = h[g[a]] /\ g[a] \in I
    BY <1>3, <1>10, <1>13
  <2>2. c[a] = s[g[a]] /\ e[a] = t[d[a]]
    BY <1>7, <1>8, <1>13
  <2> QED BY <2>1, <2>2, <1>0
<1> QED BY <1>1, <1>2, <1>5, <1>13, <1>14, SeqEqual

\* A value that never falls is kept whole by the filter.
LEMMA FilteredWhole ==
  ASSUME NEW S, NEW s \in Seq(S), NEW c, \A i \in 1 .. Len(s) : s[i][c] \in Int,
         \A i \in 2 .. Len(s) : s[i - 1][c] <= s[i][c]
  PROVE  Filtered(s, c) = s
<1>1. PICK f : /\ f[0] = <<>>
               /\ \A i \in 1 .. Len(s) : Skips(s, c, f[i - 1], i) => f[i] = f[i - 1]
               /\ \A i \in 1 .. Len(s) : ~Skips(s, c, f[i - 1], i) => f[i] = Append(f[i - 1], s[i])
               /\ Filtered(s, c) = f[Len(s)]
  BY FilteredRec
<1>2. Len(s) \in Nat /\ \A i \in 1 .. Len(s) : s[i] \in S
  BY LenProperties, ElementOfSeq
<1> DEFINE Whole(q, n) == q \in Seq(S) /\ Len(q) = n /\ \A a \in 1 .. n : q[a] = s[a]
           T == {n \in Nat : n <= Len(s) => Whole(f[n], n)}
<1>3. 0 \in T
  <2>1. f[0] \in Seq(S) /\ Len(f[0]) = 0
    BY <1>1, EmptySeq
  <2> QED BY <2>1
<1>4. ASSUME NEW n \in Nat, n \in T PROVE n + 1 \in T
  <2> SUFFICES ASSUME n + 1 <= Len(s) PROVE Whole(f[n + 1], n + 1)
    <3> HIDE DEF Whole
    <3>1. n + 1 \in Nat
      OBVIOUS
    <3> QED BY <3>1
  <2>1. f[n] \in Seq(S) /\ Len(f[n]) = n /\ \A a \in 1 .. n : f[n][a] = s[a]
    BY <1>2, <1>4
  <2>2. n + 1 \in 1 .. Len(s) /\ (n + 1) - 1 = n
    BY <1>2
  <2>3. ~Skips(s, c, f[n], n + 1)
    <3> SUFFICES ASSUME n + 1 > 1, s[n + 1][c] < Last(f[n])[c] PROVE FALSE
      BY DEF Skips
    <3>1. n \in 1 .. n /\ n \in 1 .. Len(s) /\ n + 1 \in 2 .. Len(s)
      BY <1>2
    <3>2. Last(f[n]) = s[n]
      BY <3>1, <2>1 DEF Last
    <3>3. s[n][c] <= s[n + 1][c]
      BY <3>1, <2>2
    <3>4. s[n][c] \in Int /\ s[n + 1][c] \in Int
      BY <3>1, <2>2
    <3> QED BY <3>2, <3>3, <3>4
  <2>4. f[n + 1] = Append(f[n], s[n + 1])
    <3>1. ~Skips(s, c, f[(n + 1) - 1], n + 1) => f[n + 1] = Append(f[(n + 1) - 1], s[n + 1])
      BY <2>2, <1>1, Zenon
    <3> QED BY <3>1, <2>2, <2>3, Zenon
  <2>5. /\ f[n + 1] \in Seq(S) /\ Len(f[n + 1]) = n + 1
        /\ \A a \in 1 .. n : f[n + 1][a] = f[n][a]
        /\ f[n + 1][n + 1] = s[n + 1]
    BY <2>1, <2>2, <2>4, <1>2, AppendProperties
  <2>6. \A a \in 1 .. n + 1 : f[n + 1][a] = s[a]
    <3>1. \A a \in 1 .. n + 1 : a = n + 1 \/ a \in 1 .. n
      OBVIOUS
    <3> QED BY <3>1, <2>1, <2>5
  <2> QED BY <2>5, <2>6
<1>5. Whole(f[Len(s)], Len(s))
  <2>1. Nat \subseteq T
    <3> HIDE DEF T
    <3> QED BY <1>3, <1>4, UpToAll
  <2> HIDE DEF Whole
  <2>2. Len(s) \in T
    BY <2>1, <1>2
  <2> QED BY <2>2, <1>2
<1>6. f[Len(s)] = s
  BY <1>5, SeqEqual
<1> QED BY <1>1, <1>6

(* The pages chart: rows of its readings and of its days.                   *)
\* The readings are stored in the order of their instants.
TrendInv ==
  /\ readings \in Seq(PageReading)
  /\ \A a, b \in 1 .. Len(readings) : a < b => readings[a].at < readings[b].at

\* Every step keeps that.
LEMMA TrendKept == PageTrendSpec => []TrendInv
<1>1. PageTrendInit => TrendInv
  BY EmptySeq DEF PageTrendInit, TrendInv
<1>2. TrendInv /\ [PageTrendNext]_readings => TrendInv'
  <2> SUFFICES ASSUME TrendInv, [PageTrendNext]_readings PROVE TrendInv'
    OBVIOUS
  <2>1. CASE UNCHANGED readings
    BY <2>1 DEF TrendInv
  <2>2. CASE PageTrendNext
    <3>1. PICK r \in PageReading : StoreReading(r)
      BY <2>2 DEF PageTrendNext
    <3>2. readings \in Seq(PageReading) /\ Len(readings) \in Nat /\ \A a \in 1 .. Len(readings) : readings[a] \in PageReading
      BY LenProperties, ElementOfSeq DEF TrendInv
    <3>3. /\ readings' \in Seq(PageReading) /\ Len(readings') = Len(readings) + 1
          /\ \A a \in 1 .. Len(readings) : readings'[a] = readings[a]
          /\ readings'[Len(readings) + 1] = r
      BY <3>1, <3>2, AppendProperties DEF StoreReading
    <3>4. \A a \in 1 .. Len(readings) : readings[a].at < r.at
      <4> SUFFICES ASSUME NEW a \in 1 .. Len(readings) PROVE readings[a].at < r.at
        OBVIOUS
      <4>1. readings # <<>>
        BY EmptySeq
      <4>2. Last(readings).at < r.at /\ Last(readings) = readings[Len(readings)]
        BY <3>1, <4>1 DEF StoreReading, Last
      <4>3. Len(readings) \in 1 .. Len(readings)
        BY <3>2
      <4>4. a = Len(readings) \/ a < Len(readings)
        BY <3>2
      <4>5. a = Len(readings) \/ readings[a].at < readings[Len(readings)].at
        BY <4>3, <4>4 DEF TrendInv
      <4>6. readings[a].at \in Int /\ readings[Len(readings)].at \in Int /\ r.at \in Int
        BY <3>2, <4>3 DEF PageReading
      <4> QED BY <4>2, <4>5, <4>6
    <3>5. ASSUME NEW a \in 1 .. Len(readings'), NEW b \in 1 .. Len(readings'), a < b
          PROVE  readings'[a].at < readings'[b].at
      <4>1. a \in 1 .. Len(readings)
        BY <3>2, <3>3, <3>5
      <4>2. CASE b \in 1 .. Len(readings)
        BY <4>1, <4>2, <3>3, <3>5 DEF TrendInv
      <4>3. CASE b = Len(readings) + 1
        BY <4>1, <4>3, <3>3, <3>4
      <4> QED BY <4>2, <4>3, <3>2, <3>3
    <3> QED BY <3>3, <3>5 DEF TrendInv
  <2> QED BY <2>1, <2>2
<1> QED BY <1>1, <1>2, PTL DEF PageTrendSpec

\* Days go by as instants do.
LEMMA DaysGoBy ==
  /\ \A a \in Nat : Day(a) \in Nat /\ Day(a) >= 1
  /\ \A a, b \in Nat : a <= b => Day(a) <= Day(b)
<1>1. DayLength \in Nat /\ DayLength > 0
  BY PageTrendAssumption
<1>2. ASSUME NEW a \in Nat PROVE Day(a) \in Nat /\ Day(a) >= 1
  <2>1. a \div DayLength \in Nat
    BY <1>1
  <2> QED BY <2>1 DEF Day
<1>3. ASSUME NEW a \in Nat, NEW b \in Nat, a <= b PROVE Day(a) <= Day(b)
  <2>1. a \div DayLength <= b \div DayLength
    BY <1>1, <1>3
  <2>2. a \div DayLength \in Nat /\ b \div DayLength \in Nat
    BY <1>1
  <2> QED BY <2>1, <2>2 DEF Day
<1> QED BY <1>2, <1>3

\* What is known of each reading,
LEMMA ReadingKnown ==
  ASSUME TrendInv
  PROVE  /\ Len(readings) \in Nat /\ DOMAIN readings = 1 .. Len(readings)
         /\ \A i \in 1 .. Len(readings) : /\ readings[i].at \in 0 .. TrendEnd /\ readings[i].at \in Nat
                                          /\ readings[i].engine \in Int /\ readings[i].printed \in Int
                                          /\ DayOf(i) \in 1 .. Day(TrendEnd) /\ DayOf(i) \in Nat
         /\ \A i, j \in 1 .. Len(readings) : i <= j => DayOf(i) <= DayOf(j)
<1>1. /\ Len(readings) \in Nat /\ DOMAIN readings = 1 .. Len(readings)
      /\ \A i \in 1 .. Len(readings) : readings[i] \in PageReading
  BY LenProperties, ElementOfSeq DEF TrendInv
<1>2. ASSUME NEW i \in 1 .. Len(readings)
      PROVE  /\ readings[i].at \in 0 .. TrendEnd
             /\ readings[i].engine \in EngineReadings \cup {NotRead}
             /\ readings[i].printed \in PrintedReadings \cup {NotRead}
  BY <1>1 DEF PageReading
<1>3. TrendEnd \in Nat /\ \A x \in (EngineReadings \cup {NotRead}) \cup (PrintedReadings \cup {NotRead}) : x \in Int
  BY PageTrendAssumption DEF NotRead
<1>4. \A i \in 1 .. Len(readings) : readings[i].at \in Nat /\ readings[i].at <= TrendEnd
  BY <1>2, <1>3
<1>5. \A i \in 1 .. Len(readings) : readings[i].engine \in Int /\ readings[i].printed \in Int
  BY <1>2, <1>3
<1>6. ASSUME NEW i \in 1 .. Len(readings) PROVE DayOf(i) \in 1 .. Day(TrendEnd) /\ DayOf(i) \in Nat
  <2>1. DayOf(i) \in Nat /\ DayOf(i) >= 1 /\ Day(TrendEnd) \in Nat
    BY <1>3, <1>4, DaysGoBy DEF DayOf
  <2>2. DayOf(i) <= Day(TrendEnd)
    BY <1>3, <1>4, DaysGoBy DEF DayOf
  <2> QED BY <2>1, <2>2
<1>7. ASSUME NEW i \in 1 .. Len(readings), NEW j \in 1 .. Len(readings), i <= j
      PROVE  DayOf(i) <= DayOf(j)
  <2>1. i = j \/ i < j
    BY <1>1, <1>7
  <2>2. i = j \/ readings[i].at < readings[j].at
    BY <2>1 DEF TrendInv
  <2>3. readings[i].at <= readings[j].at
    BY <2>2, <1>4
  <2> QED BY <2>3, <1>4, DaysGoBy DEF DayOf
<1> QED BY <1>1, <1>2, <1>4, <1>5, <1>6, <1>7

\* and of the one before the window and those in it.
LEMMA WindowKnown ==
  ASSUME TrendInv
  PROVE  /\ Earlier \subseteq 1 .. Len(readings) /\ Inside \subseteq 1 .. Len(readings)
         /\ Sequence \subseteq 1 .. Len(readings)
         /\ \A a, b \in Earlier : a = b
         /\ \A a \in Earlier, b \in Inside : a < b
         /\ \A a \in Sequence : WasRead(a)
         /\ Earlier \cap Inside = {}
<1>1. Before \subseteq 1 .. Len(readings) /\ Inside \subseteq 1 .. Len(readings) /\ Len(readings) \in Nat
  BY ReadingKnown DEF Before, Inside
<1>2. Earlier \subseteq Before
  <2>1. Before # {} => Max(Before) \in Before
    BY <1>1, ExtremesOf
  <2> QED BY <2>1 DEF Earlier
<1>3. \A a, b \in Earlier : a = b
  BY DEF Earlier
<1>4. ASSUME NEW a \in Earlier, NEW b \in Inside PROVE a < b
  <2>1. readings[a].at <= TrendStart /\ readings[b].at > TrendStart
    BY <1>2 DEF Before, Inside
  <2>2. a \in 1 .. Len(readings) /\ b \in 1 .. Len(readings)
    BY <1>1, <1>2
  <2>3. readings[a].at \in Nat /\ readings[b].at \in Nat /\ TrendStart \in Int
    BY <2>2, ReadingKnown, PageTrendAssumption
  <2>4. ~(b < a) /\ b # a
    <3>1. b < a => readings[b].at < readings[a].at
      BY <2>2 DEF TrendInv
    <3>2. ~(readings[b].at < readings[a].at) /\ readings[b].at # readings[a].at
      BY <2>1, <2>3
    <3> QED BY <3>1, <3>2
  <2> QED BY <2>2, <2>4
<1>5. \A a \in Sequence : WasRead(a)
  BY <1>2 DEF Sequence, Before, Inside
<1>6. Earlier \cap Inside = {}
  <2> SUFFICES ASSUME NEW a \in Earlier, a \in Inside PROVE FALSE
    OBVIOUS
  <2>1. a < a /\ a \in Nat
    BY <1>1, <1>4
  <2> QED BY <2>1
<1>7. Sequence \subseteq 1 .. Len(readings)
  BY <1>1, <1>2 DEF Sequence
<1> QED BY <1>1, <1>2, <1>3, <1>4, <1>5, <1>6, <1>7

\* The readings of the window's sequence that have a counter, and the value of a
\* day's row in it.
With(c) == {k \in Sequence : readings[k][c] # NotRead}
RowIn(c, d) ==
  LET inDay == {k \in Inside : DayOf(k) = d /\ k \in With(c)}
      onBaseDay == {k \in Earlier : DayOf(k) = d}
  IN LastOf(IF inDay # {} THEN inDay ELSE onBaseDay, c)

\* A row has the last value of its day.
LEMMA RowSound ==
  ASSUME TrendInv, NEW c, NEW d
  PROVE  /\ \A i \in With(c) : DayOf(i) = d /\ (\A j \in With(c) : DayOf(j) = d => j <= i) =>
              RowIn(c, d) = readings[i][c]
         /\ RowIn(c, d) # NotRead => \E i \in With(c) : DayOf(i) = d
<1> DEFINE inDay == {k \in Inside : DayOf(k) = d /\ k \in With(c)}
           onBaseDay == {k \in Earlier : DayOf(k) = d}
<1>1. RowIn(c, d) = LastOf(IF inDay # {} THEN inDay ELSE onBaseDay, c)
  BY DEF RowIn
<1>2. /\ Len(readings) \in Nat /\ inDay \subseteq 1 .. Len(readings)
      /\ \A a, b \in Earlier : a = b
      /\ \A a \in Earlier, b \in Inside : a < b
      /\ \A k \in With(c) : k \in 1 .. Len(readings) /\ (k \in Earlier \/ k \in Inside)
  BY ReadingKnown, WindowKnown DEF With, Sequence
<1>3. CASE inDay # {}
  <2>1. PICK m : m = Max(inDay)
    OBVIOUS
  <2>2. m \in inDay /\ \A k \in inDay : k <= m
    BY <1>2, <1>3, <2>1, ExtremesOf
  <2>3. RowIn(c, d) = readings[m][c]
    BY <1>1, <1>3, <2>1, Zenon DEF LastOf
  <2>4. ASSUME NEW i \in With(c), DayOf(i) = d, \A j \in With(c) : DayOf(j) = d => j <= i
        PROVE  i = m
    <3>1. m <= i /\ m \in Inside /\ m \in Nat /\ i \in Nat
      BY <1>2, <2>2, <2>4
    <3>2. i \notin Earlier
      BY <3>1, <1>2
    <3>3. i \in inDay
      BY <3>2, <1>2, <2>4
    <3>4. i <= m
      BY <3>3, <2>2
    <3> QED BY <3>1, <3>4
  <2> QED BY <2>2, <2>3, <2>4
<1>4. CASE inDay = {}
  <2>1. RowIn(c, d) = LastOf(onBaseDay, c)
    BY <1>1, <1>4, Zenon
  <2>2. ASSUME NEW i \in With(c), DayOf(i) = d PROVE onBaseDay = {i}
    <3>1. i \notin Inside
      BY <1>4, <2>2
    <3>2. i \in Earlier
      BY <3>1, <1>2
    <3> QED BY <3>2, <2>2, <1>2
  <2>3. \A i : onBaseDay = {i} => RowIn(c, d) = readings[i][c]
    <3> SUFFICES ASSUME NEW i, onBaseDay = {i} PROVE RowIn(c, d) = readings[i][c]
      OBVIOUS
    <3>1. i \in 1 .. Len(readings)
      BY WindowKnown
    <3>2. Max({i}) = i
      <4>1. Max({i}) \in {i}
        BY <3>1, <1>2, ExtremesOf
      <4> QED BY <4>1
    <3> QED BY <2>1, <3>2 DEF LastOf
  <2>4. ASSUME RowIn(c, d) # NotRead PROVE \E i \in With(c) : DayOf(i) = d
    <3>1. PICK i \in Earlier : DayOf(i) = d
      BY <2>1, <2>4 DEF LastOf
    <3>2. onBaseDay = {i}
      BY <3>1, <1>2
    <3>3. readings[i][c] # NotRead
      BY <3>2, <2>3, <2>4
    <3> QED BY <3>1, <3>3 DEF With, Sequence
  <2> QED BY <2>2, <2>3, <2>4
<1> QED BY <1>3, <1>4

\* The counter that is charted.
Charted == IF UsesPrinted THEN "printed" ELSE "engine"
\* The readings charted are those that have it.
LEMMA SourceIs ==
  ASSUME TrendInv
  PROVE  /\ Source = With(Charted)
         /\ \A i \in Source : ValueOf(i) = readings[i][Charted]
         /\ UsesPrinted => Charted = "printed"
         /\ ~UsesPrinted => Charted = "engine"
<1>1. \A i : readings[i]["printed"] = readings[i].printed /\ readings[i]["engine"] = readings[i].engine
  OBVIOUS
<1>2. \A i \in Sequence : readings[i].engine # NotRead
  BY WindowKnown DEF WasRead
<1>3. Printed = With("printed")
  BY <1>2 DEF Printed, With, HasPrinted, WasRead
<1>4. Sequence = With("engine")
  BY <1>2 DEF With
<1>5. CASE UsesPrinted
  <2>1. Charted = "printed" /\ Source = Printed
    BY <1>5, Zenon DEF Charted, Source
  <2>2. \A i : ValueOf(i) = readings[i]["printed"]
    BY <1>5, <1>1, Zenon DEF ValueOf
  <2> QED BY <2>1, <2>2, <1>3, <1>5
<1>6. CASE ~UsesPrinted
  <2>1. Charted = "engine" /\ Source = Sequence
    BY <1>6, Zenon DEF Charted, Source
  <2>2. \A i : ValueOf(i) = readings[i]["engine"]
    BY <1>6, <1>1, Zenon DEF ValueOf
  <2> QED BY <2>1, <2>2, <1>4, <1>6
<1> QED BY <1>5, <1>6

\* Both count the readings with a printed counter alike.
LEMMA CountedAlike ==
  ASSUME TrendInv
  PROVE  Cardinality({i \in Earlier : HasPrinted(i)}) + Cardinality({i \in Inside : HasPrinted(i)})
           = Cardinality(Printed)
<1> DEFINE A == {i \in Earlier : HasPrinted(i)}
           B == {i \in Inside : HasPrinted(i)}
<1>1. A \subseteq 1 .. Len(readings) /\ B \subseteq 1 .. Len(readings) /\ Len(readings) \in Nat
  BY ReadingKnown, WindowKnown
<1>2. A \cap B = {} /\ A \cup B = Printed
  BY WindowKnown DEF Printed, Sequence
<1> HIDE DEF A, B
<1>3. IsFiniteSet(1 .. Len(readings))
  BY <1>1, FS_Interval
<1>4. IsFiniteSet(A) /\ IsFiniteSet(B)
  BY <1>1, <1>3, FS_Subset
<1>5. Cardinality(A) \in Nat /\ Cardinality(B) \in Nat
  BY <1>4, FS_CardinalityType
<1>6. Cardinality(A \cup B) = Cardinality(A) + Cardinality(B) - Cardinality(A \cap B)
  BY <1>4, FS_Union
<1>7. Cardinality(A \cap B) = 0
  BY <1>2, FS_EmptySet
<1>8. Cardinality(Printed) = Cardinality(A) + Cardinality(B) - 0
  BY <1>2, <1>6, <1>7
<1>9. Cardinality(A) + Cardinality(B) = Cardinality(Printed)
  BY <1>5, <1>8
<1> QED BY <1>9 DEF A, B

\* What the fleet's chart takes of a day.
LEMMA FleetRow ==
  ASSUME TrendInv, NEW d
  PROVE  (IF UsesPrinted THEN DayRow(d).printed ELSE DayRow(d).engine) = RowIn(Charted, d)
<1> DEFINE inDay == {i \in Inside : DayOf(i) = d}
           withPrinted == {i \in inDay : HasPrinted(i)}
           onBaseDay == {i \in Earlier : DayOf(i) = d}
<1>1. /\ DayRow(d).printed = LastOf(IF withPrinted # {} THEN withPrinted ELSE onBaseDay, "printed")
      /\ DayRow(d).engine = LastOf(IF inDay # {} THEN inDay ELSE onBaseDay, "engine")
  BY DEF DayRow
<1>2. \A i \in Sequence : readings[i].engine # NotRead
  BY WindowKnown DEF WasRead
<1>3. \A i : readings[i]["printed"] = readings[i].printed /\ readings[i]["engine"] = readings[i].engine
  OBVIOUS
<1>4. withPrinted = {k \in Inside : DayOf(k) = d /\ k \in With("printed")}
  BY <1>2, <1>3 DEF With, HasPrinted, WasRead, Sequence
<1>5. inDay = {k \in Inside : DayOf(k) = d /\ k \in With("engine")}
  BY <1>2, <1>3 DEF With, Sequence
<1>6. DayRow(d).printed = RowIn("printed", d)
  BY <1>1, <1>4, Zenon DEF RowIn
<1>7. DayRow(d).engine = RowIn("engine", d)
  BY <1>1, <1>5, Zenon DEF RowIn
<1> QED BY <1>6, <1>7, SourceIs

Point == [day : Nat, value : Int]
\* Both charts have the same value for the same days.
LEMMA DailyAlike ==
  ASSUME TrendInv
  PROVE  Daily = FleetDaily
<1> DEFINE s == [i \in DOMAIN readings |-> [day |-> DayOf(i), value |-> ValueOf(i)]]
           t == [d \in 1 .. Day(TrendEnd) |-> [day |-> d, value |-> RowIn(Charted, d)]]
           J == {d \in 1 .. Day(TrendEnd) : RowIn(Charted, d) # NotRead}
           h == [i \in DOMAIN readings |-> DayOf(i)]
<1>1. /\ Len(readings) \in Nat /\ DOMAIN readings = 1 .. Len(readings)
      /\ \A i \in 1 .. Len(readings) : DayOf(i) \in 1 .. Day(TrendEnd) /\ DayOf(i) \in Nat /\ h[i] = DayOf(i)
      /\ \A i, j \in 1 .. Len(readings) : i <= j => DayOf(i) <= DayOf(j)
  BY ReadingKnown
<1>2. Day(TrendEnd) \in Nat
  BY DaysGoBy, PageTrendAssumption
<1>3. Source = With(Charted) /\ \A i \in Source : ValueOf(i) = readings[i][Charted]
  BY SourceIs
<1>4. Source \subseteq 1 .. Len(readings) /\ LastOfDays \subseteq Source
  BY <1>3, WindowKnown DEF With, LastOfDays
<1>5. Daily = Chosen(s, LastOfDays)
  BY DEF Daily
<1>6. FleetDaily = Chosen(t, J)
  <2>1. (Cardinality({i \in Earlier : HasPrinted(i)}) + Cardinality({i \in Inside : HasPrinted(i)}) >= 2) <=> UsesPrinted
    BY CountedAlike DEF UsesPrinted
  <2> DEFINE u == [d \in 1 .. Day(TrendEnd) |->
                     [day |-> d, value |-> IF Cardinality({i \in Earlier : HasPrinted(i)}) + Cardinality({i \in Inside : HasPrinted(i)}) >= 2
                                           THEN DayRow(d).printed ELSE DayRow(d).engine]]
  <2>2. \A d : (IF Cardinality({i \in Earlier : HasPrinted(i)}) + Cardinality({i \in Inside : HasPrinted(i)}) >= 2
                THEN DayRow(d).printed ELSE DayRow(d).engine) = RowIn(Charted, d)
    BY <2>1, FleetRow, Zenon
  <2>3. u = t
    BY <2>2
  <2>4. FleetDaily = Chosen(u, {d \in DOMAIN u : u[d].value # NotRead})
    BY Zenon DEF FleetDaily
  <2> HIDE DEF u
  <2>5. {d \in DOMAIN u : u[d].value # NotRead} = J
    <3>1. DOMAIN t = 1 .. Day(TrendEnd)
      OBVIOUS
    <3>2. \A d \in 1 .. Day(TrendEnd) : t[d].value = RowIn(Charted, d)
      OBVIOUS
    <3> HIDE DEF t
    <3> QED BY <2>3, <3>1, <3>2
  <2> QED BY <2>3, <2>4, <2>5
<1>7. \A i \in 1 .. Len(readings) : ValueOf(i) \in Int
  BY ReadingKnown, Zenon DEF ValueOf
<1>8. \A d \in 1 .. Day(TrendEnd) : RowIn(Charted, d) \in Int
  <2> SUFFICES ASSUME NEW d \in 1 .. Day(TrendEnd) PROVE RowIn(Charted, d) \in Int
    OBVIOUS
  <2>1. CASE RowIn(Charted, d) = NotRead
    BY <2>1 DEF NotRead
  <2>2. CASE RowIn(Charted, d) # NotRead
    <3> DEFINE K == {k \in With(Charted) : DayOf(k) = d}
    <3>1. K \subseteq 1 .. Len(readings) /\ K # {}
      BY <2>2, <1>3, <1>4, RowSound
    <3>2. Max(K) \in K /\ \A k \in K : k <= Max(K)
      BY <3>1, <1>1, ExtremesOf
    <3>3. RowIn(Charted, d) = readings[Max(K)][Charted]
      BY <3>2, RowSound
    <3>4. readings[Max(K)][Charted] = ValueOf(Max(K))
      BY <3>2, <1>3
    <3> QED BY <3>1, <3>2, <3>3, <3>4, <1>7
  <2> QED BY <2>1, <2>2
<1>9. s \in Seq(Point) /\ Len(s) = Len(readings)
  <2>1. s = [i \in 1 .. Len(readings) |-> [day |-> DayOf(i), value |-> ValueOf(i)]]
    BY <1>1
  <2>2. \A i \in 1 .. Len(readings) : [day |-> DayOf(i), value |-> ValueOf(i)] \in Point
    BY <1>1, <1>7 DEF Point
  <2> HIDE DEF s
  <2>3. s \in Seq(Point)
    BY <2>1, <2>2, <1>1, IsASeq
  <2> QED BY <2>1, <2>3, <1>1, LenProperties
<1>10. t \in Seq(Point) /\ Len(t) = Day(TrendEnd)
  <2>2. \A d \in 1 .. Day(TrendEnd) : [day |-> d, value |-> RowIn(Charted, d)] \in Point
    BY <1>2, <1>8 DEF Point
  <2>3. t \in Seq(Point)
    BY <2>2, <1>2, IsASeq
  <2>4. DOMAIN t = 1 .. Day(TrendEnd)
    OBVIOUS
  <2> HIDE DEF t
  <2> QED BY <2>3, <2>4, <1>2, LenProperties
<1>11. ASSUME NEW i \in LastOfDays PROVE h[i] \in J /\ s[i] = t[h[i]]
  <2>1. i \in Source /\ i \in 1 .. Len(readings) /\ \A j \in Source : DayOf(j) = DayOf(i) => j <= i
    BY <1>4 DEF LastOfDays
  <2>2. RowIn(Charted, DayOf(i)) = readings[i][Charted]
    BY <2>1, <1>3, RowSound
  <2>3. readings[i][Charted] = ValueOf(i) /\ readings[i][Charted] # NotRead
    BY <2>1, <1>3 DEF With
  <2>4. h[i] = DayOf(i) /\ DayOf(i) \in 1 .. Day(TrendEnd)
    BY <2>1, <1>1
  <2>5. s[i] = [day |-> DayOf(i), value |-> ValueOf(i)]
    BY <2>1, <1>1
  <2>6. t[DayOf(i)] = [day |-> DayOf(i), value |-> RowIn(Charted, DayOf(i))]
    BY <2>4
  <2> HIDE DEF s, t, h
  <2> QED BY <2>2, <2>3, <2>4, <2>5, <2>6
<1>12. ASSUME NEW i \in LastOfDays, NEW j \in LastOfDays, i < j PROVE h[i] < h[j]
  <2>1. /\ i \in Source /\ j \in Source /\ i \in 1 .. Len(readings) /\ j \in 1 .. Len(readings)
        /\ DayOf(j) = DayOf(i) => j <= i
    BY <1>4 DEF LastOfDays
  <2>2. DayOf(i) <= DayOf(j) /\ DayOf(i) # DayOf(j)
    BY <2>1, <1>1, <1>12
  <2> QED BY <2>1, <2>2, <1>1
<1>13. ASSUME NEW d \in J PROVE \E i \in LastOfDays : h[i] = d
  <2> DEFINE K == {k \in Source : DayOf(k) = d}
  <2>1. K \subseteq 1 .. Len(readings) /\ K # {}
    BY <1>3, <1>4, RowSound
  <2>2. Max(K) \in K /\ \A k \in K : k <= Max(K)
    BY <2>1, <1>1, ExtremesOf
  <2>3. Max(K) \in LastOfDays
    BY <2>2 DEF LastOfDays
  <2>4. h[Max(K)] = d
    BY <2>1, <2>2, <1>1
  <2> QED BY <2>3, <2>4
<1> HIDE DEF s, t, h, J
<1>14. J \subseteq 1 .. Len(t) /\ LastOfDays \subseteq 1 .. Len(s)
  BY <1>4, <1>9, <1>10 DEF J
<1>15. Chosen(s, LastOfDays) = Chosen(t, J)
  <2>1. \A i \in LastOfDays : h[i] \in J /\ s[i] = t[h[i]]
    BY <1>11
  <2>2. \A i, j \in LastOfDays : i < j => h[i] < h[j]
    BY <1>12
  <2>3. \A d \in J : \E i \in LastOfDays : h[i] = d
    BY <1>13
  <2>4. Alike(s, LastOfDays, t, J, h)
    BY <2>1, <2>2, <2>3, Zenon DEF Alike
  <2> QED BY <2>4, <1>9, <1>10, <1>14, ChosenAlike
<1> QED BY <1>5, <1>6, <1>15

\* What a series that never falls rises by is what its hops add up to.
LEMMA RisesAddUp ==
  ASSUME NEW D \in Seq(Point), Len(D) >= 1,
         \A k \in 2 .. Len(D) : D[k - 1].value <= D[k].value
  PROVE  Total([k \in DOMAIN Deltas(D) |-> Deltas(D)[k].pages]) = D[Len(D)].value - D[1].value
<1>1. /\ Len(D) \in Nat /\ \A k \in 1 .. Len(D) : D[k] \in Point
  BY LenProperties, ElementOfSeq
<1>2. \A k \in 1 .. Len(D) : D[k].value \in Int /\ D[k]["value"] \in Int
  BY <1>1 DEF Point
<1>3. \A r : r["value"] = r.value
  OBVIOUS
<1>4. Filtered(D, "value") = D
  <2>1. \A k \in 2 .. Len(D) : D[k - 1]["value"] <= D[k]["value"]
    BY <1>3
  <2> QED BY <2>1, <1>2, FilteredWhole
<1> DEFINE n == Len(D) - 1
           e == Deltas(D)
           h == [k \in DOMAIN e |-> e[k].pages]
           v == [k \in 0 .. Len(D) |-> IF k + 1 \in 1 .. Len(D) THEN D[k + 1].value ELSE 0]
<1>5. e = [k \in 1 .. n |-> [day |-> D[k + 1].day, pages |-> Hop(D[k].value, D[k + 1].value)]]
  BY <1>4, Zenon DEF Deltas
<1>6. n \in Nat /\ \A k \in 1 .. n : k \in 1 .. Len(D) /\ k + 1 \in 2 .. Len(D) /\ k + 1 \in 1 .. Len(D) /\ (k + 1) - 1 = k
  BY <1>1
<1>7. ASSUME NEW k \in 1 .. n PROVE Hop(D[k].value, D[k + 1].value) = D[k + 1].value - D[k].value
  <2>1. D[(k + 1) - 1].value <= D[k + 1].value
    BY <1>6
  <2>2. D[k].value <= D[k + 1].value
    BY <2>1, <1>6
  <2> QED BY <2>2, <1>2, <1>6 DEF Hop
<1> HIDE DEF n, e
<1>8. DOMAIN e = 1 .. n /\ \A k \in 1 .. n : e[k].pages = D[k + 1].value - D[k].value
  BY <1>5, <1>7
<1>9. h = [k \in 1 .. n |-> D[k + 1].value - D[k].value]
  BY <1>8
<1>10. \A k \in 1 .. n : D[k + 1].value - D[k].value \in Int
  BY <1>2, <1>6
<1>11. h \in Seq(Int)
  <2>1. h \in [1 .. n -> Int]
    BY <1>9, <1>10
  <2> HIDE DEF h
  <2>2. n \in Nat
    BY <1>6
  <2> QED BY <2>1, <2>2, SeqDef, Zenon
<1> HIDE DEF h
<1>12. Len(h) = n
  BY <1>6, <1>9, <1>11, LenProperties
<1>13. ASSUME NEW k \in 0 .. n PROVE v[k] = D[k + 1].value /\ v[k] \in Int
  <2>1. k \in 0 .. Len(D) /\ k + 1 \in 1 .. Len(D)
    BY <1>1 DEF n
  <2> QED BY <2>1, <1>2
<1> HIDE DEF v
<1>14. ASSUME NEW k \in 1 .. n PROVE h[k] = v[k] - v[k - 1]
  <2>1. h[k] = D[k + 1].value - D[k].value
    BY <1>9
  <2>2. k \in 0 .. n /\ k - 1 \in 0 .. n /\ (k - 1) + 1 = k
    BY <1>6
  <2>3. v[k] = D[k + 1].value /\ v[k - 1] = D[(k - 1) + 1].value
    BY <2>2, <1>13
  <2> QED BY <2>1, <2>2, <2>3
<1>15. Total(h) = v[n] - v[0]
  <2>1. \A k \in 0 .. Len(h) : v[k] \in Int
    BY <1>12, <1>13
  <2>2. \A k \in 1 .. Len(h) : h[k] = v[k] - v[k - 1]
    BY <1>12, <1>14
  <2>3. \A k \in 1 .. Len(h) : h[k] \in Int
    BY <1>11, ElementOfSeq
  <2>4. \A k \in 1 .. Len(h) : h[k] <= v[k] - v[k - 1]
    BY <2>2, <2>3
  <2>5. Total(h) = v[Len(h)] - v[0]
    BY <2>1, <2>2, <2>4, <1>11, TotalTelescopes
  <2> QED BY <2>5, <1>12
<1>16. v[n] = D[Len(D)].value /\ v[0] = D[1].value
  <2>1. n \in 0 .. n /\ 0 \in 0 .. n /\ 0 + 1 = 1
    BY <1>6
  <2>2. n + 1 = Len(D)
    BY <1>1 DEF n
  <2>3. v[n] = D[n + 1].value /\ v[0] = D[0 + 1].value
    BY <2>1, <1>13
  <2> QED BY <2>1, <2>2, <2>3
<1> QED BY <1>15, <1>16 DEF h, e

\* The days' last values, from the first day's to the last.
LEMMA AddsUp == TrendInv => TrendAddsUp
<1> DEFINE firstDay == {i \in Source : DayOf(i) = DayOf(Min(Source))}
           s == [i \in DOMAIN readings |-> [day |-> DayOf(i), value |-> ValueOf(i)]]
<1> SUFFICES ASSUME TrendInv, Source # {}, \A i, j \in Source : i < j => ValueOf(i) <= ValueOf(j)
             PROVE  Total([k \in DOMAIN PageDeltas |-> PageDeltas[k].pages])
                      = ValueOf(Max(Source)) - ValueOf(Max(firstDay))
  BY DEF TrendAddsUp
<1>1. /\ Len(readings) \in Nat /\ DOMAIN readings = 1 .. Len(readings)
      /\ \A i \in 1 .. Len(readings) : DayOf(i) \in Nat
      /\ \A i, j \in 1 .. Len(readings) : i <= j => DayOf(i) <= DayOf(j)
  BY ReadingKnown
<1>2. \A i \in 1 .. Len(readings) : ValueOf(i) \in Int
  BY ReadingKnown, Zenon DEF ValueOf
<1>3. Source \subseteq 1 .. Len(readings) /\ LastOfDays \subseteq Source
  BY SourceIs, WindowKnown DEF With, LastOfDays
<1>4. PICK m : m = Max(Source)
  OBVIOUS
<1>5. PICK b : b = Min(Source)
  OBVIOUS
<1>6. m \in Source /\ b \in Source /\ \A k \in Source : b <= k /\ k <= m
  BY <1>1, <1>3, <1>4, <1>5, ExtremesOf
<1>7. PICK f : f = Max(firstDay)
  OBVIOUS
<1>8. f \in Source /\ DayOf(f) = DayOf(b) /\ \A k \in Source : DayOf(k) = DayOf(b) => k <= f
  <2>1. firstDay \subseteq 1 .. Len(readings) /\ b \in firstDay
    BY <1>3, <1>5, <1>6
  <2>2. f \in firstDay /\ \A k \in firstDay : k <= f
    <3> HIDE DEF firstDay
    <3> QED BY <2>1, <1>1, <1>7, ExtremesOf
  <2> QED BY <2>2, <1>5
<1>9. m \in LastOfDays
  BY <1>6 DEF LastOfDays
<1>10. f \in LastOfDays
  BY <1>8 DEF LastOfDays
<1>11. ASSUME NEW k \in LastOfDays PROVE f <= k /\ k <= m
  <2>1. k \in Source /\ \A j \in Source : DayOf(j) = DayOf(k) => j <= k
    BY DEF LastOfDays
  <2>2. b \in 1 .. Len(readings) /\ k \in 1 .. Len(readings) /\ f \in 1 .. Len(readings) /\ b <= k
    BY <2>1, <1>3, <1>6, <1>8
  <2>3. ~(k < f)
    <3> SUFFICES ASSUME k < f PROVE FALSE
      OBVIOUS
    <3>1. DayOf(b) <= DayOf(k) /\ DayOf(k) <= DayOf(f)
      BY <2>2, <1>1
    <3>2. DayOf(k) = DayOf(f)
      BY <3>1, <2>2, <1>1, <1>8
    <3>3. f <= k
      BY <3>2, <2>1, <1>8
    <3> QED BY <3>3, <2>2
  <2> QED BY <2>1, <2>2, <2>3, <1>6
<1>12. s \in Seq(Point) /\ Len(s) = Len(readings)
  <2>1. s = [i \in 1 .. Len(readings) |-> [day |-> DayOf(i), value |-> ValueOf(i)]]
    BY <1>1
  <2>2. \A i \in 1 .. Len(readings) : [day |-> DayOf(i), value |-> ValueOf(i)] \in Point
    BY <1>1, <1>2 DEF Point
  <2> HIDE DEF s
  <2>3. s \in Seq(Point)
    BY <2>1, <2>2, <1>1, IsASeq
  <2> QED BY <2>1, <2>3, <1>1, LenProperties
<1>13. \A i \in 1 .. Len(readings) : s[i].value = ValueOf(i)
  BY <1>1
<1>14. PICK D : D = Daily
  OBVIOUS
<1>15. D = Chosen(s, LastOfDays)
  BY <1>14 DEF Daily
<1> HIDE DEF s, firstDay
<1>16. LastOfDays \in SUBSET (1 .. Len(s))
  BY <1>3, <1>12
<1>17. PICK g : /\ Picks(D, s, g, Len(s)) /\ \A a \in 1 .. Len(D) : g[a] \in LastOfDays
                /\ LastOfDays # {} => /\ Len(D) >= 1
                                      /\ \A k \in LastOfDays : g[1] <= k /\ k <= g[Len(D)]
  BY <1>12, <1>15, <1>16, ChosenSound
<1>18. D \in Seq(Point)
  BY <1>12, <1>15, <1>16, ChosenSound
<1>19. Len(D) \in Nat /\ Len(D) >= 1 /\ 1 \in 1 .. Len(D) /\ Len(D) \in 1 .. Len(D)
  <2>1. Len(D) \in Nat /\ Len(D) >= 1
    BY <1>9, <1>17, <1>18, LenProperties
  <2> QED BY <2>1
<1>20. \A a \in 1 .. Len(D) : /\ g[a] \in Source /\ g[a] \in 1 .. Len(readings)
                              /\ D[a].value = ValueOf(g[a]) /\ f <= g[a] /\ g[a] <= m
  BY <1>3, <1>11, <1>12, <1>13, <1>17 DEF Picks
<1>21. g[1] = f /\ g[Len(D)] = m
  <2>1. g[1] <= f /\ m <= g[Len(D)]
    BY <1>9, <1>10, <1>17
  <2>2. f <= g[1] /\ g[Len(D)] <= m /\ g[1] \in Nat /\ g[Len(D)] \in Nat
    BY <1>19, <1>20
  <2>3. f \in Nat /\ m \in Nat
    BY <1>3, <1>6, <1>8
  <2> QED BY <2>1, <2>2, <2>3
<1>22. ASSUME NEW k \in 2 .. Len(D) PROVE D[k - 1].value <= D[k].value
  <2>1. k - 1 \in 1 .. Len(D) /\ k \in 1 .. Len(D) /\ k - 1 < k
    BY <1>19
  <2>2. g[k - 1] < g[k]
    BY <2>1, <1>17 DEF Picks
  <2> QED BY <2>1, <2>2, <1>20
<1>23. Total([k \in DOMAIN Deltas(D) |-> Deltas(D)[k].pages]) = D[Len(D)].value - D[1].value
  BY <1>18, <1>19, <1>22, RisesAddUp
<1>24. PageDeltas = Deltas(D)
  BY <1>14 DEF PageDeltas
<1>25. D[Len(D)].value = ValueOf(m) /\ D[1].value = ValueOf(f)
  BY <1>19, <1>20, <1>21
<1> QED BY <1>4, <1>7, <1>23, <1>24, <1>25

(* However a printer's counters were read, reset or missed, the fleet's     *)
(* chart (fleetPageTrend) and its own (deviceDailyPageDeltas) show the same *)
(* pages on the same days, and while the charted counter never falls they   *)
(* add up to what it rose by.                                               *)
THEOREM BothChartsAgree == PageTrendSpec => []TrendSound
<1>1. TrendInv => TrendSound
  BY DailyAlike, AddsUp DEF TrendSound, FleetTrendAgrees, FleetDeltas, PageDeltas
<1> QED BY <1>1, TrendKept, PTL
=============================================================================
