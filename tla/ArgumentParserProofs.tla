------------------------ MODULE ArgumentParserProofs ------------------------
(***************************************************************************)
(* Proofs about the command line: the sorts, the searches in the sorted    *)
(* tables, and getopt.                                                     *)
(***************************************************************************)
EXTENDS ArgumentParser, CommonLemmas, FiniteSetTheorems

-----------------------------------------------------------------------------
(* The sorts.                                                              *)

\* The tables with the rows of t, each once, in any order.
Shuffles(t, n) ==
    {s \in [1 .. n -> {t[i] : i \in 1 .. n}] :
        /\ \A i \in 1 .. n : \E j \in 1 .. n : s[j] = t[i]
        /\ \A i, j \in 1 .. n : s[i] = s[j] => i = j}

LEMMA CompareIs ==
    ASSUME NEW n \in Nat, NEW t, NEW Swap, NEW s \in Shuffles(t, n), NEW j \in 1 .. n - 1
    PROVE  LET r == Compare(s, j, Swap) IN
           /\ r \in Shuffles(t, n)
           /\ IF <<s[j], s[j + 1]>> \in Swap THEN r[j] = s[j + 1] /\ r[j + 1] = s[j]
              ELSE r[j] = s[j] /\ r[j + 1] = s[j + 1]
           /\ \A i \in 1 .. n : i # j /\ i # j + 1 => r[i] = s[i]
  <1> DEFINE E == {t[i] : i \in 1 .. n}
             r == [s EXCEPT ![j] = s[j + 1], ![j + 1] = s[j]]
  <1>0. j \in 1 .. n /\ j + 1 \in 1 .. n /\ j # j + 1 /\ s \in [1 .. n -> E]
    <2>1. s \in [1 .. n -> E]
      BY DEF Shuffles
    <2> HIDE DEF E
    <2> QED  BY <2>1
  <1>1. CASE <<s[j], s[j + 1]>> \notin Swap
    BY <1>1 DEF Compare
  <1>2. CASE <<s[j], s[j + 1]>> \in Swap
    <2> HIDE DEF E
    <2>1. r \in [1 .. n -> E]
      BY <1>0
    <2>2. r[j] = s[j + 1] /\ r[j + 1] = s[j] /\ \A i \in 1 .. n : i # j /\ i # j + 1 => r[i] = s[i]
      BY <1>0
    <2> HIDE DEF r
    <2>3. ASSUME NEW i \in 1 .. n PROVE \E k \in 1 .. n : r[k] = t[i]
      <3>1. PICK k \in 1 .. n : s[k] = t[i]
        BY DEF Shuffles
      <3> QED  BY <1>0, <2>2, <3>1
    <2>4. ASSUME NEW i \in 1 .. n, NEW k \in 1 .. n, r[i] = r[k] PROVE i = k
      <3>1. \A x, y \in 1 .. n : s[x] = s[y] => x = y
        BY DEF Shuffles
      <3> QED  BY <1>0, <2>2, <2>4, <3>1
    <2>5. r \in Shuffles(t, n)
      BY <2>1, <2>3, <2>4 DEF Shuffles, E
    <2>6. Compare(s, j, Swap) = r
      BY <1>2 DEF Compare, r
    <2> QED  BY <1>2, <2>2, <2>5, <2>6
  <1> QED  BY <1>1, <1>2

\* A pass as the tables it goes through.
PassRun(f, s, m, Swap) ==
    f[0] = s /\ Pass(s, m, Swap) = f[m] /\ \A k \in 0 .. m - 1 : f[k + 1] = Compare(f[k], k + 1, Swap)

LEMMA PassRuns ==
    ASSUME NEW n \in Nat, NEW t, NEW Swap, NEW s \in Shuffles(t, n), NEW m \in 0 .. n - 1
    PROVE  \E f \in [0 .. m -> Shuffles(t, n)] : PassRun(f, s, m, Swap)
  <1> DEFINE V == Shuffles(t, n)
             Step(k, p) == Compare(p, k, Swap)
             G == [q \in (1 .. m) \X V |-> Step(q[1], q[2])]
             Is(f) == f = [k \in 0 .. m |-> IF k = 0 THEN s ELSE Step(k, f[k - 1])]
             g == CHOOSE f : Is(f)
  <1>0. m \in Nat /\ s \in V
    OBVIOUS
  <1>1. \A k \in 1 .. m, p \in V : Step(k, p) \in V
    <2> TAKE k \in 1 .. m, p \in V
    <2>1. k \in 1 .. n - 1
      OBVIOUS
    <2> QED  BY <2>1, CompareIs
  <1>2. Pass(s, m, Swap) = g[m]
    BY DEF Pass
  <1> HIDE DEF V, Step
  <1>3. G \in [(1 .. m) \X V -> V]
    BY <1>1
  <1>4. PICK h \in [0 .. m -> V] : Recursive(h, s, G, m)
    <2> HIDE DEF G
    <2> QED  BY <1>0, <1>3, RecursiveExists DEF HasRecursive
  <1>5. Is(h)
    <2>1. h = [k \in 0 .. m |-> IF k = 0 THEN s ELSE G[<<k, h[k - 1]>>]]
      BY <1>4 DEF Recursive
    <2>2. \A k \in 0 .. m : k # 0 => G[<<k, h[k - 1]>>] = Step(k, h[k - 1])
      <3> TAKE k \in 0 .. m
      <3>1. k # 0 => k \in 1 .. m /\ h[k - 1] \in V
        BY <1>0, <1>4
      <3> QED  BY <3>1
    <2> HIDE DEF G
    <2> QED  BY <2>1, <2>2
  <1>6. Is(g)
    <2> HIDE DEF Is
    <2> QED  BY <1>5
  <1> HIDE DEF g
  <1>7. g[0] = s /\ \A k \in 0 .. m - 1 : g[k + 1] = Step(k + 1, g[k])
    <2>1. /\ 0 \in 0 .. m
          /\ \A k \in 0 .. m - 1 : k + 1 \in 0 .. m /\ k + 1 # 0 /\ (k + 1) - 1 = k
      BY <1>0
    <2> QED  BY <1>6, <2>1
  <1>8. g \in [0 .. m -> V]
    <2>1. \A k \in 1 .. m : g[k - 1] \in V => g[k] = G[<<k, g[k - 1]>>]
      <3> TAKE k \in 1 .. m
      <3>1. k - 1 \in 0 .. m - 1 /\ (k - 1) + 1 = k
        BY <1>0
      <3>2. g[k] = Step(k, g[k - 1])
        BY <1>7, <3>1
      <3> QED  BY <3>2
    <2> HIDE DEF G
    <2>2. \A k \in 0 .. m : g[k] \in V
      BY <1>0, <1>3, <1>7, <2>1, LoopIs
    <2> QED  BY <1>6, <2>2
  <1>9. PassRun(g, s, m, Swap)
    BY <1>2, <1>7 DEF PassRun, Step
  <1> QED  BY <1>8, <1>9 DEF V

\* What a sort has to know of its order Le: rows that are swapped are in order
\* afterwards, the others are already.
Orders(Le, Swap, E) ==
    /\ \A a, b \in E : IF <<a, b>> \in Swap THEN <<b, a>> \in Le ELSE <<a, b>> \in Le
    /\ \A a \in E : <<a, a>> \in Le
    /\ \A a, b, c \in E : <<a, b>> \in Le /\ <<b, c>> \in Le => <<a, c>> \in Le

\* From the place after m on, a row is no less than any before it.
Settled(s, m, n, Le) == \A p \in m + 1 .. n : \A q \in 1 .. p : <<s[q], s[p]>> \in Le
Greatest(s, j, Le) == \A q \in 1 .. j : <<s[q], s[j]>> \in Le

LEMMA CompareSettles ==
    ASSUME NEW n \in Nat, NEW t, NEW Swap, NEW Le, Orders(Le, Swap, {t[i] : i \in 1 .. n}),
           NEW s \in Shuffles(t, n), NEW m \in 1 .. n, NEW j \in 1 .. m - 1,
           Settled(s, m, n, Le), Greatest(s, j, Le)
    PROVE  Settled(Compare(s, j, Swap), m, n, Le) /\ Greatest(Compare(s, j, Swap), j + 1, Le)
  <1> DEFINE E == {t[i] : i \in 1 .. n}
             r == Compare(s, j, Swap)
  <1>1. j \in 1 .. n - 1 /\ j \in 1 .. n /\ j + 1 \in 1 .. n /\ j + 1 <= m /\ m <= n
    OBVIOUS
  <1>2. /\ IF <<s[j], s[j + 1]>> \in Swap THEN r[j] = s[j + 1] /\ r[j + 1] = s[j]
           ELSE r[j] = s[j] /\ r[j + 1] = s[j + 1]
        /\ \A i \in 1 .. n : i # j /\ i # j + 1 => r[i] = s[i]
    BY <1>1, CompareIs
  <1>3. \A i \in 1 .. n : s[i] \in E
    <2>1. s \in [1 .. n -> E]
      BY DEF Shuffles
    <2> HIDE DEF E
    <2> QED  BY <2>1
  <1> HIDE DEF r, E
  <1>4. Orders(Le, Swap, E)
    BY DEF E
  <1>5. Settled(r, m, n, Le)
    <2> SUFFICES ASSUME NEW p \in m + 1 .. n, NEW q \in 1 .. p PROVE <<r[q], r[p]>> \in Le
      BY DEF Settled
    <2>1. p \in 1 .. n /\ r[p] = s[p] /\ \A x \in 1 .. p : <<s[x], s[p]>> \in Le
      BY <1>1, <1>2 DEF Settled
    <2>2. q \in 1 .. n /\ j \in 1 .. p /\ j + 1 \in 1 .. p
      BY <1>1
    <2> QED  BY <1>2, <2>1, <2>2
  <1>6. Greatest(r, j + 1, Le)
    <2> SUFFICES ASSUME NEW q \in 1 .. j + 1 PROVE <<r[q], r[j + 1]>> \in Le
      BY DEF Greatest
    <2>1. \A x \in 1 .. j : <<s[x], s[j]>> \in Le /\ x \in 1 .. n
      BY <1>1 DEF Greatest
    <2>2. q \in 1 .. j - 1 \/ q = j \/ q = j + 1
      BY <1>1
    <2>3. q \in 1 .. j - 1 => q \in 1 .. j /\ q \in 1 .. n /\ q # j /\ q # j + 1
      BY <1>1
    <2>4. CASE <<s[j], s[j + 1]>> \in Swap
      <3>1. <<s[j + 1], s[j]>> \in Le /\ <<s[j], s[j]>> \in Le
        BY <1>1, <1>3, <1>4, <2>4 DEF Orders
      <3> QED  BY <1>2, <2>1, <2>2, <2>3, <2>4, <3>1
    <2>5. CASE <<s[j], s[j + 1]>> \notin Swap
      <3>1. <<s[j], s[j + 1]>> \in Le /\ <<s[j + 1], s[j + 1]>> \in Le
        BY <1>1, <1>3, <1>4, <2>5 DEF Orders
      <3>2. q \in 1 .. j - 1 => <<s[q], s[j + 1]>> \in Le
        <4>1. ASSUME q \in 1 .. j - 1 PROVE <<s[q], s[j]>> \in Le /\ s[q] \in E
          BY <1>3, <2>1, <2>3, <4>1
        <4>2. s[j] \in E /\ s[j + 1] \in E
          BY <1>1, <1>3
        <4> QED  BY <1>4, <3>1, <4>1, <4>2 DEF Orders
      <3> QED  BY <1>2, <2>1, <2>2, <2>3, <2>5, <3>1, <3>2
    <2> QED  BY <2>4, <2>5
  <1> QED  BY <1>5, <1>6 DEF r

LEMMA PassSettles ==
    ASSUME NEW n \in Nat, NEW t, NEW Swap, NEW Le, Orders(Le, Swap, {t[i] : i \in 1 .. n}),
           NEW s \in Shuffles(t, n), NEW m \in 1 .. n, Settled(s, m, n, Le)
    PROVE  Pass(s, m - 1, Swap) \in Shuffles(t, n) /\ Settled(Pass(s, m - 1, Swap), m - 1, n, Le)
  <1> DEFINE k == m - 1
  <1>1. k \in 0 .. n - 1 /\ k \in Nat
    OBVIOUS
  <1>2. PICK f \in [0 .. k -> Shuffles(t, n)] : PassRun(f, s, k, Swap)
    <2> HIDE DEF k
    <2> QED  BY <1>1, PassRuns
  <1> DEFINE S == {i \in 0 .. k : Settled(f[i], m, n, Le) /\ Greatest(f[i], i + 1, Le)}
  <1>3. 0 \in S
    <2>1. Greatest(s, 1, Le)
      <3> DEFINE E == {t[i] : i \in 1 .. n}
      <3>1. s \in [1 .. n -> E] /\ Orders(Le, Swap, E)
        BY DEF Shuffles
      <3> HIDE DEF E
      <3>2. <<s[1], s[1]>> \in Le
        BY <3>1 DEF Orders
      <3> QED  BY <3>2 DEF Greatest
    <2> QED  BY <1>1, <1>2, <2>1 DEF PassRun
  <1>4. ASSUME NEW i \in 0 .. k - 1, i \in S PROVE i + 1 \in S
    <2>1. i + 1 \in 1 .. m - 1 /\ i + 1 \in 0 .. k /\ f[i] \in Shuffles(t, n)
      BY <1>1, <1>2
    <2>2. f[i + 1] = Compare(f[i], i + 1, Swap)
      BY <1>2 DEF PassRun
    <2> QED  BY <1>4, <2>1, <2>2, CompareSettles
  <1> HIDE DEF S
  <1>5. k \in S
    <2>1. \A i \in 0 .. k : i \in S
      BY <1>1, <1>3, <1>4, UpTo
    <2> QED  BY <1>1, <2>1
  <1>6. Pass(s, k, Swap) = f[k] /\ f[k] \in Shuffles(t, n)
    BY <1>1, <1>2 DEF PassRun
  <1>7. Settled(f[k], k, n, Le)
    <2>1. Settled(f[k], m, n, Le) /\ Greatest(f[k], m, Le)
      BY <1>1, <1>5 DEF S
    <2>2. \A p \in k + 1 .. n : p = m \/ p \in m + 1 .. n
      OBVIOUS
    <2> HIDE DEF k
    <2> QED  BY <2>1, <2>2 DEF Settled, Greatest
  <1> QED  BY <1>6, <1>7

\* A sorted table has the rows of the unsorted one, in order.
Sorted(s, n, Le) == \A p \in 1 .. n, q \in 1 .. n : q <= p => <<s[q], s[p]>> \in Le

LEMMA BubbleSorts ==
    ASSUME NEW E, NEW t \in Seq(E), \A i, j \in 1 .. Len(t) : t[i] = t[j] => i = j,
           NEW Swap, NEW Le, Orders(Le, Swap, {t[i] : i \in 1 .. Len(t)})
    PROVE  /\ BubbleSort(t, Swap) \in Shuffles(t, Len(t))
           /\ Sorted(BubbleSort(t, Swap), Len(t), Le)
  <1> DEFINE n == Len(t)
             V == Shuffles(t, n)
             Step(k, p) == Pass(p, n - k, Swap)
             G == [q \in (1 .. n) \X V |-> Step(q[1], q[2])]
             Is(f) == f = [k \in 0 .. n |-> IF k = 0 THEN t ELSE Step(k, f[k - 1])]
             g == CHOOSE f : Is(f)
             S == {k \in 0 .. n : Settled(g[k], n - k, n, Le)}
  <1>0. n \in Nat
    OBVIOUS
  <1>1. t \in V
    <2>1. t \in [1 .. n -> {t[i] : i \in 1 .. n}]
      OBVIOUS
    <2> QED  BY <2>1 DEF Shuffles
  <1>2. BubbleSort(t, Swap) = g[n]
    BY DEF BubbleSort
  <1> HIDE DEF n
  <1>3. \A k \in 1 .. n, p \in V : Step(k, p) \in V
    <2> TAKE k \in 1 .. n, p \in V
    <2>1. n - k \in 0 .. n - 1
      BY <1>0
    <2>2. PICK f \in [0 .. n - k -> Shuffles(t, n)] : PassRun(f, p, n - k, Swap)
      BY <1>0, <2>1, PassRuns
    <2> QED  BY <2>1, <2>2 DEF PassRun
  <1> HIDE DEF V, Step
  <1>4. G \in [(1 .. n) \X V -> V]
    BY <1>3
  <1>5. PICK h \in [0 .. n -> V] : Recursive(h, t, G, n)
    <2> HIDE DEF G
    <2> QED  BY <1>0, <1>1, <1>4, RecursiveExists DEF HasRecursive
  <1>6. Is(h)
    <2>1. h = [k \in 0 .. n |-> IF k = 0 THEN t ELSE G[<<k, h[k - 1]>>]]
      BY <1>5 DEF Recursive
    <2>2. \A k \in 0 .. n : k # 0 => G[<<k, h[k - 1]>>] = Step(k, h[k - 1])
      <3> TAKE k \in 0 .. n
      <3>1. k # 0 => k \in 1 .. n /\ h[k - 1] \in V
        BY <1>0, <1>5
      <3> QED  BY <3>1
    <2> HIDE DEF G
    <2> QED  BY <2>1, <2>2
  <1>7. Is(g)
    <2> HIDE DEF Is
    <2> QED  BY <1>6
  <1> HIDE DEF g
  <1>8. g[0] = t /\ \A k \in 1 .. n : g[k] = Step(k, g[k - 1])
    <2>1. 0 \in 0 .. n /\ \A k \in 1 .. n : k \in 0 .. n /\ k # 0
      BY <1>0
    <2> QED  BY <1>7, <2>1
  <1>9. \A k \in 0 .. n : g[k] \in V
    <2> DEFINE T == {k \in 0 .. n : g[k] \in V}
    <2>1. 0 \in T
      BY <1>0, <1>1, <1>8
    <2>2. ASSUME NEW k \in 0 .. n - 1, k \in T PROVE k + 1 \in T
      <3>1. k + 1 \in 1 .. n /\ k + 1 \in 0 .. n /\ (k + 1) - 1 = k /\ g[k] \in V
        BY <1>0, <2>2
      <3>2. g[k + 1] = Step(k + 1, g[k]) /\ Step(k + 1, g[k]) \in V
        BY <1>3, <1>8, <3>1
      <3> QED  BY <3>1, <3>2
    <2> HIDE DEF T
    <2>3. \A k \in 0 .. n : k \in T
      BY <1>0, <2>1, <2>2, UpTo
    <2> QED  BY <2>3 DEF T
  <1>10. 0 \in S
    BY <1>0 DEF Settled
  <1>11. ASSUME NEW k \in 0 .. n - 1, k \in S PROVE k + 1 \in S
    <2> DEFINE m == n - k
    <2>1. k + 1 \in 1 .. n /\ k + 1 \in 0 .. n /\ (k + 1) - 1 = k /\ m \in 1 .. n /\ n - (k + 1) = m - 1
      BY <1>0
    <2>2. g[k + 1] = Pass(g[k], m - 1, Swap)
      <3>1. g[k + 1] = Step(k + 1, g[k])
        BY <1>8, <2>1
      <3> QED  BY <2>1, <3>1 DEF Step
    <2>3. Settled(g[k], m, n, Le) /\ g[k] \in Shuffles(t, n)
      BY <1>9, <1>11, <2>1 DEF V
    <2>4. Orders(Le, Swap, {t[i] : i \in 1 .. n})
      BY DEF n
    <2> HIDE DEF m
    <2>5. Settled(g[k + 1], m - 1, n, Le)
      BY <1>0, <2>1, <2>2, <2>3, <2>4, PassSettles
    <2> QED  BY <2>1, <2>5
  <1> HIDE DEF S
  <1>12. n \in S
    <2>1. \A k \in 0 .. n : k \in S
      BY <1>0, <1>10, <1>11, UpTo
    <2> QED  BY <1>0, <2>1
  <1>13. Settled(g[n], 0, n, Le)
    BY <1>0, <1>12 DEF S
  <1>14. Sorted(g[n], n, Le)
    <2>1. \A p \in 1 .. n : p \in 0 + 1 .. n
      BY <1>0
    <2>2. \A p \in 1 .. n, q \in 1 .. n : q <= p => q \in 1 .. p
      BY <1>0
    <2> QED  BY <1>13, <2>1, <2>2 DEF Settled, Sorted
  <1> QED  BY <1>0, <1>2, <1>9, <1>14 DEF n, V

-----------------------------------------------------------------------------
(* The order of names.                                                     *)

LEMMA GreaterIrreflexive ==
    ASSUME NEW a \in Seq(Nat)
    PROVE  ~Greater(a, a)
  <1> SUFFICES ASSUME Greater(a, a) PROVE FALSE
    OBVIOUS
  <1>1. PICK k \in DOMAIN a : a[k] > a[k]
    BY DEF Greater
  <1> QED  BY <1>1

LEMMA GreaterTransitive ==
    ASSUME NEW a \in Seq(Nat), NEW b \in Seq(Nat), NEW c \in Seq(Nat), Greater(a, b), Greater(b, c)
    PROVE  Greater(a, c)
  <1>0. DOMAIN a = 1 .. Len(a) /\ DOMAIN b = 1 .. Len(b) /\ DOMAIN c = 1 .. Len(c)
    OBVIOUS
  <1>1. PICK k \in DOMAIN a : /\ \A j \in 1 .. k - 1 : j \in DOMAIN b /\ a[j] = b[j]
                              /\ k \in DOMAIN b => a[k] > b[k]
    BY DEF Greater
  <1>2. PICK m \in DOMAIN b : /\ \A j \in 1 .. m - 1 : j \in DOMAIN c /\ b[j] = c[j]
                              /\ m \in DOMAIN c => b[m] > c[m]
    BY DEF Greater
  <1>3. CASE k < m
    <2>1. k \in 1 .. m - 1 /\ k \in DOMAIN b /\ \A j \in 1 .. k - 1 : j \in 1 .. m - 1
      BY <1>0, <1>1, <1>2, <1>3
    <2> QED  BY <1>1, <1>2, <2>1 DEF Greater
  <1>4. CASE k >= m
    <2>1. m \in DOMAIN a /\ \A j \in 1 .. m - 1 : j \in 1 .. k - 1
      BY <1>0, <1>1, <1>2, <1>4
    <2>2. m < k => m \in 1 .. k - 1
      BY <1>0, <1>1, <1>2
    <2>3. m \in DOMAIN c => a[m] > c[m]
      <3>1. a[m] \in Nat /\ b[m] \in Nat /\ (m \in DOMAIN c => c[m] \in Nat)
        BY <1>0, <1>2, <2>1
      <3>2. a[m] >= b[m]
        <4>1. CASE m < k
          BY <1>1, <2>2, <3>1, <4>1
        <4>2. CASE m = k
          BY <1>1, <1>2, <3>1, <4>2
        <4> QED  BY <1>0, <1>1, <1>2, <1>4, <4>1, <4>2
      <3> QED  BY <1>2, <3>1, <3>2
    <2> QED  BY <1>1, <1>2, <2>1, <2>3 DEF Greater
  <1> QED  BY <1>0, <1>1, <1>2, <1>3, <1>4

LEMMA GreaterTotal ==
    ASSUME NEW a \in Seq(Nat), NEW b \in Seq(Nat), a # b
    PROVE  Greater(a, b) \/ Greater(b, a)
  <1> DEFINE Both(k) == k \in DOMAIN a /\ k \in DOMAIN b /\ a[k] = b[k]
             D == {k \in 1 .. Len(a) + 1 : ~Both(k)}
  <1>0. /\ DOMAIN a = 1 .. Len(a) /\ DOMAIN b = 1 .. Len(b) /\ Len(a) \in Nat /\ Len(b) \in Nat
        /\ \A k \in DOMAIN a : a[k] \in Nat
        /\ \A k \in DOMAIN b : b[k] \in Nat
    OBVIOUS
  <1>1. PICK k \in D : \A j \in D : k <= j
    <2>1. D \subseteq Nat /\ Len(a) + 1 \in D
      BY <1>0
    <2> HIDE DEF D
    <2> QED  BY <2>1, LeastElement
  <1>2. \A j \in 1 .. k - 1 : Both(j)
    BY <1>0, <1>1
  <1>3. k \in 1 .. Len(a) + 1 /\ ~Both(k)
    OBVIOUS
  <1>4. k \in DOMAIN a \/ k \in DOMAIN b
    <2> SUFFICES ASSUME k \notin DOMAIN a, k \notin DOMAIN b PROVE FALSE
      OBVIOUS
    <2>1. k = Len(a) + 1
      BY <1>0, <1>3
    <2>2. Len(b) <= Len(a)
      BY <1>0, <1>3, <2>1
    <2>3. Len(a) <= Len(b)
      <3>1. CASE Len(a) = 0
        BY <1>0, <3>1
      <3>2. CASE Len(a) # 0
        <4>1. Both(Len(a))
          BY <1>0, <1>2, <2>1, <3>2
        <4> QED  BY <1>0, <4>1
      <3> QED  BY <3>1, <3>2
    <2>4. Len(a) = Len(b) /\ \A i \in 1 .. Len(a) : a[i] = b[i]
      <3>1. \A i \in 1 .. Len(a) : i \in 1 .. k - 1
        BY <1>0, <2>1
      <3>2. \A i \in 1 .. Len(a) : a[i] = b[i]
        BY <1>2, <3>1
      <3>3. Len(a) = Len(b)
        <4> DEFINE x == Len(a)
                   y == Len(b)
        <4>1. x \in Nat /\ y \in Nat /\ x <= y /\ y <= x
          BY <1>0, <2>2, <2>3
        <4> HIDE DEF x, y
        <4>2. x = y
          BY <4>1
        <4> QED  BY <4>2 DEF x, y
      <3> QED  BY <3>2, <3>3
    <2>5. a = b
      BY <2>4, SeqEqual
    <2> QED  BY <2>5
  <1> HIDE DEF D
  <1>5. CASE k \in DOMAIN a /\ (k \in DOMAIN b => a[k] > b[k])
    BY <1>2, <1>5 DEF Greater
  <1>6. CASE k \in DOMAIN b /\ (k \in DOMAIN a => b[k] > a[k])
    <2>1. \A j \in 1 .. k - 1 : j \in DOMAIN a /\ b[j] = a[j]
      BY <1>2
    <2> QED  BY <1>6, <2>1 DEF Greater
  <1>7. CASE k \in DOMAIN a /\ k \in DOMAIN b
    <2>1. a[k] > b[k] \/ b[k] > a[k]
      BY <1>0, <1>3, <1>7
    <2> QED  BY <1>5, <1>6, <1>7, <2>1
  <1> QED  BY <1>4, <1>5, <1>6, <1>7

\* A name that goes on where another ends is the greater one, and so is one
\* with a greater first character.
LEMMA PrefixIs ==
    ASSUME NEW S, NEW a \in Seq(S), NEW b \in Seq(S)
    PROVE  IsPrefix(a, b) <=> (Len(a) <= Len(b) /\ \A k \in 1 .. Len(a) : a[k] = b[k])
  <1> DEFINE p == SubSeq(a, 1, Len(a))
             q == SubSeq(b, 1, Len(a))
  <1>0. Len(a) \in Nat /\ Len(b) \in Nat
    OBVIOUS
  <1>1. CASE Len(a) <= Len(b)
    <2>1. /\ p \in Seq(S) /\ Len(p) = Len(a) /\ \A k \in 1 .. Len(a) : p[k] = a[k]
          /\ q \in Seq(S) /\ Len(q) = Len(a) /\ \A k \in 1 .. Len(a) : q[k] = b[k]
      BY <1>0, <1>1
    <2> HIDE DEF p, q
    <2>2. p = q <=> \A k \in 1 .. Len(a) : p[k] = q[k]
      BY <2>1, SeqEqual
    <2>3. IsPrefix(a, b) <=> p = q
      BY <1>1 DEF IsPrefix, p, q
    <2> QED  BY <1>1, <2>1, <2>2, <2>3
  <1>2. CASE ~(Len(a) <= Len(b))
    BY <1>2 DEF IsPrefix
  <1> QED  BY <1>1, <1>2

LEMMA LongerIsGreater ==
    ASSUME NEW a \in Seq(Nat), NEW b \in Seq(Nat), IsPrefix(a, b), a # b
    PROVE  Greater(b, a)
  <1>1. Len(a) <= Len(b) /\ \A k \in 1 .. Len(a) : a[k] = b[k]
    BY PrefixIs
  <1>2. Len(a) \in Nat /\ Len(b) \in Nat /\ Len(a) # Len(b)
    BY <1>1, SeqEqual
  <1> DEFINE k == Len(a) + 1
  <1>3. DOMAIN a = 1 .. Len(a) /\ DOMAIN b = 1 .. Len(b)
    OBVIOUS
  <1>4. k \in DOMAIN b /\ k \notin DOMAIN a /\ \A j \in 1 .. k - 1 : j \in 1 .. Len(a)
    <2> DEFINE x == Len(a)
               y == Len(b)
    <2>1. x \in Nat /\ y \in Nat /\ x < y
      BY <1>1, <1>2
    <2> HIDE DEF x, y
    <2>2. x + 1 \in 1 .. y /\ x + 1 \notin 1 .. x /\ \A j \in 1 .. (x + 1) - 1 : j \in 1 .. x
      BY <2>1
    <2> QED  BY <1>3, <2>2 DEF x, y
  <1> HIDE DEF k
  <1>5. \A j \in 1 .. k - 1 : j \in DOMAIN a /\ b[j] = a[j]
    BY <1>1, <1>3, <1>4
  <1> QED  BY <1>4, <1>5 DEF Greater

LEMMA HeadIsGreater ==
    ASSUME NEW a \in Seq(Nat), NEW b \in Seq(Nat), a # <<>>, b # <<>>, Head(a) > Head(b)
    PROVE  Greater(a, b)
  <1>1. 1 \in DOMAIN a /\ 1 \in DOMAIN b /\ a[1] > b[1]
    OBVIOUS
  <1> QED  BY <1>1 DEF Greater

-----------------------------------------------------------------------------
(* What the constructor makes of a table.                                  *)

Rows == [short: Nat \ {0}, long: Seq(Nat), has_arg: BOOLEAN]

TableOk(args) ==
    /\ args \in Seq(Rows) /\ args # <<>>
    /\ \A i, j \in 1 .. Len(args) : args[i].short = args[j].short => i = j
    /\ \A i, j \in 1 .. Len(args) : args[i].long = args[j].long /\ args[i].long # <<>> => i = j
    /\ \A i \in 1 .. Len(args) : args[i].long # <<>> => Head(args[i].long) # EQ

\* The replacements are above the characters, and no two are the same.
LEMMA ReplacementIs ==
    ASSUME NEW n \in Nat, NEW S \in SUBSET (1 .. n)
    PROVE  /\ \A k \in 1 .. n : Cardinality({j \in 1 .. k : j \in S}) \in Nat
           /\ \A k \in S : Cardinality({j \in 1 .. k : j \in S}) > 0
           /\ \A k, m \in S : Cardinality({j \in 1 .. k : j \in S})
                                = Cardinality({j \in 1 .. m : j \in S}) => k = m
  <1> DEFINE Up(k) == {j \in 1 .. k : j \in S}
  <1>1. ASSUME NEW k \in 1 .. n PROVE IsFiniteSet(Up(k)) /\ Cardinality(Up(k)) \in Nat
    <2>1. IsFiniteSet(1 .. k) /\ Up(k) \in SUBSET (1 .. k)
      BY FS_Interval
    <2> HIDE DEF Up
    <2> QED  BY <2>1, FS_Subset, FS_CardinalityType
  <1>2. ASSUME NEW k \in S PROVE Cardinality(Up(k)) > 0
    <2>1. k \in Up(k) /\ k \in 1 .. n
      OBVIOUS
    <2> HIDE DEF Up
    <2> QED  BY <1>1, <2>1, FS_EmptySet
  <1>3. ASSUME NEW k \in S, NEW m \in S, k < m PROVE Cardinality(Up(k)) # Cardinality(Up(m))
    <2>1. Up(k) \in SUBSET Up(m) /\ m \in Up(m) /\ m \notin Up(k) /\ m \in 1 .. n
      BY <1>3
    <2> HIDE DEF Up
    <2> QED  BY <1>1, <2>1, FS_Subset
  <1>4. ASSUME NEW k \in S, NEW m \in S, Cardinality(Up(k)) = Cardinality(Up(m)) PROVE k = m
    <2>1. k < m \/ m < k \/ k = m
      OBVIOUS
    <2> HIDE DEF Up
    <2> QED  BY <1>3, <1>4, <2>1
  <1> QED  BY <1>1, <1>2, <1>4

LEMMA SpecIsRow ==
    ASSUME NEW r \in OptSpecs, r.short # 0
    PROVE  r \in Rows /\ r.short <= 255
  <1>1. /\ r.short \in 0 .. 255 /\ r.long \in Seq(Nat) /\ r.has_arg \in BOOLEAN
        /\ r = [short |-> r.short, long |-> r.long, has_arg |-> r.has_arg]
    BY DEF OptSpecs
  <1>2. r.short \in Nat \ {0} /\ r.short <= 255
    <2> DEFINE c == r.short
    <2>1. c \in 0 .. 255 /\ c # 0
      BY <1>1
    <2> HIDE DEF c
    <2>2. c \in Nat \ {0} /\ c <= 255
      BY <2>1
    <2> QED  BY <2>2 DEF c
  <1> QED  BY <1>1, <1>2 DEF Rows

LEMMA ArgsOk ==
    ASSUME NEW in \in Tables
    PROVE  TableOk(init_args(in)) /\ Len(init_args(in)) = Len(in)
  <1> DEFINE n == Len(in)
             S == {j \in 1 .. n : in[j].short = 0}
             Up(k) == {j \in 1 .. k : j \in S}
             New(k) == IF in[k].short # 0 THEN in[k] ELSE [in[k] EXCEPT !.short = 255 + Cardinality(Up(k))]
             args == [k \in 1 .. n |-> New(k)]
  <1>1. /\ in \in Seq(OptSpecs) /\ in # <<>> /\ check(in)
        /\ \A k \in DOMAIN in : IF in[k].long = <<>> THEN in[k].short # 0 ELSE Head(in[k].long) # EQ
    BY ParserAssumption
  <1>2. n \in Nat /\ DOMAIN in = 1 .. n /\ \A k \in 1 .. n : in[k] \in OptSpecs
    BY <1>1
  <1>3. /\ \A k \in 1 .. n : Cardinality(Up(k)) \in Nat
        /\ \A k \in S : Cardinality(Up(k)) > 0
        /\ \A k, m \in S : Cardinality(Up(k)) = Cardinality(Up(m)) => k = m
    BY <1>2, ReplacementIs
  <1>4. init_args(in) = args
    <2>1. \A k \in 1 .. n : {j \in 1 .. k : in[j].short = 0} = Up(k)
      BY <1>2
    <2> HIDE DEF Up, n
    <2> QED  BY <1>2, <2>1 DEF init_args
  <1> HIDE DEF Up
  <1>5. ASSUME NEW k \in 1 .. n
        PROVE  /\ New(k) \in Rows /\ New(k).long = in[k].long
               /\ in[k].short # 0 => New(k).short = in[k].short /\ New(k).short <= 255
               /\ in[k].short = 0 => New(k).short = 255 + Cardinality(Up(k)) /\ New(k).short > 255 /\ k \in S
    <2>1. in[k].short \in 0 .. 255 /\ in[k] \in OptSpecs
      BY <1>2 DEF OptSpecs
    <2>2. CASE in[k].short # 0
      <3> DEFINE r == in[k]
      <3>1. New(k) = r
        BY <2>2
      <3>2. r \in Rows /\ r.short <= 255
        <4>1. r \in OptSpecs /\ r.short # 0
          BY <2>1, <2>2
        <4> HIDE DEF r, New
        <4> QED  BY <4>1, SpecIsRow
      <3> HIDE DEF New
      <3> QED  BY <2>2, <3>1, <3>2 DEF r
    <2>3. CASE in[k].short = 0
      <3>1. k \in S
        BY <2>3
      <3> HIDE DEF S
      <3>2. Cardinality(Up(k)) \in Nat /\ Cardinality(Up(k)) > 0
        BY <1>3, <3>1
      <3> QED  BY <2>1, <2>3, <3>1, <3>2 DEF OptSpecs, Rows
    <2> QED  BY <2>2, <2>3
  <1>6. args \in Seq(Rows) /\ Len(args) = n /\ \A k \in 1 .. n : args[k] = New(k)
    <2> HIDE DEF New
    <2> QED  BY <1>2, <1>5
  <1>7. ASSUME NEW i \in 1 .. n, NEW j \in 1 .. n, New(i).short = New(j).short PROVE i = j
    <2>1. in[i].short = in[j].short \/ (in[i].short = 0 /\ in[j].short = 0)
      <3>0. ASSUME NEW k \in 1 .. n
            PROVE  /\ in[k].short # 0 => New(k).short = in[k].short /\ New(k).short <= 255
                   /\ in[k].short = 0 => New(k).short > 255
        BY <1>5
      <3>1. /\ in[i].short # 0 => New(i).short = in[i].short /\ New(i).short <= 255
            /\ in[i].short = 0 => New(i).short > 255
            /\ in[j].short # 0 => New(j).short = in[j].short /\ New(j).short <= 255
            /\ in[j].short = 0 => New(j).short > 255
        <4> HIDE DEF New
        <4> QED  BY <3>0
      <3>2. New(i).short \in Nat
        BY <1>5 DEF Rows
      <3> HIDE DEF New, S
      <3> QED  BY <1>7, <3>1, <3>2
    <2>2. CASE in[i].short # 0
      BY <1>1, <1>2, <2>1, <2>2 DEF check
    <2>3. CASE in[i].short = 0
      <3>1. i \in S /\ j \in S /\ Cardinality(Up(i)) = Cardinality(Up(j))
        <4>1. i \in S /\ j \in S
          BY <2>1, <2>3
        <4>2. /\ New(i).short = 255 + Cardinality(Up(i)) /\ New(j).short = 255 + Cardinality(Up(j))
              /\ Cardinality(Up(i)) \in Nat /\ Cardinality(Up(j)) \in Nat
          BY <1>3, <1>5, <2>1, <2>3
        <4> DEFINE x == Cardinality(Up(i))
                   y == Cardinality(Up(j))
        <4>3. x \in Nat /\ y \in Nat /\ 255 + x = 255 + y
          <5> HIDE DEF New
          <5> QED  BY <1>7, <4>2
        <4> HIDE DEF x, y
        <4>4. x = y
          BY <4>3
        <4> QED  BY <4>1, <4>4 DEF x, y
      <3> QED  BY <1>3, <3>1
    <2> QED  BY <2>2, <2>3
  <1>8. ASSUME NEW i \in 1 .. n, NEW j \in 1 .. n, New(i).long = New(j).long, New(i).long # <<>> PROVE i = j
    <2>1. in[i].long = in[j].long /\ in[i].long # <<>>
      BY <1>5, <1>8
    <2> QED  BY <1>1, <1>2, <2>1 DEF check
  <1>9. \A i \in 1 .. n : New(i).long # <<>> => Head(New(i).long) # EQ
    <2> TAKE i \in 1 .. n
    <2>1. New(i).long = in[i].long
      BY <1>5
    <2> HIDE DEF New
    <2> QED  BY <1>1, <1>2, <2>1
  <1>10. args # <<>>
    BY <1>1, <1>6
  <1> HIDE DEF args, New, n
  <1>11. TableOk(args)
    BY <1>6, <1>7, <1>8, <1>9, <1>10 DEF TableOk
  <1> QED  BY <1>4, <1>6, <1>11 DEF n

\* What stands in s stands in t.
Drawn(s, t, n) == \A i \in 1 .. n : \E j \in 1 .. n : s[i] = t[j]

LEMMA ShuffleIs ==
    ASSUME NEW n \in Nat, NEW t, NEW s \in Shuffles(t, n)
    PROVE  /\ DOMAIN s = 1 .. n /\ Len(s) = n
           /\ Drawn(s, t, n) /\ Drawn(t, s, n)
           /\ \A i, j \in 1 .. n : s[i] = s[j] => i = j
  <1> DEFINE E == {t[i] : i \in 1 .. n}
  <1>1. s \in [1 .. n -> E]
    BY DEF Shuffles
  <1>2. s \in Seq(E) /\ Len(s) = n
    <2> HIDE DEF E
    <2> QED  BY <1>1
  <1>3. \A i \in 1 .. n : s[i] \in E
    <2> HIDE DEF E
    <2> QED  BY <1>1
  <1>4. Drawn(s, t, n)
    BY <1>3 DEF Drawn
  <1>5. Drawn(t, s, n)
    BY DEF Shuffles, Drawn
  <1> HIDE DEF E
  <1> QED  BY <1>1, <1>2, <1>4, <1>5 DEF Shuffles

\* What the searches rely on.
ListOk(o) ==
    LET n == Len(o.args) IN
    /\ TableOk(o.args)
    /\ o.s \in Shuffles(o.args, n) /\ o.l \in Shuffles(o.args, n)
    /\ \A p, q \in 1 .. n : p < q => o.s[p].short < o.s[q].short
    /\ o.num \in 0 .. n /\ \A k \in 1 .. n : k <= o.num <=> o.l[k].long # <<>>
    /\ \A p, q \in 1 .. o.num : p < q => Greater(o.l[q].long, o.l[p].long)
    /\ o.error_code = [k \in 1 .. 4 |-> -k]

LEMMA PairsIs ==
    ASSUME NEW args \in Seq(Rows), NEW Swap,
           NEW a \in {args[i] : i \in 1 .. Len(args)}, NEW b \in {args[i] : i \in 1 .. Len(args)}
    PROVE  <<a, b>> \in Pairs(args) /\ a \in Rows /\ b \in Rows
  <1>1. a \in ToSet(args) /\ b \in ToSet(args)
    BY DEF ToSet
  <1>2. a \in Rows /\ b \in Rows
    OBVIOUS
  <1> QED  BY <1>1, <1>2 DEF Pairs

LEMMA ShortsSorted ==
    ASSUME NEW args, TableOk(args)
    PROVE  LET s == init_s_sort_table(args)
               n == Len(args)
           IN  s \in Shuffles(args, n) /\ \A p, q \in 1 .. n : p < q => s[p].short < s[q].short
  <1> DEFINE n == Len(args)
             E == {args[i] : i \in 1 .. n}
             Swap == {p \in Pairs(args) : p[1].short > p[2].short}
             Le == {p \in E \X E : p[1].short <= p[2].short}
             s == BubbleSort(args, Swap)
  <1>1. args \in Seq(Rows) /\ n \in Nat
    BY DEF TableOk
  <1>2. \A a, b \in E : <<a, b>> \in Pairs(args) /\ a.short \in Nat /\ b.short \in Nat
    <2> TAKE a \in E, b \in E
    <2>1. <<a, b>> \in Pairs(args) /\ a \in Rows /\ b \in Rows
      BY <1>1, PairsIs
    <2> QED  BY <2>1 DEF Rows
  <1> HIDE DEF E
  <1>3. /\ \A a, b \in E : <<a, b>> \in Swap <=> a.short > b.short
        /\ \A a, b \in E : <<a, b>> \in Le <=> a.short <= b.short
    BY <1>2
  <1> HIDE DEF Swap, Le
  <1>4. Orders(Le, Swap, E)
    BY <1>2, <1>3 DEF Orders
  <1>5. \A i, j \in 1 .. n : args[i] = args[j] => i = j
    BY DEF TableOk
  <1>6. s \in Shuffles(args, n) /\ Sorted(s, n, Le)
    BY <1>1, <1>4, <1>5, BubbleSorts DEF E
  <1> HIDE DEF s, n
  <1>7. ASSUME NEW p \in 1 .. n, NEW q \in 1 .. n, p < q PROVE s[p].short < s[q].short
    <2>1. <<s[p], s[q]>> \in Le
      BY <1>1, <1>7, <1>6 DEF Sorted
    <2>2. PICK i \in 1 .. n : s[p] = args[i]
      BY <1>1, <1>6, ShuffleIs DEF Drawn
    <2>3. PICK j \in 1 .. n : s[q] = args[j]
      BY <1>1, <1>6, ShuffleIs DEF Drawn
    <2>4. i # j
      BY <1>1, <1>6, <1>7, <2>2, <2>3, ShuffleIs
    <2>5. args[i].short # args[j].short /\ args[i] \in E /\ args[j] \in E
      BY <2>4 DEF TableOk, E, n
    <2> QED  BY <1>2, <1>3, <2>1, <2>2, <2>3, <2>5
  <1> QED  BY <1>6, <1>7 DEF init_s_sort_table, s, n, Swap

\* The names in order, and behind them the options without one.
NameLe(a, b) == b.long = <<>> \/ (a.long # <<>> /\ ~Greater(a.long, b.long))

LEMMA NamesSorted ==
    ASSUME NEW args, TableOk(args)
    PROVE  LET l == init_l_sort_table(args)
               n == Len(args)
           IN  /\ l \in Shuffles(args, n)
               /\ \A p, q \in 1 .. n : p < q => NameLe(l[p], l[q])
  <1> DEFINE n == Len(args)
             E == {args[i] : i \in 1 .. n}
             Swap == {p \in Pairs(args) :
                        p[1].long = <<>> \/ (Greater(p[1].long, p[2].long) /\ p[2].long # <<>>)}
             Le == {p \in E \X E : NameLe(p[1], p[2])}
             l == BubbleSort(args, Swap)
  <1>1. args \in Seq(Rows) /\ n \in Nat
    BY DEF TableOk
  <1>2. \A a, b \in E : <<a, b>> \in Pairs(args) /\ a.long \in Seq(Nat) /\ b.long \in Seq(Nat)
    <2> TAKE a \in E, b \in E
    <2>1. <<a, b>> \in Pairs(args) /\ a \in Rows /\ b \in Rows
      BY <1>1, PairsIs
    <2> QED  BY <2>1 DEF Rows
  <1> HIDE DEF E
  <1>3. /\ \A a, b \in E : <<a, b>> \in Swap <=>
              a.long = <<>> \/ (Greater(a.long, b.long) /\ b.long # <<>>)
        /\ \A a, b \in E : <<a, b>> \in Le <=> NameLe(a, b)
    BY <1>2
  <1> HIDE DEF Swap, Le
  <1>4. Orders(Le, Swap, E)
    <2>1. ASSUME NEW a \in E, NEW b \in E
          PROVE  IF <<a, b>> \in Swap THEN NameLe(b, a) ELSE NameLe(a, b)
      <3>1. ~(Greater(a.long, b.long) /\ Greater(b.long, a.long))
        BY <1>2, GreaterTransitive, GreaterIrreflexive
      <3> QED  BY <1>3, <3>1 DEF NameLe
    <2>2. \A a \in E : NameLe(a, a)
      BY <1>2, GreaterIrreflexive DEF NameLe
    <2>3. ASSUME NEW a \in E, NEW b \in E, NEW c \in E, NameLe(a, b), NameLe(b, c)
          PROVE  NameLe(a, c)
      <3>1. SUFFICES ASSUME c.long # <<>> PROVE NameLe(a, c)
        BY DEF NameLe
      <3>2. b.long # <<>> /\ a.long # <<>> /\ ~Greater(b.long, c.long) /\ ~Greater(a.long, b.long)
        BY <2>3, <3>1 DEF NameLe
      <3>3. SUFFICES ASSUME Greater(a.long, c.long) PROVE FALSE
        BY <3>2 DEF NameLe
      <3>4. a.long # b.long => Greater(b.long, a.long)
        BY <1>2, <3>2, GreaterTotal
      <3>5. Greater(b.long, c.long)
        BY <1>2, <3>3, <3>4, GreaterTransitive
      <3> QED  BY <3>2, <3>5
    <2> QED  BY <1>3, <2>1, <2>2, <2>3 DEF Orders
  <1>5. \A i, j \in 1 .. n : args[i] = args[j] => i = j
    BY DEF TableOk
  <1>6. l \in Shuffles(args, n) /\ Sorted(l, n, Le)
    BY <1>1, <1>4, <1>5, BubbleSorts DEF E
  <1> HIDE DEF l, n
  <1>7. ASSUME NEW p \in 1 .. n, NEW q \in 1 .. n, p < q PROVE NameLe(l[p], l[q])
    <2>1. <<l[p], l[q]>> \in Le
      BY <1>1, <1>7, <1>6 DEF Sorted
    <2>2. \A k \in 1 .. n : l[k] \in E
      <3> TAKE k \in 1 .. n
      <3>1. PICK i \in 1 .. n : l[k] = args[i]
        BY <1>1, <1>6, ShuffleIs DEF Drawn
      <3> QED  BY <3>1 DEF E
    <2> QED  BY <1>3, <2>1, <2>2
  <1> QED  BY <1>6, <1>7 DEF init_l_sort_table, l, n, Swap

LEMMA NumIs ==
    ASSUME NEW n \in Nat, NEW l, DOMAIN l = 1 .. n,
           \A p, q \in 1 .. n : p < q => NameLe(l[p], l[q])
    PROVE  /\ init_num_long_opt(l) \in 0 .. n
           /\ \A k \in 1 .. n : k <= init_num_long_opt(l) <=> l[k].long # <<>>
  <1> DEFINE A == {k \in DOMAIN l : \A j \in 1 .. k : l[j].long # <<>>}
  <1>1. A \subseteq 1 .. n /\ \A k \in A : 1 .. k \subseteq A
    OBVIOUS
  <1>2. \A k \in 1 .. n : l[k].long # <<>> => k \in A
    <2> SUFFICES ASSUME NEW k \in 1 .. n, l[k].long # <<>>, NEW j \in 1 .. k
                 PROVE  l[j].long # <<>>
      OBVIOUS
    <2>1. j = k \/ (j \in 1 .. n /\ j < k)
      OBVIOUS
    <2> QED  BY <2>1 DEF NameLe
  <1>3. \A k \in A : l[k].long # <<>>
    OBVIOUS
  <1>4. init_num_long_opt(l) = Cardinality(A)
    BY DEF init_num_long_opt
  <1> HIDE DEF A
  <1>5. CASE A = {}
    BY <1>2, <1>4, <1>5, FS_EmptySet
  <1>6. CASE A # {}
    <2>1. A \subseteq 0 .. n
      BY <1>1
    <2>2. PICK m \in A : \A k \in A : m >= k
      BY <1>6, <2>1, GreatestElement
    <2>3. A = 1 .. m /\ m \in 1 .. n
      <3>1. m \in 1 .. n /\ 1 .. m \subseteq A
        BY <1>1, <2>2
      <3>2. \A k \in A : k \in 1 .. m
        BY <1>1, <2>2, <3>1
      <3> QED  BY <3>1, <3>2
    <2>4. Cardinality(A) = m
      BY <2>3, FS_Interval
    <2> QED  BY <1>2, <1>3, <1>4, <2>3, <2>4
  <1> QED  BY <1>5, <1>6

LEMMA ErrorCodesAre ==
    ASSUME NEW n \in Nat, NEW l, DOMAIN l = 1 .. n, Len(l) = n, \A k \in 1 .. n : l[k].short \in Nat
    PROVE  init_error_code(l) = [k \in 1 .. 4 |-> -k]
  <1> DEFINE free == (-(4 + Len(l)) .. -1) \ {l[k].short : k \in DOMAIN l}
             From0(c) == {d \in free : d >= c}
  <1>1. free = -(4 + n) .. -1
    OBVIOUS
  <1> HIDE DEF free
  <1>2. ASSUME NEW c \in free PROVE Cardinality(From0(c)) = -c
    <2>1. From0(c) = c .. -1 /\ c \in Int /\ c < 0
      BY <1>1
    <2> HIDE DEF From0
    <2> QED  BY <2>1, FS_Interval
  <1>3. ASSUME NEW k \in 1 .. 4 PROVE (CHOOSE c \in free : Cardinality(From0(c)) = k) = -k
    <2>1. -k \in free
      BY <1>1
    <2>2. \A c \in free : Cardinality(From0(c)) = k <=> c = -k
      <3> TAKE c \in free
      <3>1. c \in Int
        BY <1>1
      <3> HIDE DEF From0
      <3> QED  BY <1>2, <3>1
    <2> HIDE DEF From0
    <2> QED  BY <2>1, <2>2
  <1> QED  BY <1>3 DEF init_error_code, free

LEMMA ListIsOk ==
    ASSUME NEW o \in OptionLists
    PROVE  ListOk(o)
  <1>1. PICK in \in Tables : o = argument_list(in)
    BY DEF OptionLists
  <1> DEFINE args == init_args(in)
             n == Len(args)
             l == init_l_sort_table(args)
             s == init_s_sort_table(args)
  <1>2. TableOk(args)
    BY ArgsOk
  <1>3. /\ o.args = args /\ o.s = s /\ o.l = l /\ o.num = init_num_long_opt(l)
        /\ o.error_code = init_error_code(l)
    BY <1>1 DEF argument_list
  <1> HIDE DEF args
  <1>4. /\ n \in Nat /\ n # 0 /\ s \in Shuffles(args, n) /\ l \in Shuffles(args, n)
        /\ \A p, q \in 1 .. n : p < q => s[p].short < s[q].short
        /\ \A p, q \in 1 .. n : p < q => NameLe(l[p], l[q])
    <2>1. n \in Nat /\ n # 0
      BY <1>2 DEF TableOk
    <2> QED  BY <1>2, <2>1, ShortsSorted, NamesSorted
  <1> HIDE DEF s, l
  <1>5. /\ DOMAIN l = 1 .. n /\ Len(l) = n
        /\ \A i \in 1 .. n : \E j \in 1 .. n : l[i] = args[j]
        /\ \A i, j \in 1 .. n : l[i] = l[j] => i = j
    <2>1. n \in Nat /\ l \in Shuffles(args, n)
      BY <1>4
    <2> HIDE DEF n
    <2>2. /\ DOMAIN l = 1 .. n /\ Len(l) = n /\ Drawn(l, args, n)
          /\ \A i, j \in 1 .. n : l[i] = l[j] => i = j
      BY <2>1, ShuffleIs
    <2> QED  BY <2>2 DEF Drawn
  <1>6. \A i \in 1 .. n : args[i] \in Rows
    BY <1>2 DEF TableOk
  <1> DEFINE num == init_num_long_opt(l)
  <1>7. num \in 0 .. n /\ \A k \in 1 .. n : k <= num <=> l[k].long # <<>>
    <2>1. n \in Nat /\ DOMAIN l = 1 .. n /\ \A p, q \in 1 .. n : p < q => NameLe(l[p], l[q])
      BY <1>4, <1>5
    <2> HIDE DEF n
    <2> QED  BY <2>1, NumIs
  <1> HIDE DEF num
  <1>8. ASSUME NEW p \in 1 .. num, NEW q \in 1 .. num, p < q PROVE Greater(l[q].long, l[p].long)
    <2>1. p \in 1 .. n /\ q \in 1 .. n /\ p # q
      BY <1>4, <1>7, <1>8
    <2>2. PICK i \in 1 .. n : l[p] = args[i]
      BY <1>5, <2>1
    <2>3. PICK j \in 1 .. n : l[q] = args[j]
      BY <1>5, <2>1
    <2>4. l[p].long # <<>> /\ l[q].long # <<>>
      BY <1>7, <2>1
    <2>5. l[p].long # l[q].long
      BY <1>2, <1>5, <2>1, <2>2, <2>3, <2>4 DEF TableOk
    <2>6. ~Greater(l[p].long, l[q].long)
      BY <1>4, <1>8, <2>1, <2>4 DEF NameLe
    <2>7. l[p].long \in Seq(Nat) /\ l[q].long \in Seq(Nat)
      BY <1>6, <2>2, <2>3 DEF Rows
    <2> QED  BY <2>5, <2>6, <2>7, GreaterTotal
  <1>9. init_error_code(l) = [k \in 1 .. 4 |-> -k]
    <2>1. \A k \in 1 .. n : l[k].short \in Nat
      BY <1>5, <1>6 DEF Rows
    <2> HIDE DEF n
    <2> QED  BY <1>4, <1>5, <2>1, ErrorCodesAre
  <1> HIDE DEF n
  <1> QED  BY <1>2, <1>3, <1>4, <1>7, <1>8, <1>9 DEF ListOk, n, num

-----------------------------------------------------------------------------
(* The searches.                                                           *)

LEMMA ErrorsAre ==
    ASSUME NEW o, ListOk(o)
    PROVE  /\ unknown(o) = -1 /\ ambiguous(o) = -2 /\ no_argument(o) = -3 /\ positional_argument(o) = -4
           /\ ToSet(o.error_code) = {-1, -2, -3, -4}
           /\ \A c \in CodesOf(o) : c \in Nat \ {0} /\ is_valid(o, c)
  <1>1. o.error_code = [k \in 1 .. 4 |-> -k]
    BY DEF ListOk
  <1>2. unknown(o) = -1 /\ ambiguous(o) = -2 /\ no_argument(o) = -3 /\ positional_argument(o) = -4
    BY <1>1 DEF unknown, ambiguous, no_argument, positional_argument
  <1>3. ToSet(o.error_code) = {-1, -2, -3, -4}
    <2>1. 1 .. 4 = {1, 2, 3, 4}
      OBVIOUS
    <2> QED  BY <1>1, <2>1 DEF ToSet
  <1>4. ASSUME NEW c \in CodesOf(o) PROVE c \in Nat \ {0}
    <2>1. PICK k \in DOMAIN o.args : c = o.args[k].short
      BY DEF CodesOf
    <2>2. o.args[k] \in Rows
      BY DEF ListOk, TableOk
    <2> QED  BY <2>1, <2>2 DEF Rows
  <1> QED  BY <1>2, <1>3, <1>4 DEF is_valid

LEMMA ArgsAre ==
    ASSUME NEW o, ListOk(o)
    PROVE  LET n == Len(o.args) IN
           /\ n \in Nat \ {0} /\ DOMAIN o.args = 1 .. n /\ \A k \in 1 .. n : o.args[k] \in Rows
           /\ \A k \in 1 .. n : o.args[k].short \in Nat /\ o.args[k].long \in Seq(Nat)
           /\ \A j, k \in 1 .. n : o.args[j].short = o.args[k].short => j = k
  <1>1. o.args \in Seq(Rows) /\ o.args # <<>>
    BY DEF ListOk, TableOk
  <1>2. \A k \in 1 .. Len(o.args) : o.args[k] \in Rows
    BY <1>1
  <1>3. Len(o.args) \in Nat \ {0} /\ DOMAIN o.args = 1 .. Len(o.args)
    BY <1>1
  <1>4. \A k \in 1 .. Len(o.args) : o.args[k].short \in Nat /\ o.args[k].long \in Seq(Nat)
    BY <1>2 DEF Rows
  <1>5. \A j, k \in 1 .. Len(o.args) : o.args[j].short = o.args[k].short => j = k
    BY DEF ListOk, TableOk
  <1> QED  BY <1>2, <1>3, <1>4, <1>5

\* The half that is searched has the code, if the table has.
LEMMA HalfIsEnough ==
    ASSUME NEW n \in Nat \ {0}, NEW s, \A k \in 1 .. n : s[k].short \in Nat,
           \A p, q \in 1 .. n : p < q => s[p].short < s[q].short,
           NEW code \in Int, NEW p \in 1 .. n, s[p].short = code
    PROVE  p \in (IF s[n \div 2 + 1].short > code THEN 1 .. n \div 2 ELSE n \div 2 + 1 .. n)
  <1> DEFINE mid == n \div 2
  <1>1. mid + 1 \in 1 .. n /\ mid \in Nat
    OBVIOUS
  <1> HIDE DEF mid
  <1>2. CASE s[mid + 1].short > code
    <2>1. ~(mid + 1 < p) /\ mid + 1 # p
      BY <1>1, <1>2
    <2> QED  BY <1>1, <1>2, <2>1 DEF mid
  <1>3. CASE ~(s[mid + 1].short > code)
    <2>1. ~(p < mid + 1)
      BY <1>1, <1>3
    <2> QED  BY <1>1, <1>3, <2>1 DEF mid
  <1> QED  BY <1>2, <1>3

LEMMA CodesFound ==
    ASSUME NEW o, ListOk(o)
    PROVE  /\ \A k \in DOMAIN o.args : get_option_short(o, o.args[k].short) = o.args[k]
           /\ \A c \in Int : c \notin CodesOf(o) => get_option_short(o, c) = opt_t(unknown(o))
  <1> DEFINE n == Len(o.args)
             mid == n \div 2
             half(c) == IF o.s[mid + 1].short > c THEN 1 .. mid ELSE mid + 1 .. n
             hits(c) == {k \in half(c) : o.s[k].short = c}
  <1>1. /\ n \in Nat \ {0} /\ DOMAIN o.args = 1 .. n
        /\ \A k \in 1 .. n : o.args[k].short \in Nat
        /\ \A j, k \in 1 .. n : o.args[j].short = o.args[k].short => j = k
    BY ArgsAre
  <1>2. /\ Len(o.s) = n
        /\ \A i \in 1 .. n : \E j \in 1 .. n : o.s[i] = o.args[j]
        /\ \A i \in 1 .. n : \E j \in 1 .. n : o.s[j] = o.args[i]
    <2> DEFINE s == o.s
               t == o.args
    <2>1. n \in Nat /\ s \in Shuffles(t, n)
      BY <1>1 DEF ListOk
    <2> HIDE DEF n, s, t
    <2>2. Len(s) = n /\ Drawn(s, t, n) /\ Drawn(t, s, n)
      BY <2>1, ShuffleIs
    <2> QED  BY <2>2 DEF Drawn, s, t
  <1>3. \A p, q \in 1 .. n : p < q => o.s[p].short < o.s[q].short
    BY DEF ListOk
  <1> HIDE DEF n
  <1>4. \A k \in 1 .. n : o.s[k].short \in Nat
    <2> TAKE k \in 1 .. n
    <2>1. PICK j \in 1 .. n : o.s[k] = o.args[j]
      BY <1>2
    <2> QED  BY <1>1, <2>1
  <1>5. \A c : get_option_short(o, c) = IF hits(c) = {} THEN opt_t(unknown(o)) ELSE o.s[CHOOSE k \in hits(c) : TRUE]
    BY <1>2 DEF get_option_short
  <1>6. \A c : half(c) \subseteq 1 .. n
    <2>1. mid \in Nat /\ mid + 1 \in 1 .. n
      BY <1>1
    <2> HIDE DEF mid
    <2> QED  BY <1>1, <2>1
  <1>7. ASSUME NEW k \in 1 .. n PROVE get_option_short(o, o.args[k].short) = o.args[k]
    <2> DEFINE c == o.args[k].short
    <2>1. PICK p \in 1 .. n : o.s[p] = o.args[k]
      BY <1>2
    <2>2. p \in half(c)
      BY <1>1, <1>3, <1>4, <2>1, HalfIsEnough
    <2>3. hits(c) = {p}
      <3>1. \A q \in half(c) : o.s[q].short = c => q = p
        <4> TAKE q \in half(c)
        <4>1. q \in 1 .. n
          BY <1>6
        <4> HIDE DEF half
        <4> QED  BY <1>1, <1>3, <1>4, <2>1, <4>1
      <3> HIDE DEF half
      <3> QED  BY <2>1, <2>2, <3>1
    <2> HIDE DEF hits
    <2> QED  BY <1>5, <2>1, <2>3
  <1>8. ASSUME NEW c \in Int, c \notin CodesOf(o) PROVE get_option_short(o, c) = opt_t(unknown(o))
    <2>1. \A q \in 1 .. n : o.s[q].short # c
      <3> TAKE q \in 1 .. n
      <3>1. PICK j \in 1 .. n : o.s[q] = o.args[j]
        BY <1>2
      <3> QED  BY <1>1, <1>8, <3>1 DEF CodesOf
    <2>2. hits(c) = {}
      <3> HIDE DEF half
      <3> QED  BY <1>6, <2>1
    <2> HIDE DEF hits
    <2> QED  BY <1>5, <2>2
  <1> QED  BY <1>1, <1>7, <1>8

LEMMA FirstOfIs ==
    ASSUME NEW S, S \subseteq Nat, NEW none
    PROVE  /\ S = {} => FirstOf(S, none) = none
           /\ S # {} => FirstOf(S, none) \in S /\ \A j \in S : FirstOf(S, none) <= j
  <1>1. CASE S = {}
    BY <1>1 DEF FirstOf
  <1>2. CASE S # {}
    <2>1. \E k \in S : \A j \in S : k <= j
      BY <1>2, LeastElement
    <2> QED  BY <1>2, <2>1 DEF FirstOf
  <1> QED  BY <1>1, <1>2

\* The sorted names, and which option each of them is.
LEMMA NamesAre ==
    ASSUME NEW o, ListOk(o)
    PROVE  LET n == Len(o.args) IN
           /\ n \in Nat \ {0} /\ o.num \in 0 .. n
           /\ \A k \in 1 .. o.num : /\ o.l[k].long \in Seq(Nat) \ {<<>>}
                                    /\ Head(o.l[k].long) \in Nat \ {EQ}
                                    /\ \E j \in 1 .. n : o.l[k] = o.args[j]
           /\ \A j \in 1 .. n : o.args[j].long # <<>> => \E k \in 1 .. o.num : o.l[k] = o.args[j]
           /\ \A j, k \in 1 .. o.num : o.l[j] = o.l[k] => j = k
  <1> DEFINE n == Len(o.args)
             l == o.l
             t == o.args
  <1>1. /\ n \in Nat \ {0} /\ \A k \in 1 .. n : t[k] \in Rows /\ t[k].long \in Seq(Nat)
    BY ArgsAre
  <1>2. /\ o.num \in 0 .. n /\ \A k \in 1 .. n : k <= o.num <=> l[k].long # <<>>
        /\ \A k \in 1 .. n : t[k].long # <<>> => Head(t[k].long) # EQ
        /\ l \in Shuffles(t, n)
    BY DEF ListOk, TableOk
  <1> HIDE DEF n, l, t
  <1>3. /\ \A i \in 1 .. n : \E j \in 1 .. n : l[i] = t[j]
        /\ \A i \in 1 .. n : \E j \in 1 .. n : l[j] = t[i]
        /\ \A i, j \in 1 .. n : l[i] = l[j] => i = j
    <2>1. n \in Nat /\ l \in Shuffles(t, n)
      BY <1>1, <1>2
    <2>2. Drawn(l, t, n) /\ Drawn(t, l, n) /\ \A i, j \in 1 .. n : l[i] = l[j] => i = j
      BY <2>1, ShuffleIs
    <2> QED  BY <2>2 DEF Drawn
  <1>5. ASSUME NEW k \in 1 .. o.num
        PROVE  /\ l[k].long \in Seq(Nat) \ {<<>>} /\ Head(l[k].long) \in Nat \ {EQ}
               /\ \E j \in 1 .. n : l[k] = t[j]
    <2>1. k \in 1 .. n /\ l[k].long # <<>>
      BY <1>1, <1>2
    <2>2. PICK j \in 1 .. n : l[k] = t[j]
      BY <1>3, <2>1
    <2> QED  BY <1>1, <1>2, <2>1, <2>2
  <1>6. ASSUME NEW j \in 1 .. n, t[j].long # <<>>
        PROVE  \E k \in 1 .. o.num : l[k] = t[j]
    <2>1. PICK k \in 1 .. n : l[k] = t[j]
      BY <1>3
    <2>2. k \in 1 .. o.num
      BY <1>2, <1>6, <2>1
    <2> QED  BY <2>1, <2>2
  <1>7. \A j, k \in 1 .. o.num : l[j] = l[k] => j = k
    <2>1. \A k \in 1 .. o.num : k \in 1 .. n
      BY <1>1, <1>2
    <2> QED  BY <1>3, <2>1
  <1> QED  BY <1>1, <1>2, <1>5, <1>6, <1>7 DEF n, l, t

\* The run is the names with this first character, all of them.
LEMMA RunIs ==
    ASSUME NEW o, ListOk(o), NEW name
    PROVE  /\ start(o, name) \in 1 .. o.num + 1 /\ finish(o, name) \in start(o, name) .. o.num + 1
           /\ \A k \in 1 .. o.num :
                 k \in start(o, name) .. finish(o, name) - 1 <=> Head(o.l[k].long) = front(name)
  <1> DEFINE c == front(name)
             H(k) == Head(o.l[k].long)
             m == o.num
             a == start(o, name)
             b == finish(o, name)
             S == {k \in 1 .. m : H(k) = c}
             T == {k \in a .. m : H(k) # c}
  <1>1. m \in Nat /\ \A k \in 1 .. m : H(k) \in Nat /\ o.l[k].long \in Seq(Nat) \ {<<>>}
    BY NamesAre
  <1>2. \A p, q \in 1 .. m : p < q => H(p) <= H(q)
    <2>0. SUFFICES ASSUME NEW p \in 1 .. m, NEW q \in 1 .. m, p < q, H(p) > H(q) PROVE FALSE
      <3> HIDE DEF H
      <3> QED  BY <1>1
    <2> DEFINE x == o.l[p].long
               y == o.l[q].long
    <2>1. x \in Seq(Nat) /\ y \in Seq(Nat) /\ x # <<>> /\ y # <<>> /\ Head(x) > Head(y)
      BY <1>1, <2>0
    <2>2. Greater(y, x)
      BY <2>0 DEF ListOk
    <2> HIDE DEF x, y
    <2> QED  BY <2>1, <2>2, HeadIsGreater, GreaterTransitive, GreaterIrreflexive
  <1>3. a = FirstOf(S, m + 1) /\ b = FirstOf(T, m + 1)
    BY DEF start, finish
  <1> HIDE DEF a, b, c, H, m
  <1>4. S \subseteq Nat /\ S \subseteq 1 .. m
    BY <1>1
  <1>5. a \in 1 .. m + 1 /\ (S # {} => a \in S) /\ \A k \in S : a <= k
    <2> HIDE DEF S
    <2>1. (S = {} => a = m + 1) /\ (S # {} => a \in S /\ \A k \in S : a <= k)
      BY <1>3, <1>4, FirstOfIs, Zenon
    <2>2. CASE S = {}
      BY <1>1, <2>1, <2>2
    <2>3. CASE S # {}
      <3>1. a \in 1 .. m
        BY <1>4, <2>1, <2>3
      <3> QED  BY <1>1, <2>1, <2>3, <3>1
    <2> QED  BY <2>2, <2>3
  <1>6. T \subseteq Nat /\ T \subseteq a .. m
    BY <1>1, <1>5
  <1>7. b \in a .. m + 1 /\ (b \in T \/ b = m + 1) /\ \A k \in T : b <= k
    <2> HIDE DEF T
    <2>1. (T = {} => b = m + 1) /\ (T # {} => b \in T /\ \A k \in T : b <= k)
      BY <1>3, <1>6, FirstOfIs, Zenon
    <2>2. CASE T = {}
      BY <1>1, <1>5, <2>1, <2>2
    <2>3. CASE T # {}
      <3>1. b \in a .. m
        BY <1>6, <2>1, <2>3
      <3> QED  BY <1>1, <1>5, <2>1, <2>3, <3>1
    <2> QED  BY <2>2, <2>3
  <1>8. ASSUME NEW k \in 1 .. m, k \in a .. b - 1 PROVE H(k) = c
    <2>1. k \notin T
      BY <1>1, <1>5, <1>7, <1>8
    <2> QED  BY <1>1, <1>5, <1>7, <1>8, <2>1
  <1>9. ASSUME NEW k \in 1 .. m, H(k) = c PROVE k \in a .. b - 1
    <2>1. k \in S /\ a \in S /\ a <= k
      BY <1>5, <1>9
    <2>2. SUFFICES ASSUME b <= k PROVE FALSE
      BY <1>1, <1>5, <1>7, <2>1
    <2>3. b \in T
      BY <1>1, <1>7, <2>2
    <2>4. b \in 1 .. m /\ a \in 1 .. m /\ H(a) = c /\ H(b) # c
      BY <1>1, <1>5, <1>6, <2>1, <2>3
    <2>5. a < b
      BY <1>1, <1>5, <1>7, <2>4
    <2>6. H(a) <= H(b) /\ H(b) <= H(k)
      BY <1>1, <1>2, <2>2, <2>4, <2>5
    <2> QED  BY <1>1, <1>9, <2>4, <2>6
  <1> HIDE DEF S, T
  <1> QED  BY <1>5, <1>7, <1>8, <1>9 DEF a, b, c, H, m

LEMMA PrefixHead ==
    ASSUME NEW a \in Seq(Int), NEW b \in Seq(Int), a # <<>>, IsPrefix(a, b)
    PROVE  b # <<>> /\ Head(b) = Head(a)
  <1>1. Len(a) <= Len(b) /\ \A k \in 1 .. Len(a) : a[k] = b[k]
    BY PrefixIs
  <1>2. Len(a) \in Nat /\ Len(a) # 0 /\ 1 \in 1 .. Len(a) /\ Head(a) = a[1]
    OBVIOUS
  <1>3. b # <<>>
    BY <1>1, <1>2
  <1> QED  BY <1>1, <1>2, <1>3

\* So the search meets every name that begins so, and no other.
LEMMA HitsAre ==
    ASSUME NEW o, ListOk(o), NEW name \in Seq(Int)
    PROVE  Hits(o, name, finish(o, name)) =
              {k \in 1 .. o.num : name # <<>> /\ IsPrefix(name, o.l[k].long)}
  <1> DEFINE a == start(o, name)
             b == finish(o, name)
  <1>1. /\ a \in 1 .. o.num + 1 /\ b \in a .. o.num + 1
        /\ \A k \in 1 .. o.num : k \in a .. b - 1 <=> Head(o.l[k].long) = front(name)
    BY RunIs
  <1>2. o.num \in Nat /\ \A k \in 1 .. o.num : /\ o.l[k].long \in Seq(Nat) \ {<<>>}
                                              /\ Head(o.l[k].long) # EQ
    BY NamesAre
  <1>3. Hits(o, name, b) = {k \in a .. b - 1 : IsPrefix(name, o.l[k].long)}
    BY DEF Hits
  <1> HIDE DEF a, b
  <1>4. a .. b - 1 \subseteq 1 .. o.num
    BY <1>1, <1>2
  <1>5. ASSUME NEW k \in a .. b - 1 PROVE name # <<>>
    BY <1>1, <1>2, <1>4 DEF front
  <1>6. ASSUME NEW k \in 1 .. o.num, name # <<>>, IsPrefix(name, o.l[k].long) PROVE k \in a .. b - 1
    <2> DEFINE w == o.l[k].long
    <2>1. w \in Seq(Int)
      BY <1>2
    <2> HIDE DEF w
    <2>2. Head(w) = Head(name)
      BY <1>6, <2>1, PrefixHead DEF w
    <2> QED  BY <1>1, <1>6, <2>2 DEF w, front
  <1> QED  BY <1>3, <1>4, <1>5, <1>6 DEF b

\* The options a name begins are the names the search meets.
LEMMA BegunIs ==
    ASSUME NEW o, ListOk(o), NEW name \in Seq(Int), name # <<>>
    PROVE  LET h == Hits(o, name, finish(o, name))
               B == Begun(o, name)
           IN  /\ h \subseteq 1 .. o.num /\ B \subseteq 1 .. Len(o.args)
               /\ \A p \in h : IsPrefix(name, o.l[p].long) /\ \E k \in B : o.l[p] = o.args[k]
               /\ \A k \in B : /\ o.args[k].long # <<>> /\ IsPrefix(name, o.args[k].long)
                               /\ \E p \in h : o.l[p] = o.args[k]
  <1> DEFINE h == Hits(o, name, finish(o, name))
             B == Begun(o, name)
             n == Len(o.args)
  <1>1. h = {k \in 1 .. o.num : IsPrefix(name, o.l[k].long)}
    BY HitsAre
  <1>2. B = {k \in 1 .. n : o.args[k].long # <<>> /\ IsPrefix(name, o.args[k].long)}
    <2>1. DOMAIN o.args = 1 .. n
      BY ArgsAre
    <2> QED  BY <2>1 DEF Begun
  <1>3. /\ \A k \in 1 .. o.num : /\ o.l[k].long \in Seq(Nat) \ {<<>>}
                                 /\ \E j \in 1 .. n : o.l[k] = o.args[j]
        /\ \A j \in 1 .. n : o.args[j].long # <<>> => \E k \in 1 .. o.num : o.l[k] = o.args[j]
    BY NamesAre
  <1> HIDE DEF h, B, n
  <1>4. ASSUME NEW p \in h PROVE \E k \in B : o.l[p] = o.args[k]
    <2>1. p \in 1 .. o.num /\ IsPrefix(name, o.l[p].long)
      BY <1>1
    <2>2. PICK k \in 1 .. n : o.l[p] = o.args[k]
      BY <1>3, <2>1
    <2>3. k \in B
      BY <1>2, <1>3, <2>1, <2>2
    <2> QED  BY <2>2, <2>3
  <1>5. ASSUME NEW k \in B PROVE \E p \in h : o.l[p] = o.args[k]
    <2>1. k \in 1 .. n /\ o.args[k].long # <<>> /\ IsPrefix(name, o.args[k].long)
      BY <1>2
    <2>2. PICK p \in 1 .. o.num : o.l[p] = o.args[k]
      BY <1>3, <2>1
    <2>3. p \in h
      BY <1>1, <2>1, <2>2
    <2> QED  BY <2>2, <2>3
  <1> QED  BY <1>1, <1>2, <1>4, <1>5 DEF h, B, n

\* The option called so comes first of those the name begins.
LEMMA ExactIsFirst ==
    ASSUME NEW o, ListOk(o), NEW name \in Seq(Int), NEW p \in 1 .. o.num, NEW q \in 1 .. o.num,
           o.l[p].long = name, IsPrefix(name, o.l[q].long)
    PROVE  p <= q
  <1> SUFFICES ASSUME q < p PROVE FALSE
    BY NamesAre
  <1> DEFINE x == o.l[p].long
             y == o.l[q].long
  <1>1. x \in Seq(Nat) /\ y \in Seq(Nat)
    BY NamesAre
  <1>2. Greater(x, y)
    BY DEF ListOk
  <1>3. x = name
    OBVIOUS
  <1>4. IsPrefix(x, y)
    BY <1>3
  <1> HIDE DEF x, y
  <1>5. x # y => Greater(y, x)
    BY <1>1, <1>4, LongerIsGreater
  <1> QED  BY <1>1, <1>2, <1>5, GreaterTransitive, GreaterIrreflexive

LEMMA LongFound ==
    ASSUME NEW o, ListOk(o), NEW name \in Seq(Int)
    PROVE  LET m == Means(o, name) IN
           /\ m \subseteq 1 .. Len(o.args)
           /\ get_option_long(o, name) =
                 IF m = {} THEN opt_t(unknown(o))
                 ELSE IF \E j, k \in m : j # k THEN opt_t(ambiguous(o))
                 ELSE o.args[CHOOSE k \in m : TRUE]
  <1> DEFINE m == Means(o, name)
             h == Hits(o, name, finish(o, name))
             B == Begun(o, name)
             n == Len(o.args)
             first == FirstOf(h, 0)
             second == FirstOf(h \ {first}, first)
             exact == {k \in B : o.args[k].long = name}
  <1>1. get_option_long(o, name) =
            IF h = {} THEN opt_t(unknown(o))
            ELSE IF h = {first} \/ o.l[first].long = name THEN o.l[first]
            ELSE IF o.l[second].long = name THEN o.l[second]
            ELSE opt_t(ambiguous(o))
    BY DEF get_option_long
  <1>2. m = IF name = <<>> THEN {} ELSE IF exact # {} THEN exact ELSE B
    BY DEF Means
  <1>3. CASE name = <<>>
    <2>1. h = {} /\ m = {}
      BY <1>2, <1>3, HitsAre
    <2> HIDE DEF h, m
    <2> QED  BY <1>1, <2>1 DEF m
  <1>4. CASE name # <<>>
    <2>1. /\ h \subseteq 1 .. o.num /\ B \subseteq 1 .. n
          /\ \A p \in h : IsPrefix(name, o.l[p].long) /\ \E k \in B : o.l[p] = o.args[k]
          /\ \A k \in B : o.args[k].long # <<>> /\ \E p \in h : o.l[p] = o.args[k]
      BY <1>4, BegunIs
    <2>2. /\ h \subseteq Nat
          /\ \A j, k \in 1 .. o.num : o.l[j] = o.l[k] => j = k
          /\ \A i, j \in 1 .. n : o.args[i].long = o.args[j].long /\ o.args[i].long # <<>> => i = j
      <3>1. h \subseteq Nat
        <4> HIDE DEF h
        <4> QED  BY <2>1
      <3> QED  BY <3>1, NamesAre DEF ListOk, TableOk
    <2> HIDE DEF h, B, n
    <2>3. h # {} => first \in h /\ \A p \in h : first <= p
      BY <2>2, FirstOfIs
    <2>4. h \ {first} # {} => second \in h
      BY <2>2, FirstOfIs
    <2> HIDE DEF first, second, m
    <2>5. CASE h = {}
      <3>1. B = {} /\ exact = {}
        BY <2>1, <2>5
      <3> QED  BY <1>1, <1>2, <2>5, <3>1 DEF m
    <2>6. CASE exact # {}
      <3>1. PICK e \in exact : TRUE
        BY <2>6
      <3>2. e \in B /\ o.args[e].long = name
        OBVIOUS
      <3>3. m = {e}
        <4>1. \A k \in exact : k = e
          BY <2>1, <2>2, <3>2
        <4> QED  BY <1>2, <1>4, <3>1, <4>1
      <3>4. PICK p \in h : o.l[p] = o.args[e]
        BY <2>1, <3>2
      <3>5. first = p
        <4>1. h # {} /\ first \in h /\ first <= p /\ first \in 1 .. o.num /\ p \in 1 .. o.num
          BY <2>1, <2>3
        <4>2. p <= first
          BY <2>1, <3>2, <3>4, <4>1, ExactIsFirst
        <4> QED  BY <4>1, <4>2
      <3>6. get_option_long(o, name) = o.args[e]
        BY <1>1, <3>2, <3>4, <3>5
      <3> HIDE DEF exact
      <3>7. m \subseteq 1 .. n /\ (CHOOSE k \in m : TRUE) = e /\ ~(\E j, k \in m : j # k) /\ m # {}
        BY <2>1, <3>2, <3>3
      <3> QED  BY <3>6, <3>7 DEF n, m
    <2>7. CASE h # {} /\ exact = {}
      <3>1. m = B /\ m # {} /\ m \subseteq 1 .. n
        BY <1>2, <1>4, <2>1, <2>7
      <3>2. \A p \in h : o.l[p].long # name
        <4> TAKE p \in h
        <4>1. PICK k \in B : o.l[p] = o.args[k]
          BY <2>1
        <4> QED  BY <2>7, <4>1
      <3>3. CASE h = {first}
        <4>1. PICK k \in B : o.l[first] = o.args[k]
          BY <2>1, <3>3
        <4>2. m = {k}
          <5>1. ASSUME NEW j \in B PROVE j = k
            <6>1. o.args[j] = o.args[k]
              BY <2>1, <3>3, <4>1
            <6> QED  BY <2>1, <2>2, <6>1
          <5> QED  BY <3>1, <5>1
        <4>3. get_option_long(o, name) = o.args[k]
          BY <1>1, <2>7, <3>3, <4>1
        <4>4. (CHOOSE i \in m : TRUE) = k /\ ~(\E i, j \in m : i # j)
          BY <4>2
        <4> QED  BY <3>1, <4>3, <4>4 DEF n, m
      <3>4. CASE h # {first}
        <4>1. first \in h /\ second \in h
          BY <2>3, <2>4, <2>7, <3>4
        <4>2. get_option_long(o, name) = opt_t(ambiguous(o))
          BY <1>1, <2>7, <3>2, <3>4, <4>1
        <4>3. PICK p \in h, q \in h : p # q
          BY <2>7, <3>4, <4>1
        <4>4. PICK j \in B : o.l[p] = o.args[j]
          BY <2>1
        <4>5. PICK k \in B : o.l[q] = o.args[k]
          BY <2>1
        <4>6. j # k
          <5>0. p \in 1 .. o.num /\ q \in 1 .. o.num /\ p # q
            BY <2>1, <4>3
          <5>1. o.l[p] # o.l[q]
            BY <2>2, <5>0
          <5> QED  BY <4>4, <4>5, <5>1
        <4>7. \E i, x \in m : i # x
          BY <3>1, <4>6
        <4> QED  BY <3>1, <4>2, <4>7 DEF n, m
      <3> QED  BY <3>3, <3>4
    <2> QED  BY <2>5, <2>6, <2>7
  <1> QED  BY <1>3, <1>4

LEMMA CountIs ==
    ASSUME NEW S, IsFiniteSet(S)
    PROVE  Cardinality(S) \in Nat /\ (Cardinality(S) > 1 <=> \E j, k \in S : j # k)
  <1>1. Cardinality(S) \in Nat
    BY FS_CardinalityType
  <1>2. CASE S = {}
    BY <1>2, FS_EmptySet
  <1>3. CASE \E x : S = {x}
    BY <1>3, FS_Singleton
  <1>4. CASE S # {} /\ ~\E x : S = {x}
    <2>1. Cardinality(S) # 0 /\ Cardinality(S) # 1
      BY <1>4, FS_EmptySet, FS_Singleton
    <2>2. PICK j \in S : TRUE
      BY <1>4
    <2>3. \E k \in S : j # k
      BY <1>4, <2>2
    <2> QED  BY <1>1, <2>1, <2>3
  <1> QED  BY <1>1, <1>2, <1>3, <1>4

\* The names listed are all that could be meant, and fit.
LEMMA ListedIs ==
    ASSUME NEW o \in OptionLists, ListOk(o), NEW name \in Seq(Int), name # <<>>
    PROVE  Listed(o, name)
  <1> DEFINE a == start(o, name)
             b == finish(o, name)
             h == Hits(o, name, b)
             B == Begun(o, name)
             n == Len(o.args)
             bound == IF b < Room + 2 THEN b ELSE Room + 2
             listed == Hits(o, name, bound)
  <1>1. /\ h \subseteq 1 .. o.num /\ B \subseteq 1 .. n
        /\ \A p \in h : \E k \in B : o.l[p] = o.args[k]
        /\ \A k \in B : o.args[k].long # <<>> /\ \E p \in h : o.l[p] = o.args[k]
    BY BegunIs
  <1>2. /\ a \in 1 .. o.num + 1 /\ b \in a .. o.num + 1
        /\ \A k \in 1 .. o.num : k \in a .. b - 1 <=> Head(o.l[k].long) = front(name)
    BY RunIs
  <1>3. n \in Nat /\ o.num \in Nat /\ Room \in Nat
    BY NamesAre, RoomAssumption
  <1>4. listed = get_ambiguous(o, name, Room) /\ count_ambiguous(o, name) = Cardinality(h)
    BY DEF get_ambiguous, count_ambiguous
  <1>5. h = {k \in a .. b - 1 : IsPrefix(name, o.l[k].long)}
        /\ listed = {k \in a .. bound - 1 : IsPrefix(name, o.l[k].long)}
    BY DEF Hits
  <1>6. /\ \A i, j \in 1 .. n : o.args[i].long = o.args[j].long /\ o.args[i].long # <<>> => i = j
        /\ \A j, k \in 1 .. o.num : o.l[j] = o.l[k] => j = k
    BY NamesAre DEF ListOk, TableOk
  <1>7. Room < o.num => \E k \in 1 .. Room + 1 : Head(o.l[k].long) # Head(o.l[1].long)
    BY RoomAssumption
  <1> HIDE DEF a, b, h, B, n, listed
  <1>8. Cardinality(h) = Cardinality(B)
    <2> DEFINE f == [p \in h |-> CHOOSE k \in B : o.l[p] = o.args[k]]
    <2>1. \A p \in h : f[p] \in B /\ o.l[p] = o.args[f[p]]
      BY <1>1
    <2>2. f \in [h -> B]
      BY <2>1
    <2> HIDE DEF f
    <2>3. ASSUME NEW p \in h, NEW q \in h, f[p] = f[q] PROVE p = q
      <3>1. o.l[p] = o.l[q] /\ p \in 1 .. o.num /\ q \in 1 .. o.num
        BY <1>1, <2>1, <2>3
      <3> QED  BY <1>6, <3>1
    <2>4. ASSUME NEW k \in B PROVE \E p \in h : f[p] = k
      <3>1. PICK p \in h : o.l[p] = o.args[k]
        BY <1>1
      <3>2. o.args[f[p]] = o.args[k] /\ f[p] \in 1 .. n /\ k \in 1 .. n /\ o.args[k].long # <<>>
        BY <1>1, <2>1, <3>1
      <3>3. f[p] = k
        BY <1>6, <3>2
      <3> QED  BY <3>3
    <2>5. ExistsBijection(h, B)
      <3>1. f \in Bijection(h, B)
        BY <2>2, <2>3, <2>4 DEF Bijection, Injection, Surjection, IsInjective
      <3> QED  BY <3>1 DEF ExistsBijection
    <2>6. IsFiniteSet(h)
      <3>1. IsFiniteSet(1 .. o.num)
        BY <1>3, FS_Interval
      <3> QED  BY <1>1, <3>1, FS_Subset
    <2> QED  BY <2>5, <2>6, FS_Bijection
  <1>9. Cardinality(listed) <= Room
    <2>1. \E x \in Int : listed \subseteq x .. x + Room - 1
      <3>1. CASE a = 1 /\ b > Room + 1
        <4>1. Room < o.num /\ \A k \in 1 .. Room + 1 : k \in 1 .. o.num /\ k \in a .. b - 1
          BY <1>2, <1>3, <3>1
        <4>2. \A k \in 1 .. Room + 1 : Head(o.l[k].long) = front(name)
          BY <1>2, <4>1
        <4>3. 1 \in 1 .. Room + 1
          BY <1>3
        <4> QED  BY <1>7, <4>1, <4>2, <4>3
      <3>2. CASE a # 1 \/ b <= Room + 1
        <4>1. \A k \in listed : k \in a .. bound - 1
          BY <1>5
        <4>2. bound <= Room + 2 /\ bound <= b /\ bound \in Int
          BY <1>2, <1>3
        <4>3. CASE b <= Room + 1
          <5>1. listed \subseteq 1 .. 1 + Room - 1
            BY <1>2, <1>3, <4>1, <4>2, <4>3
          <5> QED  BY <5>1
        <4>4. CASE a # 1
          <5>1. listed \subseteq 2 .. 2 + Room - 1
            BY <1>2, <1>3, <4>1, <4>2, <4>4
          <5> QED  BY <5>1
        <4> QED  BY <3>2, <4>3, <4>4
      <3> QED  BY <1>2, <1>3, <3>1, <3>2
    <2>2. PICK x \in Int : listed \subseteq x .. x + Room - 1
      BY <2>1
    <2> DEFINE y == x + Room - 1
    <2>3. y \in Int /\ Cardinality(x .. y) = Room /\ IsFiniteSet(x .. y)
      <3>1. y \in Int /\ (IF x > y THEN 0 ELSE y - x + 1) = Room
        BY <1>3
      <3> HIDE DEF y
      <3> QED  BY <3>1, FS_Interval
    <2> HIDE DEF y
    <2>4. listed \in SUBSET (x .. y)
      BY <2>2 DEF y
    <2> QED  BY <2>3, <2>4, FS_Subset
  <1>10. ASSUME b <= Room + 2
         PROVE  {o.l[k].long : k \in listed} = {o.args[k].long : k \in B}
    <2>1. listed = h
      <3>1. a .. bound - 1 = a .. b - 1
        BY <1>2, <1>3, <1>10
      <3> HIDE DEF bound
      <3> QED  BY <1>5, <3>1
    <2>2. ASSUME NEW p \in h PROVE \E k \in B : o.l[p].long = o.args[k].long
      BY <1>1
    <2>3. ASSUME NEW k \in B PROVE \E p \in h : o.l[p].long = o.args[k].long
      <3>1. PICK p \in h : o.l[p] = o.args[k]
        BY <1>1
      <3> QED  BY <3>1
    <2> QED  BY <2>1, <2>2, <2>3
  <1> QED  BY <1>4, <1>8, <1>9, <1>10 DEF Listed, b, B

LEMMA NamesFound ==
    ASSUME NEW o \in OptionLists, ListOk(o), NEW name \in Seq(Int)
    PROVE  Resolves(o, name)
  <1> DEFINE m == Means(o, name)
  <1>1. /\ m \subseteq 1 .. Len(o.args)
        /\ get_option_long(o, name) =
              IF m = {} THEN opt_t(unknown(o))
              ELSE IF \E j, k \in m : j # k THEN opt_t(ambiguous(o))
              ELSE o.args[CHOOSE k \in m : TRUE]
    BY LongFound
  <1>2. \A c : opt_t(c).short = c
    BY DEF opt_t
  <1>3. Cardinality(m) > 1 <=> \E j, k \in m : j # k
    <2>1. IsFiniteSet(m)
      <3>1. IsFiniteSet(1 .. Len(o.args))
        BY ArgsAre, FS_Interval
      <3> HIDE DEF m
      <3> QED  BY <1>1, <3>1, FS_Subset
    <2> HIDE DEF m
    <2> QED  BY <2>1, CountIs
  <1>4. name # <<>> => Listed(o, name)
    BY ListedIs
  <1> HIDE DEF m
  <1> QED  BY <1>1, <1>2, <1>3, <1>4 DEF Resolves, long_to_short, m

-----------------------------------------------------------------------------
(* getopt.                                                                 *)

Returned == [code: Int, arg: Seq(Int), word: Nat, upto: Nat]

ParserInv ==
    /\ opts \in OptionLists /\ argv \in CommandLines
    /\ phase \in {"parse", "run", "exit"}
    /\ got \in Seq(Returned)
    /\ current_str \in 0 .. Len(argv)
    /\ current_str = (IF got = <<>> THEN 0 ELSE got[Len(got)].upto)
    /\ \A k \in 1 .. Len(got) :
          /\ got[k].word = 1 + IF k = 1 THEN 0 ELSE got[k - 1].upto
          /\ got[k].code \in Codes => Written(got[k])
          /\ (got[k].code \in Codes /\ got[k].upto > got[k].word) => ~TakesArgument(argv[got[k].upto])
    /\ phase = "run" => current_str >= Len(argv) \/ parsing # <<>>
    /\ (phase # "exit" /\ parsing # <<>>) => got # <<>> /\ Attached(got[Len(got)])

LEMMA ArgvIs ==
    ASSUME argv \in CommandLines
    PROVE  /\ Len(argv) \in Nat /\ DOMAIN argv = 1 .. Len(argv)
           /\ \A k \in 1 .. Len(argv) : argv[k] \in Seq(Chars) /\ argv[k] \in Seq(Int)
  <1>1. argv \in Seq(Seq(Chars))
    BY ParserAssumption
  <1>2. \A k \in 1 .. Len(argv) : argv[k] \in Seq(Chars)
    BY <1>1
  <1>3. Chars \subseteq Int
    BY DEF Chars
  <1> HIDE DEF Chars
  <1>4. \A w \in Seq(Chars) : w \in Seq(Int)
    BY <1>3, SeqMonotonic
  <1> QED  BY <1>1, <1>2, <1>4

\* What of a word is read.
LEMMA WordIs ==
    ASSUME NEW w \in Seq(Int)
    PROVE  /\ num_pfx(w) = 1 => Len(w) >= 2 /\ w[2] \in Int
           /\ num_pfx(w) = 2 => Len(w) >= 3
           /\ SubSeq(w, 3, Len(w)) \in Seq(Int) /\ (SubSeq(w, 3, Len(w)) # <<>> => Len(w) > 2)
           /\ NameOf(w) \in Seq(Int)
           /\ AfterEqual(w) \in Seq(Int) /\ (AfterEqual(w) # <<>> => EqualAt(w) < Len(w))
  <1>1. Len(w) \in Nat /\ DOMAIN w = 1 .. Len(w) /\ \A k \in 1 .. Len(w) : w[k] \in Int
    OBVIOUS
  <1>2. ASSUME num_pfx(w) # -1 PROVE num_pfx(w) + 1 \in 1 .. Len(w)
    <2> DEFINE S == {k \in 1 .. Len(w) : w[k] # DASH}
               First(k) == w[k] # DASH /\ \A j \in 1 .. k - 1 : w[j] = DASH
    <2>1. ~\A k \in DOMAIN w : w[k] = DASH
      BY <1>2 DEF num_pfx
    <2>2. PICK k \in S : \A j \in S : k <= j
      <3>1. S \subseteq Nat /\ S # {}
        BY <1>1, <2>1
      <3> HIDE DEF S
      <3> QED  BY <3>1, LeastElement
    <2>3. \E i \in DOMAIN w : First(i)
      <3>1. \A j \in 1 .. k - 1 : w[j] = DASH
        BY <1>1, <2>2
      <3> QED  BY <1>1, <3>1
    <2>4. num_pfx(w) = (CHOOSE i \in DOMAIN w : First(i)) - 1
      BY <2>1 DEF num_pfx
    <2> HIDE DEF First
    <2>5. (CHOOSE i \in DOMAIN w : First(i)) \in DOMAIN w
      BY <2>3
    <2> QED  BY <1>1, <2>4, <2>5
  <1>3. EqualAt(w) \in 1 .. Len(w) + 1
    <2> DEFINE S == {k \in DOMAIN w : w[k] = EQ}
    <2>1. S \subseteq Nat /\ S \subseteq 1 .. Len(w)
      BY <1>1
    <2>2. EqualAt(w) = FirstOf(S, Len(w) + 1)
      BY DEF EqualAt
    <2> DEFINE n == Len(w)
    <2>3. n \in Nat
      BY <1>1
    <2> HIDE DEF S, n
    <2>4. CASE S = {}
      <3>1. EqualAt(w) = n + 1
        BY <2>2, <2>4 DEF FirstOf, n
      <3> QED  BY <2>3, <3>1 DEF n
    <2>5. CASE S # {}
      <3>1. FirstOf(S, Len(w) + 1) \in S
        BY <2>1, <2>5, FirstOfIs
      <3>2. EqualAt(w) \in 1 .. n
        BY <2>1, <2>2, <3>1 DEF n
      <3> QED  BY <2>3, <3>2 DEF n
    <2> QED  BY <2>4, <2>5
  <1>4. ASSUME NEW i \in Nat \ {0}, NEW j \in Int, j <= Len(w)
        PROVE  SubSeq(w, i, j) \in Seq(Int) /\ (SubSeq(w, i, j) # <<>> => i <= j)
    <2>1. \A k \in i .. j : w[k] \in Int
      BY <1>1, <1>4
    <2> QED  BY <2>1, SubSeqProperties, SubSeqEmpty
  <1>5. NameOf(w) \in Seq(Int)
    BY <1>1, <1>3, <1>4 DEF NameOf
  <1>6. AfterEqual(w) \in Seq(Int) /\ (AfterEqual(w) # <<>> => EqualAt(w) < Len(w))
    <2> DEFINE e == EqualAt(w)
    <2>1. e \in 1 .. Len(w) + 1
      BY <1>3
    <2> HIDE DEF e
    <2>2. SubSeq(w, e + 1, Len(w)) \in Seq(Int) /\ (SubSeq(w, e + 1, Len(w)) # <<>> => e + 1 <= Len(w))
      BY <1>1, <1>4, <2>1
    <2> QED  BY <1>1, <2>1, <2>2 DEF AfterEqual, e
  <1>7. SubSeq(w, 3, Len(w)) \in Seq(Int) /\ (SubSeq(w, 3, Len(w)) # <<>> => Len(w) > 2)
    BY <1>1, <1>4
  <1>8. num_pfx(w) = 1 => Len(w) >= 2 /\ w[2] \in Int
    BY <1>1, <1>2
  <1>9. num_pfx(w) = 2 => Len(w) >= 3
    BY <1>1, <1>2
  <1> QED  BY <1>5, <1>6, <1>7, <1>8, <1>9

LEMMA EntryIs ==
    ASSUME ListOk(opts), NEW c \in Codes
    PROVE  get_option_short(opts, c) = Entry(c) /\ Entry(c).short = c
  <1>1. \E k \in DOMAIN opts.args : opts.args[k].short = c
    BY DEF Codes, CodesOf
  <1> DEFINE j == CHOOSE k \in DOMAIN opts.args : opts.args[k].short = c
  <1>2. j \in DOMAIN opts.args /\ opts.args[j].short = c
    BY <1>1
  <1>3. Entry(c) = opts.args[j]
    BY DEF Entry
  <1> HIDE DEF j
  <1> QED  BY <1>2, <1>3, CodesFound

\* What a name stands for, as a code.
LEMMA NameCode ==
    ASSUME ListOk(opts), NEW name \in Seq(Int)
    PROVE  LET c == long_to_short(opts, name) IN
           /\ c \in Int /\ c # positional_argument(opts)
           /\ c \in Codes => /\ Means(opts, name) # {}
                             /\ \A j \in Means(opts, name) : opts.args[j] = Entry(c)
  <1> DEFINE m == Means(opts, name)
             c == long_to_short(opts, name)
             n == Len(opts.args)
  <1>1. /\ m \subseteq 1 .. n
        /\ get_option_long(opts, name) =
              IF m = {} THEN opt_t(unknown(opts))
              ELSE IF \E j, k \in m : j # k THEN opt_t(ambiguous(opts))
              ELSE opts.args[CHOOSE k \in m : TRUE]
    BY LongFound
  <1>2. /\ unknown(opts) = -1 /\ ambiguous(opts) = -2 /\ positional_argument(opts) = -4
        /\ \A x \in Codes : x \in Nat
    BY ErrorsAre DEF Codes
  <1>3. \A x : opt_t(x).short = x
    BY DEF opt_t
  <1>4. \A k \in 1 .. n : opts.args[k].short \in Nat
    BY ArgsAre
  <1>5. \A i, j \in 1 .. n : opts.args[i].short = opts.args[j].short => i = j
    BY ArgsAre
  <1>6. c = get_option_long(opts, name).short
    BY DEF long_to_short
  <1> HIDE DEF m, c, n
  <1>7. CASE m = {} \/ \E j, k \in m : j # k
    BY <1>1, <1>2, <1>3, <1>6, <1>7 DEF m, c
  <1>8. CASE m # {} /\ ~\E j, k \in m : j # k
    <2>1. PICK k \in m : m = {k}
      BY <1>8
    <2>2. (CHOOSE i \in m : TRUE) = k
      BY <2>1
    <2>3. c = opts.args[k].short /\ k \in 1 .. n
      BY <1>1, <1>6, <1>8, <2>2
    <2>4. opts.args[k] = Entry(c)
      <3>1. DOMAIN opts.args = 1 .. n
        BY ArgsAre DEF n
      <3>2. (CHOOSE i \in DOMAIN opts.args : opts.args[i].short = c) = k
        BY <1>5, <2>3, <3>1
      <3> QED  BY <3>2 DEF Entry
    <2>5. c \in Nat
      BY <1>4, <2>3
    <2> QED  BY <1>2, <2>1, <2>4, <2>5 DEF m, c
  <1> QED  BY <1>7, <1>8

\* The table and the words stay what they are, and so does what is said of an
\* option that was returned.
LEMMA GivenStays ==
    ASSUME UNCHANGED given, NEW g
    PROVE  /\ Codes' = Codes
           /\ Entry(g.code)' = Entry(g.code)
           /\ Written(g)' <=> Written(g)
           /\ Attached(g)' <=> Attached(g)
           /\ TakesArgument(g)' <=> TakesArgument(g)
  <1>1. opts' = opts /\ argv' = argv /\ use_posisional_argument' = use_posisional_argument
    BY DEF given
  <1>2. Codes' = Codes
    BY <1>1 DEF Codes
  <1>3. Entry(g.code)' = Entry(g.code)
    BY <1>1 DEF Entry
  <1>4. Written(g)' <=> Written(g)
    BY <1>1, <1>3 DEF Written
  <1>5. Attached(g)' <=> Attached(g)
    BY <1>1, <1>2, <1>3 DEF Attached
  <1>6. TakesArgument(g)' <=> TakesArgument(g)
    BY <1>1 DEF TakesArgument
  <1> QED  BY <1>2, <1>3, <1>4, <1>5, <1>6

\* A call of getopt that returns g keeps the invariant, if it says of g what
\* the invariant says of the options before it.
LEMMA CallKeeps ==
    ASSUME ParserInv, UNCHANGED given, NEW g \in Returned,
           got' = Append(got, g), phase' \in {"parse", "exit"},
           g.word = current_str + 1, g.upto = current_str', current_str' \in 0 .. Len(argv),
           g.code \in Codes => Written(g) /\ (g.upto > g.word => ~TakesArgument(argv[g.upto])),
           (phase' # "exit" /\ parsing' # <<>>) => Attached(g)
    PROVE  ParserInv'
  <1> DEFINE n == Len(got)
  <1>1. got \in Seq(Returned)
    BY DEF ParserInv
  <1>2. /\ got' \in Seq(Returned) /\ got' # <<>>
        /\ n \in Nat /\ Len(got') = n + 1
        /\ \A k \in 1 .. n : got'[k] = got[k]
        /\ got'[n + 1] = g /\ got'[Len(got')] = g
        /\ got = <<>> <=> n = 0
    BY <1>1
  <1>3. opts' = opts /\ argv' = argv
    BY DEF given
  <1>4. /\ Codes' = Codes
        /\ \A x : (Written(x)' <=> Written(x)) /\ (Attached(x)' <=> Attached(x))
        /\ \A x : TakesArgument(x)' <=> TakesArgument(x)
    BY GivenStays
  <1> DEFINE Fine(s, k) ==
                 /\ s[k].word = 1 + IF k = 1 THEN 0 ELSE s[k - 1].upto
                 /\ s[k].code \in Codes => Written(s[k])
                 /\ (s[k].code \in Codes /\ s[k].upto > s[k].word) => ~TakesArgument(argv[s[k].upto])
  <1>5. ASSUME NEW k \in 1 .. n + 1 PROVE Fine(got', k)
    <2>1. CASE k \in 1 .. n
      <3>1. Fine(got, k)
        BY <2>1 DEF ParserInv
      <3>2. got'[k] = got[k]
        BY <1>2, <2>1
      <3>3. k # 1 => got'[k - 1] = got[k - 1]
        BY <1>2, <2>1
      <3> QED  BY <3>1, <3>2, <3>3
    <2>2. CASE k = n + 1
      <3>1. got'[k] = g
        BY <1>2, <2>2
      <3>2. g.word = 1 + IF k = 1 THEN 0 ELSE got'[k - 1].upto
        <4>1. current_str = IF got = <<>> THEN 0 ELSE got[n].upto
          BY DEF ParserInv
        <4>2. CASE n = 0
          BY <1>2, <2>2, <4>1, <4>2
        <4>3. CASE n # 0
          <5>1. got'[n] = got[n] /\ k - 1 = n /\ k # 1
            BY <1>2, <2>2, <4>3
          <5>2. g.word = 1 + current_str /\ current_str = got[n].upto
            BY <1>2, <4>1, <4>3 DEF ParserInv
          <5> QED  BY <5>1, <5>2
        <4> QED  BY <4>2, <4>3
      <3> QED  BY <3>1, <3>2
    <2> QED  BY <1>2, <2>1, <2>2
  <1>6. ASSUME NEW k \in 1 .. Len(got')
        PROVE  /\ got'[k].word = 1 + IF k = 1 THEN 0 ELSE got'[k - 1].upto
               /\ got'[k].code \in Codes' => Written(got[k])'
               /\ (got'[k].code \in Codes' /\ got'[k].upto > got'[k].word) =>
                     ~TakesArgument(argv[got[k].upto])'
    <2>1. Fine(got', k)
      BY <1>2, <1>5, <1>6
    <2>2. Written(got[k])' <=> Written(got'[k])
      BY GivenStays
    <2> QED  BY <2>1, <2>2, <1>3, <1>4
  <1> QED  BY <1>2, <1>3, <1>4, <1>6 DEF ParserInv

\* A word that is not refused as a value is no option that takes one.
LEMMA NotRefused ==
    ASSUME ListOk(opts), NEW v \in Seq(Int), ~Refused(v)
    PROVE  ~TakesArgument(v)
  <1> DEFINE S == IF num_pfx(v) = 1 THEN {i \in DOMAIN opts.args : opts.args[i].short = v[2]}
                  ELSE IF num_pfx(v) = 2 THEN Means(opts, NameOf(v)) ELSE {}
             n == Len(opts.args)
  <1>1. SUFFICES ASSUME Cardinality(S) = 1, NEW j \in S, opts.args[j].has_arg
                 PROVE  FALSE
    BY DEF TakesArgument
  <1>2. DOMAIN opts.args = 1 .. n /\ \A k \in 1 .. n : opts.args[k].short \in Nat
    BY ArgsAre
  <1>3. unknown(opts) = -1
    BY ErrorsAre
  <1>4. j \in 1 .. n => opts.args[j].short # unknown(opts)
    BY <1>2, <1>3
  <1>5. num_pfx(v) = 1 \/ num_pfx(v) = 2
    BY <1>1
  <1>6. CASE num_pfx(v) = 1
    <2>1. Len(v) > 1
      BY <1>6, WordIs
    <2>2. j \in 1 .. n /\ opts.args[j].short = v[2]
      BY <1>1, <1>2, <1>6
    <2>3. get_option_short(opts, v[2]) = opts.args[j]
      BY <1>2, <2>2, CodesFound
    <2> QED  BY <1>1, <1>4, <1>6, <2>1, <2>2, <2>3 DEF Refused
  <1>7. CASE num_pfx(v) = 2
    <2> DEFINE m == Means(opts, NameOf(v))
    <2>1. Len(v) > 1 /\ NameOf(v) \in Seq(Int)
      BY <1>7, WordIs
    <2>2. /\ m \subseteq 1 .. n
          /\ get_option_long(opts, NameOf(v)) =
                IF m = {} THEN opt_t(unknown(opts))
                ELSE IF \E i, k \in m : i # k THEN opt_t(ambiguous(opts))
                ELSE opts.args[CHOOSE k \in m : TRUE]
      BY <2>1, LongFound
    <2>3. S = m
      BY <1>7
    <2>4. m = {j}
      <3>1. n \in Nat
        BY ArgsAre
      <3>2. IsFiniteSet(1 .. n)
        BY <3>1, FS_Interval
      <3>3. m \subseteq 1 .. n /\ Cardinality(m) = 1 /\ j \in m
        BY <1>1, <2>2, <2>3
      <3> HIDE DEF m, n
      <3>4. IsFiniteSet(m)
        BY <3>2, <3>3, FS_Subset
      <3>5. ~\E i, k \in m : i # k
        BY <3>3, <3>4, CountIs
      <3> QED  BY <3>3, <3>5
    <2>5. get_option_long(opts, NameOf(v)) = opts.args[j] /\ j \in 1 .. n
      BY <2>2, <2>4
    <2> QED  BY <1>1, <1>4, <1>7, <2>1, <2>5 DEF Refused
  <1> QED  BY <1>5, <1>6, <1>7

\* What is read of the word at hand fits the option it names: so does what
\* verify_opt_arg returns of it.
LEMMA VerifyKeeps ==
    ASSUME ParserInv, ListOk(opts), Parsing, UNCHANGED given,
           NEW code \in Int, NEW rest \in Seq(Int), verify_opt_arg(code, rest),
           code \in Codes =>
              /\ rest = IF num_pfx(Word) = 1 THEN SubSeq(Word, 3, Len(Word)) ELSE AfterEqual(Word)
              /\ \/ num_pfx(Word) = 1 /\ Word[2] = code
                 \/ /\ num_pfx(Word) = 2 /\ Means(opts, NameOf(Word)) # {}
                    /\ \A j \in Means(opts, NameOf(Word)) : opts.args[j] = Entry(code),
           rest # <<>> => IF num_pfx(Word) = 1 THEN Len(Word) > 2 ELSE EqualAt(Word) < Len(Word),
           code = positional_argument(opts) => num_pfx(Word) = 1 /\ Word[2] < 0
    PROVE  ParserInv'
  <1> DEFINE taken == current_str + 1
             takes == is_valid(opts, code) /\ get_option_short(opts, code).has_arg
  <1>1. /\ Len(argv) \in Nat /\ taken \in 1 .. Len(argv) /\ argv \in CommandLines
        /\ \A k \in 1 .. Len(argv) : argv[k] \in Seq(Int)
        /\ current_str \in Nat
    <2>1. argv \in CommandLines /\ current_str \in 0 .. Len(argv)
      BY DEF ParserInv
    <2> QED  BY <2>1, ArgvIs DEF Parsing, can_parse
  <1>2. /\ no_argument(opts) = -3 /\ positional_argument(opts) = -4 /\ unknown(opts) = -1
        /\ \A c \in Codes : c \in Nat /\ is_valid(opts, c)
    BY ErrorsAre DEF Codes
  <1>3. takes => code \in Codes
    <2>1. code \notin Codes => get_option_short(opts, code) = opt_t(unknown(opts))
      BY CodesFound DEF Codes
    <2> QED  BY <2>1 DEF opt_t
  <1>4. code \in Codes => (takes <=> Entry(code).has_arg) /\ Entry(code).short = code
    BY <1>2, EntryIs
  <1>5. Null \in Seq(Int)
    BY DEF Null
  <1>6. Word = argv[taken] /\ taken \in Nat
    BY <1>1 DEF Word
  <1>7. CASE ~takes /\ parsing' = rest /\ current_str' = taken /\ Returns(code, Null, taken)
    <2> DEFINE g == [code |-> code, arg |-> Null, word |-> taken, upto |-> taken]
    <2>1. g \in Returned
      BY <1>5, <1>6 DEF Returned
    <2>2. got' = Append(got, g) /\ phase' \in {"parse", "exit"}
      BY <1>7 DEF Returns
    <2>3. code \in Codes => Written(g)
      BY <1>4, <1>6, <1>7 DEF Written
    <2>4. (phase' # "exit" /\ parsing' # <<>>) => Attached(g)
      <3>1. phase' # "exit" => code \in Codes \/ code = positional_argument(opts)
        BY <1>7 DEF Returns
      <3>2. rest # <<>> => (code \in Codes => ~Entry(code).has_arg)
        BY <1>4, <1>7
      <3>3. argv[g.word] = Word /\ g.code = code /\ parsing' = rest
        BY <1>6, <1>7
      <3> DEFINE w == argv[g.word]
      <3>4. rest # <<>> => IF num_pfx(w) = 1 THEN Len(w) > 2 ELSE EqualAt(w) < Len(w)
        BY <3>3
      <3>5. g.code = positional_argument(opts) => num_pfx(w) = 1 /\ w[2] < 0
        BY <3>3
      <3>6. (rest # <<>> /\ g.code = positional_argument(opts)) =>
               num_pfx(w) = 1 /\ Len(w) > 2 /\ w[2] < 0
        BY <3>4, <3>5
      <3> HIDE DEF g, w
      <3>7. rest # <<>> => Attached(g) \/ phase' = "exit"
        BY <3>1, <3>2, <3>3, <3>4, <3>6 DEF Attached, w
      <3> QED  BY <3>3, <3>7
    <2>5. /\ g.word = current_str + 1 /\ g.upto = current_str' /\ current_str' \in 0 .. Len(argv)
          /\ g.upto = g.word /\ g.code = code
      BY <1>1, <1>7
    <2>6. g.code \in Codes => Written(g) /\ (g.upto > g.word => ~TakesArgument(argv[g.upto]))
      BY <1>6, <2>3, <2>5
    <2> HIDE DEF g
    <2> QED  BY <2>1, <2>2, <2>4, <2>5, <2>6, CallKeeps
  <1>8. CASE takes /\ rest # <<>> /\ parsing' = <<>> /\ current_str' = taken /\ Returns(code, rest, taken)
    <2> DEFINE g == [code |-> code, arg |-> rest, word |-> taken, upto |-> taken]
    <2>1. g \in Returned
      BY <1>6 DEF Returned
    <2>2. got' = Append(got, g) /\ phase' \in {"parse", "exit"}
      BY <1>8 DEF Returns
    <2>3. Written(g)
      <3>1. code \in Codes /\ Entry(code).has_arg /\ Entry(code).short = code
        BY <1>3, <1>4, <1>8
      <3>2. rest = IF num_pfx(Word) = 1 THEN SubSeq(Word, 3, Len(Word)) ELSE AfterEqual(Word)
        BY <3>1
      <3>3. \/ num_pfx(Word) = 1 /\ Word[2] = Entry(code).short
            \/ /\ num_pfx(Word) = 2 /\ Means(opts, NameOf(Word)) # {}
               /\ \A j \in Means(opts, NameOf(Word)) : opts.args[j] = Entry(code)
        BY <3>1
      <3> DEFINE w == Word
      <3>4. argv[g.word] = w /\ g.code = code /\ g.arg = rest /\ g.upto = g.word
        BY <1>6
      <3> HIDE DEF w, g
      <3> QED  BY <1>8, <3>1, <3>2, <3>3, <3>4 DEF Written, w
    <2>4. g.word = current_str + 1 /\ g.upto = current_str' /\ current_str' \in 0 .. Len(argv)
          /\ g.upto = g.word
      BY <1>1, <1>8
    <2> HIDE DEF g
    <2> QED  BY <1>6, <1>8, <2>1, <2>2, <2>3, <2>4, CallKeeps DEF Returned
  <1>9. CASE takes /\ rest = <<>> /\ parsing' = rest /\ current_str' = taken
             /\ Returns(no_argument(opts), Null, taken)
    <2> DEFINE g == [code |-> no_argument(opts), arg |-> Null, word |-> taken, upto |-> taken]
    <2>1. g \in Returned
      BY <1>2, <1>5, <1>6 DEF Returned
    <2>2. got' = Append(got, g) /\ phase' = "exit"
      BY <1>2, <1>9 DEF Returns
    <2>3. g.code \notin Codes
      BY <1>2
    <2> QED  BY <1>1, <1>6, <1>9, <2>1, <2>2, <2>3, CallKeeps
  <1>10. CASE takes /\ rest = <<>> /\ taken < Len(argv)
              /\ parsing' = <<>> /\ current_str' = taken + 1
              /\ LET v == argv[taken + 1]
                 IN  Returns(IF Refused(v) THEN no_argument(opts) ELSE code, v, taken + 1)
    <2> DEFINE v == argv[taken + 1]
               c == IF Refused(v) THEN no_argument(opts) ELSE code
               g == [code |-> c, arg |-> v, word |-> taken, upto |-> taken + 1]
    <2>1. v \in Seq(Int) /\ taken + 1 \in 1 .. Len(argv)
      BY <1>1, <1>10
    <2>2. g \in Returned
      BY <1>2, <1>6, <2>1 DEF Returned
    <2>3. got' = Append(got, g) /\ phase' \in {"parse", "exit"}
      BY <1>10 DEF Returns
    <2>4. g.code \in Codes => ~Refused(v) /\ g.code = code
      BY <1>2
    <2>5. g.code \in Codes => ~TakesArgument(v)
      BY <2>1, <2>4, NotRefused
    <2>6. g.code \in Codes => Written(g)
      <3>1. ASSUME ~Refused(v) PROVE Written(g)
        BY <1>3, <1>4, <1>6, <1>10, <3>1 DEF Written
      <3> QED  BY <2>4, <3>1
    <2>7. g.word = current_str + 1 /\ g.upto = current_str' /\ current_str' \in 0 .. Len(argv)
      BY <1>1, <1>10, <2>1
    <2>8. g.code \in Codes => Written(g) /\ (g.upto > g.word => ~TakesArgument(argv[g.upto]))
      BY <2>5, <2>6
    <2>9. parsing' = <<>>
      BY <1>10
    <2> HIDE DEF g
    <2> QED  BY <2>2, <2>3, <2>7, <2>8, <2>9, CallKeeps
  <1> QED  BY <1>7, <1>8, <1>9, <1>10 DEF verify_opt_arg

LEMMA TableIsOk ==
    ASSUME ParserInv
    PROVE  ListOk(opts)
  BY ListIsOk DEF ParserInv

LEMMA WordAtHand ==
    ASSUME ParserInv, Parsing
    PROVE  /\ Word \in Seq(Int) /\ parsing = <<>>
           /\ Len(argv) \in Nat /\ current_str \in Nat /\ current_str + 1 \in 1 .. Len(argv)
           /\ \A k \in 1 .. Len(argv) : argv[k] \in Seq(Int)
  <1>1. argv \in CommandLines /\ current_str \in 0 .. Len(argv)
    BY DEF ParserInv
  <1>2. Len(argv) \in Nat /\ \A k \in 1 .. Len(argv) : argv[k] \in Seq(Int)
    BY <1>1, ArgvIs
  <1> QED  BY <1>1, <1>2 DEF Parsing, can_parse, Word

LEMMA ShortOptionKeeps ==
    ASSUME ParserInv, ShortOption
    PROVE  ParserInv'
  <1>1. ListOk(opts)
    BY TableIsOk
  <1>2. Parsing /\ num_pfx(Word) = 1 /\ UNCHANGED given
    BY DEF ShortOption
  <1>3. Word \in Seq(Int)
    BY <1>2, WordAtHand
  <1> DEFINE w == Word
             code == w[2]
             rest == SubSeq(w, 3, Len(w))
  <1>4. code \in Int /\ rest \in Seq(Int) /\ (rest # <<>> => Len(w) > 2)
    BY <1>2, <1>3, WordIs
  <1>5. verify_opt_arg(code, rest)
    BY DEF ShortOption
  <1>6. positional_argument(opts) = -4
    BY <1>1, ErrorsAre
  <1>7. code = positional_argument(opts) => code < 0
    BY <1>6
  <1> QED  BY <1>1, <1>2, <1>4, <1>5, <1>7, VerifyKeeps

LEMMA LongOptionKeeps ==
    ASSUME ParserInv, LongOption
    PROVE  ParserInv'
  <1>1. ListOk(opts)
    BY TableIsOk
  <1>2. Parsing /\ num_pfx(Word) = 2 /\ UNCHANGED given
    BY DEF LongOption
  <1>3. Word \in Seq(Int)
    BY <1>2, WordAtHand
  <1> DEFINE name == NameOf(Word)
             code == long_to_short(opts, name)
             rest == AfterEqual(Word)
  <1>4. name \in Seq(Int) /\ rest \in Seq(Int) /\ (rest # <<>> => EqualAt(Word) < Len(Word))
    BY <1>3, WordIs
  <1>5. verify_opt_arg(code, rest)
    BY DEF LongOption
  <1>6. /\ code \in Int /\ code # positional_argument(opts)
        /\ code \in Codes => /\ Means(opts, name) # {}
                             /\ \A j \in Means(opts, name) : opts.args[j] = Entry(code)
    BY <1>1, <1>4, NameCode
  <1> QED  BY <1>1, <1>2, <1>4, <1>5, <1>6, VerifyKeeps

LEMMA SeparatorKeeps ==
    ASSUME ParserInv, Separator
    PROVE  ParserInv'
  <1>1. ListOk(opts)
    BY TableIsOk
  <1>2. Parsing /\ UNCHANGED given /\ parsing' = parsing
    BY DEF Separator
  <1>3. /\ parsing = <<>> /\ Len(argv) \in Nat /\ current_str \in Nat /\ current_str + 1 \in 1 .. Len(argv)
        /\ \A k \in 1 .. Len(argv) : argv[k] \in Seq(Int)
    BY <1>2, WordAtHand
  <1>4. positional_argument(opts) = -4 /\ -4 \notin Codes
    BY <1>1, ErrorsAre DEF Codes
  <1>5. opt_arg' \in Seq(Int) /\ current_str' \in 0 .. Len(argv)
    <2>1. CASE current_str + 1 < Len(argv)
      <3>1. current_str + 2 \in 1 .. Len(argv)
        BY <1>3, <2>1
      <3>2. opt_arg' = argv[current_str + 2] /\ current_str' = current_str + 2
        BY <2>1 DEF Separator
      <3> QED  BY <1>3, <3>1, <3>2
    <2>2. CASE ~(current_str + 1 < Len(argv))
      <3>1. opt_arg' = Null /\ current_str' = current_str + 1
        BY <2>2 DEF Separator
      <3>2. Null \in Seq(Int)
        BY DEF Null
      <3> QED  BY <1>3, <3>1, <3>2
    <2> QED  BY <2>1, <2>2
  <1> DEFINE g == [code |-> positional_argument(opts), arg |-> opt_arg',
                   word |-> current_str + 1, upto |-> current_str']
  <1>6. got' = Append(got, g) /\ phase' \in {"parse", "exit"}
    BY DEF Separator, Returns
  <1>7. g \in Returned
    BY <1>3, <1>4, <1>5 DEF Returned
  <1> QED  BY <1>2, <1>3, <1>4, <1>5, <1>6, <1>7, CallKeeps

LEMMA OtherWordKeeps ==
    ASSUME ParserInv, OtherWord
    PROVE  ParserInv'
  <1>1. ListOk(opts)
    BY TableIsOk
  <1>2. Parsing /\ UNCHANGED given /\ current_str' = current_str + 1
    BY DEF OtherWord
  <1>3. /\ Word \in Seq(Int) /\ parsing = <<>> /\ current_str \in Nat
        /\ current_str + 1 \in 1 .. Len(argv) /\ Len(argv) \in Nat
    BY <1>2, WordAtHand
  <1>4. /\ positional_argument(opts) = -4 /\ unknown(opts) = -1
        /\ -4 \notin Codes /\ -1 \notin Codes
    BY <1>1, ErrorsAre DEF Codes
  <1>5. current_str' \in 0 .. Len(argv)
    BY <1>2, <1>3
  <1>6. CASE use_posisional_argument
    <2> DEFINE g == [code |-> positional_argument(opts), arg |-> Word,
                     word |-> current_str + 1, upto |-> current_str']
    <2>1. got' = Append(got, g) /\ phase' \in {"parse", "exit"} /\ parsing' = <<>>
      BY <1>3, <1>6 DEF OtherWord, Returns
    <2>2. g \in Returned
      BY <1>2, <1>3, <1>4 DEF Returned
    <2> QED  BY <1>2, <1>4, <1>5, <2>1, <2>2, CallKeeps
  <1>7. CASE ~use_posisional_argument
    <2> DEFINE g == [code |-> unknown(opts), arg |-> Null,
                     word |-> current_str + 1, upto |-> current_str']
    <2>1. got' = Append(got, g) /\ phase' = "exit"
      BY <1>4, <1>7 DEF OtherWord, Returns
    <2>2. g \in Returned
      BY <1>2, <1>3, <1>4 DEF Returned, Null
    <2> QED  BY <1>2, <1>4, <1>5, <2>1, <2>2, CallKeeps
  <1> QED  BY <1>6, <1>7

LEMMA ParserInvInit ==
    ASSUME Init
    PROVE  ParserInv
  <1>1. opts \in OptionLists /\ argv \in CommandLines /\ phase = "parse" /\ got = <<>>
        /\ current_str = 0 /\ parsing = <<>>
    BY DEF Init
  <1>2. Len(argv) \in Nat
    BY <1>1, ArgvIs
  <1>3. got \in Seq(Returned) /\ Len(got) = 0
    BY <1>1
  <1> QED  BY <1>1, <1>2, <1>3 DEF ParserInv

LEMMA NothingReadKeeps ==
    ASSUME ParserInv, UNCHANGED <<given, current_str, parsing, got>>,
           phase' = phase \/ (phase = "parse" /\ phase' = "run" /\ ~can_parse)
    PROVE  ParserInv'
  <1>1. /\ opts' = opts /\ argv' = argv /\ UNCHANGED given
        /\ current_str' = current_str /\ parsing' = parsing /\ got' = got
    BY DEF given
  <1>2. /\ Codes' = Codes
        /\ \A x : (Written(x)' <=> Written(x)) /\ (Attached(x)' <=> Attached(x))
        /\ \A x : TakesArgument(x)' <=> TakesArgument(x)
    BY <1>1, GivenStays
  <1>3. phase' \in {"parse", "run", "exit"} /\ (phase' # "exit" => phase # "exit")
    BY DEF ParserInv
  <1>4. phase' = "run" => current_str >= Len(argv) \/ parsing # <<>>
    <2>1. Len(argv) \in Nat /\ current_str \in Int
      BY ArgvIs DEF ParserInv
    <2>2. phase = "run" => current_str >= Len(argv) \/ parsing # <<>>
      BY DEF ParserInv
    <2> QED  BY <2>1, <2>2 DEF can_parse
  <1>5. ASSUME NEW k \in 1 .. Len(got')
        PROVE  /\ got'[k].word = 1 + IF k = 1 THEN 0 ELSE got'[k - 1].upto
               /\ got'[k].code \in Codes' => Written(got[k])'
               /\ (got'[k].code \in Codes' /\ got'[k].upto > got'[k].word) =>
                     ~TakesArgument(argv[got[k].upto])'
    <2>1. /\ got[k].word = 1 + IF k = 1 THEN 0 ELSE got[k - 1].upto
          /\ got[k].code \in Codes => Written(got[k])
          /\ (got[k].code \in Codes /\ got[k].upto > got[k].word) =>
                     ~TakesArgument(argv[got[k].upto])
      BY <1>1 DEF ParserInv
    <2>2. Written(got[k])' <=> Written(got'[k])
      BY <1>1, GivenStays
    <2> QED  BY <2>1, <2>2, <1>1, <1>2
  <1>6. got' # <<>> => (Attached(got[Len(got)])' <=> Attached(got[Len(got)]))
    BY <1>1, <1>2
  <1> QED  BY <1>1, <1>2, <1>3, <1>4, <1>5, <1>6 DEF ParserInv

\* No call of getopt, and no end of the loop, breaks the invariant.
LEMMA ParserInvNext ==
    ASSUME ParserInv, [Next]_vars
    PROVE  ParserInv'
  <1>1. CASE ShortOption
    BY <1>1, ShortOptionKeeps
  <1>2. CASE LongOption
    BY <1>2, LongOptionKeeps
  <1>3. CASE Separator
    BY <1>3, SeparatorKeeps
  <1>4. CASE OtherWord
    BY <1>4, OtherWordKeeps
  <1>5. CASE Run
    BY <1>5, NothingReadKeeps DEF Run
  <1>6. CASE UNCHANGED vars
    BY <1>6, NothingReadKeeps DEF vars
  <1> QED  BY <1>1, <1>2, <1>3, <1>4, <1>5, <1>6 DEF Next

\* getopt reads word after word: what it returned is where the words stand,
\* the words it took are those up to current_str, and the rest of a word is
\* left only behind an option without an argument.
THEOREM ParserInvCorrect == Spec => []ParserInv
  <1>1. Init => ParserInv
    BY ParserInvInit
  <1>2. ParserInv /\ [Next]_vars => ParserInv'
    BY ParserInvNext
  <1> QED  BY <1>1, <1>2, PTL DEF Spec

\* For every valid table: the passes of the sort and the search in the sorted
\* names find of a name, or of its beginning, what the table declares.
THEOREM NamesResolveCorrect == Spec => []NamesResolve
  <1>1. ParserInv => NamesResolve
    <2> SUFFICES ASSUME ParserInv, NEW name \in NameTries(opts)
                 PROVE  Resolves(opts, name)
      BY DEF NamesResolve
    <2>1. ListOk(opts) /\ opts \in OptionLists
      BY TableIsOk DEF ParserInv
    <2>2. name \in Seq(Int)
      <3>1. CASE name \in {<<>>, <<0>>}
        <4>1. <<>> \in Seq(Int) /\ <<0>> \in Seq(Int)
          OBVIOUS
        <4> QED  BY <3>1, <4>1
      <3>2. CASE \E k \in DOMAIN opts.args : \E n \in 1 .. Len(opts.args[k].long) :
                    name = SubSeq(opts.args[k].long, 1, n)
        <4>1. PICK k \in DOMAIN opts.args : \E n \in 1 .. Len(opts.args[k].long) :
                    name = SubSeq(opts.args[k].long, 1, n)
          BY <3>2
        <4> DEFINE l == opts.args[k].long
        <4>2. PICK n \in 1 .. Len(l) : name = SubSeq(l, 1, n)
          BY <4>1
        <4>3. l \in Seq(Nat)
          BY <2>1, ArgsAre
        <4> HIDE DEF l
        <4>4. n \in Nat /\ \A i \in 1 .. n : l[i] \in Int
          BY <4>2, <4>3
        <4> QED  BY <4>2, <4>4, SubSeqProperties
      <3> QED  BY <3>1, <3>2 DEF NameTries
    <2> QED  BY <2>1, <2>2, NamesFound
  <1> QED  BY <1>1, ParserInvCorrect, PTL

\* For every valid table: the search of one half of the sorted codes finds
\* every option and no other, and no option has a code of the errors.
THEOREM CodesResolveCorrect == Spec => []CodesResolve
  <1>1. ParserInv => CodesResolve
    <2> SUFFICES ASSUME ParserInv
                 PROVE  /\ \A k \in DOMAIN opts.args : get_option_short(opts, opts.args[k].short) = opts.args[k]
                        /\ \A code \in (0 .. 300) \ CodesOf(opts) : get_option_short(opts, code).short = unknown(opts)
                        /\ CodesOf(opts) \cap ToSet(opts.error_code) = {}
      BY DEF CodesResolve
    <2>1. ListOk(opts)
      BY TableIsOk
    <2>2. \A c \in CodesOf(opts) : c \notin ToSet(opts.error_code)
      BY <2>1, ErrorsAre DEF is_valid
    <2>3. \A c \in Int : c \notin CodesOf(opts) => get_option_short(opts, c).short = unknown(opts)
      BY <2>1, CodesFound DEF opt_t
    <2>4. \A k \in DOMAIN opts.args : get_option_short(opts, opts.args[k].short) = opts.args[k]
      BY <2>1, CodesFound
    <2> QED  BY <2>2, <2>3, <2>4
  <1> QED  BY <1>1, ParserInvCorrect, PTL

\* For every table and command line: the options returned are the words read
\* in order, each with the value written for it.
THEOREM ReadAsWrittenCorrect == Spec => []ReadAsWritten
  <1>1. ParserInv => ReadAsWritten
    <2> SUFFICES ASSUME ParserInv PROVE ReadAsWritten
      OBVIOUS
    <2>1. DOMAIN got = 1 .. Len(got)
      BY DEF ParserInv
    <2> QED  BY <2>1 DEF ParserInv, ReadAsWritten
  <1> QED  BY <1>1, ParserInvCorrect, PTL

\* For every table and command line: no option that takes an argument is
\* taken for the argument of another.
THEOREM OptionNotTakenCorrect == Spec => []OptionNotTaken
  <1>1. ParserInv => OptionNotTaken
    <2> SUFFICES ASSUME ParserInv PROVE OptionNotTaken
      OBVIOUS
    <2>1. DOMAIN got = 1 .. Len(got)
      BY DEF ParserInv
    <2> QED  BY <2>1 DEF ParserInv, OptionNotTaken
  <1> QED  BY <1>1, ParserInvCorrect, PTL

\* For every table and command line: only what is attached to an option that
\* takes none, or to a byte over 127, makes the program pass over words.
THEOREM NothingPassedOverCorrect == Spec => []NothingPassedOver
  <1>1. ParserInv => NothingPassedOver
    <2> SUFFICES ASSUME ParserInv, phase = "run", current_str < Len(argv) \/ parsing # <<>>
                 PROVE  got # <<>> /\ Attached(got[Len(got)])
      BY DEF NothingPassedOver
    <2>1. Len(argv) \in Nat /\ current_str \in Int
      BY ArgvIs DEF ParserInv
    <2>2. current_str >= Len(argv) \/ parsing # <<>>
      BY DEF ParserInv
    <2>3. parsing # <<>>
      BY <2>1, <2>2
    <2> QED  BY <2>3 DEF ParserInv
  <1> QED  BY <1>1, ParserInvCorrect, PTL

================================================================================
