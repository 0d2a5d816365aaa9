------------------------------ MODULE CommonLemmas ------------------------------
(***************************************************************************)
(* What the proofs share: quotients and remainders by a positive number,   *)
(* least and greatest numbers, recursion and induction up to a number,     *)
(* FlattenSeq of the community modules, the ranks of a finite order and    *)
(* sums as the numbers of what they count.                                 *)
(***************************************************************************)
EXTENDS Integers, Sequences, SequencesExt, NaturalsInduction, WellFoundedInduction,
        SequenceTheorems, FiniteSetTheorems, TLAPS

LEMMA DivMod ==
    ASSUME NEW a \in Int, NEW b \in Nat, b > 0
    PROVE  /\ a \div b \in Int /\ (a % b) \in 0 .. b - 1
           /\ a = b * (a \div b) + (a % b)
  OBVIOUS

LEMMA MulMono ==
    ASSUME NEW b \in Nat, NEW x \in Int, NEW y \in Int, x <= y
    PROVE  b * x <= b * y
  OBVIOUS

\* A quotient is known by the multiples of b on both its sides.
LEMMA DivUnique ==
    ASSUME NEW a \in Int, NEW b \in Nat, b > 0, NEW q \in Int,
           b * q <= a, a < b * q + b
    PROVE  a \div b = q
  <1> DEFINE d == a \div b
             r == a % b
  <1>1. d \in Int /\ r \in 0 .. b - 1 /\ a = b * d + r
    BY DivMod
  <1> HIDE DEF d, r
  <1>2. ~(d >= q + 1)
    <2>1. SUFFICES ASSUME d >= q + 1 PROVE FALSE
      OBVIOUS
    <2>2. b * (q + 1) <= b * d
      BY <2>1, <1>1, MulMono
    <2>3. b * (q + 1) = b * q + b
      OBVIOUS
    <2> QED BY <2>2, <2>3, <1>1
  <1>3. ~(d <= q - 1)
    <2>1. SUFFICES ASSUME d <= q - 1 PROVE FALSE
      OBVIOUS
    <2>2. b * d <= b * (q - 1)
      BY <2>1, <1>1, MulMono
    <2>3. b * (q - 1) = b * q - b
      OBVIOUS
    <2> QED BY <2>2, <2>3, <1>1
  <1> QED BY <1>1, <1>2, <1>3 DEF d

\* A remainder is left as it is, and a remainder plus one wraps around as the
\* number itself does.
LEMMA ModMod ==
    ASSUME NEW a \in Int, NEW b \in Nat, b > 0
    PROVE  ((a % b) + 0) % b = a % b
  BY DivMod

LEMMA ModNext ==
    ASSUME NEW a \in Int, NEW b \in Nat, b > 0
    PROVE  ((a % b) + 1) % b = (a + 1) % b
  <1> DEFINE q == a \div b
             r == a % b
             s == r + 1
             e == a + 1
  <1>1. q \in Int /\ r \in 0 .. b - 1 /\ a = b * q + r
    BY DivMod
  <1>2. s \in Int /\ e \in Int /\ e = b * q + s
    BY <1>1
  <1>3. s % b = s - b * (s \div b) /\ e % b = e - b * (e \div b)
    <2>1. s = b * (s \div b) + (s % b) /\ s \div b \in Int /\ s % b \in Int
      <3> HIDE DEF s
      <3> QED BY <1>2, DivMod
    <2>2. e = b * (e \div b) + (e % b) /\ e \div b \in Int /\ e % b \in Int
      <3> HIDE DEF e
      <3> QED BY <1>2, DivMod
    <2> QED BY <2>1, <2>2, <1>2
  <1>4. b * (q + 1) = b * q + b
    BY <1>1
  <1>5. CASE r < b - 1
    <2>1. s \div b = 0
      BY <1>1, <1>2, <1>5, DivUnique, b * 0 = 0
    <2>2. e \div b = q
      BY <1>1, <1>2, <1>5, DivUnique
    <2> QED BY <1>2, <1>3, <2>1, <2>2
  <1>6. CASE r = b - 1
    <2>1. s \div b = 1
      BY <1>1, <1>2, <1>6, DivUnique, b * 1 = b
    <2>2. e \div b = q + 1
      BY <1>1, <1>2, <1>4, <1>6, DivUnique
    <2> QED BY <1>2, <1>3, <1>4, <2>1, <2>2
  <1> QED BY <1>1, <1>5, <1>6

\* A nonempty set of naturals has a least element, a bounded one a greatest.
LEMMA LeastElement ==
    ASSUME NEW S, S \subseteq Nat, S # {}
    PROVE  \E x \in S : \A y \in S : x <= y
  <1>1. PICK x \in S : \A y \in S : ~(<<y, x>> \in OpToRel(<, Nat))
    BY WFMin, NatLessThanWellFounded
  <1>2. \A y \in S : x <= y
    <2>1. TAKE y \in S
    <2>2. ~(y < x)
      BY <1>1 DEF OpToRel
    <2> QED BY <2>2
  <1> QED BY <1>2

LEMMA GreatestElement ==
    ASSUME NEW n \in Nat, NEW S, S \subseteq 0 .. n, S # {}
    PROVE  \E x \in S : \A y \in S : x >= y
  <1> DEFINE T == {n - x : x \in S}
  <1>1. T \subseteq Nat /\ T # {}
    <2>1. PICK x : x \in S
      OBVIOUS
    <2>2. \A y \in S : n - y \in Nat
      OBVIOUS
    <2> QED  BY <2>1, <2>2
  <1>2. PICK t \in T : \A u \in T : t <= u
    <2> HIDE DEF T
    <2> QED  BY <1>1, LeastElement
  <1>3. PICK x \in S : t = n - x
    OBVIOUS
  <1>4. \A y \in S : n - x <= n - y
    BY <1>2, <1>3
  <1> QED  BY <1>4

--------------------------------------------------------------------------------
\* A function defined by what it is at 0 and, at each k, from k - 1: with the
\* step given as a function G, so that the lemma can be cited for any step.
Recursive(f, a, G, n) == f = [k \in 0 .. n |-> IF k = 0 THEN a ELSE G[<<k, f[k - 1]>>]]

HasRecursive(V, a, G, n) == \E f \in [0 .. n -> V] : Recursive(f, a, G, n)

LEMMA RecursiveExists ==
    ASSUME NEW V, NEW a \in V, NEW n \in Nat, NEW G \in [(1 .. n) \X V -> V]
    PROVE  HasRecursive(V, a, G, n)
  <1> DEFINE B == {m \in 0 .. n : ~HasRecursive(V, a, G, m)}
  <1>1. HasRecursive(V, a, G, 0)
    <2> DEFINE f == [k \in 0 .. 0 |-> a]
    <2>1. f \in [0 .. 0 -> V] /\ Recursive(f, a, G, 0)
      BY DEF Recursive
    <2> QED  BY <2>1 DEF HasRecursive
  <1>2. ASSUME NEW m \in Nat, m + 1 <= n, HasRecursive(V, a, G, m)
        PROVE  HasRecursive(V, a, G, m + 1)
    <2>1. PICK f \in [0 .. m -> V] : Recursive(f, a, G, m)
      BY <1>2 DEF HasRecursive
    <2> DEFINE h == [k \in 0 .. m + 1 |-> IF k = m + 1 THEN G[<<m + 1, f[m]>>] ELSE f[k]]
    <2>2. f[m] \in V /\ G[<<m + 1, f[m]>>] \in V
      BY <1>2
    <2>3. h \in [0 .. m + 1 -> V]
      BY <2>2
    <2>4. \A k \in 0 .. m + 1 : h[k] = IF k = 0 THEN a ELSE G[<<k, h[k - 1]>>]
      <3> TAKE k \in 0 .. m + 1
      <3>1. \A j \in 0 .. m : h[j] = f[j] /\ f[j] = IF j = 0 THEN a ELSE G[<<j, f[j - 1]>>]
        BY <2>1 DEF Recursive
      <3>2. CASE k = m + 1
        <4>1. h[k] = G[<<k, f[m]>>] /\ h[m] = f[m] /\ k - 1 = m /\ k # 0
          BY <3>1, <3>2
        <4> HIDE DEF h
        <4> QED  BY <4>1
      <3>3. CASE k \in 0 .. m
        <4>1. k = 0 \/ k - 1 \in 0 .. m
          BY <3>3
        <4> HIDE DEF h
        <4> QED  BY <3>1, <3>3, <4>1
      <3> QED  BY <3>2, <3>3
    <2> HIDE DEF h
    <2>5. h = [k \in 0 .. m + 1 |-> h[k]]
      BY <2>3
    <2>6. Recursive(h, a, G, m + 1)
      BY <2>4, <2>5 DEF Recursive
    <2> QED  BY <2>3, <2>6 DEF HasRecursive
  <1>3. CASE B # {}
    <2>1. B \subseteq Nat
      OBVIOUS
    <2>2. PICK b \in B : \A c \in B : b <= c
      <3> HIDE DEF B
      <3> QED  BY <1>3, <2>1, LeastElement
    <2>3. b # 0
      BY <1>1
    <2>4. b - 1 \in 0 .. n /\ b - 1 \notin B /\ (b - 1) + 1 = b /\ b <= n
      BY <2>2, <2>3
    <2>5. HasRecursive(V, a, G, b)
      BY <1>2, <2>4
    <2> QED  BY <2>5
  <1>4. CASE B = {}
    BY <1>4
  <1> QED  BY <1>3, <1>4

\* What holds at 0 and passes from each number below n to the next holds up
\* to n; the numbers for which it holds are given as a set.
LEMMA UpTo ==
    ASSUME NEW n \in Nat, NEW S, 0 \in S, \A m \in 0 .. n - 1 : m \in S => m + 1 \in S
    PROVE  \A m \in 0 .. n : m \in S
  <1> DEFINE B == {m \in 0 .. n : m \notin S}
  <1>1. SUFFICES ASSUME B # {} PROVE FALSE
    OBVIOUS
  <1>2. B \subseteq Nat
    OBVIOUS
  <1>3. PICK b \in B : \A c \in B : b <= c
    <2> HIDE DEF B
    <2> QED  BY <1>1, <1>2, LeastElement
  <1>4. b - 1 \in 0 .. n - 1 /\ b - 1 \notin B /\ (b - 1) + 1 = b
    BY <1>3
  <1> QED  BY <1>4

\* The values of such a function are in the set its step stays in.
LEMMA LoopIs ==
    ASSUME NEW V, NEW a \in V, NEW n \in Nat, NEW G \in [(1 .. n) \X V -> V],
           NEW f, f[0] = a, \A k \in 1 .. n : f[k - 1] \in V => f[k] = G[<<k, f[k - 1]>>]
    PROVE  \A k \in 0 .. n : f[k] \in V
  <1> DEFINE S == {k \in 0 .. n : f[k] \in V}
  <1>1. 0 \in S
    OBVIOUS
  <1>2. ASSUME NEW m \in 0 .. n - 1, m \in S PROVE m + 1 \in S
    <2>1. m + 1 \in 1 .. n /\ (m + 1) - 1 = m /\ m + 1 \in 0 .. n /\ f[m] \in V
      BY <1>2
    <2>2. f[m + 1] = G[<<m + 1, f[m]>>]
      BY <2>1
    <2> QED  BY <2>1, <2>2
  <1> HIDE DEF S
  <1>3. \A k \in 0 .. n : k \in S
    BY <1>1, <1>2, UpTo
  <1> QED  BY <1>3 DEF S

--------------------------------------------------------------------------------
\* FlattenSeq: the recursive function it is defined by exists, is the only
\* one, and grows with the sequence.
Unrolled(g, s, n) == g = [i \in 1 .. n |-> IF i = 1 THEN s[i] ELSE g[i - 1] \o s[i]]

LEMMA UnrolledOnce ==
    ASSUME NEW n \in Nat \ {0}, NEW s, NEW f, NEW g, Unrolled(f, s, n), Unrolled(g, s, n)
    PROVE  f[n] = g[n]
  <1> DEFINE D == {i \in 1 .. n : f[i] # g[i]}
  <1>1. \A i \in 1 .. n : /\ f[i] = IF i = 1 THEN s[i] ELSE f[i - 1] \o s[i]
                          /\ g[i] = IF i = 1 THEN s[i] ELSE g[i - 1] \o s[i]
    BY DEF Unrolled
  <1>2. CASE D = {}
    BY <1>2
  <1>3. CASE D # {}
    <2>1. PICK d \in D : \A e \in D : d <= e
      <3>1. D \subseteq Nat
        OBVIOUS
      <3> HIDE DEF D
      <3> QED  BY <1>3, <3>1, LeastElement
    <2>2. d # 1
      BY <1>1
    <2>3. d - 1 \in 1 .. n /\ d - 1 \notin D
      BY <2>1, <2>2
    <2>4. f[d - 1] = g[d - 1]
      BY <2>3
    <2>5. f[d] = g[d]
      BY <1>1, <2>2, <2>4
    <2> QED  BY <2>5
  <1> QED  BY <1>2, <1>3

SameUpTo(n, s, t) == \A i \in 1 .. n : t[i] = s[i]
UnrolledFurther(V, n, t, g) ==
    \E h \in [1 .. n + 1 -> Seq(V)] : Unrolled(h, t, n + 1) /\ h[n + 1] = g[n] \o t[n + 1]

LEMMA UnrolledLonger ==
    ASSUME NEW V, NEW n \in Nat \ {0}, NEW s, NEW t,
           SameUpTo(n, s, t), t[n + 1] \in Seq(V),
           NEW g \in [1 .. n -> Seq(V)], Unrolled(g, s, n)
    PROVE  UnrolledFurther(V, n, t, g)
  <1> DEFINE h == [i \in 1 .. n + 1 |-> IF i = n + 1 THEN g[n] \o t[n + 1] ELSE g[i]]
  <1> DEFINE new == g[n] \o t[n + 1]
  <1>1. new \in Seq(V) /\ n + 1 \in 1 .. n + 1
    <2>1. g[n] \in Seq(V)
      OBVIOUS
    <2> QED  BY <2>1
  <1>2. h \in [1 .. n + 1 -> Seq(V)] /\ h[n + 1] = g[n] \o t[n + 1]
    <2>1. \A i \in 1 .. n + 1 : i # n + 1 => i \in 1 .. n
      OBVIOUS
    <2>2. h = [i \in 1 .. n + 1 |-> IF i = n + 1 THEN new ELSE g[i]]
      OBVIOUS
    <2> HIDE DEF new, h
    <2>3. h \in [1 .. n + 1 -> Seq(V)] /\ h[n + 1] = new
      BY <1>1, <2>1, <2>2
    <2> QED  BY <2>3 DEF new
  <1>3. \A i \in 1 .. n : h[i] = g[i]
    <2> TAKE i \in 1 .. n
    <2>1. i \in 1 .. n + 1 /\ i # n + 1
      OBVIOUS
    <2> HIDE DEF new
    <2> QED  BY <2>1 DEF new
  <1>4. \A i \in 1 .. n : g[i] = IF i = 1 THEN s[i] ELSE g[i - 1] \o s[i]
    BY DEF Unrolled
  <1>5. \A i \in 1 .. n + 1 : h[i] = IF i = 1 THEN t[i] ELSE h[i - 1] \o t[i]
    <2> TAKE i \in 1 .. n + 1
    <2>1. CASE i = n + 1
      <3>1. i # 1 /\ i - 1 = n /\ h[i - 1] = g[n]
        BY <2>1, <1>3
      <3> QED  BY <2>1, <3>1, <1>2
    <2>2. CASE i # n + 1
      <3>1. i \in 1 .. n
        BY <2>2
      <3>2. i # 1 => i - 1 \in 1 .. n
        BY <3>1
      <3> HIDE DEF h
      <3> QED  BY <1>3, <1>4, <3>1, <3>2 DEF SameUpTo
    <2> QED  BY <2>1, <2>2
  <1> HIDE DEF h
  <1>6. h = [i \in 1 .. n + 1 |-> IF i = 1 THEN t[i] ELSE h[i - 1] \o t[i]]
    BY <1>2, <1>5
  <1>7. Unrolled(h, t, n + 1)
    BY <1>6 DEF Unrolled
  <1> QED  BY <1>2, <1>7 DEF UnrolledFurther

LEMMA UnrolledExists ==
    ASSUME NEW V, NEW s \in Seq(Seq(V)), s # <<>>
    PROVE  \E g \in [1 .. Len(s) -> Seq(V)] : Unrolled(g, s, Len(s))
  <1> DEFINE Has(m) == \E g \in [1 .. m -> Seq(V)] : Unrolled(g, s, m)
             B == {m \in 1 .. Len(s) : ~Has(m)}
  <1>0. Len(s) \in Nat \ {0} /\ \A i \in 1 .. Len(s) : s[i] \in Seq(V)
    OBVIOUS
  <1>1. Has(1)
    <2> DEFINE g == [i \in 1 .. 1 |-> s[i]]
    <2>1. g \in [1 .. 1 -> Seq(V)]
      BY <1>0
    <2>2. g = [i \in 1 .. 1 |-> IF i = 1 THEN s[i] ELSE g[i - 1] \o s[i]]
      OBVIOUS
    <2> HIDE DEF g
    <2> QED  BY <2>1, <2>2 DEF Unrolled
  <1>2. ASSUME NEW m \in Nat \ {0}, m + 1 <= Len(s), Has(m)
        PROVE  Has(m + 1)
    <2>1. PICK g \in [1 .. m -> Seq(V)] : Unrolled(g, s, m)
      BY <1>2
    <2>2. s[m + 1] \in Seq(V)
      BY <1>0, <1>2
    <2>3. SameUpTo(m, s, s)
      BY DEF SameUpTo
    <2>4. UnrolledFurther(V, m, s, g)
      BY <1>2, <2>1, <2>2, <2>3, UnrolledLonger
    <2> QED  BY <2>4 DEF UnrolledFurther
  <1> HIDE DEF Has
  <1>3. CASE B # {}
    <2>1. PICK b \in B : \A c \in B : b <= c
      <3>1. B \subseteq Nat
        OBVIOUS
      <3> HIDE DEF B
      <3> QED  BY <1>3, <3>1, LeastElement
    <2>2. b # 1
      BY <1>1
    <2>3. b - 1 \in 1 .. Len(s) /\ b - 1 \notin B /\ b - 1 \in Nat \ {0} /\ (b - 1) + 1 = b
      BY <2>1, <2>2, <1>0
    <2>4. Has(b)
      BY <1>2, <2>3
    <2> QED  BY <2>4
  <1>4. CASE B = {}
    <2>1. Len(s) \in 1 .. Len(s) /\ Len(s) \notin B
      BY <1>0, <1>4
    <2>2. Has(Len(s))
      BY <2>1
    <2> QED  BY <2>2 DEF Has
  <1> QED  BY <1>3, <1>4

LEMMA FlattenUnrolled ==
    ASSUME NEW s, Len(s) \in Nat \ {0}, NEW g, Unrolled(g, s, Len(s))
    PROVE  FlattenSeq(s) = g[Len(s)]
  <1> DEFINE n == Len(s)
             f == CHOOSE f : f = [i \in 1 .. n |-> IF i = 1 THEN s[i] ELSE f[i - 1] \o s[i]]
  <1>1. FlattenSeq(s) = f[n]
    BY DEF FlattenSeq
  <1>2. f = [i \in 1 .. n |-> IF i = 1 THEN s[i] ELSE f[i - 1] \o s[i]]
    BY DEF Unrolled
  <1> HIDE DEF f
  <1>3. Unrolled(f, s, n) /\ Unrolled(g, s, n) /\ n \in Nat \ {0}
    BY <1>2 DEF Unrolled
  <1>4. f[n] = g[n]
    <2> HIDE DEF n
    <2> QED  BY <1>3, UnrolledOnce
  <1> QED  BY <1>1, <1>4

LEMMA FlattenSimple ==
    ASSUME NEW V, NEW a \in Seq(V)
    PROVE  FlattenSeq(<<>>) = <<>> /\ FlattenSeq(<<a>>) = a
  <1>1. FlattenSeq(<<>>) = <<>>
    BY DEF FlattenSeq
  <1> DEFINE s == <<a>>
  <1>2. PICK g \in [1 .. Len(s) -> Seq(V)] : Unrolled(g, s, Len(s))
    <2>1. s \in Seq(Seq(V)) /\ s # <<>>
      OBVIOUS
    <2> HIDE DEF s
    <2> QED  BY <2>1, UnrolledExists
  <1>3. Len(s) = 1 /\ s[1] = a
    OBVIOUS
  <1> HIDE DEF s
  <1>4. FlattenSeq(s) = g[1]
    <2>1. Len(s) \in Nat \ {0} /\ Unrolled(g, s, Len(s))
      BY <1>2, <1>3
    <2>2. FlattenSeq(s) = g[Len(s)]
      BY <2>1, FlattenUnrolled
    <2> QED  BY <1>3, <2>2
  <1>5. g[1] = a
    BY <1>2, <1>3 DEF Unrolled
  <1> QED  BY <1>1, <1>4, <1>5 DEF s

LEMMA FlattenAppended ==
    ASSUME NEW V, NEW s \in Seq(Seq(V)), NEW a \in Seq(V)
    PROVE  FlattenSeq(s) \in Seq(V) /\ FlattenSeq(s \o <<a>>) = FlattenSeq(s) \o a
  <1>1. CASE s = <<>>
    <2>1. FlattenSeq(<<>>) = <<>> /\ FlattenSeq(<<a>>) = a
      BY FlattenSimple
    <2>2. <<>> \o <<a>> = <<a>> /\ <<>> \o a = a /\ <<>> \in Seq(V)
      OBVIOUS
    <2> QED  BY <1>1, <2>1, <2>2
  <1>2. CASE s # <<>>
    <2> DEFINE t == s \o <<a>>
               n == Len(s)
               m == n + 1
    <2>1. n \in Nat \ {0} /\ m \in Nat \ {0} /\ Len(t) = m /\ t[m] = a
      BY <1>2
    <2>2. SameUpTo(n, s, t)
      BY DEF SameUpTo
    <2>3. PICK g \in [1 .. n -> Seq(V)] : Unrolled(g, s, n)
      BY <1>2, UnrolledExists
    <2>4. FlattenSeq(s) = g[n]
      BY <2>1, <2>3, FlattenUnrolled
    <2>5. g[n] \in Seq(V)
      <3>1. n \in 1 .. n /\ g \in [1 .. n -> Seq(V)]
        BY <2>1, <2>3
      <3> HIDE DEF n
      <3> QED  BY <3>1
    <2> HIDE DEF n, t
    <2>6. UnrolledFurther(V, n, t, g)
      BY <2>1, <2>2, <2>3, UnrolledLonger
    <2>7. PICK h \in [1 .. m -> Seq(V)] : Unrolled(h, t, m) /\ h[m] = g[n] \o t[m]
      BY <2>6 DEF UnrolledFurther
    <2> HIDE DEF m
    <2>8. Len(t) \in Nat \ {0} /\ Unrolled(h, t, Len(t))
      BY <2>1, <2>7
    <2>9. FlattenSeq(t) = h[m]
      BY <2>1, <2>8, FlattenUnrolled
    <2> QED  BY <2>1, <2>4, <2>5, <2>7, <2>9 DEF t
  <1> QED  BY <1>1, <1>2

Joined(u, s, t) == u = s \o t

LEMMA FlattenBoth ==
    ASSUME NEW V, NEW s \in Seq(Seq(V)), NEW a \in Seq(V), NEW b \in Seq(V),
           NEW u, NEW w, Joined(u, s, <<a, b>>), Joined(w, a, b)
    PROVE  Joined(FlattenSeq(u), FlattenSeq(s), w)
  <1> DEFINE t == s \o <<a>>
  <1>1. t \in Seq(Seq(V)) /\ s \o <<a, b>> = t \o <<b>>
    <2>1. t \in Seq(Seq(V))
      OBVIOUS
    <2>2. s \o <<a, b>> = t \o <<b>>
      <3> DEFINE S == Seq(V)
      <3>1. a \in S /\ b \in S /\ s \in Seq(S)
        OBVIOUS
      <3> HIDE DEF S
      <3>2. <<a>> \in Seq(S) /\ <<b>> \in Seq(S)
        BY <3>1
      <3>2a. <<a>> \o <<b>> = <<a, b>>
        <4> DEFINE x == <<a>> \o <<b>>
        <4>1. x \in Seq(S) /\ Len(x) = 2 /\ x[1] = a /\ x[2] = b
          BY <3>2, ConcatProperties
        <4>2. <<a, b>> \in Seq(S) /\ Len(<<a, b>>) = 2 /\ <<a, b>>[1] = a /\ <<a, b>>[2] = b
          BY <3>1
        <4> DEFINE y == <<a, b>>
        <4>3. \A n \in 1 .. 2 : x[n] = y[n]
          BY <4>1, <4>2
        <4>4. x \in Seq(S) /\ y \in Seq(S) /\ Len(x) = Len(y) /\ Len(x) = 2
          BY <4>1, <4>2
        <4> HIDE DEF x, y
        <4>5. x = y
          BY <4>3, <4>4, SeqEqual
        <4> QED  BY <4>5 DEF x, y
      <3>3. (s \o <<a>>) \o <<b>> = s \o (<<a>> \o <<b>>)
        BY <3>1, <3>2, ConcatAssociative
      <3> QED  BY <3>2a, <3>3
    <2> QED  BY <2>1, <2>2
  <1>2. FlattenSeq(s) \in Seq(V) /\ FlattenSeq(t) = FlattenSeq(s) \o a
    BY FlattenAppended
  <1> HIDE DEF t
  <1>3. FlattenSeq(t \o <<b>>) = FlattenSeq(t) \o b
    BY <1>1, FlattenAppended
  <1> DEFINE x == FlattenSeq(s)
  <1>4. x \in Seq(V) /\ FlattenSeq(t \o <<b>>) = (x \o a) \o b
    BY <1>2, <1>3
  <1> HIDE DEF x
  <1>5. (x \o a) \o b = x \o (a \o b)
    BY <1>4
  <1> QED  BY <1>1, <1>4, <1>5 DEF x, Joined

--------------------------------------------------------------------------------
(* Multiples, and numbers in rows. *)

\* Multiples of d.
LEMMA Multiples ==
    ASSUME NEW d \in Nat \ {0}, NEW k \in Int
    PROVE  (d * k) % d = 0 /\ (d * k) \div d = k /\ d * k \in Int
  <1> DEFINE x == d * k
  <1>1. x \in Int /\ d > 0
    OBVIOUS
  <1>2. x \div d = k
    <2>1. d * k <= x /\ x < d * k + d
      OBVIOUS
    <2> HIDE DEF x
    <2> QED  BY <1>1, <2>1, DivUnique
  <1>3. x % d = 0
    <2>1. x = d * (x \div d) + (x % d) /\ x % d \in Int
      <3> HIDE DEF x
      <3> QED  BY <1>1, DivMod
    <2> QED  BY <1>1, <1>2, <2>1
  <1> QED  BY <1>1, <1>2, <1>3

LEMMA Divided ==
    ASSUME NEW d \in Nat \ {0}, NEW x \in Nat, x % d = 0
    PROVE  x \div d \in Nat /\ x = d * (x \div d)
  <1> DEFINE q == x \div d
  <1>1. q \in Int /\ x = d * q
    <2>1. x = d * (x \div d) + (x % d) /\ x \div d \in Int
      BY DivMod
    <2> QED  BY <2>1
  <1>2. ~(q <= -1)
    <2>1. ASSUME q <= -1 PROVE d * q <= d * (-1)
      <3> HIDE DEF q
      <3> QED  BY <1>1, <2>1, MulMono
    <2> QED  BY <1>1, <2>1
  <1> QED  BY <1>1, <1>2

\* A multiple of g is one of what divides g.
LEMMA MultipleOf ==
    ASSUME NEW d \in Nat \ {0}, NEW g \in Nat \ {0}, NEW x \in Nat, g % d = 0, x % g = 0
    PROVE  x % d = 0
  <1> DEFINE q == g \div d
             k == x \div g
  <1>1. q \in Nat /\ g = d * q /\ k \in Nat /\ x = g * k
    BY Divided
  <1> HIDE DEF q, k
  <1>2. x = d * (q * k) /\ q * k \in Int
    BY <1>1
  <1> QED  BY <1>2, Multiples

\* A positive factor keeps the order.
LEMMA MulLess ==
    ASSUME NEW g \in Nat \ {0}, NEW a \in Int, NEW b \in Int
    PROVE  (g * a < g * b <=> a < b) /\ (g * a = g * b <=> a = b)
  <1>1. ASSUME NEW x \in Int, NEW y \in Int, x < y PROVE g * x < g * y
    <2>1. x + 1 <= y
      BY <1>1
    <2>2. g * (x + 1) <= g * y
      BY <2>1, MulMono
    <2>3. g * (x + 1) = g * x + g
      OBVIOUS
    <2>4. g * x \in Int /\ g * y \in Int
      OBVIOUS
    <2> QED  BY <2>2, <2>3, <2>4
  <1>2. a < b \/ a = b \/ b < a
    OBVIOUS
  <1>3. a < b => g * a < g * b
    BY <1>1
  <1>4. b < a => g * b < g * a
    BY <1>1
  <1>5. g * a \in Int /\ g * b \in Int
    OBVIOUS
  <1> DEFINE x == g * a
             y == g * b
  <1>6. a = b => x = y
    OBVIOUS
  <1> HIDE DEF x, y
  <1>7. x \in Int /\ y \in Int /\ (a < b => x < y) /\ (b < a => y < x)
    BY <1>3, <1>4, <1>5 DEF x, y
  <1> QED  BY <1>2, <1>6, <1>7 DEF x, y

\* Numbers made of a row and a column.
LEMMA NumbersAre ==
    ASSUME NEW n \in Nat, NEW a \in 0 .. n - 1, NEW b \in Nat
    PROVE  /\ (b * n + a) % n = a /\ (b * n + a) \div n = b /\ b * n + a \in Nat
           /\ \A m \in Nat : b < m => b * n + a < m * n
           /\ \A c \in 0 .. n - 1, d \in Nat :
                 /\ b * n + a = d * n + c => b = d /\ a = c
                 /\ b * n + a < d * n + c <=> b < d \/ (b = d /\ a < c)
  <1>0. n > 0 /\ n \in Nat \ {0} /\ a \in Nat /\ a < n
    OBVIOUS
  <1>1. ASSUME NEW c \in 0 .. n - 1, NEW d \in Nat
        PROVE  d * n + c \in Nat /\ (d * n + c) \div n = d /\ (d * n + c) % n = c
    <2> DEFINE x == n * d
               z == x + c
    <2>1. x \in Nat /\ d * n = x /\ c \in Nat /\ c < n
      BY <1>0
    <2>2. z \in Nat /\ x <= z /\ z < x + n
      <3> HIDE DEF x
      <3> QED  BY <2>1, <1>0
    <2> HIDE DEF z
    <2>3. z \div n = d
      BY <1>0, <2>2, DivUnique
    <2>4. z = n * (z \div n) + (z % n) /\ z % n \in Int
      BY <1>0, <2>2, DivMod
    <2>5. z = x + (z % n)
      BY <2>3, <2>4
    <2>6. z % n = c
      <3> HIDE DEF x
      <3> QED  BY <2>1, <2>4, <2>5 DEF z
    <2> QED  BY <2>1, <2>2, <2>3, <2>6 DEF z
  <1>2. ASSUME NEW x \in Nat, NEW y \in Nat, x < y, NEW c \in 0 .. n - 1
        PROVE  x * n + c < y * n
    <2>1. x + 1 <= y
      BY <1>2
    <2>2. n * (x + 1) <= n * y
      BY <2>1, MulMono
    <2>3. n * (x + 1) = x * n + n /\ n * y = y * n /\ x * n \in Nat /\ y * n \in Nat
      OBVIOUS
    <2> QED  BY <2>2, <2>3, <1>0
  <1>3. ASSUME NEW c \in 0 .. n - 1, NEW d \in Nat
        PROVE  /\ b * n + a = d * n + c => b = d /\ a = c
               /\ b * n + a < d * n + c <=> b < d \/ (b = d /\ a < c)
    <2>1. b * n + a = d * n + c => b = d /\ a = c
      BY <1>1
    <2>2. b < d => b * n + a < d * n
      BY <1>2
    <2>3. d < b => d * n + c < b * n
      BY <1>2
    <2> DEFINE x == b * n
               y == d * n
    <2>4. x \in Nat /\ y \in Nat /\ (b = d => x = y)
      OBVIOUS
    <2> HIDE DEF x, y
    <2>5. (b < d => x + a < y) /\ (d < b => y + c < x)
      BY <2>2, <2>3 DEF x, y
    <2>6. x + a < y + c <=> b < d \/ (b = d /\ a < c)
      BY <1>0, <2>4, <2>5
    <2> QED  BY <2>1, <2>6 DEF x, y
  <1> QED  BY <1>1, <1>2, <1>3

--------------------------------------------------------------------------------
\* A strict and total order of the elements of S, as a set of pairs; and how
\* many of them are before v.
StrictOrder(R, S) ==
    /\ \A u \in S : <<u, u>> \notin R
    /\ \A u, v, w \in S : <<u, v>> \in R /\ <<v, w>> \in R => <<u, w>> \in R
    /\ \A u, v \in S : u = v \/ <<u, v>> \in R \/ <<v, u>> \in R

Rank(R, S, v) == Cardinality({w \in S : <<w, v>> \in R})

\* What is later has more before it.
LEMMA RankGrows ==
    ASSUME NEW S, IsFiniteSet(S), NEW R, StrictOrder(R, S), NEW u \in S, NEW v \in S, <<u, v>> \in R
    PROVE  Rank(R, S, u) < Rank(R, S, v)
  <1> DEFINE U == {w \in S : <<w, u>> \in R}
             V == {w \in S : <<w, v>> \in R}
  <1>1. U \subseteq V /\ u \in V /\ u \notin U
    BY DEF StrictOrder
  <1>2. V \subseteq S
    OBVIOUS
  <1> HIDE DEF U, V
  <1>3. IsFiniteSet(V)
    BY <1>2, FS_Subset
  <1>4. Cardinality(U) <= Cardinality(V) /\ Cardinality(U) # Cardinality(V) /\ IsFiniteSet(U)
    BY <1>1, <1>3, FS_Subset
  <1>5. Cardinality(U) \in Nat /\ Cardinality(V) \in Nat
    BY <1>3, <1>4, FS_CardinalityType
  <1> QED  BY <1>4, <1>5 DEF Rank, U, V

\* The ranks number the elements of a finite set from 0 on.
LEMMA Ranked ==
    ASSUME NEW S, IsFiniteSet(S), NEW R, StrictOrder(R, S)
    PROVE  /\ Cardinality(S) \in Nat
           /\ \A v \in S : Rank(R, S, v) \in 0 .. Cardinality(S) - 1
           /\ \A u, v \in S : Rank(R, S, u) = Rank(R, S, v) => u = v
           /\ \A k \in 0 .. Cardinality(S) - 1 : \E v \in S : Rank(R, S, v) = k
  <1> DEFINE n == Cardinality(S)
             T == 0 .. n - 1
             f == [v \in S |-> Rank(R, S, v)]
  <1>1. n \in Nat
    BY FS_CardinalityType
  <1>2. ASSUME NEW v \in S PROVE Rank(R, S, v) \in T
    <2> DEFINE V == {w \in S : <<w, v>> \in R}
    <2>1. V \subseteq S /\ V # S
      BY DEF StrictOrder
    <2> HIDE DEF V
    <2>2. IsFiniteSet(V) /\ Cardinality(V) <= n /\ Cardinality(V) # n
      BY <2>1, FS_Subset
    <2>3. Cardinality(V) \in Nat
      BY <2>2, FS_CardinalityType
    <2> HIDE DEF n
    <2>4. Cardinality(V) \in T
      BY <1>1, <2>2, <2>3
    <2> QED  BY <2>4 DEF Rank, V
  <1>3. ASSUME NEW u \in S, NEW v \in S, Rank(R, S, u) = Rank(R, S, v) PROVE u = v
    <2>1. Rank(R, S, u) \in Int /\ Rank(R, S, v) \in Int
      BY <1>2
    <2>2. <<u, v>> \notin R /\ <<v, u>> \notin R
      BY <1>3, <2>1, RankGrows
    <2> QED  BY <2>2 DEF StrictOrder
  <1>4. f \in Injection(S, T)
    <2>1. f \in [S -> T]
      BY <1>2
    <2>2. \A u, v \in S : f[u] = f[v] => u = v
      BY <1>3
    <2> HIDE DEF f, T
    <2> QED  BY <2>1, <2>2 DEF Injection, IsInjective
  <1>5. IsFiniteSet(T) /\ Cardinality(T) = n
    <2> HIDE DEF n
    <2>1. 0 \in Int /\ n - 1 \in Int
      BY <1>1
    <2>2. IsFiniteSet(0 .. n - 1) /\ Cardinality(0 .. n - 1) = IF 0 > n - 1 THEN 0 ELSE n - 1 - 0 + 1
      BY <2>1, FS_Interval
    <2> QED  BY <1>1, <2>2
  <1>6. f \in Surjection(S, T)
    <2> HIDE DEF f, T
    <2> QED  BY <1>4, <1>5, FS_Injection
  <1>7. \A k \in T : \E v \in S : f[v] = k
    <2> HIDE DEF f, T
    <2> QED  BY <1>6 DEF Surjection
  <1>8. \A k \in T : \E v \in S : Rank(R, S, v) = k
    BY <1>7
  <1> QED  BY <1>1, <1>2, <1>3, <1>8

\* The rank is the number, where the elements are numbered in their order.
LEMMA Numbered ==
    ASSUME NEW S, NEW R, NEW n \in Nat, NEW e \in [S -> 0 .. n - 1],
           \A u, v \in S : e[u] = e[v] => u = v,
           \A k \in 0 .. n - 1 : \E v \in S : e[v] = k,
           \A u, v \in S : <<u, v>> \in R <=> e[u] < e[v]
    PROVE  /\ IsFiniteSet(S) /\ Cardinality(S) = n
           /\ \A v \in S : Rank(R, S, v) = e[v]
  <1> DEFINE T == 0 .. n - 1
  <1>1. IsFiniteSet(T) /\ Cardinality(T) = n
    <2>1. 0 \in Int /\ n - 1 \in Int
      OBVIOUS
    <2>2. IsFiniteSet(0 .. n - 1) /\ Cardinality(0 .. n - 1) = IF 0 > n - 1 THEN 0 ELSE n - 1 - 0 + 1
      BY <2>1, FS_Interval
    <2> QED  BY <2>2
  <1>2. IsFiniteSet(S) /\ Cardinality(S) = n
    <2>1. e \in Injection(S, T)
      <3> HIDE DEF T
      <3>1. e \in [S -> T]
        BY DEF T
      <3> QED  BY <3>1 DEF Injection, IsInjective
    <2>2. e \in Surjection(S, T)
      <3>1. \A k \in T : \E v \in S : e[v] = k
        OBVIOUS
      <3> HIDE DEF T
      <3>2. e \in [S -> T]
        BY DEF T
      <3> QED  BY <3>1, <3>2 DEF Surjection
    <2> HIDE DEF T
    <2> QED  BY <1>1, <2>1, <2>2, FS_Injection
  <1>3. ASSUME NEW v \in S PROVE Rank(R, S, v) = e[v]
    <2> DEFINE V == {w \in S : <<w, v>> \in R}
               W == 0 .. e[v] - 1
               g == [w \in V |-> e[w]]
    <2>1. e[v] \in Nat /\ e[v] < n
      OBVIOUS
    <2>2. IsFiniteSet(W) /\ Cardinality(W) = e[v]
      <3> DEFINE m == e[v]
      <3> HIDE DEF m
      <3>1. 0 \in Int /\ m - 1 \in Int /\ m \in Nat
        BY <2>1 DEF m
      <3>2. IsFiniteSet(0 .. m - 1) /\ Cardinality(0 .. m - 1) = IF 0 > m - 1 THEN 0 ELSE m - 1 - 0 + 1
        BY <3>1, FS_Interval
      <3>3. IsFiniteSet(0 .. m - 1) /\ Cardinality(0 .. m - 1) = m
        BY <3>1, <3>2
      <3> QED  BY <3>3 DEF m
    <2>3. g \in Injection(V, W)
      <3>1. \A w \in V : e[w] \in W
        <4> TAKE w \in V
        <4>1. w \in S /\ e[w] < e[v] /\ e[w] \in 0 .. n - 1
          OBVIOUS
        <4> QED  BY <2>1, <4>1
      <3>2. g \in [V -> W]
        BY <3>1
      <3>3. \A u, w \in V : g[u] = g[w] => u = w
        OBVIOUS
      <3> HIDE DEF g, V, W
      <3> QED  BY <3>2, <3>3 DEF Injection, IsInjective
    <2>4. g \in Surjection(V, W)
      <3>1. \A k \in W : \E w \in V : g[w] = k
        <4> TAKE k \in W
        <4>1. k \in 0 .. n - 1 /\ k < e[v]
          BY <2>1
        <4>2. PICK w \in S : e[w] = k
          BY <4>1
        <4>3. w \in V
          BY <4>1, <4>2
        <4> QED  BY <4>2, <4>3
      <3>2. g \in [V -> W]
        BY <2>3 DEF Injection
      <3> HIDE DEF g, V, W
      <3> QED  BY <3>1, <3>2 DEF Surjection
    <2> HIDE DEF g, V, W
    <2>5. Cardinality(V) = e[v]
      BY <2>2, <2>3, <2>4, FS_Injection
    <2> QED  BY <2>5 DEF Rank, V
  <1> QED  BY <1>2, <1>3

--------------------------------------------------------------------------------
\* The sum of the first k weights, as the number of the units they stand for.
Units(w, k) == {u \in (1 .. k) \X Nat : u[2] < w[u[1]]}
SumTo(w, k) == Cardinality(Units(w, k))

\* The sums are finite, and each is the one before and a weight.
LEMMA SumsAre ==
    ASSUME NEW n \in Nat, NEW w, \A k \in 1 .. n : w[k] \in Nat
    PROVE  /\ SumTo(w, 0) = 0
           /\ \A k \in 0 .. n : IsFiniteSet(Units(w, k)) /\ SumTo(w, k) \in Nat
           /\ \A k \in 0 .. n - 1 : SumTo(w, k + 1) = SumTo(w, k) + w[k + 1]
  <1>1. Units(w, 0) = {}
    BY DEF Units
  <1>2. IsFiniteSet(Units(w, 0)) /\ SumTo(w, 0) = 0
    BY <1>1, FS_EmptySet DEF SumTo
  <1>3. ASSUME NEW k \in 0 .. n - 1, IsFiniteSet(Units(w, k))
        PROVE  IsFiniteSet(Units(w, k + 1)) /\ SumTo(w, k + 1) = SumTo(w, k) + w[k + 1]
    <2> DEFINE m == w[k + 1]
               T == 0 .. m - 1
               A == Units(w, k)
               B == {k + 1} \X T
    <2>1. m \in Nat
      OBVIOUS
    <2>2. Units(w, k + 1) = A \cup B
      <3>1. 1 .. k + 1 = (1 .. k) \cup {k + 1}
        OBVIOUS
      <3>2. \A u \in {k + 1} \X Nat : u[2] < w[u[1]] <=> u[2] \in T
        BY <2>1
      <3>3. ASSUME NEW u PROVE u \in Units(w, k + 1) <=> u \in A \/ u \in B
        <4>1. u \in B <=> u \in {k + 1} \X Nat /\ u[2] \in T
          BY <2>1
        <4>2. u \in (1 .. k + 1) \X Nat <=> u \in (1 .. k) \X Nat \/ u \in {k + 1} \X Nat
          BY <3>1
        <4> HIDE DEF B, T
        <4> QED  BY <3>2, <4>1, <4>2 DEF Units
      <3> HIDE DEF A, B
      <3> QED  BY <3>3
    <2>3. A \cap B = {}
      BY DEF Units
    <2>4. IsFiniteSet(T) /\ Cardinality(T) = m
      <3> HIDE DEF m
      <3>1. 0 \in Int /\ m - 1 \in Int
        BY <2>1
      <3>2. IsFiniteSet(0 .. m - 1) /\ Cardinality(0 .. m - 1) = IF 0 > m - 1 THEN 0 ELSE m - 1 - 0 + 1
        BY <3>1, FS_Interval
      <3> QED  BY <2>1, <3>2
    <2>5. IsFiniteSet({k + 1}) /\ Cardinality({k + 1}) = 1
      BY FS_Singleton
    <2> HIDE DEF T
    <2>6. IsFiniteSet(B) /\ Cardinality(B) = 1 * m
      BY <2>4, <2>5, FS_Product
    <2>7. IsFiniteSet(A) /\ Cardinality(A) = SumTo(w, k)
      BY <1>3 DEF SumTo
    <2> HIDE DEF A, B
    <2>8. /\ IsFiniteSet(A \cup B)
          /\ Cardinality(A \cup B) = Cardinality(A) + Cardinality(B) - Cardinality(A \cap B)
      BY <2>6, <2>7, FS_Union
    <2>9. Cardinality(A \cap B) = 0
      BY <2>3, FS_EmptySet
    <2>10. Cardinality(A) \in Nat
      BY <2>7, FS_CardinalityType
    <2>11. Cardinality(A \cup B) = Cardinality(A) + m
      <3> HIDE DEF m
      <3> QED  BY <2>1, <2>6, <2>8, <2>9, <2>10
    <2> QED  BY <2>2, <2>7, <2>8, <2>11 DEF SumTo
  <1>4. \A k \in 0 .. n : k \in {j \in 0 .. n : IsFiniteSet(Units(w, j))}
    <2> DEFINE S == {j \in 0 .. n : IsFiniteSet(Units(w, j))}
    <2>1. 0 \in S
      BY <1>2
    <2>2. \A k \in 0 .. n - 1 : k \in S => k + 1 \in S
      BY <1>3
    <2> HIDE DEF S
    <2>3. \A k \in 0 .. n : k \in S
      BY <2>1, <2>2, UpTo
    <2> QED  BY <2>3 DEF S
  <1>5. \A k \in 0 .. n : IsFiniteSet(Units(w, k))
    BY <1>4
  <1>6. \A k \in 0 .. n : SumTo(w, k) \in Nat
    BY <1>5, FS_CardinalityType DEF SumTo
  <1>7. \A k \in 0 .. n - 1 : k \in 0 .. n
    OBVIOUS
  <1> QED  BY <1>2, <1>3, <1>5, <1>6, <1>7

\* The sum of no more weights is no more.
LEMMA SumsGrow ==
    ASSUME NEW n \in Nat, NEW w, \A k \in 1 .. n : w[k] \in Nat, NEW k \in 0 .. n
    PROVE  SumTo(w, k) <= SumTo(w, n)
  <1>1. Units(w, k) \subseteq Units(w, n)
    BY DEF Units
  <1>2. n \in 0 .. n
    OBVIOUS
  <1>3. IsFiniteSet(Units(w, n))
    BY <1>2, SumsAre
  <1> QED  BY <1>1, <1>3, FS_Subset DEF SumTo

\* The sum of weights of at most b.
LEMMA SumBounded ==
    ASSUME NEW n \in Nat, NEW b \in Nat, NEW w, \A k \in 1 .. n : w[k] \in 0 .. b
    PROVE  SumTo(w, n) <= b * n
  <1> DEFINE S == {j \in 0 .. n : SumTo(w, j) <= b * j}
  <1>1. /\ SumTo(w, 0) = 0
        /\ \A k \in 0 .. n : SumTo(w, k) \in Nat
        /\ \A k \in 0 .. n - 1 : SumTo(w, k + 1) = SumTo(w, k) + w[k + 1]
    BY SumsAre
  <1>2. 0 \in S
    BY <1>1
  <1>3. ASSUME NEW k \in 0 .. n - 1, k \in S PROVE k + 1 \in S
    <2>1. SumTo(w, k) <= b * k /\ SumTo(w, k) \in Nat /\ SumTo(w, k + 1) = SumTo(w, k) + w[k + 1]
      BY <1>1, <1>3
    <2>2. w[k + 1] \in 0 .. b /\ b * (k + 1) = b * k + b /\ b * k \in Nat
      OBVIOUS
    <2> QED  BY <2>1, <2>2
  <1> HIDE DEF S
  <1>4. \A k \in 0 .. n : k \in S
    BY <1>2, <1>3, UpTo
  <1> QED  BY <1>4 DEF S

\* Ones add up to their number.
LEMMA SumOfOnes ==
    ASSUME NEW n \in Nat, NEW w, \A k \in 1 .. n : w[k] = 1
    PROVE  SumTo(w, n) = n
  <1> DEFINE S == {k \in 0 .. n : SumTo(w, k) = k}
  <1>1. /\ SumTo(w, 0) = 0
        /\ \A k \in 0 .. n - 1 : SumTo(w, k + 1) = SumTo(w, k) + w[k + 1]
    BY SumsAre
  <1>2. 0 \in S
    BY <1>1
  <1>3. ASSUME NEW k \in 0 .. n - 1, k \in S PROVE k + 1 \in S
    <2>1. SumTo(w, k + 1) = k + 1
      BY <1>1, <1>3
    <2> QED  BY <2>1
  <1> HIDE DEF S
  <1>4. \A k \in 0 .. n : k \in S
    BY <1>2, <1>3, UpTo
  <1> QED  BY <1>4 DEF S

\* m places, each of a kind at[k] and with a number num[k] in it, no two the
\* same: where kind j has a[j] places and a weight c[j], weights of no more
\* than those of the kinds add up to no more than all places do.
LEMMA WeightsFit ==
    ASSUME NEW n \in Nat, NEW a \in [1 .. n -> Nat], NEW c \in [1 .. n -> Nat],
           NEW m \in Nat, NEW t \in [1 .. m -> Nat],
           NEW at0 \in [1 .. m -> 1 .. n], NEW num \in [1 .. m -> Nat],
           \A j, k \in 1 .. m : at0[j] = at0[k] /\ num[j] = num[k] => j = k,
           \A k \in 1 .. m : num[k] < a[at0[k]] /\ t[k] <= c[at0[k]],
           NEW w, \A j \in 1 .. n : w[j] = a[j] * c[j]
    PROVE  SumTo(t, m) <= SumTo(w, n)
  <1> DEFINE U == Units(t, m)
             W == Units(w, n)
             f == [u \in U |-> <<at0[u[1]], num[u[1]] * c[at0[u[1]]] + u[2]>>]
  <1>1. IsFiniteSet(W)
    <2>1. \A j \in 1 .. n : w[j] \in Nat
      OBVIOUS
    <2> QED  BY <2>1, SumsAre, n \in 0 .. n
  <1>2. ASSUME NEW u \in U
        PROVE  /\ u[1] \in 1 .. m /\ at0[u[1]] \in 1 .. n /\ num[u[1]] \in Nat /\ u[2] \in Nat
               /\ c[at0[u[1]]] \in Nat /\ a[at0[u[1]]] \in Nat
               /\ u[2] < c[at0[u[1]]] /\ num[u[1]] + 1 <= a[at0[u[1]]]
               /\ u = <<u[1], u[2]>>
    <2>1. u \in (1 .. m) \X Nat /\ u[2] < t[u[1]]
      BY DEF Units
    <2> DEFINE k == u[1]
    <2>2. k \in 1 .. m /\ u[2] \in Nat /\ u[2] < t[k] /\ u = <<k, u[2]>>
      BY <2>1
    <2> HIDE DEF k
    <2>3. at0[k] \in 1 .. n /\ num[k] \in Nat /\ num[k] < a[at0[k]] /\ t[k] <= c[at0[k]] /\ t[k] \in Nat
      BY <2>2
    <2>4. c[at0[k]] \in Nat /\ a[at0[k]] \in Nat
      BY <2>3
    <2>5. u[2] < c[at0[k]] /\ num[k] + 1 <= a[at0[k]]
      <3> DEFINE b == u[2]
                 x == t[k]
                 y == c[at0[k]]
                 p == num[k]
                 z == a[at0[k]]
      <3>1. b \in Nat /\ x \in Nat /\ y \in Nat /\ p \in Nat /\ z \in Nat /\ b < x /\ x <= y /\ p < z
        BY <2>2, <2>3, <2>4
      <3> HIDE DEF b, x, y, p, z
      <3>2. b < y /\ p + 1 <= z
        BY <3>1
      <3> QED  BY <3>2 DEF b, y, p, z
    <2> QED  BY <2>2, <2>3, <2>4, <2>5 DEF k
  <1>3. ASSUME NEW u \in U PROVE f[u] \in W
    <2> DEFINE j == at0[u[1]]
               p == num[u[1]]
               q == c[j]
               x == a[j]
               b == u[2]
    <2>1. j \in 1 .. n /\ p \in Nat /\ q \in Nat /\ b \in Nat /\ b < q /\ p + 1 <= x /\ x \in Nat
      BY <1>2
    <2>2. f[u] = <<j, p * q + b>> /\ w[j] = x * q
      BY <2>1
    <2> HIDE DEF f, j, p, q, x, b
    <2>3. q * (p + 1) <= q * x /\ q * (p + 1) = p * q + q /\ q * x = x * q /\ p * q \in Nat
      BY <2>1, MulMono
    <2>4. p * q + b \in Nat /\ p * q + b < w[j]
      <3> DEFINE A == p * q
                 B == q * x
      <3>1. A \in Nat /\ A + q <= B /\ w[j] = B
        BY <2>2, <2>3
      <3>2. B \in Nat
        BY <2>1
      <3> HIDE DEF A, B
      <3>3. A + b \in Nat /\ A + b < w[j]
        BY <2>1, <3>1, <3>2
      <3> QED  BY <3>3 DEF A
    <2> DEFINE z == p * q + b
    <2> HIDE DEF z
    <2>5. f[u] = <<j, z>> /\ z \in Nat /\ z < w[j]
      BY <2>2, <2>4 DEF z
    <2>6. <<j, z>> \in (1 .. n) \X Nat /\ <<j, z>>[1] = j /\ <<j, z>>[2] = z
      BY <2>1, <2>5
    <2> QED  BY <2>5, <2>6 DEF Units
  <1>4. ASSUME NEW u \in U, NEW v \in U, f[u] = f[v] PROVE u = v
    <2> DEFINE q == c[at0[u[1]]]
               p == num[u[1]]
               r == num[v[1]]
               b == u[2]
               d == v[2]
    <2>1. at0[u[1]] = at0[v[1]] /\ p * q + b = r * q + d
      BY <1>4
    <2>2. p \in Nat /\ r \in Nat /\ q \in Nat /\ b \in Nat /\ d \in Nat /\ b < q /\ d < q
      BY <1>2, <2>1
    <2>3. p = r /\ b = d
      <3> DEFINE e == p * q + b
      <3> HIDE DEF p, q, r, b, d
      <3>1. q > 0 /\ e \in Int /\ q * p = p * q /\ q * r = r * q /\ p * q \in Int /\ r * q \in Int
        BY <2>2
      <3> HIDE DEF e
      <3>2. e = q * p + b /\ e = q * r + d
        BY <2>1, <3>1 DEF e
      <3>3. q * p \in Int /\ q * r \in Int
        BY <3>1
      <3>4. /\ q * p <= e /\ e < q * p + q /\ q * r <= e /\ e < q * r + q
            /\ q \in Nat /\ p \in Int /\ r \in Int
        <4> DEFINE A == q * p
                   B == q * r
        <4> HIDE DEF A, B
        <4>1. A \in Int /\ B \in Int /\ e = A + b /\ e = B + d
          BY <3>2, <3>3 DEF A, B
        <4>2. A <= e /\ e < A + q /\ B <= e /\ e < B + q
          BY <2>2, <4>1
        <4> QED  BY <2>2, <4>2 DEF A, B
      <3>5. e \div q = p /\ e \div q = r
        BY <3>1, <3>4, DivUnique
      <3>6. p = r
        BY <3>5
      <3>7. b = d
        BY <2>2, <3>2, <3>3, <3>6
      <3> QED  BY <3>6, <3>7
    <2>4. u[1] = v[1]
      BY <1>2, <2>1, <2>3
    <2> QED  BY <1>2, <2>3, <2>4
  <1>5. f \in Injection(U, W)
    <2>1. f \in [U -> W]
      BY <1>3
    <2> HIDE DEF f, U, W
    <2> QED  BY <1>4, <2>1 DEF Injection, IsInjective
  <1> HIDE DEF f, U, W
  <1>6. Cardinality(U) <= Cardinality(W)
    BY <1>1, <1>5, FS_Injection
  <1> QED  BY <1>6 DEF SumTo, U, W

--------------------------------------------------------------------------------
\* A function on all numbers, defined by what it is at 0 and from k - 1 at k.
LEMMA RecursiveOnce ==
    ASSUME NEW a, NEW G, NEW n \in Nat, NEW m \in 0 .. n,
           NEW f, Recursive(f, a, G, m), NEW h, Recursive(h, a, G, n)
    PROVE  \A k \in 0 .. m : f[k] = h[k]
  <1> DEFINE S == {k \in 0 .. m : f[k] = h[k]}
  <1>1. \A k \in 0 .. m : f[k] = IF k = 0 THEN a ELSE G[<<k, f[k - 1]>>]
    BY DEF Recursive
  <1>2. \A k \in 0 .. m : h[k] = IF k = 0 THEN a ELSE G[<<k, h[k - 1]>>]
    BY DEF Recursive
  <1>3. 0 \in S
    <2>1. 0 \in 0 .. m
      OBVIOUS
    <2>2. f[0] = a /\ h[0] = a
      BY <1>1, <1>2, <2>1
    <2> QED  BY <2>1, <2>2
  <1>4. ASSUME NEW k \in 0 .. m - 1, k \in S PROVE k + 1 \in S
    <2>1. k + 1 \in 0 .. m /\ k + 1 # 0 /\ (k + 1) - 1 = k
      OBVIOUS
    <2>2. f[k] = h[k]
      BY <1>4
    <2>3. f[k + 1] = G[<<k + 1, f[k]>>]
      BY <1>1, <2>1
    <2>4. h[k + 1] = G[<<k + 1, h[k]>>]
      BY <1>2, <2>1
    <2> QED  BY <2>1, <2>2, <2>3, <2>4
  <1> HIDE DEF S
  <1>5. \A k \in 0 .. m : k \in S
    BY <1>3, <1>4, UpTo
  <1> QED  BY <1>5 DEF S

RecursiveOnNat(h, a, G) == h = [k \in Nat |-> IF k = 0 THEN a ELSE G[<<k, h[k - 1]>>]]

\* There is one where each step stays in V.
LEMMA RecursiveOnNatExists ==
    ASSUME NEW V, NEW a \in V, NEW G \in [Nat \X V -> V]
    PROVE  \E h \in [Nat -> V] : RecursiveOnNat(h, a, G)
  <1> DEFINE F(n) == CHOOSE f : f \in [0 .. n -> V] /\ Recursive(f, a, G, n)
             h == [n \in Nat |-> F(n)[n]]
  <1>1. ASSUME NEW n \in Nat PROVE F(n) \in [0 .. n -> V] /\ Recursive(F(n), a, G, n)
    <2> DEFINE H == [u \in (1 .. n) \X V |-> G[u]]
    <2>1. H \in [(1 .. n) \X V -> V]
      OBVIOUS
    <2>2. HasRecursive(V, a, H, n)
      <3> HIDE DEF H
      <3> QED  BY <2>1, RecursiveExists
    <2>3. PICK f \in [0 .. n -> V] : Recursive(f, a, H, n)
      BY <2>2 DEF HasRecursive
    <2>4. \A k \in 0 .. n : f[k] = IF k = 0 THEN a ELSE H[<<k, f[k - 1]>>]
      <3> HIDE DEF H
      <3> QED  BY <2>3 DEF Recursive
    <2>5. \A k \in 0 .. n : f[k] = IF k = 0 THEN a ELSE G[<<k, f[k - 1]>>]
      <3> TAKE k \in 0 .. n
      <3>1. CASE k # 0
        <4>1. k - 1 \in 0 .. n /\ k \in 1 .. n
          BY <3>1
        <4>2. <<k, f[k - 1]>> \in (1 .. n) \X V
          BY <4>1
        <4> QED  BY <2>4, <3>1, <4>2
      <3>2. CASE k = 0
        BY <2>4, <3>2
      <3> QED  BY <3>1, <3>2
    <2>6. f = [k \in 0 .. n |-> f[k]]
      OBVIOUS
    <2>7. f \in [0 .. n -> V] /\ Recursive(f, a, G, n)
      BY <2>5, <2>6 DEF Recursive
    <2> QED  BY <2>7
  <1> HIDE DEF F
  <1>2. ASSUME NEW n \in Nat PROVE h[n] \in V
    BY <1>1, n \in 0 .. n
  <1>3. ASSUME NEW k \in Nat PROVE h[k] = IF k = 0 THEN a ELSE G[<<k, h[k - 1]>>]
    <2>1. F(k)[k] = IF k = 0 THEN a ELSE G[<<k, F(k)[k - 1]>>]
      <3>1. k \in 0 .. k
        OBVIOUS
      <3> QED  BY <1>1, <3>1 DEF Recursive
    <2>2. CASE k # 0
      <3>1. k - 1 \in Nat /\ k - 1 \in 0 .. k /\ k - 1 \in 0 .. k - 1
        BY <2>2
      <3>2. Recursive(F(k - 1), a, G, k - 1) /\ Recursive(F(k), a, G, k)
        BY <1>1, <3>1
      <3>3. \A j \in 0 .. k - 1 : F(k - 1)[j] = F(k)[j]
        BY <3>1, <3>2, RecursiveOnce
      <3>4. F(k - 1)[k - 1] = F(k)[k - 1]
        BY <3>1, <3>3
      <3> QED  BY <2>1, <2>2, <3>1, <3>4
    <2>3. CASE k = 0
      BY <2>1, <2>3
    <2> QED  BY <2>2, <2>3
  <1>4. h \in [Nat -> V]
    BY <1>2
  <1> HIDE DEF h
  <1>5. RecursiveOnNat(h, a, G)
    <2>1. h = [k \in Nat |-> h[k]]
      BY <1>4
    <2> QED  BY <1>3, <2>1 DEF RecursiveOnNat
  <1> QED  BY <1>4, <1>5

================================================================================
