------------------------ MODULE OpusMultistreamProofs ------------------------
(***************************************************************************)
(* Proofs about OpusMultistream and the packet framing under it, for every *)
(* layout of streams, every frame and packet size and every packet.        *)
(***************************************************************************)
EXTENDS OpusMultistream, FiniteSetTheorems, WellFoundedInduction, TLAPS

-----------------------------------------------------------------------------
(* Induction over the natural numbers, from the library's theorem that     *)
(* they are well founded.  A property P(n) of numbers is the set           *)
(* {n \in Nat : P(n)}.                                                     *)
Less == OpToRel(<, Nat)

LEMMA LessMeans ==
    ASSUME NEW x \in Nat, NEW y \in Nat
    PROVE  <<x, y>> \in Less <=> x < y
  BY DEF Less, OpToRel

LEMMA LessWellFounded == IsWellFoundedOn(Less, Nat)
  BY NatLessThanWellFounded, Zenon DEF Less

LEMMA LeastOf ==
    ASSUME NEW T, T \subseteq Nat, T # {}
    PROVE  \E x \in T : \A y \in T : x <= y
<1>1. PICK x \in T : \A y \in T : ~ (<<y, x>> \in Less)
  BY LessWellFounded, WFMin, Zenon
<1>2. \A y \in T : y \in Nat /\ x \in Nat /\ ~ (y < x)
  BY Zenon, <1>1, LessMeans
<1> QED BY <1>2

LEMMA SetInduction ==
    ASSUME NEW S, 0 \in S, \A n \in Nat : n \in S => n + 1 \in S
    PROVE  \A n \in Nat : n \in S
<1> SUFFICES ASSUME Nat \ S # {} PROVE FALSE
  OBVIOUS
<1>1. PICK x \in Nat \ S : \A y \in Nat \ S : x <= y
  <2>1. Nat \ S \subseteq Nat
    OBVIOUS
  <2> QED BY <2>1, LeastOf, Zenon
<1>2. x - 1 \in Nat /\ x - 1 \notin Nat \ S
  BY <1>1
<1> QED BY <1>1, <1>2

-----------------------------------------------------------------------------
(* Sums.  SumFunction takes the elements of a sequence in an order left    *)
(* open; Partial adds them up from the first to the last, those whose      *)
(* index is in t.                                                          *)
Partial(g, q, t, m) ==
    g = [i \in 0..m |-> IF i = 0 THEN 0
                        ELSE g[i - 1] + (IF i \in t THEN q[i] ELSE 0)]

LEMMA PartialAt ==
    ASSUME NEW g, NEW q, NEW t, NEW m \in Nat, Partial(g, q, t, m)
    PROVE  /\ g[0] = 0
           /\ \A i \in 1..m : g[i] = g[i - 1] + (IF i \in t THEN q[i] ELSE 0)
<1>1. \A i \in 0..m : g[i] = IF i = 0 THEN 0
                             ELSE g[i - 1] + (IF i \in t THEN q[i] ELSE 0)
  BY DEF Partial
<1>2. 0 \in 0..m /\ \A i \in 1..m : i \in 0..m /\ i # 0
  OBVIOUS
<1> QED BY <1>1, <1>2

LEMMA PartialExists ==
    ASSUME NEW q, NEW t
    PROVE  \A m \in Nat : \E g : Partial(g, q, t, m)
<1> DEFINE S == {m \in Nat : \E g : Partial(g, q, t, m)}
<1>1. 0 \in S
  <2> DEFINE g == [i \in 0..0 |-> 0]
  <2>1. Partial(g, q, t, 0)
    BY DEF Partial
  <2> QED BY <2>1
<1>2. ASSUME NEW m \in Nat, m \in S PROVE m + 1 \in S
  <2>1. PICK h : Partial(h, q, t, m)
    BY <1>2
  <2> DEFINE more(i) == IF i \in t THEN q[i] ELSE 0
             g == [i \in 0..(m + 1) |-> IF i = m + 1 THEN h[m] + more(i) ELSE h[i]]
  <2>2. h[0] = 0 /\ \A i \in 1..m : h[i] = h[i - 1] + more(i)
    BY <2>1, PartialAt
  <2>3. \A i \in 0..m : g[i] = h[i]
    OBVIOUS
  <2>4. g[m + 1] = h[m] + more(m + 1)
    OBVIOUS
  <2>5. g = [i \in 0..(m + 1) |-> g[i]]
    OBVIOUS
  <2> HIDE DEF g, more
  <2>6. \A i \in 0..(m + 1) : g[i] = IF i = 0 THEN 0 ELSE g[i - 1] + more(i)
    <3> SUFFICES ASSUME NEW i \in 0..(m + 1), i # 0 PROVE g[i] = g[i - 1] + more(i)
      BY <2>2, <2>3
    <3>1. i - 1 \in 0..m
      OBVIOUS
    <3>2. CASE i = m + 1
      <4>1. i - 1 = m
        BY <3>2
      <4> QED BY <2>3, <2>4, <3>1, <3>2, <4>1
    <3>3. CASE i # m + 1
      <4>1. i \in 1..m /\ i \in 0..m
        BY <3>3
      <4> QED BY <2>2, <2>3, <3>1, <4>1
    <3> QED BY <3>2, <3>3
  <2>7. g = [i \in 0..(m + 1) |-> IF i = 0 THEN 0 ELSE g[i - 1] + more(i)]
    BY Zenon, <2>5, <2>6
  <2>8. Partial(g, q, t, m + 1)
    BY <2>7 DEF Partial, more
  <2> QED BY <2>8
<1> HIDE DEF S
<1>3. \A m \in Nat : m \in S
  BY <1>1, <1>2, SetInduction
<1> QED BY <1>3 DEF S

LEMMA PartialTyped ==
    ASSUME NEW m \in Nat, NEW q, \A i \in 1..m : q[i] \in Nat,
           NEW t, NEW g, Partial(g, q, t, m)
    PROVE  \A i \in 0..m : g[i] \in Nat
<1> DEFINE S == {i \in Nat : i \in 0..m => g[i] \in Nat}
<1>1. 0 \in S
  BY PartialAt
<1>2. ASSUME NEW i \in Nat, i \in S PROVE i + 1 \in S
  <2> SUFFICES ASSUME i + 1 \in 0..m PROVE g[i + 1] \in Nat
    OBVIOUS
  <2>1. i \in 0..m /\ i + 1 \in 1..m /\ (i + 1) - 1 = i
    OBVIOUS
  <2>2. g[i + 1] = g[i] + (IF i + 1 \in t THEN q[i + 1] ELSE 0)
    <3>1. \A j \in 1..m : g[j] = g[j - 1] + (IF j \in t THEN q[j] ELSE 0)
      BY PartialAt
    <3> QED BY <2>1, <3>1
  <2>3. g[i] \in Nat /\ q[i + 1] \in Nat
    BY <1>2, <2>1
  <2> QED BY <2>2, <2>3
<1> HIDE DEF S
<1>3. \A i \in Nat : i \in S
  BY <1>1, <1>2, SetInduction
<1> QED BY <1>3 DEF S

LEMMA PartialUnique ==
    ASSUME NEW m \in Nat, NEW n \in Nat, m <= n, NEW p, NEW q, NEW t, NEW u,
           \A i \in 1..m : p[i] = q[i] /\ (i \in t <=> i \in u),
           NEW g, NEW h, Partial(g, p, t, m), Partial(h, q, u, n)
    PROVE  \A i \in 0..m : g[i] = h[i]
<1> DEFINE S == {i \in Nat : i \in 0..m => g[i] = h[i]}
<1>1. /\ \A i \in 1..m : g[i] = g[i - 1] + (IF i \in t THEN p[i] ELSE 0)
      /\ \A i \in 1..n : h[i] = h[i - 1] + (IF i \in u THEN q[i] ELSE 0)
  BY PartialAt
<1>2. 0 \in S
  <2>1. g[0] = 0 /\ h[0] = 0
    BY PartialAt
  <2> QED BY <2>1
<1>3. ASSUME NEW i \in Nat, i \in S PROVE i + 1 \in S
  <2> SUFFICES ASSUME i + 1 \in 0..m PROVE g[i + 1] = h[i + 1]
    OBVIOUS
  <2>1. i \in 0..m /\ i + 1 \in 1..m /\ i + 1 \in 1..n /\ (i + 1) - 1 = i
    OBVIOUS
  <2>2. g[i + 1] = g[i] + (IF i + 1 \in t THEN p[i + 1] ELSE 0)
    BY <1>1, <2>1
  <2>3. h[i + 1] = h[i] + (IF i + 1 \in u THEN q[i + 1] ELSE 0)
    BY <1>1, <2>1
  <2>4. g[i] = h[i] /\ p[i + 1] = q[i + 1] /\ (i + 1 \in t <=> i + 1 \in u)
    BY <1>3, <2>1
  <2> QED BY <2>2, <2>3, <2>4
<1> HIDE DEF S
<1>4. \A i \in Nat : i \in S
  BY <1>2, <1>3, SetInduction
<1> QED BY <1>4 DEF S

\* The sum of q's elements at the indices in t.
Total(q, t, m) == (CHOOSE g : Partial(g, q, t, m))[m]

LEMMA TotalIs ==
    ASSUME NEW m \in Nat, NEW q, NEW t, NEW g, Partial(g, q, t, m)
    PROVE  Total(q, t, m) = g[m]
<1> DEFINE h == CHOOSE h : Partial(h, q, t, m)
<1>1. Partial(h, q, t, m)
  OBVIOUS
<1>2. Total(q, t, m) = h[m]
  BY DEF Total
<1> HIDE DEF h
<1>3. m <= m /\ m \in 0..m
  OBVIOUS
<1> QED BY <1>1, <1>2, <1>3, PartialUnique

LEMMA TotalEmpty ==
    ASSUME NEW m \in Nat, NEW q
    PROVE  Total(q, {}, m) = 0
<1>1. PICK g : Partial(g, q, {}, m)
  BY PartialExists
<1>2. g[0] = 0 /\ \A i \in 1..m : g[i] = g[i - 1] + 0
  <2>1. \A i \in 1..m : g[i] = g[i - 1] + (IF i \in {} THEN q[i] ELSE 0)
    BY <1>1, PartialAt
  <2>2. g[0] = 0
    BY <1>1, PartialAt
  <2> QED BY <2>1, <2>2
<1> DEFINE S == {i \in Nat : i \in 0..m => g[i] = 0}
<1>3. 0 \in S
  BY <1>2
<1>4. ASSUME NEW i \in Nat, i \in S PROVE i + 1 \in S
  <2>1. i + 1 \in 0..m => i \in 0..m /\ i + 1 \in 1..m /\ (i + 1) - 1 = i
    OBVIOUS
  <2> QED BY <1>2, <1>4, <2>1
<1> HIDE DEF S
<1>5. \A i \in Nat : i \in S
  BY <1>3, <1>4, SetInduction
<1>6. g[m] = 0
  BY <1>5 DEF S
<1> QED BY <1>1, <1>6, TotalIs

LEMMA TotalRemove ==
    ASSUME NEW m \in Nat, NEW q, \A i \in 1..m : q[i] \in Nat,
           NEW t, NEW x \in 1..m, x \in t
    PROVE  /\ Total(q, t \ {x}, m) \in Nat
           /\ Total(q, t, m) = q[x] + Total(q, t \ {x}, m)
<1>1. PICK g : Partial(g, q, t, m)
  BY PartialExists
<1>2. PICK h : Partial(h, q, t \ {x}, m)
  BY PartialExists
<1>3. /\ g[0] = 0 /\ \A i \in 1..m : g[i] = g[i - 1] + (IF i \in t THEN q[i] ELSE 0)
      /\ h[0] = 0
      /\ \A i \in 1..m : h[i] = h[i - 1] + (IF i \in t \ {x} THEN q[i] ELSE 0)
  BY <1>1, <1>2, PartialAt
<1>4. \A i \in 0..m : g[i] \in Nat /\ h[i] \in Nat
  BY <1>1, <1>2, PartialTyped
<1> DEFINE S == {i \in Nat : i \in 0..m => g[i] = h[i] + (IF i >= x THEN q[x] ELSE 0)}
<1>5. 0 \in S
  BY <1>3
<1>6. ASSUME NEW i \in Nat, i \in S PROVE i + 1 \in S
  <2> SUFFICES ASSUME i + 1 \in 0..m
               PROVE  g[i + 1] = h[i + 1] + (IF i + 1 >= x THEN q[x] ELSE 0)
    OBVIOUS
  <2>1. i \in 0..m /\ i + 1 \in 1..m /\ (i + 1) - 1 = i
    OBVIOUS
  <2>2. /\ g[i + 1] = g[i] + (IF i + 1 \in t THEN q[i + 1] ELSE 0)
        /\ h[i + 1] = h[i] + (IF i + 1 \in t \ {x} THEN q[i + 1] ELSE 0)
    BY <1>3, <2>1
  <2>3. g[i] = h[i] + (IF i >= x THEN q[x] ELSE 0)
    BY <1>6, <2>1
  <2>4. g[i] \in Nat /\ h[i] \in Nat /\ q[i + 1] \in Nat /\ q[x] \in Nat
    BY <1>4, <2>1
  <2>5. CASE i + 1 = x
    BY <2>2, <2>3, <2>4, <2>5
  <2>6. CASE i + 1 # x
    <3>1. i + 1 \in t <=> i + 1 \in t \ {x}
      BY <2>6
    <3>2. i + 1 >= x <=> i >= x
      BY <2>6
    <3> QED BY <2>2, <2>3, <2>4, <3>1, <3>2
  <2> QED BY <2>5, <2>6
<1> HIDE DEF S
<1>7. \A i \in Nat : i \in S
  BY <1>5, <1>6, SetInduction
<1>8. g[m] = h[m] + q[x]
  BY <1>7 DEF S
<1>9. Total(q, t, m) = g[m] /\ Total(q, t \ {x}, m) = h[m]
  BY <1>1, <1>2, TotalIs
<1> QED BY <1>4, <1>8, <1>9

\* The recursive function inside SumFunction.
Adds(f, q) ==
    f = [u \in SUBSET DOMAIN q |->
           IF u = {} THEN 0
           ELSE q[CHOOSE x \in u : TRUE] + f[u \ {CHOOSE x \in u : TRUE}]]

LEMMA SumIs ==
    ASSUME NEW q
    PROVE  SumFunction(q) = (CHOOSE f : Adds(f, q))[DOMAIN q]
  BY Zenon DEF SumFunction, SumFunctionOnSet, FoldFunctionOnSet, MapThenFoldSet, Adds

LEMMA AddsUnique ==
    ASSUME NEW m \in Nat, NEW q, DOMAIN q = 1..m, \A i \in 1..m : q[i] \in Nat,
           NEW f, Adds(f, q)
    PROVE  \A u \in SUBSET (1..m) : f[u] = Total(q, u, m)
<1> DEFINE S == {k \in Nat : \A u \in SUBSET (1..m) :
                               Cardinality(u) = k => f[u] = Total(q, u, m)}
<1>1. \A u \in SUBSET (1..m) : IsFiniteSet(u) /\ Cardinality(u) \in Nat
  <2>1. IsFiniteSet(1..m)
    BY FS_Interval
  <2> QED BY Zenon, <2>1, FS_Subset, FS_CardinalityType
<1>2. \A u \in SUBSET (1..m) :
        f[u] = IF u = {} THEN 0
               ELSE q[CHOOSE x \in u : TRUE] + f[u \ {CHOOSE x \in u : TRUE}]
  BY Zenon DEF Adds
<1>3. 0 \in S
  <2> SUFFICES ASSUME NEW u \in SUBSET (1..m), Cardinality(u) = 0
               PROVE  f[u] = Total(q, u, m)
    OBVIOUS
  <2>1. u = {}
    BY <1>1, FS_EmptySet
  <2> QED BY Zenon, <1>2, <2>1, TotalEmpty
<1>4. ASSUME NEW k \in Nat, k \in S PROVE k + 1 \in S
  <2> SUFFICES \A u \in SUBSET (1..m) :
                 Cardinality(u) = k + 1 => f[u] = Total(q, u, m)
    BY k + 1 \in Nat
  <2> SUFFICES ASSUME NEW u \in SUBSET (1..m), Cardinality(u) = k + 1
               PROVE  f[u] = Total(q, u, m)
    OBVIOUS
  <2> DEFINE x == CHOOSE x \in u : TRUE
             v == u \ {x}
  <2>1. u # {}
    <3>1. u = {} => Cardinality(u) = 0
      BY FS_EmptySet
    <3> QED BY <3>1
  <2>2. x \in u /\ x \in 1..m
    BY Zenon, <2>1
  <2>3. f[u] = q[x] + f[v]
    BY Zenon, <1>2, <2>1
  <2> HIDE DEF x
  <2>4. v \in SUBSET (1..m) /\ Cardinality(v) = k
    BY <1>1, <2>2, FS_RemoveElement
  <2>5. f[v] = Total(q, v, m)
    BY <1>4, <2>4
  <2>6. Total(q, u, m) = q[x] + Total(q, v, m)
    BY <2>2, TotalRemove
  <2> QED BY <2>3, <2>5, <2>6
<1> HIDE DEF S
<1>5. \A k \in Nat : k \in S
  BY Zenon, <1>3, <1>4, SetInduction
<1> QED BY <1>1, <1>5 DEF S

LEMMA AddsExists ==
    ASSUME NEW m \in Nat, NEW q, DOMAIN q = 1..m, \A i \in 1..m : q[i] \in Nat
    PROVE  \E f : Adds(f, q)
<1> DEFINE f == [u \in SUBSET DOMAIN q |-> Total(q, u, m)]
<1>1. ASSUME NEW u \in SUBSET DOMAIN q
      PROVE  f[u] = IF u = {} THEN 0
               ELSE q[CHOOSE x \in u : TRUE] + f[u \ {CHOOSE x \in u : TRUE}]
  <2> DEFINE x == CHOOSE x \in u : TRUE
             v == u \ {x}
  <2>1. f[u] = Total(q, u, m) /\ f[v] = Total(q, v, m)
    OBVIOUS
  <2>2. CASE u = {}
    BY <2>1, <2>2, TotalEmpty
  <2>3. CASE u # {}
    <3>1. x \in u /\ x \in 1..m
      BY <2>3
    <3> HIDE DEF x, f
    <3>2. Total(q, u, m) = q[x] + Total(q, v, m)
      BY <3>1, TotalRemove
    <3>3. f[u] = q[x] + f[v]
      BY <2>1, <3>2
    <3> QED BY <2>3, <3>3 DEF x
  <2> QED BY <2>2, <2>3
<1>2. f = [u \in SUBSET DOMAIN q |-> f[u]]
  BY Zenon
<1> HIDE DEF f
<1>3. Adds(f, q)
  BY Zenon, <1>1, <1>2 DEF Adds
<1> QED BY <1>3

LEMMA SumTotal ==
    ASSUME NEW m \in Nat, NEW q, DOMAIN q = 1..m, \A i \in 1..m : q[i] \in Nat
    PROVE  SumFunction(q) = Total(q, 1..m, m)
<1> DEFINE f == CHOOSE f : Adds(f, q)
<1>1. Adds(f, q)
  BY AddsExists, Zenon
<1>2. SumFunction(q) = f[1..m]
  BY SumIs
<1> HIDE DEF f
<1> QED BY <1>1, <1>2, AddsUnique

LEMMA PartialLast ==
    ASSUME NEW m \in Nat, NEW q, NEW t, NEW g, Partial(g, q, t, m + 1), m + 1 \notin t
    PROVE  g[m + 1] = g[m] + 0
<1>1. m + 1 \in 0..(m + 1) /\ m + 1 # 0 /\ (m + 1) - 1 = m
  OBVIOUS
<1>2. \A i \in 0..(m + 1) : g[i] = IF i = 0 THEN 0
                                   ELSE g[i - 1] + (IF i \in t THEN q[i] ELSE 0)
  BY Zenon DEF Partial
<1> QED BY <1>1, <1>2

LEMMA SumEmpty == SumFunction(<<>>) = 0
<1>1. DOMAIN <<>> = 1..0 /\ 1..0 = {} /\ \A i \in 1..0 : <<>>[i] \in Nat
  OBVIOUS
<1>2. SumFunction(<<>>) = Total(<<>>, 1..0, 0)
  BY <1>1, SumTotal
<1> QED BY <1>1, <1>2, TotalEmpty

LEMMA SumExtend ==
    ASSUME NEW m \in Nat, NEW p, NEW q, DOMAIN p = 1..m, DOMAIN q = 1..(m + 1),
           \A i \in 1..m : p[i] = q[i],
           \A i \in 1..(m + 1) : q[i] \in Nat
    PROVE  /\ SumFunction(p) \in Nat
           /\ SumFunction(q) = SumFunction(p) + q[m + 1]
<1>1. /\ SumFunction(p) = Total(p, 1..m, m)
      /\ SumFunction(q) = Total(q, 1..(m + 1), m + 1)
  <2>1. \A i \in 1..m : p[i] \in Nat
    OBVIOUS
  <2>2. m + 1 \in Nat
    OBVIOUS
  <2> QED BY <2>1, <2>2, SumTotal
<1>2. /\ m + 1 \in Nat /\ m + 1 \in 1..(m + 1) /\ m <= m + 1 /\ m \in 0..m
      /\ m + 1 \notin 1..m /\ (m + 1) - 1 = m
      /\ 1..(m + 1) \ {m + 1} = 1..m
  OBVIOUS
<1>3. /\ Total(q, 1..m, m + 1) \in Nat
      /\ Total(q, 1..(m + 1), m + 1) = q[m + 1] + Total(q, 1..m, m + 1)
  <2> DEFINE n == m + 1
             t == 1..n
  <2>1. n \in Nat /\ n \in 1..n /\ n \in t /\ \A i \in 1..n : q[i] \in Nat
    BY <1>2
  <2>2. t \ {n} = 1..m
    BY <1>2
  <2> HIDE DEF n, t
  <2>3. /\ Total(q, t \ {n}, n) \in Nat
        /\ Total(q, t, n) = q[n] + Total(q, t \ {n}, n)
    BY Zenon, <2>1, TotalRemove
  <2> QED BY Zenon, <2>2, <2>3 DEF n, t
<1>4. PICK g : Partial(g, p, 1..m, m)
  BY Zenon, PartialExists
<1>5. PICK h : Partial(h, q, 1..m, m + 1)
  BY Zenon, <1>2, PartialExists
<1>6. g[m] = h[m]
  BY <1>2, <1>4, <1>5, PartialUnique
<1>7. h[m + 1] = h[m] + 0
  BY <1>2, <1>5, PartialLast
<1>8. Total(p, 1..m, m) = g[m] /\ Total(q, 1..m, m + 1) = h[m + 1]
  BY <1>2, <1>4, <1>5, TotalIs
<1>9. h[m] \in Nat
  <2>1. \A i \in 0..(m + 1) : h[i] \in Nat
    BY Zenon, <1>2, <1>5, PartialTyped
  <2> QED BY <2>1
<1> QED BY <1>1, <1>3, <1>6, <1>7, <1>8, <1>9

LEMMA SumAppend ==
    ASSUME NEW p \in Seq(Nat), NEW x \in Nat
    PROVE  /\ SumFunction(p) \in Nat
           /\ SumFunction(Append(p, x)) = SumFunction(p) + x
<1> DEFINE m == Len(p)
           q == Append(p, x)
<1>1. /\ m \in Nat /\ DOMAIN p = 1..m /\ DOMAIN q = 1..(m + 1)
      /\ q[m + 1] = x /\ \A i \in 1..m : p[i] = q[i]
  OBVIOUS
<1>2. \A i \in 1..(m + 1) : q[i] \in Nat
  OBVIOUS
<1> HIDE DEF m, q
<1>3. SumFunction(p) \in Nat /\ SumFunction(q) = SumFunction(p) + q[m + 1]
  BY Zenon, <1>1, <1>2, SumExtend
<1> QED BY <1>1, <1>3 DEF q

LEMMA SumNat ==
    ASSUME NEW p \in Seq(Nat)
    PROVE  SumFunction(p) \in Nat
  BY SumAppend, 0 \in Nat

\* The sum of the first i.
SumOf(p, i) == SumFunction(SubSeq(p, 1, i))

LEMMA SumPrefix ==
    ASSUME NEW p \in Seq(Nat)
    PROVE  /\ SumOf(p, 0) = 0
           /\ SumOf(p, Len(p)) = SumFunction(p)
           /\ \A i \in 0..Len(p) : SumOf(p, i) \in Nat
           /\ \A i \in 0 .. Len(p) - 1 : SumOf(p, i + 1) = SumOf(p, i) + p[i + 1]
<1>1. SubSeq(p, 1, 0) = <<>> /\ SubSeq(p, 1, Len(p)) = p
  OBVIOUS
<1>2. \A i \in 0..Len(p) : SubSeq(p, 1, i) \in Seq(Nat)
  OBVIOUS
<1>3. ASSUME NEW i \in 0 .. Len(p) - 1
      PROVE  SumOf(p, i + 1) = SumOf(p, i) + p[i + 1]
  <2>1. SubSeq(p, 1, i + 1) = Append(SubSeq(p, 1, i), p[i + 1])
    OBVIOUS
  <2>2. SubSeq(p, 1, i) \in Seq(Nat) /\ p[i + 1] \in Nat
    OBVIOUS
  <2> QED BY Zenon, <2>1, <2>2, SumAppend DEF SumOf
<1> QED BY Zenon, <1>1, <1>2, <1>3, SumEmpty, SumNat DEF SumOf

LEMMA SumMono ==
    ASSUME NEW p \in Seq(Nat), NEW i \in 0..Len(p)
    PROVE  \A j \in i..Len(p) : SumOf(p, i) <= SumOf(p, j)
<1> DEFINE S == {d \in Nat : i + d \in 0..Len(p) => SumOf(p, i) <= SumOf(p, i + d)}
<1>1. 0 \in S
  BY SumPrefix
<1>2. ASSUME NEW d \in Nat, d \in S PROVE d + 1 \in S
  <2> SUFFICES ASSUME i + (d + 1) \in 0..Len(p)
               PROVE  SumOf(p, i) <= SumOf(p, i + (d + 1))
    BY d + 1 \in Nat
  <2>1. i + d \in 0..(Len(p) - 1) /\ i + d \in 0..Len(p) /\ i + (d + 1) = (i + d) + 1
    OBVIOUS
  <2>2. SumOf(p, (i + d) + 1) = SumOf(p, i + d) + p[(i + d) + 1]
    BY <2>1, SumPrefix
  <2>3. p[(i + d) + 1] \in Nat
    BY <2>1
  <2>4. SumOf(p, i) \in Nat /\ SumOf(p, i + d) \in Nat
    BY <2>1, SumPrefix
  <2>5. SumOf(p, i) <= SumOf(p, i + d)
    BY <1>2, <2>1
  <2> QED BY <2>1, <2>2, <2>3, <2>4, <2>5
<1> HIDE DEF S
<1>3. \A d \in Nat : d \in S
  BY Zenon, <1>1, <1>2, SetInduction
<1>4. ASSUME NEW j \in i..Len(p) PROVE SumOf(p, i) <= SumOf(p, j)
  <2>1. j - i \in Nat /\ i + (j - i) = j /\ j \in 0..Len(p)
    OBVIOUS
  <2>2. j - i \in S
    BY <1>3, <2>1
  <2> QED BY <2>1, <2>2 DEF S
<1> QED BY <1>4

LEMMA SumSame ==
    ASSUME NEW n \in Nat
    PROVE  \A k \in Nat : SumFunction(Same(n, k)) = n * k
<1> DEFINE S == {k \in Nat : SumFunction(Same(n, k)) = n * k}
<1>1. 0 \in S
  <2>1. Same(n, 0) = <<>>
    BY DEF Same
  <2> QED BY <2>1, SumEmpty
<1>2. ASSUME NEW k \in Nat, k \in S PROVE k + 1 \in S
  <2>1. Same(n, k) \in Seq(Nat)
    BY DEF Same
  <2>2. Same(n, k + 1) = Append(Same(n, k), n)
    BY DEF Same
  <2>3. SumFunction(Same(n, k + 1)) = n * k + n
    BY Zenon, <1>2, <2>1, <2>2, SumAppend
  <2> QED BY <2>3
<1> HIDE DEF S
<1>3. \A k \in Nat : k \in S
  BY <1>1, <1>2, SetInduction
<1> QED BY <1>3 DEF S

-----------------------------------------------------------------------------
(* Putting sequences together.                                             *)
\* The recursive function inside FlattenSeq, up to m.
Flattens(f, ss, m) ==
    f = [i \in 1..m |-> IF i = 1 THEN ss[i] ELSE f[i - 1] \o ss[i]]

LEMMA FlattensAt ==
    ASSUME NEW f, NEW ss, NEW m, Flattens(f, ss, m)
    PROVE  \A i \in 1..m : f[i] = IF i = 1 THEN ss[i] ELSE f[i - 1] \o ss[i]
  BY Zenon DEF Flattens

LEMMA FlattensExists ==
    ASSUME NEW ss
    PROVE  \A m \in Nat : \E f : Flattens(f, ss, m)
<1> DEFINE S == {m \in Nat : \E f : Flattens(f, ss, m)}
<1>1. 0 \in S
  <2> DEFINE f == [i \in 1..0 |-> ss[i]]
  <2>1. Flattens(f, ss, 0)
    BY DEF Flattens
  <2> QED BY <2>1
<1>2. ASSUME NEW m \in Nat, m \in S PROVE m + 1 \in S
  <2>1. PICK f : Flattens(f, ss, m)
    BY <1>2
  <2> DEFINE g == [i \in 1..(m + 1) |->
                     IF i = 1 THEN ss[i]
                     ELSE (IF i = m + 1 THEN f[m] ELSE f[i - 1]) \o ss[i]]
  <2>2. \A i \in 1..m : f[i] = IF i = 1 THEN ss[i] ELSE f[i - 1] \o ss[i]
    BY <2>1, FlattensAt
  <2>3. \A i \in 1..m : g[i] = f[i]
    BY <2>2
  <2>4. g = [i \in 1..(m + 1) |-> IF i = 1 THEN ss[i] ELSE g[i - 1] \o ss[i]]
    <3>1. \A i \in 1..(m + 1) : g[i] = IF i = 1 THEN ss[i] ELSE g[i - 1] \o ss[i]
      <4> SUFFICES ASSUME NEW i \in 1..(m + 1), i # 1 PROVE g[i] = g[i - 1] \o ss[i]
        BY Zenon
      <4>1. i - 1 \in 1..m
        OBVIOUS
      <4>2. g[i] = (IF i = m + 1 THEN f[m] ELSE f[i - 1]) \o ss[i]
        BY Zenon
      <4>3. i = m + 1 => f[m] = f[i - 1]
        OBVIOUS
      <4> HIDE DEF g
      <4> QED BY Zenon, <2>3, <4>1, <4>2, <4>3
    <3> HIDE DEF g
    <3>2. g = [i \in 1..(m + 1) |-> g[i]]
      BY DEF g
    <3> QED BY Zenon, <3>1, <3>2
  <2> HIDE DEF g
  <2>5. Flattens(g, ss, m + 1)
    BY Zenon, <2>4 DEF Flattens
  <2> QED BY <2>5
<1> HIDE DEF S
<1>3. \A m \in Nat : m \in S
  BY <1>1, <1>2, SetInduction
<1> QED BY <1>3 DEF S

LEMMA FlattensUnique ==
    ASSUME NEW ss, NEW tt, NEW m \in Nat, NEW n \in Nat, m <= n,
           \A i \in 1..m : ss[i] = tt[i],
           NEW f, NEW g, Flattens(f, ss, m), Flattens(g, tt, n)
    PROVE  \A i \in 1..m : f[i] = g[i]
<1> DEFINE S == {i \in Nat : i \in 1..m => f[i] = g[i]}
<1>1. \A i \in 1..m : f[i] = IF i = 1 THEN ss[i] ELSE f[i - 1] \o ss[i]
  BY FlattensAt
<1>2. \A i \in 1..m : g[i] = IF i = 1 THEN tt[i] ELSE g[i - 1] \o tt[i]
  BY FlattensAt
<1>3. 0 \in S
  OBVIOUS
<1>4. ASSUME NEW i \in Nat, i \in S PROVE i + 1 \in S
  <2> SUFFICES ASSUME i + 1 \in 1..m PROVE f[i + 1] = g[i + 1]
    OBVIOUS
  <2>1. CASE i = 0
    BY <1>1, <1>2, <2>1
  <2>2. CASE i # 0
    <3>1. f[i] = g[i] /\ i + 1 # 1 /\ (i + 1) - 1 = i
      BY <1>4, <2>2
    <3>2. f[i + 1] = f[i] \o ss[i + 1] /\ g[i + 1] = g[i] \o tt[i + 1]
      BY Zenon, <1>1, <1>2, <3>1
    <3> QED BY Zenon, <3>1, <3>2
  <2> QED BY <2>1, <2>2
<1> HIDE DEF S
<1>5. \A i \in Nat : i \in S
  BY <1>3, <1>4, SetInduction
<1> QED BY <1>5 DEF S

LEMMA FlattenEmpty == FlattenSeq(<<>>) = <<>>
  BY DEF FlattenSeq

LEMMA FlattenMeans ==
    ASSUME NEW ss, Len(ss) \in Nat, Len(ss) # 0
    PROVE  \E f : Flattens(f, ss, Len(ss)) /\ FlattenSeq(ss) = f[Len(ss)]
<1> DEFINE f == CHOOSE f : Flattens(f, ss, Len(ss))
<1>1. Flattens(f, ss, Len(ss))
  BY FlattensExists, Zenon
<1>2. FlattenSeq(ss) = f[Len(ss)]
  BY Zenon DEF FlattenSeq, Flattens
<1> QED BY Zenon, <1>1, <1>2

(* FlattenSeq builds its value one element after another: f[n] is the       *)
(* concatenation of the first n.                                            *)
Building(f, ss, S) ==
    /\ f[0] = <<>>
    /\ \A n \in 1..Len(ss) : f[n] = f[n - 1] \o ss[n]
    /\ \A n \in 0..Len(ss) : f[n] \in Seq(S)
    /\ FlattenSeq(ss) = f[Len(ss)]

LEMMA FlattenBuilding ==
    ASSUME NEW S, NEW ss \in Seq(Seq(S))
    PROVE  \E f : Building(f, ss, S)
<1> DEFINE m == Len(ss)
<1>1. m \in Nat /\ \A n \in 1..m : ss[n] \in Seq(S)
  OBVIOUS
<1>2. CASE m = 0
  <2> DEFINE f == [n \in {0} |-> <<>>]
  <2>1. ss = <<>> /\ f[0] = <<>> /\ <<>> \in Seq(S)
    BY <1>1, <1>2
  <2>2. FlattenSeq(ss) = f[0]
    BY <2>1, FlattenEmpty
  <2> HIDE DEF f
  <2>3. /\ \A n \in 1..Len(ss) : f[n] = f[n - 1] \o ss[n]
        /\ \A n \in 0..Len(ss) : f[n] \in Seq(S)
    <3>1. \A n \in 0..Len(ss) : n = 0
      BY <1>2
    <3>2. f[0] \in Seq(S)
      BY <2>1
    <3>3. \A n \in 1..Len(ss) : FALSE
      BY <1>2
    <3> QED BY Zenon, <3>1, <3>2, <3>3
  <2>4. FlattenSeq(ss) = f[Len(ss)]
    BY <1>2, <2>2
  <2>5. Building(f, ss, S)
    BY <2>1, <2>3, <2>4 DEF Building
  <2> QED BY <2>5
<1>3. CASE m # 0
  <2>1. PICK h : Flattens(h, ss, m) /\ FlattenSeq(ss) = h[m]
    BY <1>1, <1>3, FlattenMeans
  <2>2. \A n \in 1..m : h[n] = IF n = 1 THEN ss[n] ELSE h[n - 1] \o ss[n]
    BY <2>1, FlattensAt
  <2> HIDE DEF m
  <2> DEFINE f == [n \in 0..m |-> IF n = 0 THEN <<>> ELSE h[n]]
  <2>3. f[0] = <<>> /\ \A n \in 1..m : f[n] = h[n]
    BY <1>1
  <2> HIDE DEF f
  <2>4. \A n \in 1..m : f[n] = f[n - 1] \o ss[n]
    <3> SUFFICES ASSUME NEW n \in 1..m PROVE f[n] = f[n - 1] \o ss[n]
      BY Zenon
    <3>1. CASE n = 1
      <4>1. ss[1] \in Seq(S) /\ <<>> \o ss[1] = ss[1]
        BY <1>1, <3>1
      <4>2. f[1] = ss[1] /\ f[1 - 1] = <<>>
        BY <2>2, <2>3, <3>1
      <4> QED BY <3>1, <4>1, <4>2
    <3>2. CASE n # 1
      <4>1. n - 1 \in 1..m
        BY <1>1, <3>2
      <4> QED BY Zenon, <2>2, <2>3, <3>2, <4>1
    <3> QED BY Zenon, <3>1, <3>2
  <2> DEFINE T == {n \in Nat : n \in 0..m => f[n] \in Seq(S)}
  <2>5. 0 \in T
    <3>1. <<>> \in Seq(S)
      OBVIOUS
    <3> QED BY Zenon, <2>3, <3>1
  <2>6. ASSUME NEW n \in Nat, n \in T PROVE n + 1 \in T
    <3> SUFFICES ASSUME n + 1 \in 0..m PROVE f[n + 1] \in Seq(S)
      OBVIOUS
    <3>1. n \in 0..m /\ n + 1 \in 1..m /\ (n + 1) - 1 = n
      BY <1>1
    <3>2. f[n + 1] = f[n] \o ss[n + 1]
      BY Zenon, <2>4, <3>1
    <3>3. f[n] \in Seq(S) /\ ss[n + 1] \in Seq(S)
      BY <1>1, <2>6, <3>1
    <3> QED BY <3>2, <3>3
  <2> HIDE DEF T
  <2>7. \A n \in Nat : n \in T
    BY Zenon, <2>5, <2>6, SetInduction
  <2>8. \A n \in 0..m : f[n] \in Seq(S)
    BY <1>1, <2>7 DEF T
  <2>9. FlattenSeq(ss) = f[m]
    <3>1. m \in 1..m
      BY <1>1, <1>3
    <3> QED BY <2>1, <2>3, <3>1
  <2>10. Building(f, ss, S)
    BY Zenon, <2>3, <2>4, <2>8, <2>9 DEF Building, m
  <2> QED BY <2>10
<1> QED BY <1>2, <1>3

LEMMA FlattenType ==
    ASSUME NEW S, NEW ss \in Seq(Seq(S))
    PROVE  FlattenSeq(ss) \in Seq(S)
<1>1. PICK f : Building(f, ss, S)
  BY FlattenBuilding
<1>2. Len(ss) \in 0..Len(ss)
  OBVIOUS
<1> QED BY <1>1, <1>2 DEF Building

LEMMA SeqWiden ==
    ASSUME NEW A, NEW B, A \subseteq B
    PROVE  Seq(A) \subseteq Seq(B)
<1> SUFFICES ASSUME NEW q \in Seq(A) PROVE q \in Seq(B)
  OBVIOUS
<1>1. \A i \in 1..Len(q) : q[i] \in A
  OBVIOUS
<1>2. \A i \in 1..Len(q) : q[i] \in B
  BY <1>1
<1> QED BY <1>2

LEMMA SliceType ==
    ASSUME NEW S, NEW d \in Seq(S), NEW a \in Nat \ {0}, NEW b \in Int, b <= Len(d)
    PROVE  SubSeq(d, a, b) \in Seq(S)
<1>1. \A i \in a..b : d[i] \in S
  OBVIOUS
<1> QED BY <1>1

LEMMA RestType ==
    ASSUME NEW S, NEW d \in Seq(S), NEW a \in Nat \ {0}
    PROVE  SubSeq(d, a, Len(d)) \in Seq(S)
  BY SliceType

LEMMA ConcatThree ==
    ASSUME NEW x \in Seq(Int), NEW y \in Seq(Int), NEW z \in Seq(Int)
    PROVE  /\ x \o y \o z \in Seq(Int)
           /\ Len(x) \in Nat /\ Len(y) \in Nat /\ Len(z) \in Nat
           /\ Len(x \o y \o z) = Len(x) + Len(y) + Len(z)
           /\ x \o <<>> \o z = x \o z /\ Len(x \o z) = Len(x) + Len(z)
<1>1. \A a, b \in Seq(Int) : a \o b \in Seq(Int) /\ Len(a \o b) = Len(a) + Len(b)
  OBVIOUS
<1>2. x \o <<>> = x
  OBVIOUS
<1>3. x \o y \in Seq(Int) /\ Len(x \o y) = Len(x) + Len(y) /\ Len(x \o z) = Len(x) + Len(z)
  BY <1>1, Zenon
<1>4. x \o y \o z \in Seq(Int) /\ Len(x \o y \o z) = Len(x \o y) + Len(z)
  BY <1>1, <1>3, Zenon
<1>5. Len(x \o y \o z) = Len(x) + Len(y) + Len(z)
  BY <1>3, <1>4, Zenon
<1>6. Len(x) \in Nat /\ Len(y) \in Nat /\ Len(z) \in Nat
  OBVIOUS
<1>7. x \o <<>> \o z = x \o z
  BY <1>2, Zenon
<1> QED BY <1>3, <1>4, <1>5, <1>6, <1>7, Zenon

LEMMA FlattenOne ==
    ASSUME NEW S, NEW q \in Seq(S)
    PROVE  FlattenSeq(<<q>>) = q
<1>1. <<q>> \in Seq(Seq(S)) /\ Len(<<q>>) = 1 /\ <<q>>[1] = q
  OBVIOUS
<1>2. PICK f : Building(f, <<q>>, S)
  BY Zenon, <1>1, FlattenBuilding
<1>3. f[0] = <<>> /\ f[1] = f[0] \o <<q>>[1] /\ FlattenSeq(<<q>>) = f[1]
  <2>1. 1 \in 1..Len(<<q>>) /\ 1 - 1 = 0
    BY <1>1
  <2> QED BY Zenon, <1>1, <1>2, <2>1 DEF Building
<1> QED BY <1>1, <1>3

LEMMA FlattenAppend ==
    ASSUME NEW S, NEW ss \in Seq(Seq(S)), NEW x \in Seq(S)
    PROVE  FlattenSeq(Append(ss, x)) = FlattenSeq(ss) \o x
<1> DEFINE m == Len(ss)
           tt == Append(ss, x)
<1>1. /\ m \in Nat /\ tt \in Seq(Seq(S)) /\ Len(tt) = m + 1 /\ tt[m + 1] = x
      /\ \A i \in 1..m : tt[i] = ss[i]
  OBVIOUS
<1>2. PICK f : Building(f, tt, S)
  BY Zenon, <1>1, FlattenBuilding
<1>3. PICK g : Building(g, ss, S)
  BY FlattenBuilding
<1> HIDE DEF m, tt
<1>4. /\ f[0] = <<>> /\ \A n \in 1 .. m + 1 : f[n] = f[n - 1] \o tt[n]
      /\ FlattenSeq(tt) = f[m + 1]
  BY Zenon, <1>1, <1>2 DEF Building
<1>5. /\ g[0] = <<>> /\ \A n \in 1 .. m : g[n] = g[n - 1] \o ss[n]
      /\ FlattenSeq(ss) = g[m]
  BY Zenon, <1>3 DEF Building, m
<1> DEFINE T == {n \in Nat : n \in 0..m => f[n] = g[n]}
<1>6. 0 \in T
  BY <1>4, <1>5
<1>7. ASSUME NEW n \in Nat, n \in T PROVE n + 1 \in T
  <2> SUFFICES ASSUME n + 1 \in 0..m PROVE f[n + 1] = g[n + 1]
    BY n + 1 \in Nat
  <2>1. n \in 0..m /\ n + 1 \in 1..m /\ n + 1 \in 1 .. m + 1 /\ (n + 1) - 1 = n
    BY <1>1
  <2>2. f[n + 1] = f[(n + 1) - 1] \o tt[n + 1] /\ g[n + 1] = g[(n + 1) - 1] \o ss[n + 1]
    BY <1>4, <1>5, <2>1, Zenon
  <2>3. f[n] = g[n] /\ tt[n + 1] = ss[n + 1]
    BY <1>1, <1>7, <2>1
  <2> QED BY <2>1, <2>2, <2>3, Zenon
<1> HIDE DEF T
<1>8. \A n \in Nat : n \in T
  BY Zenon, <1>6, <1>7, SetInduction
<1>9. f[m] = g[m]
  <2>1. m \in 0..m /\ m \in T
    BY <1>1, <1>8
  <2> QED BY <2>1 DEF T
<1>10. f[m + 1] = f[m] \o x
  <2>1. m + 1 \in 1 .. m + 1 /\ (m + 1) - 1 = m
    BY <1>1
  <2>2. f[m + 1] = f[(m + 1) - 1] \o tt[m + 1]
    BY <1>4, <2>1, Zenon
  <2> QED BY <1>1, <2>1, <2>2, Zenon
<1> QED BY <1>4, <1>5, <1>9, <1>10, Zenon DEF tt

-----------------------------------------------------------------------------
(* FoldLeft over 1..n takes the largest index first and recurses; seen     *)
(* from the other end it is a sequence of steps.  The folds of the model   *)
(* are steps of one of these kinds, in a context c; c.q is <<1, 2, ... n>>. *)
Moved(r, from, p, i) ==
    [mem |-> Write(r.mem, r.ptr, SubSeq(r.mem, from + FrameAt(p, i) - 1,
                                        from + FrameAt(p, i) + p.size[i] - 2)),
     ptr |-> r.ptr + p.size[i]]

Upto(n) == [i \in 1..n |-> i]

Step(kind, c, r, i) ==
  CASE kind = "sizes" -> OneMore(r, ParseSize(c, r.at, r.left))
    [] kind = "walk" ->
         WalkPart(r, c.q[i], SubSeq(c.d, r.at, Len(c.d)), c.l.streams)
    [] OTHER -> Moved(r, c.from, c.p, c.q[i])

Folds(f, kind, c, base, n) ==
    f = [u \in SUBSET (1..n) |->
           IF u = {} THEN base ELSE Step(kind, c, f[u \ {Max(u)}], Max(u))]

\* The results after 0, 1, ... n steps.
StepsOf(w, kind, c, base, n) ==
    /\ w[0] = base
    /\ \A k \in 1..n : w[k] = Step(kind, c, w[k - 1], k)

LEMMA MaxOfAll ==
    ASSUME NEW k \in Nat, NEW u, k \in u, \A y \in u : y \in Int /\ k >= y
    PROVE  Max(u) = k
<1>1. \A y \in u : y \in Int /\ k >= y
  OBVIOUS
<1>2. \E x \in u : \A y \in u : x >= y
  BY <1>1
<1>3. Max(u) \in u /\ \A y \in u : Max(u) >= y
  BY <1>2, Zenon DEF Max
<1> DEFINE x == Max(u)
<1>4. x \in u /\ \A y \in u : x >= y
  BY <1>3
<1> HIDE DEF x
<1>5. x = k
  BY <1>1, <1>4
<1> QED BY <1>5 DEF x

LEMMA FoldsExists ==
    ASSUME NEW kind, NEW c, NEW base
    PROVE  \A n \in Nat : \E f : Folds(f, kind, c, base, n)
<1> DEFINE S == {n \in Nat : \E f : Folds(f, kind, c, base, n)}
<1>1. 0 \in S
  <2> DEFINE f == [u \in SUBSET (1..0) |-> base]
  <2>1. \A u \in SUBSET (1..0) : u = {}
    OBVIOUS
  <2>2. Folds(f, kind, c, base, 0)
    BY <2>1 DEF Folds
  <2> QED BY <2>2
<1>2. ASSUME NEW n \in Nat, n \in S PROVE n + 1 \in S
  <2> DEFINE m == n + 1
  <2>1. PICK h : Folds(h, kind, c, base, n)
    BY <1>2
  <2> DEFINE f == [u \in SUBSET (1..m) |->
                     IF m \in u THEN Step(kind, c, h[u \ {m}], m) ELSE h[u]]
  <2>2. m \in Nat /\ m \notin 1..n /\ 1..n \subseteq 1..m /\ 1..m = (1..n) \cup {m}
    OBVIOUS
  <2> HIDE DEF m
  <2>3. \A u \in SUBSET (1..n) : h[u] =
          IF u = {} THEN base ELSE Step(kind, c, h[u \ {Max(u)}], Max(u))
    BY <2>1, Zenon DEF Folds
  <2>4. ASSUME NEW u \in SUBSET (1..m)
        PROVE  f[u] = IF u = {} THEN base
                      ELSE Step(kind, c, f[u \ {Max(u)}], Max(u))
    <3>1. CASE m \in u
      <4>1. Max(u) = m
        <5>1. \A y \in u : y \in Int /\ m >= y
          BY <2>2 DEF m
        <5> QED BY Zenon, <2>2, <3>1, <5>1, MaxOfAll
      <4>2. u \ {m} \in SUBSET (1..m) /\ m \notin u \ {m} /\ u # {}
        BY <3>1
      <4>3. f[u \ {m}] = h[u \ {m}]
        BY <4>2
      <4>4. f[u] = Step(kind, c, h[u \ {m}], m)
        BY <3>1
      <4> QED BY <4>1, <4>2, <4>3, <4>4
    <3>2. CASE m \notin u
      <4>1. u \in SUBSET (1..n) /\ f[u] = h[u]
        BY <2>2, <3>2
      <4>2. u \ {Max(u)} \in SUBSET (1..m) /\ m \notin u \ {Max(u)}
        BY Zenon, <3>2
      <4>3. f[u \ {Max(u)}] = h[u \ {Max(u)}]
        BY <4>2
      <4> QED BY Zenon, <2>3, <4>1, <4>3
    <3> QED BY <3>1, <3>2
  <2>5. f = [u \in SUBSET (1..m) |-> f[u]]
    OBVIOUS
  <2> HIDE DEF f
  <2>6. Folds(f, kind, c, base, m)
    BY Zenon, <2>4, <2>5 DEF Folds
  <2> QED BY <2>2, <2>6 DEF m
<1> HIDE DEF S
<1>3. \A n \in Nat : n \in S
  BY <1>1, <1>2, SetInduction
<1> QED BY <1>3 DEF S

LEMMA FoldsSteps ==
    ASSUME NEW kind, NEW c, NEW base, NEW n \in Nat, NEW f, Folds(f, kind, c, base, n)
    PROVE  \E w : StepsOf(w, kind, c, base, n) /\ f[1..n] = w[n]
<1> DEFINE w == [k \in 0..n |-> f[1..k]]
<1>1. \A u \in SUBSET (1..n) : f[u] =
        IF u = {} THEN base ELSE Step(kind, c, f[u \ {Max(u)}], Max(u))
  BY Zenon DEF Folds
<1>2. w[0] = base
  <2>1. 1..0 = {} /\ {} \in SUBSET (1..n) /\ 0 \in 0..n
    OBVIOUS
  <2>2. f[{}] = base
    BY Zenon, <1>1, <2>1
  <2> QED BY <2>1, <2>2
<1>3. ASSUME NEW k \in 1..n PROVE w[k] = Step(kind, c, w[k - 1], k)
  <2> DEFINE u == 1..k
  <2>1. /\ k \in Nat /\ k \in u /\ (\A y \in u : y \in Int /\ k >= y)
        /\ u \in SUBSET (1..n)
        /\ u # {} /\ u \ {k} = 1..(k - 1) /\ k \in 0..n /\ k - 1 \in 0..n
    <3>1. k \in Nat /\ k \in u /\ k \in 0..n /\ k - 1 \in 0..n
      OBVIOUS
    <3>2. (\A y \in u : y \in Int /\ k >= y) /\ u \in SUBSET (1..n)
      OBVIOUS
    <3>3. u \ {k} = 1..(k - 1)
      OBVIOUS
    <3> QED BY <3>1, <3>2, <3>3
  <2>2. w[k] = f[u] /\ w[k - 1] = f[1..(k - 1)]
    BY <2>1
  <2> HIDE DEF u, w
  <2>3. Max(u) = k
    BY <2>1, MaxOfAll
  <2>4. f[u] = Step(kind, c, f[u \ {k}], k)
    BY <1>1, <2>1, <2>3
  <2> QED BY Zenon, <2>1, <2>2, <2>4
<1>4. f[1..n] = w[n]
  OBVIOUS
<1> HIDE DEF w
<1> QED BY <1>2, <1>3, <1>4 DEF StepsOf

-----------------------------------------------------------------------------
(* Taking a packet apart.                                                  *)
LEMMA ByteFacts ==
    /\ Byte \in Nat \ {0} /\ Byte >= 16 /\ Byte % 4 = 0
    /\ MaxDuration \in Nat \ {0}
    /\ MaxFrame \in Nat /\ Chunk \in Nat \ {0} /\ Chunk - 1 \in Nat
    /\ Escape \in Nat \ {0} /\ MaxFrame = 5 * (Byte - 1)
<1>1. Byte \in Nat \ {0} /\ Byte >= 16 /\ Byte % 4 = 0
  BY PacketAssumption
<1>2. MaxDuration \in Nat \ {0}
  <2>1. 0 \in DOMAIN Duration
    BY <1>1, PacketAssumption
  <2> QED BY <2>1, PacketAssumption
<1> QED BY <1>1, <1>2 DEF MaxFrame, Chunk, Escape

LEMMA ValueRange ==
    ASSUME NEW b \in Int
    PROVE  Value(b) \in 0 .. Byte - 1
  BY ByteFacts DEF Value

LEMMA TocFacts ==
    ASSUME NEW b \in Int
    PROVE  /\ Code(b) \in 0..3
           /\ Config(b) \in DOMAIN Duration
           /\ Duration[Config(b)] \in Nat \ {0}
           /\ 2 * Duration[Config(b)] <= MaxDuration
           /\ Plain(b) \in Int
<1>1. Value(b) \in 0 .. Byte - 1
  BY ValueRange
<1>2. Code(b) \in 0..3 /\ Plain(b) \in Int
  BY <1>1 DEF Code, Plain
<1>3. Config(b) \in 0 .. Byte \div 4 - 1
  <2> DEFINE v == Value(b)
  <2>1. v \in 0 .. Byte - 1
    BY <1>1
  <2> HIDE DEF v
  <2>2. v \div 4 \in 0 .. Byte \div 4 - 1
    BY <2>1, ByteFacts
  <2> QED BY <2>2 DEF Config, v
<1> QED BY <1>2, <1>3, PacketAssumption

LEMMA CountFacts ==
    ASSUME NEW ch \in 0 .. Byte - 1
    PROVE  CountOf(ch) \in Nat /\ CountOf(ch) < Byte \div 4
<1>1. Byte \div 4 \in Nat \ {0}
  BY ByteFacts
<1> DEFINE b == Byte \div 4
<1>2. ch \in Int
  BY ByteFacts
<1> HIDE DEF b
<1>3. ch % b \in Nat /\ ch % b < b
  BY <1>1, <1>2 DEF b
<1> QED BY <1>3 DEF CountOf, b

LEMMA EncodeSizeType ==
    ASSUME NEW n \in Nat
    PROVE  EncodeSize(n) \in Seq(Nat) /\ Len(EncodeSize(n)) = IF n < Escape THEN 1 ELSE 2
<1>1. CASE n < Escape
  BY <1>1 DEF EncodeSize
<1>2. CASE ~ (n < Escape)
  <2> DEFINE first == Escape + (n % 4)
  <2>1. EncodeSize(n) = <<first, (n - first) \div 4>>
    BY <1>2 DEF EncodeSize
  <2>2. Escape \in Nat /\ Escape % 4 = 0 /\ n % 4 \in Nat /\ n % 4 <= n - Escape
    <3>1. Byte \in Nat /\ Byte % 4 = 0 /\ Escape = Byte - 4 /\ Escape \in Nat
      BY ByteFacts DEF Escape
    <3>2. Escape % 4 = 0
      BY <3>1
    <3> HIDE DEF Escape
    <3>3. n % 4 \in Nat /\ n % 4 <= n - Escape
      BY <1>2, <3>1, <3>2
    <3> QED BY <3>1, <3>2, <3>3
  <2>3. first \in Nat /\ (n - first) \div 4 \in Nat
    <3> HIDE DEF Escape
    <3>1. n - first \in Nat /\ first \in Nat
      BY <2>2
    <3> HIDE DEF first
    <3> QED BY <3>1
  <2> HIDE DEF first
  <2>4. EncodeSize(n) \in Seq(Nat) /\ Len(EncodeSize(n)) = 2
    BY <2>1, <2>3
  <2> QED BY <1>2, <2>4
<1> QED BY <1>1, <1>2

LEMMA AllSizesType ==
    ASSUME NEW size \in Seq(Nat), NEW n \in 0..Len(size)
    PROVE  AllSizes(size, n) \in Seq(Int)
<1>1. \A i \in 1..n : EncodeSize(size[i]) \in Seq(Int)
  <2>1. ASSUME NEW i \in 1..n PROVE EncodeSize(size[i]) \in Seq(Int)
    <3>1. size[i] \in Nat
      OBVIOUS
    <3>2. EncodeSize(size[i]) \in Seq(Nat)
      BY Zenon, <3>1, EncodeSizeType
    <3>3. Seq(Nat) \subseteq Seq(Int)
      BY SeqWiden
    <3> QED BY <3>2, <3>3
  <2> QED BY <2>1
<1>2. [i \in 1..n |-> EncodeSize(size[i])] \in Seq(Seq(Int))
  <2>1. n \in Nat
    OBVIOUS
  <2> QED BY <1>1, <2>1
<1> QED BY Zenon, <1>2, FlattenType DEF AllSizes

LEMMA AllSizesNone ==
    ASSUME NEW size
    PROVE  AllSizes(size, 0) = <<>>
<1>1. [i \in 1..0 |-> EncodeSize(size[i])] = <<>>
  OBVIOUS
<1> QED BY <1>1, FlattenEmpty, Zenon DEF AllSizes

\* One size more, whatever stands behind it.
LEMMA AllSizesMore ==
    ASSUME NEW k \in Nat, NEW p \in Seq(Nat), NEW q \in Seq(Nat),
           Len(p) >= k, Len(q) >= k + 1, \A i \in 1..k : p[i] = q[i]
    PROVE  /\ AllSizes(p, k) = AllSizes(q, k)
           /\ AllSizes(q, k + 1) = AllSizes(p, k) \o EncodeSize(q[k + 1])
<1> DEFINE E(n) == EncodeSize(n)
           ss == [i \in 1..k |-> E(p[i])]
           tt == [i \in 1..(k + 1) |-> E(q[i])]
           uu == [i \in 1..k |-> E(q[i])]
<1>1. \A n \in Nat : E(n) \in Seq(Int)
  <2>1. Seq(Nat) \subseteq Seq(Int)
    BY SeqWiden
  <2> QED BY <2>1, EncodeSizeType
<1>2. q[k + 1] \in Nat /\ \A i \in 1..k : p[i] \in Nat
  OBVIOUS
<1> HIDE DEF E
<1>3. ss \in Seq(Seq(Int)) /\ E(q[k + 1]) \in Seq(Int)
  <2>1. \A i \in 1..k : E(p[i]) \in Seq(Int)
    BY Zenon, <1>1, <1>2
  <2>2. ss \in Seq(Seq(Int))
    <3>1. k \in Nat /\ \A i \in 1..k : EncodeSize(p[i]) \in Seq(Int)
      BY <2>1 DEF E
    <3>2. [i \in 1..k |-> EncodeSize(p[i])] \in Seq(Seq(Int))
      BY <3>1
    <3> QED BY <3>2 DEF E
  <2>3. E(q[k + 1]) \in Seq(Int)
    BY Zenon, <1>1, <1>2
  <2> QED BY <2>2, <2>3
<1>4. tt = Append(ss, E(q[k + 1])) /\ uu = ss
  BY SMTT(30)
<1>5. FlattenSeq(tt) = FlattenSeq(ss) \o E(q[k + 1])
  BY Zenon, <1>3, <1>4, FlattenAppend
<1>6. AllSizes(p, k) = FlattenSeq(ss) /\ AllSizes(q, k + 1) = FlattenSeq(tt)
      /\ AllSizes(q, k) = FlattenSeq(uu)
  BY DEF AllSizes, E
<1> QED BY Zenon, <1>4, <1>5, <1>6 DEF E

\* A size that was read, or none.
SizeRead(z, left) ==
    \/ z.size = -1 /\ z.bytes = -1
    \/ /\ z.size \in 0..MaxFrame /\ z.bytes \in 1..2 /\ z.bytes <= left
       /\ z.bytes = Len(EncodeSize(z.size))

LEMMA ParseSizeReads ==
    ASSUME NEW d \in Seq(Int), NEW a \in Nat \ {0}, NEW left \in Int,
           a + left - 1 <= Len(d)
    PROVE  SizeRead(ParseSize(d, a, left), left)
<1>1. CASE left < 1
  BY <1>1 DEF ParseSize, SizeRead
<1>2. CASE left >= 1
  <2>a. a \in 1..Len(d) /\ (left # 1 => a + 1 \in 1..Len(d))
    BY <1>2
  <2>1. d[a] \in Int /\ Value(d[a]) \in 0 .. Byte - 1
    <3>1. d[a] \in Int
      BY <2>a
    <3> QED BY Zenon, <3>1, ValueRange
  <2>2. CASE Value(d[a]) < Escape
    <3>1. ParseSize(d, a, left) = [bytes |-> 1, size |-> Value(d[a])]
      <4>1. ~ (left < 1) /\ ~ (left = 1 /\ Value(d[a]) >= Escape)
        BY <1>2, <2>1, <2>2, ByteFacts
      <4> QED BY <1>2, <2>2, <4>1, Zenon DEF ParseSize
    <3>2. Value(d[a]) \in Nat /\ Value(d[a]) \in 0..MaxFrame
      BY <2>1, ByteFacts
    <3>3. Len(EncodeSize(Value(d[a]))) = 1
      BY <2>2, <3>2, EncodeSizeType
    <3> QED BY <1>2, <3>1, <3>2, <3>3 DEF SizeRead
  <2>3. CASE Value(d[a]) >= Escape /\ left = 1
    BY <1>2, <2>1, <2>3, ByteFacts DEF ParseSize, SizeRead
  <2>4. CASE Value(d[a]) >= Escape /\ left # 1
    <3>1. d[a + 1] \in Int /\ Value(d[a + 1]) \in 0 .. Byte - 1
      <4>1. d[a + 1] \in Int
        BY <2>a, <2>4
      <4> QED BY Zenon, <4>1, ValueRange
    <3>2. ParseSize(d, a, left) =
            [bytes |-> 2, size |-> 4 * Value(d[a + 1]) + Value(d[a])]
      <4>1. ~ (left < 1) /\ ~ (Value(d[a]) < Escape) /\ ~ (left = 1)
        BY <1>2, <2>1, <2>4, ByteFacts
      <4> QED BY <4>1, Zenon DEF ParseSize
    <3>3. 4 * Value(d[a + 1]) + Value(d[a]) \in 0..MaxFrame
      <4>1. ASSUME NEW x \in 0 .. Byte - 1, NEW y \in 0 .. Byte - 1
            PROVE  4 * y + x \in 0..MaxFrame
        BY ByteFacts, SMTT(30)
      <4> QED BY Zenon, <2>1, <3>1, <4>1
    <3>4. 2 \in 1..2 /\ 2 <= left
      BY <1>2, <2>4
    <3>5. Len(EncodeSize(4 * Value(d[a + 1]) + Value(d[a]))) = 2
      <4>1. /\ 4 * Value(d[a + 1]) + Value(d[a]) \in Nat
            /\ ~ (4 * Value(d[a + 1]) + Value(d[a]) < Escape)
        BY <2>1, <2>4, <3>1, ByteFacts, SMTT(30)
      <4> QED BY <4>1, EncodeSizeType
    <3> QED BY <3>2, <3>3, <3>4, <3>5 DEF SizeRead
  <2> QED BY <2>1, <2>2, <2>3, <2>4, ByteFacts
<1> QED BY <1>1, <1>2

\* The recursive function inside ParseSizes.
SizesFold(f, d, base, n) ==
    f = [u \in SUBSET DOMAIN [i \in 1..n |-> i] |->
           IF u = {} THEN base
           ELSE OneMore(f[u \ {Max(u)}], ParseSize(d, f[u \ {Max(u)}].at, f[u \ {Max(u)}].left))]

SizesBase(start, remaining) ==
    [ok |-> TRUE, at |-> start, left |-> remaining, size |-> <<>>]

LEMMA ParseSizesSteps ==
    ASSUME NEW d, NEW start, NEW remaining, NEW n \in Nat
    PROVE  \E w : /\ StepsOf(w, "sizes", d, SizesBase(start, remaining), n)
                  /\ ParseSizes(d, start, remaining, n) = w[n]
<1> DEFINE base == SizesBase(start, remaining)
           f == CHOOSE f : SizesFold(f, d, base, n)
<1>1. ParseSizes(d, start, remaining, n) = f[DOMAIN [i \in 1..n |-> i]]
  BY Zenon DEF ParseSizes, FoldLeft, MapThenFoldSet, SizesFold, SizesBase
<1>2. DOMAIN [i \in 1..n |-> i] = 1..n
  OBVIOUS
<1>3. \A g : SizesFold(g, d, base, n) <=> Folds(g, "sizes", d, base, n)
  <2>1. \A r, i : Step("sizes", d, r, i) = OneMore(r, ParseSize(d, r.at, r.left))
    BY DEF Step
  <2> QED BY <1>2, <2>1, ZenonT(40) DEF SizesFold, Folds
<1>4. PICK g : Folds(g, "sizes", d, base, n)
  BY FoldsExists
<1>5. SizesFold(f, d, base, n)
  BY <1>3, <1>4, Zenon
<1> HIDE DEF f, base
<1>6. Folds(f, "sizes", d, base, n)
  BY <1>3, <1>5
<1>7. PICK w : StepsOf(w, "sizes", d, base, n) /\ f[1..n] = w[n]
  BY <1>6, FoldsSteps
<1> QED BY <1>1, <1>2, <1>7 DEF base

LEMMA SizesAreNat == Seq(0..MaxFrame) \subseteq Seq(Nat)
<1>1. 0..MaxFrame \subseteq Nat
  BY ByteFacts
<1> QED BY <1>1, SeqWiden, Zenon

\* Where ParseSizes is after k sizes.
Sized(r, start, remaining, k) ==
    /\ r \in [ok: BOOLEAN, at: Int, left: Int, size: Seq(0..MaxFrame)]
    /\ r.ok => /\ r.at >= start /\ r.left >= 0
               /\ r.at + r.left = start + remaining
               /\ Len(r.size) = k /\ r.at = start + Len(AllSizes(r.size, k))

LEMMA OneMoreSized ==
    ASSUME NEW d \in Seq(Int), NEW start \in Nat \ {0}, NEW remaining \in Nat,
           start + remaining - 1 <= Len(d), NEW k \in Nat,
           NEW r, Sized(r, start, remaining, k)
    PROVE  Sized(OneMore(r, ParseSize(d, r.at, r.left)), start, remaining, k + 1)
<1> DEFINE z == ParseSize(d, r.at, r.left)
<1>1. r \in [ok: BOOLEAN, at: Int, left: Int, size: Seq(0..MaxFrame)]
  BY DEF Sized
<1>2. CASE ~r.ok \/ z.size < 0 \/ z.size > r.left - z.bytes
  <2>1. OneMore(r, z) = [r EXCEPT !.ok = FALSE]
    BY <1>2, Zenon DEF OneMore
  <2>2. /\ [r EXCEPT !.ok = FALSE] \in [ok: BOOLEAN, at: Int, left: Int, size: Seq(0..MaxFrame)]
        /\ [r EXCEPT !.ok = FALSE].ok = FALSE
    BY Zenon, <1>1
  <2> QED BY <2>1, <2>2 DEF Sized
<1>3. CASE ~ (~r.ok \/ z.size < 0 \/ z.size > r.left - z.bytes)
  <2> DEFINE o == [ok |-> TRUE, at |-> r.at + z.bytes, left |-> r.left - z.bytes,
                   size |-> Append(r.size, z.size)]
  <2>1. OneMore(r, z) = o
    BY <1>3, Zenon DEF OneMore
  <2>2. r.ok = TRUE /\ r.at >= start /\ r.left >= 0 /\ r.at + r.left = start + remaining
        /\ Len(r.size) = k /\ r.at \in Int /\ r.left \in Int /\ r.size \in Seq(0..MaxFrame)
        /\ r.at = start + Len(AllSizes(r.size, k))
    BY <1>1, <1>3 DEF Sized
  <2>3. SizeRead(z, r.left)
    <3>1. r.at \in Nat \ {0} /\ r.at + r.left - 1 <= Len(d)
      <4> DEFINE a == r.at
                 l == r.left
      <4>1. a \in Int /\ l \in Int /\ a >= start /\ a + l = start + remaining
        BY <2>2
      <4> HIDE DEF a, l
      <4>2. a \in Nat \ {0} /\ a + l - 1 <= Len(d)
        BY <4>1
      <4> QED BY <4>2 DEF a, l
    <3> QED BY Zenon, <2>2, <3>1, ParseSizeReads
  <2>4. z.size \in 0..MaxFrame /\ z.bytes \in 1..2 /\ z.bytes <= r.left
        /\ z.bytes = Len(EncodeSize(z.size))
    BY <1>3, <2>3 DEF SizeRead
  <2> HIDE DEF z
  <2>5. /\ o.ok = TRUE /\ o.at = r.at + z.bytes /\ o.left = r.left - z.bytes
        /\ o.size = Append(r.size, z.size)
    OBVIOUS
  <2>6. o \in [ok: BOOLEAN, at: Int, left: Int, size: Seq(0..MaxFrame)]
    <3> DEFINE a == r.at
               b == z.bytes
               l == r.left
    <3>a. a \in Int /\ l \in Int /\ b \in Int
      BY <2>2, <2>4
    <3> HIDE DEF a, b, l
    <3>b. a + b \in Int /\ l - b \in Int
      BY <3>a
    <3>1. r.at + z.bytes \in Int /\ r.left - z.bytes \in Int
      BY <3>b, Zenon DEF a, b, l
    <3>2. Append(r.size, z.size) \in Seq(0..MaxFrame)
      BY <2>2, <2>4
    <3> QED BY <3>1, <3>2
  <2>7. Len(o.size) = k + 1
    BY <2>2, <2>4, <2>5
  <2> HIDE DEF o
  <2>8. o.at >= start /\ o.left >= 0 /\ o.at + o.left = start + remaining
    <3> DEFINE a == r.at
               b == z.bytes
               l == r.left
    <3>1. a \in Int /\ l \in Int /\ b \in 1..2 /\ b <= l /\ a >= start /\ a + l = start + remaining
      BY <2>2, <2>4
    <3>2. o.at = a + b /\ o.left = l - b
      BY <2>5
    <3> HIDE DEF a, b, l
    <3> QED BY <3>1, <3>2
  <2>9. o.at = start + Len(AllSizes(o.size, k + 1))
    <3> DEFINE q == r.size
               u == Append(r.size, z.size)
               x == AllSizes(q, k)
               y == EncodeSize(z.size)
    <3>1. q \in Seq(Nat) /\ u \in Seq(Nat) /\ Len(q) = k /\ z.size \in Nat
      <4>1. z.size \in Nat
        BY <2>4, ByteFacts
      <4> QED BY <2>2, <4>1, SizesAreNat
    <3>2. Len(u) = k + 1 /\ u[k + 1] = z.size /\ \A i \in 1..k : q[i] = u[i]
      <4> DEFINE v == z.size
      <4>1. u = Append(q, v) /\ v \in Nat
        BY <3>1
      <4> HIDE DEF q, u, v
      <4>2. Len(u) = k + 1 /\ u[k + 1] = v /\ \A i \in 1..k : q[i] = u[i]
        BY <3>1, <4>1
      <4> QED BY <4>2 DEF v
    <3>3. AllSizes(u, k + 1) = x \o y
      <4> HIDE DEF q, u
      <4>1. Len(q) >= k /\ Len(u) >= k + 1
        BY <3>1, <3>2
      <4>2. AllSizes(u, k + 1) = AllSizes(q, k) \o EncodeSize(u[k + 1])
        BY Zenon, <3>1, <3>2, <4>1, AllSizesMore
      <4> QED BY <3>2, <4>2, Zenon
    <3>4. x \in Seq(Int) /\ y \in Seq(Int)
      <4>1. k \in 0..Len(q)
        BY <3>1
      <4>2. Seq(Nat) \subseteq Seq(Int)
        BY SeqWiden
      <4> QED BY Zenon, <3>1, <4>1, <4>2, AllSizesType, EncodeSizeType
    <3> HIDE DEF q, u, x, y
    <3>5. Len(x \o y) = Len(x) + Len(y) /\ Len(x) \in Nat /\ Len(y) \in Nat
      BY <3>4
    <3> DEFINE a == r.at
               b == z.bytes
    <3>6. a = start + Len(x) /\ b = Len(y) /\ o.at = a + b /\ a \in Int
      BY <2>2, <2>4, <2>5, Zenon DEF q, x, y
    <3> HIDE DEF a, b
    <3>7. o.at = start + Len(x \o y)
      BY <3>5, <3>6
    <3> QED BY <2>5, <3>3, <3>7, Zenon DEF u
  <2>10. Sized(o, start, remaining, k + 1)
    BY <2>6, <2>7, <2>8, <2>9 DEF Sized
  <2> QED BY <2>1, <2>10 DEF z
<1> QED BY <1>2, <1>3

LEMMA ParseSizesReads ==
    ASSUME NEW d \in Seq(Int), NEW start \in Nat \ {0}, NEW remaining \in Nat,
           start + remaining - 1 <= Len(d), NEW n \in Nat
    PROVE  Sized(ParseSizes(d, start, remaining, n), start, remaining, n)
<1> DEFINE base == SizesBase(start, remaining)
<1>1. PICK w : /\ StepsOf(w, "sizes", d, base, n)
               /\ ParseSizes(d, start, remaining, n) = w[n]
  BY ParseSizesSteps
<1>2. Sized(base, start, remaining, 0)
  <2>1. <<>> \in Seq(0..MaxFrame) /\ Len(<<>>) = 0
    OBVIOUS
  <2>2. /\ base.ok = TRUE /\ base.at = start /\ base.left = remaining /\ base.size = <<>>
        /\ base \in [ok: BOOLEAN, at: Int, left: Int, size: Seq(0..MaxFrame)]
    BY <2>1 DEF SizesBase
  <2> HIDE DEF base
  <2>3. Len(AllSizes(base.size, 0)) = 0
    BY <2>1, AllSizesNone, Zenon
  <2>4. base.at = start + Len(AllSizes(base.size, 0))
    BY <2>2, <2>3
  <2> QED BY <2>1, <2>2, <2>4 DEF Sized
<1>3. \A k \in 1..n : w[k] = OneMore(w[k - 1], ParseSize(d, w[k - 1].at, w[k - 1].left))
  BY <1>1 DEF StepsOf, Step
<1> DEFINE S == {k \in Nat : k \in 0..n => Sized(w[k], start, remaining, k)}
<1>4. 0 \in S
  BY <1>1, <1>2 DEF StepsOf
<1>5. ASSUME NEW k \in Nat, k \in S PROVE k + 1 \in S
  <2> SUFFICES ASSUME k + 1 \in 0..n PROVE Sized(w[k + 1], start, remaining, k + 1)
    BY k + 1 \in Nat
  <2>1. k \in 0..n /\ k + 1 \in 1..n /\ (k + 1) - 1 = k
    OBVIOUS
  <2>2. Sized(w[k], start, remaining, k)
    BY <1>5, <2>1
  <2>3. w[k + 1] = OneMore(w[k], ParseSize(d, w[k].at, w[k].left))
    BY <1>3, <2>1
  <2> QED BY <2>2, <2>3, OneMoreSized
<1> HIDE DEF S
<1>6. \A k \in Nat : k \in S
  BY Zenon, <1>4, <1>5, SetInduction
<1>7. Sized(w[n], start, remaining, n)
  BY <1>6 DEF S
<1> QED BY <1>1, <1>7

\* A header that was accepted: frames and padding fill the rest of d.
GoodHeader(h, d) ==
    /\ h.count \in Nat \ {0} /\ h.cbr \in BOOLEAN
    /\ h.at \in Nat /\ h.left \in Nat /\ h.pad \in Nat
    /\ h.at >= 2 /\ h.at + h.left + h.pad - 1 = Len(d)
    /\ h.count * Duration[Config(d[1])] <= MaxDuration
    /\ h.count < Byte \div 4 /\ (h.count > 2 => h.at >= 3)

LEMMA HeaderFields ==
    ASSUME NEW count, NEW cbr, NEW a, NEW left, NEW pad
    PROVE  /\ Header(count, cbr, a, left, pad).count = count
           /\ Header(count, cbr, a, left, pad).cbr = cbr
           /\ Header(count, cbr, a, left, pad).at = a
           /\ Header(count, cbr, a, left, pad).left = left
           /\ Header(count, cbr, a, left, pad).pad = pad
  BY DEF Header

LEMMA HeaderWithGood ==
    ASSUME NEW d \in Seq(Int), Len(d) >= 2, NEW ch \in 0 .. Byte - 1, CountOf(ch) \in Nat \ {0},
           CountOf(ch) * Duration[Config(d[1])] <= MaxDuration,
           NEW bytes \in Nat, NEW pad \in Nat
    PROVE  \/ HeaderWith(d, ch, bytes, pad) = Refused
           \/ GoodHeader(HeaderWith(d, ch, bytes, pad), d)
<1>1. CASE LeftAfter(d, bytes, pad) < 0
  BY <1>1 DEF HeaderWith
<1>2. CASE ~ (LeftAfter(d, bytes, pad) < 0)
  <2> DEFINE left == Len(d) - 2 - bytes - pad
             h == Header(CountOf(ch), ~IsVbr(ch), 3 + bytes, left, pad)
  <2>1. HeaderWith(d, ch, bytes, pad) = h /\ left \in Nat
    BY <1>2 DEF HeaderWith, LeftAfter
  <2>2. /\ h.count = CountOf(ch) /\ h.cbr = ~IsVbr(ch) /\ h.at = 3 + bytes
        /\ h.left = left /\ h.pad = pad
    BY HeaderFields
  <2>3. h.cbr \in BOOLEAN
    <3>1. (~IsVbr(ch)) \in BOOLEAN
      <4>1. CASE IsVbr(ch)
        BY <4>1
      <4>2. CASE ~IsVbr(ch)
        BY <4>2
      <4> QED BY <4>1, <4>2
    <3> QED BY Zenon, <2>2, <3>1
  <2>4. 3 + bytes + left + pad - 1 = Len(d)
    OBVIOUS
  <2> HIDE DEF h
  <2>5. h.count < Byte \div 4 /\ h.at >= 3
    BY <2>2, CountFacts
  <2>6. GoodHeader(h, d)
    BY <2>1, <2>2, <2>3, <2>4, <2>5 DEF GoodHeader
  <2> QED BY <2>1, <2>6
<1> QED BY <1>1, <1>2

LEMMA LongHeaderGood ==
    ASSUME NEW d \in Seq(Int), Len(d) >= 2, NEW ch \in 0 .. Byte - 1
    PROVE  LongHeader(d, ch) = Refused \/ GoodHeader(LongHeader(d, ch), d)
<1> DEFINE n == CountOf(ch)
           v == Duration[Config(d[1])]
           H(k) == HeaderWith(d, ch, k + 1, k * (Chunk - 1) + Value(d[3 + k]))
<1>1. n \in Nat /\ v \in Nat \ {0} /\ ch \in Int
  <2>1. d[1] \in Int
    OBVIOUS
  <2>2. v \in Nat \ {0}
    BY Zenon, <2>1, TocFacts
  <2> QED BY <2>2, CountFacts, ByteFacts
<1>2. CASE n = 0
  <2>1. ~ (n > 0 /\ v * n > MaxDuration) /\ ~ (n > 0 /\ v * n <= MaxDuration)
    BY <1>2
  <2> QED BY <1>2, <2>1, Zenon DEF LongHeader
<1>3. CASE n > 0 /\ v * n > MaxDuration
  <2>1. v * n \in Int
    BY <1>1
  <2>2. ~ (n = 0) /\ ~ (n > 0 /\ v * n <= MaxDuration)
    BY <1>1, <1>3, <2>1, ByteFacts
  <2> QED BY <1>3, <2>2, Zenon DEF LongHeader
<1>4. CASE n > 0 /\ v * n <= MaxDuration
  <2>1. n \in Nat \ {0} /\ n * v <= MaxDuration
    BY <1>1, <1>4
  <2>2. LongHeader(d, ch) =
          IF ~IsPadded(ch) THEN HeaderWith(d, ch, 0, 0)
          ELSE IF PaddingRuns(d) = {} THEN Refused
          ELSE CHOOSE h \in {H(k) : k \in PaddingRuns(d)} : TRUE
    <3>1. ~ (n = 0) /\ ~ (n > 0 /\ v * n > MaxDuration)
      BY <1>1, <1>4, ByteFacts
    <3> QED BY <1>4, <3>1, Zenon DEF LongHeader
  <2>3. HeaderWith(d, ch, 0, 0) = Refused \/ GoodHeader(HeaderWith(d, ch, 0, 0), d)
    BY <1>1, <2>1, HeaderWithGood
  <2>4. ASSUME NEW k \in PaddingRuns(d) PROVE H(k) = Refused \/ GoodHeader(H(k), d)
    <3>1. k \in Nat /\ 3 + k \in 1..Len(d)
      BY DEF PaddingRuns
    <3>2. d[3 + k] \in Int
      BY <3>1
    <3>3. Value(d[3 + k]) \in Nat
      <4>1. \A x : x \in 0 .. Byte - 1 => x \in Nat
        BY ByteFacts
      <4>2. Value(d[3 + k]) \in 0 .. Byte - 1
        BY Zenon, <3>2, ValueRange
      <4> QED BY <4>1, <4>2, Zenon
    <3>4. k * (Chunk - 1) + Value(d[3 + k]) \in Nat /\ k + 1 \in Nat
      <4>1. k * (Chunk - 1) \in Nat
        BY <3>1, ByteFacts
      <4> QED BY <3>1, <3>3, <4>1
    <3> QED BY Zenon, <1>1, <2>1, <3>4, HeaderWithGood
  <2> HIDE DEF H
  <2>5. CASE IsPadded(ch) /\ PaddingRuns(d) # {}
    <3>1. \E h : h \in {H(k) : k \in PaddingRuns(d)}
      BY <2>5
    <3>2. (CHOOSE h \in {H(k) : k \in PaddingRuns(d)} : TRUE) \in {H(k) : k \in PaddingRuns(d)}
      BY <3>1
    <3>3. LongHeader(d, ch) \in {H(k) : k \in PaddingRuns(d)}
      BY <2>2, <2>5, <3>2
    <3> QED BY <2>4, <3>3
  <2> QED BY <2>2, <2>3, <2>5
<1> QED BY <1>1, <1>2, <1>3, <1>4, ByteFacts

LEMMA ParseHeaderGood ==
    ASSUME NEW d \in Seq(Int), d # <<>>
    PROVE  ParseHeader(d) = Refused \/ GoodHeader(ParseHeader(d), d)
<1>1. /\ Len(d) \in Nat /\ Len(d) >= 1 /\ d[1] \in Int
      /\ Code(d[1]) \in 0..3
      /\ Duration[Config(d[1])] \in Nat \ {0}
      /\ 2 * Duration[Config(d[1])] <= MaxDuration
  <2>1. Len(d) \in Nat /\ Len(d) >= 1 /\ d[1] \in Int
    OBVIOUS
  <2> QED BY Zenon, <2>1, TocFacts
<1>2. ASSUME NEW count \in {1, 2}, NEW cbr \in BOOLEAN
      PROVE  GoodHeader(Header(count, cbr, 2, Len(d) - 1, 0), d)
  <2> DEFINE h == Header(count, cbr, 2, Len(d) - 1, 0)
  <2>1. h.count = count /\ h.cbr = cbr /\ h.at = 2 /\ h.left = Len(d) - 1 /\ h.pad = 0
    BY HeaderFields
  <2>2. count * Duration[Config(d[1])] <= MaxDuration
    BY <1>1, ByteFacts
  <2>3. 2 + (Len(d) - 1) + 0 - 1 = Len(d) /\ Len(d) - 1 \in Nat
    BY <1>1
  <2>4. h.count \in Nat \ {0} /\ h.cbr \in BOOLEAN /\ h.at >= 2
    BY <2>1
  <2> HIDE DEF h
  <2>5. h.at \in Nat /\ h.left \in Nat /\ h.pad \in Nat
    BY <2>1, <2>3
  <2>6. h.at + h.left + h.pad - 1 = Len(d)
    BY <2>1, <2>3, Zenon
  <2>7. h.count * Duration[Config(d[1])] <= MaxDuration
    BY <2>1, <2>2, Zenon
  <2>8. h.count < Byte \div 4 /\ (h.count > 2 => h.at >= 3)
    <3>1. Byte \div 4 \in Int /\ Byte \div 4 > 2
      BY ByteFacts
    <3> QED BY <2>1, <3>1
  <2>9. GoodHeader(h, d)
    BY <2>4, <2>5, <2>6, <2>7, <2>8, Zenon DEF GoodHeader
  <2> QED BY <2>9 DEF h
<1>3. CASE Code(d[1]) = 0
  <2>1. ParseHeader(d) = Header(1, FALSE, 2, Len(d) - 1, 0)
    BY <1>3 DEF ParseHeader
  <2> QED BY Zenon, <1>2, <2>1
<1>4. CASE Code(d[1]) = 1
  <2>1. ParseHeader(d) = Header(2, TRUE, 2, Len(d) - 1, 0)
    BY <1>4 DEF ParseHeader
  <2> QED BY Zenon, <1>2, <2>1
<1>5. CASE Code(d[1]) = 2
  <2>1. ParseHeader(d) = Header(2, FALSE, 2, Len(d) - 1, 0)
    BY <1>5 DEF ParseHeader
  <2> QED BY Zenon, <1>2, <2>1
<1>6. CASE Code(d[1]) = 3 /\ Len(d) < 2
  BY <1>6 DEF ParseHeader
<1>7. CASE Code(d[1]) = 3 /\ ~ (Len(d) < 2)
  <2>1. ParseHeader(d) = LongHeader(d, Value(d[2]))
    BY <1>7 DEF ParseHeader
  <2>2. Len(d) >= 2 /\ d[2] \in Int
    BY <1>1, <1>7
  <2>3. Value(d[2]) \in 0 .. Byte - 1
    BY Zenon, <2>2, ValueRange
  <2> QED BY <2>1, <2>2, <2>3, LongHeaderGood
<1> QED BY <1>1, <1>3, <1>4, <1>5, <1>6, <1>7

\* A packet that was taken apart: header, frames and padding in d.
\* The length of a header for frames of these sizes, without padding.
HeadLen(size) ==
    (IF Len(size) > 2 THEN 2 ELSE 1)
    + (IF Vbr(size) THEN Len(AllSizes(size, Len(size) - 1)) ELSE 0)

\* (The parser may have read a longer header than needed.)
GoodParse(p, d, sd) ==
    /\ p.count \in Nat \ {0}
    /\ p.size \in Seq(0..MaxFrame) /\ Len(p.size) = p.count
    /\ p.at \in Nat /\ p.at >= 2 /\ p.end \in Nat
    /\ p.at + SumFunction(p.size) <= p.end /\ p.end - 1 <= Len(d)
    /\ ~sd => p.end - 1 = Len(d)
    /\ p.count * Duration[Config(d[1])] <= MaxDuration
    /\ p.count < Byte \div 4
    /\ HeadLen(p.size) + Len(Delimiter(p.size, sd)) <= p.at - 1

LEMMA ParsedGood ==
    ASSUME NEW d \in Seq(Int), NEW h, GoodHeader(h, d), NEW sd \in BOOLEAN,
           NEW size \in Seq(0..MaxFrame), Len(size) = h.count,
           NEW a \in Nat, a >= h.at,
           a + SumFunction(size) <= h.at + h.left,
           ~sd => a + SumFunction(size) = h.at + h.left,
           HeadLen(size) + Len(Delimiter(size, sd)) <= a - 1
    PROVE  GoodParse(Parsed(h, size, a), d, sd)
<1> DEFINE p == Parsed(h, size, a)
           sum == SumFunction(size)
<1>1. /\ p.count = h.count /\ p.size = size /\ p.at = a /\ p.end = a + sum + h.pad
  BY DEF Parsed
<1>2. sum \in Nat
  BY SizesAreNat, SumNat
<1>3. /\ h.count \in Nat \ {0} /\ h.at \in Nat /\ h.left \in Nat /\ h.pad \in Nat
      /\ h.at >= 2 /\ h.at + h.left + h.pad - 1 = Len(d)
      /\ h.count * Duration[Config(d[1])] <= MaxDuration
      /\ h.count < Byte \div 4
  BY DEF GoodHeader
<1>4. a + sum <= h.at + h.left /\ (~sd => a + sum = h.at + h.left)
  OBVIOUS
<1> HIDE DEF p, sum
<1>5. a + sum + h.pad \in Nat /\ a >= 2
  <2> DEFINE x == h.at
             z == h.pad
  <2>1. x \in Nat /\ x >= 2 /\ a >= x /\ z \in Nat
    BY <1>3
  <2> HIDE DEF x, z
  <2>2. a + sum + z \in Nat /\ a >= 2
    BY <1>2, <2>1
  <2> QED BY <2>2 DEF z
<1>6. /\ a + sum <= a + sum + h.pad /\ a + sum + h.pad - 1 <= Len(d)
      /\ ~sd => a + sum + h.pad - 1 = Len(d)
  <2> DEFINE x == h.at
             y == h.left
             z == h.pad
  <2>1. /\ x \in Nat /\ y \in Nat /\ z \in Nat /\ x + y + z - 1 = Len(d)
        /\ a + sum <= x + y /\ (~sd => a + sum = x + y)
    BY <1>3, <1>4
  <2> HIDE DEF x, y, z
  <2>2. /\ a + sum <= a + sum + z /\ a + sum + z - 1 <= Len(d)
        /\ ~sd => a + sum + z - 1 = Len(d)
    BY <1>2, <2>1
  <2> QED BY <2>2 DEF z
<1>8. GoodParse(p, d, sd)
  <2>1. SumFunction(p.size) = sum
    BY <1>1 DEF sum
  <2>2. p.at + SumFunction(p.size) <= p.end /\ p.end - 1 <= Len(d) /\ (~sd => p.end - 1 = Len(d))
    <3> DEFINE x == p.at
               y == SumFunction(p.size)
               z == p.end
               v == h.pad
    <3>1. x = a /\ y = sum /\ z = a + sum + v
      BY <1>1, <2>1
    <3>6. v \in Nat /\ z \in Nat
      BY <1>2, <1>3, <3>1, SMTT(30)
    <3>2. a + sum <= a + sum + v /\ a + sum + v - 1 <= Len(d) /\ (~sd => a + sum + v - 1 = Len(d))
      BY <1>6
    <3> HIDE DEF x, y, z, v
    <3>3. z - 1 = a + sum + v - 1
      BY <1>2, <3>1, <3>6
    <3>5. x + y = a + sum
      BY <3>1
    <3>4. x + y <= z /\ z - 1 <= Len(d) /\ (~sd => z - 1 = Len(d))
      BY <3>1, <3>2, <3>3, <3>5, Zenon
    <3> QED BY <3>4 DEF x, y, z
  <2>3. p.count * Duration[Config(d[1])] <= MaxDuration
    BY <1>1, <1>3, Zenon
  <2>4. p.count \in Nat \ {0} /\ p.size \in Seq(0..MaxFrame) /\ Len(p.size) = p.count
        /\ p.at \in Nat /\ p.at >= 2 /\ p.end \in Nat
    BY Zenon, <1>1, <1>3, <1>5
  <2>5. p.count < Byte \div 4 /\ HeadLen(p.size) + Len(Delimiter(p.size, sd)) <= p.at - 1
    BY <1>1, <1>3, Zenon
  <2> QED BY <2>2, <2>3, <2>4, <2>5, Zenon DEF GoodParse
<1> QED BY <1>8 DEF p

LEMMA ParseCbrGood ==
    ASSUME NEW d \in Seq(Int), NEW h, GoodHeader(h, d), NEW sd \in BOOLEAN,
           NEW last, SizeRead(last, h.left)
    PROVE  ParseCbr(h, last, sd) = Refused \/ GoodParse(ParseCbr(h, last, sd), d, sd)
<1>1. /\ h.count \in Nat \ {0} /\ h.at \in Nat /\ h.left \in Nat
      /\ h.at >= 2 /\ (h.count > 2 => h.at >= 3)
  BY DEF GoodHeader
<1>2. ASSUME NEW n \in 0..MaxFrame, NEW a \in Nat, a >= h.at,
             a + n * h.count <= h.at + h.left,
             ~sd => a + n * h.count = h.at + h.left,
             sd => a = h.at + Len(EncodeSize(n))
      PROVE  GoodParse(Parsed(h, Same(n, h.count), a), d, sd)
  <2>1. n \in Nat
    BY ByteFacts
  <2>2. SumFunction(Same(n, h.count)) = n * h.count
    BY Zenon, <1>1, <2>1, SumSame
  <2>3. Same(n, h.count) \in Seq(0..MaxFrame) /\ Len(Same(n, h.count)) = h.count
    <3> DEFINE k == h.count
    <3>1. k \in Nat
      BY <1>1
    <3> HIDE DEF k
    <3>2. Same(n, k) \in Seq(0..MaxFrame) /\ Len(Same(n, k)) = k
      BY <3>1 DEF Same
    <3> QED BY <3>2 DEF k
  <2>4. HeadLen(Same(n, h.count)) = IF h.count > 2 THEN 2 ELSE 1
    <3>1. ~Vbr(Same(n, h.count))
      <4> DEFINE k == h.count
                 q == Same(n, k)
      <4>1. k \in Nat \ {0}
        BY <1>1
      <4> HIDE DEF k
      <4>2. DOMAIN q = 1..k /\ \A i \in 1..k : q[i] = n
        BY DEF Same
      <4>3. 1 \in 1..k
        BY <4>1
      <4> HIDE DEF q
      <4>4. \A i \in DOMAIN q : q[i] = q[1]
        BY <4>2, <4>3
      <4>5. ~Vbr(q)
        BY <4>4, Zenon DEF Vbr
      <4> QED BY <4>5 DEF q, k
    <3> QED BY <2>3, <3>1 DEF HeadLen
  <2>5. Len(Delimiter(Same(n, h.count), sd)) = IF sd THEN Len(EncodeSize(n)) ELSE 0
    <3> DEFINE k == h.count
    <3>1. k \in Nat \ {0}
      BY <1>1
    <3>2. Len(Same(n, k)) = k
      BY <2>3
    <3> HIDE DEF k
    <3>3. Same(n, k)[k] = n
      BY <3>1 DEF Same
    <3>4. Delimiter(Same(n, k), sd) = IF sd THEN EncodeSize(n) ELSE <<>>
      BY <3>2, <3>3 DEF Delimiter
    <3> QED BY <3>4 DEF k
  <2>6. HeadLen(Same(n, h.count)) + Len(Delimiter(Same(n, h.count), sd)) <= a - 1
    <3> DEFINE x == h.at
               e == Len(EncodeSize(n))
               k == h.count
               p == HeadLen(Same(n, k))
               q == Len(Delimiter(Same(n, k), sd))
    <3>1. /\ k \in Nat \ {0} /\ x \in Nat /\ x >= 2 /\ (k > 2 => x >= 3) /\ a >= x
          /\ p = (IF k > 2 THEN 2 ELSE 1) /\ q = (IF sd THEN e ELSE 0) /\ (sd => a = x + e)
          /\ e \in Nat
      BY <1>1, <1>2, <2>1, <2>4, <2>5, EncodeSizeType
    <3> HIDE DEF x, e, k, p, q
    <3>2. p + q <= a - 1
      <4>1. CASE sd
        <5>1. q = e /\ a = x + e
          BY <3>1, <4>1
        <5> QED BY <3>1, <5>1
      <4>2. CASE ~sd
        <5>1. q = 0
          BY <3>1, <4>2
        <5> QED BY <3>1, <5>1
      <4> QED BY <4>1, <4>2
    <3> QED BY <3>2 DEF p, q, k
  <2> QED BY <1>2, <2>2, <2>3, <2>6, ParsedGood
<1>3. CASE ~sd /\ h.left % h.count = 0 /\ h.left \div h.count <= MaxFrame
  <2> DEFINE n == h.left \div h.count
  <2>1. ParseCbr(h, last, sd) = Parsed(h, Same(n, h.count), h.at)
    BY <1>3 DEF ParseCbr
  <2>2. n \in Nat /\ n * h.count = h.left
    <3> DEFINE l == h.left
               k == h.count
    <3>1. l \in Nat /\ k \in Nat \ {0} /\ l % k = 0
      BY <1>1, <1>3
    <3> HIDE DEF l, k
    <3>2. l \div k \in Nat /\ (l \div k) * k = l
      BY <3>1
    <3> QED BY <3>2 DEF l, k
  <2>3. n \in 0..MaxFrame
    BY <1>3, <2>2, ByteFacts
  <2> HIDE DEF n
  <2>4. h.at >= h.at /\ h.at + n * h.count = h.at + h.left
    BY <1>1, <2>2
  <2>5. h.at + n * h.count <= h.at + h.left
    BY <1>1, <2>2
  <2>6. GoodParse(Parsed(h, Same(n, h.count), h.at), d, sd)
    BY <1>1, <1>2, <1>3, <2>3, <2>4, <2>5
  <2> QED BY <2>1, <2>6
<1>4. CASE sd /\ last.size >= 0 /\ last.size * h.count <= h.left - last.bytes
  <2>1. ParseCbr(h, last, sd) = Parsed(h, Same(last.size, h.count), h.at + last.bytes)
    BY <1>4 DEF ParseCbr
  <2>2. last.size \in 0..MaxFrame /\ last.bytes \in 1..2 /\ last.bytes = Len(EncodeSize(last.size))
    BY <1>4 DEF SizeRead
  <2> DEFINE n == last.size
             b == last.bytes
  <2>3. n \in 0..MaxFrame /\ b \in 1..2 /\ n * h.count <= h.left - b /\ n * h.count \in Int
        /\ b = Len(EncodeSize(n))
    <3>1. n \in Int
      BY <2>2, ByteFacts
    <3> QED BY <1>1, <1>4, <2>2, <3>1
  <2> HIDE DEF n, b
  <2>4. h.at + b \in Nat /\ h.at + b >= h.at /\ (h.at + b) + n * h.count <= h.at + h.left
    <3> DEFINE x == h.at
               y == h.left
               t == n * h.count
    <3>1. x \in Nat /\ y \in Nat /\ t \in Int /\ t <= y - b
      BY <1>1, <2>3
    <3> HIDE DEF x, y, t
    <3>2. x + b \in Nat /\ x + b >= x /\ (x + b) + t <= x + y
      BY <2>3, <3>1
    <3> QED BY <3>2 DEF x, y, t
  <2>5. GoodParse(Parsed(h, Same(n, h.count), h.at + b), d, sd)
    <3>1. h.at + b = h.at + Len(EncodeSize(n))
      BY <2>3
    <3> QED BY Zenon, <1>2, <1>4, <2>3, <2>4, <3>1
  <2> QED BY <2>1, <2>5 DEF n, b
<1>5. CASE /\ ~ (~sd /\ h.left % h.count = 0 /\ h.left \div h.count <= MaxFrame)
           /\ ~ (sd /\ last.size >= 0 /\ last.size * h.count <= h.left - last.bytes)
  BY <1>5, Zenon DEF ParseCbr
<1> QED BY <1>3, <1>4, <1>5

LEMMA ParseVbrGood ==
    ASSUME NEW d \in Seq(Int), NEW h, GoodHeader(h, d), NEW sd \in BOOLEAN,
           NEW z, Sized(z, h.at, h.left, h.count - 1)
    PROVE  ParseVbr(d, h, z, sd) = Refused \/ GoodParse(ParseVbr(d, h, z, sd), d, sd)
<1> DEFINE last == ParseSize(d, z.at, z.left)
           sum == SumFunction(z.size)
           rest == z.left - sum
<1>1. /\ h.count \in Nat \ {0} /\ h.at \in Nat /\ h.left \in Nat /\ h.pad \in Nat
      /\ h.at >= 2 /\ h.at + h.left + h.pad - 1 = Len(d) /\ (h.count > 2 => h.at >= 3)
  BY DEF GoodHeader
<1>2. CASE ~z.ok
  BY <1>2 DEF ParseVbr
<1>3. CASE z.ok
  <2>1. /\ z.at \in Int /\ z.left \in Int /\ z.size \in Seq(0..MaxFrame)
        /\ z.at >= h.at /\ z.left >= 0 /\ z.at + z.left = h.at + h.left
        /\ Len(z.size) = h.count - 1
        /\ z.at = h.at + Len(AllSizes(z.size, h.count - 1))
    BY <1>3 DEF Sized
  <2>2. ParseVbr(d, h, z, sd) = LastOfVbr(h, z, last, rest, sd)
    BY <1>3, Zenon DEF ParseVbr
  <2>3. z.size \in Seq(Nat) /\ sum \in Nat
    BY <2>1, SizesAreNat, SumNat
  <2>4. ASSUME NEW n \in 0..MaxFrame, NEW a \in Nat, a >= h.at,
               a + (sum + n) <= h.at + h.left,
               ~sd => a + (sum + n) = h.at + h.left,
               a = z.at + (IF sd THEN Len(EncodeSize(n)) ELSE 0)
        PROVE  GoodParse(Parsed(h, Append(z.size, n), a), d, sd)
    <3>1. n \in Nat
      BY ByteFacts
    <3>2. SumFunction(Append(z.size, n)) = sum + n
      BY <2>3, <3>1, SumAppend
    <3>3. Append(z.size, n) \in Seq(0..MaxFrame) /\ Len(Append(z.size, n)) = (h.count - 1) + 1
      BY <2>1
    <3>4. (h.count - 1) + 1 = h.count
      BY <1>1
    <3> DEFINE u == Append(z.size, n)
               k == h.count - 1
               c == AllSizes(z.size, k)
    <3>5. u \in Seq(Nat) /\ Len(u) = k + 1 /\ k \in Nat /\ u[k + 1] = n
      <4> DEFINE q == z.size
      <4>1. q \in Seq(Nat)
        BY <2>3
      <4>2. Len(q) = k
        BY <2>1
      <4>3. k \in Nat
        BY <1>1
      <4>4. u = Append(q, n)
        OBVIOUS
      <4> HIDE DEF q, k, u
      <4> QED BY <3>1, <4>1, <4>2, <4>3, <4>4
    <3>6. AllSizes(u, k) = c
      <4>1. z.size \in Seq(Nat) /\ Len(z.size) = k /\ \A i \in 1..k : z.size[i] = u[i]
        BY <2>1, <2>3, <3>5
      <4> HIDE DEF u, k
      <4>2. Len(z.size) >= k /\ Len(u) >= k + 1
        BY <3>5, <4>1
      <4> QED BY Zenon, <3>5, <4>1, <4>2, AllSizesMore
    <3>7. HeadLen(u) <= (IF h.count > 2 THEN 2 ELSE 1) + Len(c) /\ Len(c) \in Nat /\ HeadLen(u) \in Nat
      <4>1. c \in Seq(Int)
        <5>1. k \in 0..Len(z.size)
          BY <2>1, <3>5
        <5> QED BY <2>3, <5>1, AllSizesType
      <4>2. Len(u) = h.count /\ Len(u) - 1 = k
        BY <3>4, <3>5
      <4>3. HeadLen(u) = (IF h.count > 2 THEN 2 ELSE 1) + (IF Vbr(u) THEN Len(c) ELSE 0)
        BY <3>6, <4>2, Zenon DEF HeadLen
      <4> HIDE DEF u, c, k
      <4> DEFINE l == Len(c)
                 b == IF h.count > 2 THEN 2 ELSE 1
                 v == IF Vbr(u) THEN l ELSE 0
      <4>4. l \in Nat /\ b \in Nat
        BY <4>1
      <4>5. v \in Nat /\ v <= l
        BY <4>4
      <4>6. HeadLen(u) = b + v
        BY <4>3
      <4> HIDE DEF l, b, v
      <4>7. HeadLen(u) <= b + l /\ l \in Nat /\ HeadLen(u) \in Nat
        BY <4>4, <4>5, <4>6
      <4> QED BY <4>7 DEF b, l
    <3>8. Len(Delimiter(u, sd)) = IF sd THEN Len(EncodeSize(n)) ELSE 0
      <4>1. u[Len(u)] = n
        BY <3>5
      <4> HIDE DEF u
      <4>2. Delimiter(u, sd) = IF sd THEN EncodeSize(n) ELSE <<>>
        BY <4>1 DEF Delimiter
      <4> QED BY <4>2
    <3>9. HeadLen(u) + Len(Delimiter(u, sd)) <= a - 1
      <4> DEFINE x == h.at
                 l == Len(c)
                 m == h.count
                 e == IF sd THEN Len(EncodeSize(n)) ELSE 0
                 p == HeadLen(u)
                 q == Len(Delimiter(u, sd))
      <4>1. e \in Nat
        BY <3>1, EncodeSizeType
      <4>2. /\ x \in Nat /\ x >= 2 /\ (m > 2 => x >= 3) /\ m \in Nat /\ l \in Nat /\ p \in Nat
            /\ p <= (IF m > 2 THEN 2 ELSE 1) + l /\ q = e /\ a = (x + l) + e
        BY Zenon, <1>1, <2>1, <2>4, <3>7, <3>8
      <4> HIDE DEF x, l, m, e, p, q
      <4>3. p + q <= a - 1
        BY <4>1, <4>2
      <4> QED BY <4>3 DEF p, q
    <3> HIDE DEF u
    <3>10. u \in Seq(0..MaxFrame) /\ Len(u) = h.count /\ SumFunction(u) = sum + n
      BY <3>2, <3>3, <3>4 DEF u
    <3>11. GoodParse(Parsed(h, u, a), d, sd)
      BY <2>4, <3>9, <3>10, ParsedGood
    <3> QED BY <3>11 DEF u
  <2> DEFINE A == h.at
             L == h.left
             x == z.at
             y == z.left
  <2>5. /\ A \in Nat /\ L \in Nat /\ A >= 2 /\ A + L - 1 <= Len(d)
        /\ x \in Int /\ y \in Int /\ x >= A /\ y >= 0 /\ x + y = A + L
    <3>1. A \in Nat /\ L \in Nat /\ h.pad \in Nat /\ A >= 2 /\ A + L + h.pad - 1 = Len(d)
      BY <1>1
    <3>2. A + L - 1 <= Len(d)
      <4> DEFINE v == h.pad
      <4>1. v \in Nat /\ A + L + v - 1 = Len(d)
        BY <3>1
      <4> HIDE DEF A, L, v
      <4> QED BY <3>1, <4>1
    <3> QED BY <2>1, <3>1, <3>2
  <2>6. rest = y - sum
    OBVIOUS
  <2>7. SizeRead(last, y)
    <3> HIDE DEF A, L, x, y
    <3>1. x \in Nat \ {0} /\ x + y - 1 <= Len(d)
      BY <2>5
    <3> QED BY <2>5, <3>1, ParseSizeReads DEF x, y
  <2>8. CASE ~sd /\ rest \in 0..MaxFrame
    <3>1. LastOfVbr(h, z, last, rest, sd) = Parsed(h, Append(z.size, rest), x)
      BY <2>8, Zenon DEF LastOfVbr
    <3> HIDE DEF last, rest, A, L, x, y, sum
    <3>2. x \in Nat /\ x >= A /\ x + (sum + rest) = A + L /\ x + (sum + rest) <= A + L
      BY <2>3, <2>5, <2>6
    <3>4. x = z.at + 0
      BY <2>5 DEF x
    <3>5. x = z.at + (IF sd THEN Len(EncodeSize(rest)) ELSE 0)
      BY <2>8, <3>4
    <3>3. GoodParse(Parsed(h, Append(z.size, rest), x), d, sd)
      BY <2>4, <2>8, <3>2, <3>5 DEF A, L
    <3> QED BY <2>2, <3>1, <3>3
  <2>9. CASE sd /\ last.size >= 0 /\ last.bytes + last.size <= rest
    <3>1. LastOfVbr(h, z, last, rest, sd) =
            Parsed(h, Append(z.size, last.size), x + last.bytes)
      BY <2>9, Zenon DEF LastOfVbr
    <3>2. last.size \in 0..MaxFrame /\ last.bytes \in 1..2 /\ last.bytes = Len(EncodeSize(last.size))
      BY <2>7, <2>9 DEF SizeRead
    <3> DEFINE n == last.size
               b == last.bytes
    <3>3. n \in 0..MaxFrame /\ b \in 1..2 /\ b + n <= rest /\ n \in Nat /\ b = Len(EncodeSize(n))
      BY <2>9, <3>2, ByteFacts
    <3> HIDE DEF last, rest, A, L, x, y, sum, n, b
    <3>4. x + b \in Nat /\ x + b >= A /\ (x + b) + (sum + n) <= A + L
      BY <2>3, <2>5, <2>6, <3>3
    <3>6. x + b = z.at + (IF sd THEN Len(EncodeSize(n)) ELSE 0)
      BY <2>9, <3>3 DEF x
    <3>5. GoodParse(Parsed(h, Append(z.size, n), x + b), d, sd)
      BY Zenon, <2>4, <2>9, <3>3, <3>4, <3>6 DEF A, L
    <3> QED BY <2>2, <3>1, <3>5 DEF n, b
  <2>10. CASE /\ ~ (~sd /\ rest \in 0..MaxFrame)
              /\ ~ (sd /\ last.size >= 0 /\ last.bytes + last.size <= rest)
    BY <2>2, <2>10, Zenon DEF LastOfVbr
  <2> QED BY <2>8, <2>9, <2>10
<1>4. z.ok \in BOOLEAN
  BY DEF Sized
<1> QED BY <1>2, <1>3, <1>4

LEMMA ParseFramesGood ==
    ASSUME NEW d \in Seq(Int), NEW h, h = Refused \/ GoodHeader(h, d), NEW sd \in BOOLEAN
    PROVE  ParseFrames(d, h, sd) = Refused \/ GoodParse(ParseFrames(d, h, sd), d, sd)
<1>1. CASE h = Refused
  <2>1. h.count < 0
    BY <1>1 DEF Refused, InvalidPacket
  <2>2. ~ (h.count > 0 /\ h.cbr)
    <3>1. ~ (h.count > 0)
      BY <1>1 DEF Refused, InvalidPacket
    <3> QED BY <3>1
  <2> QED BY <2>1, <2>2, Zenon DEF ParseFrames
<1>2. CASE GoodHeader(h, d)
  <2>1. /\ h.count \in Nat \ {0} /\ h.cbr \in BOOLEAN /\ h.at \in Nat \ {0} /\ h.left \in Nat
        /\ h.at + h.left - 1 <= Len(d)
    <3> DEFINE A == h.at
               L == h.left
               v == h.pad
    <3>1. /\ h.count \in Nat \ {0} /\ h.cbr \in BOOLEAN
          /\ A \in Nat /\ A >= 2 /\ L \in Nat /\ v \in Nat /\ A + L + v - 1 = Len(d)
      BY <1>2 DEF GoodHeader
    <3> HIDE DEF A, L, v
    <3>2. A \in Nat \ {0} /\ A + L - 1 <= Len(d)
      BY <3>1
    <3> QED BY <3>1, <3>2 DEF A, L
  <2>2. ~ (h.count < 0) /\ h.count > 0 /\ h.count - 1 \in Nat
    BY <2>1
  <2>3. CASE h.cbr
    <3>1. ParseFrames(d, h, sd) = ParseCbr(h, ParseSize(d, h.at, h.left), sd)
      BY <2>2, <2>3, Zenon DEF ParseFrames
    <3>2. SizeRead(ParseSize(d, h.at, h.left), h.left)
      <4>1. h.left \in Int
        BY <2>1
      <4> QED BY <2>1, <4>1, ParseSizeReads, Zenon
    <3> QED BY <1>2, <3>1, <3>2, ParseCbrGood
  <2>4. CASE ~h.cbr
    <3> DEFINE z == ParseSizes(d, h.at, h.left, h.count - 1)
    <3>1. ParseFrames(d, h, sd) = ParseVbr(d, h, z, sd)
      BY <2>2, <2>4, Zenon DEF ParseFrames
    <3>2. Sized(z, h.at, h.left, h.count - 1)
      BY <2>1, <2>2, ParseSizesReads, Zenon
    <3> HIDE DEF z
    <3> QED BY <1>2, <3>1, <3>2, ParseVbrGood
  <2> QED BY <2>1, <2>3, <2>4
<1> QED BY <1>1, <1>2

\* A packet is refused, or taken apart within its bounds.
LEMMA ParseGood ==
    ASSUME NEW d \in Seq(Int), NEW sd \in BOOLEAN
    PROVE  Parse(d, sd) = Refused \/ GoodParse(Parse(d, sd), d, sd)
<1>1. CASE d = <<>>
  BY <1>1 DEF Parse
<1>2. CASE d # <<>>
  <2>1. Parse(d, sd) = ParseFrames(d, ParseHeader(d), sd)
    BY <1>2 DEF Parse
  <2> QED BY <1>2, <2>1, ParseHeaderGood, ParseFramesGood
<1> QED BY <1>1, <1>2

-----------------------------------------------------------------------------
(* Putting a packet together.                                              *)
\* The frames of a packet lie in it, each as long as its size says.
LEMMA FramesType ==
    ASSUME NEW d \in Seq(Int), NEW sd \in BOOLEAN, NEW p, GoodParse(p, d, sd)
    PROVE  /\ \A i \in 1..p.count :
                /\ FrameAt(p, i) \in Nat \ {0} /\ p.size[i] \in Nat
                /\ FrameAt(p, i) = p.at + SumOf(p.size, i - 1)
                /\ FrameAt(p, i) + p.size[i] <= p.end
           /\ Frames(d, p) \in Seq(Seq(Int))
           /\ Len(Frames(d, p)) = p.count
<1> DEFINE z == p.size
           k == p.count
           a == p.at
           e == p.end
<1>1. /\ z \in Seq(Nat) /\ k \in Nat \ {0} /\ Len(z) = k /\ a \in Nat /\ a >= 2
      /\ e \in Nat /\ e - 1 <= Len(d) /\ a + SumFunction(z) <= e
  BY SizesAreNat DEF GoodParse
<1>2. ASSUME NEW i \in 1..k
      PROVE  /\ FrameAt(p, i) = a + SumOf(z, i - 1)
             /\ FrameAt(p, i) \in Nat \ {0} /\ z[i] \in Nat
             /\ FrameAt(p, i) + z[i] <= e
  <2>1. FrameAt(p, i) = a + SumOf(z, i - 1)
    BY DEF FrameAt, SumOf
  <2> HIDE DEF z, k, a, e
  <2>2. i - 1 \in 0 .. Len(z) - 1 /\ i \in 0..Len(z) /\ Len(z) \in i..Len(z) /\ (i - 1) + 1 = i
        /\ i - 1 \in 0..Len(z) /\ z[i] \in Nat
    BY <1>1
  <2>3. SumOf(z, i - 1) \in Nat /\ SumOf(z, i) \in Nat /\ SumOf(z, i) = SumOf(z, i - 1) + z[i]
        /\ SumOf(z, Len(z)) = SumFunction(z)
    <3>1. SumOf(z, (i - 1) + 1) = SumOf(z, i - 1) + z[(i - 1) + 1]
      BY Zenon, <1>1, <2>2, SumPrefix
    <3> QED BY Zenon, <1>1, <2>2, <3>1, SumPrefix
  <2>4. SumOf(z, i) <= SumFunction(z)
    BY Zenon, <1>1, <2>2, <2>3, SumMono
  <2>5. SumFunction(z) \in Nat
    BY <1>1, SumNat
  <2> DEFINE x == SumOf(z, i - 1)
             y == z[i]
             t == SumFunction(z)
  <2>6. /\ x \in Nat /\ y \in Nat /\ t \in Nat /\ x + y <= t
        /\ a \in Nat /\ a >= 2 /\ e \in Nat /\ a + t <= e
    BY <1>1, <2>2, <2>3, <2>4, <2>5
  <2> HIDE DEF x, y, t
  <2>7. a + x \in Nat \ {0} /\ a + x + y <= e
    BY <2>6
  <2> QED BY <2>1, <2>2, <2>7, Zenon DEF x, y
<1>3. \A i \in 1..k : SubSeq(d, FrameAt(p, i), FrameAt(p, i) + p.size[i] - 1) \in Seq(Int)
  <2> SUFFICES ASSUME NEW i \in 1..k
               PROVE  SubSeq(d, FrameAt(p, i), FrameAt(p, i) + p.size[i] - 1) \in Seq(Int)
    OBVIOUS
  <2> DEFINE x == FrameAt(p, i)
             y == z[i]
  <2>1. x \in Nat \ {0} /\ y \in Nat /\ x + y <= e
    BY <1>2
  <2> HIDE DEF x, y, e
  <2>2. x + y - 1 \in Int /\ x + y - 1 <= Len(d)
    BY <1>1, <2>1
  <2>3. SubSeq(d, x, x + y - 1) \in Seq(Int)
    BY <2>1, <2>2, SliceType
  <2> QED BY <2>3 DEF x, y
<1>4. Frames(d, p) \in Seq(Seq(Int)) /\ Len(Frames(d, p)) = k
  <2> HIDE DEF k
  <2>1. Frames(d, p) = [i \in 1..k |-> SubSeq(d, FrameAt(p, i), FrameAt(p, i) + p.size[i] - 1)]
    BY DEF Frames, k
  <2> QED BY <1>1, <1>3, <2>1
<1> QED BY <1>2, <1>4

\* The padding counts take up no more than the padding there is.
LEMMA PadCountsType ==
    ASSUME NEW amount \in Nat \ {0}
    PROVE  /\ PadCounts(amount) \in Seq(Int)
           /\ Len(PadCounts(amount)) \in Nat
           /\ amount - Len(PadCounts(amount)) \in Nat
<1> DEFINE full == (amount - 1) \div Chunk
<1>1. full \in Nat /\ full <= amount - 1 /\ Chunk \in Nat \ {0}
  <2> DEFINE c == Chunk
             a == amount - 1
  <2>1. c \in Nat \ {0} /\ a \in Nat
    BY ByteFacts
  <2> HIDE DEF c, a
  <2>2. a \div c \in Nat /\ a \div c <= a
    BY <2>1
  <2> QED BY <2>1, <2>2 DEF c, a
<1> HIDE DEF full
<1>2. PadCounts(amount) = [i \in 1..full |-> Chunk] \o <<amount - Chunk * full - 1>>
  BY DEF PadCounts, full
<1>3. [i \in 1..full |-> Chunk] \in Seq(Int) /\ Len([i \in 1..full |-> Chunk]) = full
  <2>1. Chunk \in Int
    BY <1>1
  <2> HIDE DEF Chunk
  <2> QED BY <1>1, <2>1
<1>4. amount - Chunk * full - 1 \in Int
  <2>1. Chunk * full \in Int
    BY <1>1
  <2> QED BY <2>1
<1>5. PadCounts(amount) \in Seq(Int) /\ Len(PadCounts(amount)) = full + 1
  <2> DEFINE p == [i \in 1..full |-> Chunk]
             x == amount - Chunk * full - 1
  <2>1. p \in Seq(Int) /\ Len(p) = full /\ x \in Int /\ PadCounts(amount) = p \o <<x>>
    BY Zenon, <1>2, <1>3, <1>4
  <2> HIDE DEF p, x
  <2> QED BY <1>1, <2>1
<1> QED BY <1>1, <1>5

LEMMA LongHeadType ==
    ASSUME NEW toc \in Int, NEW size \in Seq(Nat), Len(size) >= 1, NEW amount \in Int
    PROVE  LongHeadOf(toc, size, amount) \in Seq(Int)
<1> DEFINE first == <<toc + 3,
                      Len(size) + (IF Vbr(size) THEN Byte \div 2 ELSE 0)
                                + (IF amount > 0 THEN Byte \div 4 ELSE 0)>>
           counts == IF amount > 0 THEN PadCounts(amount) ELSE <<>>
           sizes == IF Vbr(size) THEN AllSizes(size, Len(size) - 1) ELSE <<>>
<1>1. first \in Seq(Int)
  <2>1. Byte \div 2 \in Int /\ Byte \div 4 \in Int /\ Len(size) \in Int
    BY ByteFacts
  <2> QED BY <2>1
<1>2. counts \in Seq(Int)
  <2>1. amount > 0 => amount \in Nat \ {0}
    OBVIOUS
  <2>2. <<>> \in Seq(Int)
    OBVIOUS
  <2> QED BY <2>1, <2>2, PadCountsType
<1>3. sizes \in Seq(Int)
  <2>1. Len(size) - 1 \in 0..Len(size)
    OBVIOUS
  <2>2. <<>> \in Seq(Int)
    OBVIOUS
  <2> QED BY <2>1, <2>2, AllSizesType
<1>4. LongHeadOf(toc, size, amount) = first \o counts \o sizes
  BY Zenon DEF LongHeadOf
<1> HIDE DEF first, counts, sizes
<1> QED BY <1>1, <1>2, <1>3, <1>4

LEMMA ShortHeadType ==
    ASSUME NEW toc \in Int, NEW size \in Seq(Nat), Len(size) >= 1
    PROVE  ShortHead(toc, size) \in Seq(Int) /\ ShortHead(toc, size) # <<>>
<1>1. size[1] \in Nat
  OBVIOUS
<1>2. <<toc>> \in Seq(Int) /\ <<toc + 1>> \in Seq(Int) /\ <<toc + 2>> \in Seq(Int)
  OBVIOUS
<1>3. EncodeSize(size[1]) \in Seq(Int)
  <2>1. Seq(Nat) \subseteq Seq(Int)
    BY SeqWiden
  <2> QED BY Zenon, <1>1, <2>1, EncodeSizeType
<1>4. <<toc + 2>> \o EncodeSize(size[1]) \in Seq(Int) /\ <<toc + 2>> \o EncodeSize(size[1]) # <<>>
  BY <1>2, <1>3
<1>5. CASE Len(size) = 1
  BY <1>2, <1>5 DEF ShortHead
<1>6. CASE Len(size) = 2 /\ ~Vbr(size)
  BY <1>2, <1>6 DEF ShortHead
<1>7. CASE ~ (Len(size) = 1) /\ ~ (Len(size) = 2 /\ ~Vbr(size))
  <2>1. ShortHead(toc, size) = <<toc + 2>> \o EncodeSize(size[1])
    BY <1>7, Zenon DEF ShortHead
  <2> QED BY <1>4, <2>1
<1> QED BY <1>5, <1>6, <1>7

LEMMA LongHeadNonEmpty ==
    ASSUME NEW toc \in Int, NEW size \in Seq(Nat), Len(size) >= 1, NEW amount \in Int
    PROVE  LongHeadOf(toc, size, amount) # <<>>
<1> DEFINE x == <<toc + 3,
                  Len(size) + (IF Vbr(size) THEN Byte \div 2 ELSE 0)
                            + (IF amount > 0 THEN Byte \div 4 ELSE 0)>>
           counts == IF amount > 0 THEN PadCounts(amount) ELSE <<>>
           sizes == IF Vbr(size) THEN AllSizes(size, Len(size) - 1) ELSE <<>>
<1>1. LongHeadOf(toc, size, amount) = x \o counts \o sizes
  BY Zenon DEF LongHeadOf
<1>2. x \in Seq(Int) /\ Len(x) = 2
  <2>1. Byte \div 2 \in Int /\ Byte \div 4 \in Int /\ Len(size) \in Int
    BY ByteFacts
  <2> QED BY <2>1
<1>3. counts \in Seq(Int)
  <2>1. amount > 0 => amount \in Nat \ {0}
    OBVIOUS
  <2>2. <<>> \in Seq(Int)
    OBVIOUS
  <2> QED BY <2>1, <2>2, PadCountsType
<1>4. sizes \in Seq(Int)
  <2>1. Len(size) - 1 \in 0..Len(size)
    OBVIOUS
  <2>2. <<>> \in Seq(Int)
    OBVIOUS
  <2> QED BY <2>1, <2>2, AllSizesType
<1> HIDE DEF x, counts, sizes
<1>5. Len(x \o counts \o sizes) >= 2
  <2>1. /\ Len(counts) \in Nat /\ Len(sizes) \in Nat
        /\ Len(x \o counts \o sizes) = Len(x) + Len(counts) + Len(sizes)
    BY <1>2, <1>3, <1>4, ConcatThree, Zenon
  <2> QED BY <1>2, <2>1
<1> QED BY <1>1, <1>5

\* Padding makes the long header longer by its counts only.
LEMMA LongHeadLength ==
    ASSUME NEW toc \in Int, NEW size \in Seq(Nat), Len(size) >= 1,
           NEW amount \in Nat \ {0}
    PROVE  Len(LongHeadOf(toc, size, amount)) =
             Len(LongHeadOf(toc, size, 0)) + Len(PadCounts(amount))
<1> DEFINE first(n) == <<toc + 3,
                         Len(size) + (IF Vbr(size) THEN Byte \div 2 ELSE 0)
                                   + (IF n > 0 THEN Byte \div 4 ELSE 0)>>
           counts == PadCounts(amount)
           sizes == IF Vbr(size) THEN AllSizes(size, Len(size) - 1) ELSE <<>>
           x == first(amount)
           y == first(0)
<1>1. /\ LongHeadOf(toc, size, amount) = x \o counts \o sizes
      /\ LongHeadOf(toc, size, 0) = y \o <<>> \o sizes
  <2>1. amount > 0 /\ ~ (0 > 0)
    OBVIOUS
  <2> QED BY <2>1, Zenon DEF LongHeadOf
<1>2. x \in Seq(Int) /\ y \in Seq(Int) /\ Len(x) = 2 /\ Len(y) = 2
  <2>1. Byte \div 2 \in Int /\ Byte \div 4 \in Int /\ Len(size) \in Int
    BY ByteFacts
  <2> QED BY <2>1
<1>3. counts \in Seq(Int)
  BY PadCountsType
<1>4. sizes \in Seq(Int)
  <2>1. Len(size) - 1 \in 0..Len(size)
    OBVIOUS
  <2>2. <<>> \in Seq(Int)
    OBVIOUS
  <2> QED BY <2>1, <2>2, AllSizesType
<1> HIDE DEF x, y, counts, sizes
<1>5. /\ Len(x \o counts \o sizes) = Len(x) + Len(counts) + Len(sizes)
      /\ Len(counts) \in Nat /\ Len(sizes) \in Nat
  <2>1. Len(x \o counts \o sizes) = Len(x) + Len(counts) + Len(sizes)
    BY <1>2, <1>3, <1>4, ConcatThree, ZenonT(40)
  <2>2. Len(counts) \in Nat /\ Len(sizes) \in Nat
    BY <1>3, <1>4
  <2> QED BY <2>1, <2>2
<1>6. Len(y \o <<>> \o sizes) = Len(y) + Len(sizes)
  <2>1. y \o <<>> \o sizes = y \o sizes /\ Len(y \o sizes) = Len(y) + Len(sizes)
    BY <1>2, <1>4, ConcatThree, Zenon
  <2> QED BY <2>1, Zenon
<1>7. Len(x \o counts \o sizes) = Len(y \o <<>> \o sizes) + Len(counts)
  <2> DEFINE p == Len(x \o counts \o sizes)
             q == Len(y \o <<>> \o sizes)
             n == Len(counts)
             k == Len(sizes)
  <2>1. p = 2 + n + k /\ q = 2 + k /\ n \in Nat /\ k \in Nat
    BY <1>2, <1>5, <1>6
  <2> HIDE DEF p, q, n, k
  <2>2. p = q + n
    BY <2>1
  <2> QED BY <2>2 DEF p, q, n
<1> QED BY <1>1, <1>7, Zenon DEF counts

\* For one frame or two the long header is a byte longer than the short one.
LEMMA LongIsOneMore ==
    ASSUME NEW toc \in Int, NEW size \in Seq(Nat), Len(size) \in {1, 2}
    PROVE  Len(LongHeadOf(toc, size, 0)) = Len(ShortHead(toc, size)) + 1
<1> DEFINE sizes == IF Vbr(size) THEN AllSizes(size, Len(size) - 1) ELSE <<>>
           y == <<toc + 3, Len(size) + (IF Vbr(size) THEN Byte \div 2 ELSE 0)
                                     + (IF 0 > 0 THEN Byte \div 4 ELSE 0)>>
<1>1. LongHeadOf(toc, size, 0) = y \o <<>> \o sizes
  <2>1. ~ (0 > 0)
    OBVIOUS
  <2> QED BY <2>1, Zenon DEF LongHeadOf
<1>2. y \in Seq(Int) /\ Len(y) = 2
  <2>1. Byte \div 2 \in Int /\ Byte \div 4 \in Int /\ Len(size) \in Int
    BY ByteFacts
  <2> QED BY <2>1
<1>3. size[1] \in Nat /\ DOMAIN size = 1..Len(size)
  OBVIOUS
<1>4. CASE Len(size) = 1 \/ (Len(size) = 2 /\ ~Vbr(size))
  <2>1. ~Vbr(size)
    <3>1. Len(size) = 1 => \A i \in DOMAIN size : i = 1
      BY <1>3
    <3> QED BY <1>4, <3>1, Zenon DEF Vbr
  <2>2. Len(ShortHead(toc, size)) = 1
    BY <1>4 DEF ShortHead
  <2>3. sizes = <<>>
    BY <2>1
  <2> HIDE DEF y, sizes
  <2>4. Len(y \o <<>> \o sizes) = 2
    <3>1. sizes \in Seq(Int) /\ Len(sizes) = 0
      BY <2>3
    <3>2. y \o <<>> \o sizes = y \o sizes /\ Len(y \o sizes) = Len(y) + Len(sizes)
      BY <1>2, <3>1, ConcatThree, ZenonT(40)
    <3>3. Len(y \o <<>> \o sizes) = Len(y) + Len(sizes)
      BY <3>2, Zenon
    <3> QED BY <1>2, <3>1, <3>3
  <2>5. Len(LongHeadOf(toc, size, 0)) = 2
    BY <1>1, <2>4, Zenon
  <2> QED BY <2>2, <2>5
<1>5. CASE Len(size) = 2 /\ Vbr(size)
  <2> DEFINE e == EncodeSize(size[1])
  <2>1. e \in Seq(Nat)
    BY Zenon, <1>3, EncodeSizeType
  <2>2. sizes = e
    <3>1. [i \in 1..1 |-> EncodeSize(size[i])] = <<e>>
      OBVIOUS
    <3>2. Len(size) - 1 = 1
      BY <1>5
    <3>3. sizes = FlattenSeq([i \in 1..1 |-> EncodeSize(size[i])])
      BY <1>5, <3>2 DEF AllSizes
    <3> QED BY <2>1, <3>1, <3>3, FlattenOne
  <2>3. ShortHead(toc, size) = <<toc + 2>> \o e
    <3>1. ~ (Len(size) = 1) /\ ~ (Len(size) = 2 /\ ~Vbr(size))
      BY <1>5
    <3> QED BY <3>1, Zenon DEF ShortHead
  <2> HIDE DEF y, sizes, e
  <2>6. e \in Seq(Int)
    <3>1. Seq(Nat) \subseteq Seq(Int)
      BY SeqWiden
    <3> QED BY <2>1, <3>1
  <2>7. Len(y \o <<>> \o sizes) = 2 + Len(e)
    <3>1. y \o <<>> \o sizes = y \o sizes /\ Len(y \o sizes) = Len(y) + Len(sizes)
      BY <1>2, <2>2, <2>6, ConcatThree, Zenon
    <3>2. Len(y \o <<>> \o sizes) = Len(y) + Len(e)
      BY <2>2, <3>1, Zenon
    <3> QED BY <1>2, <3>2
  <2>8. <<toc + 2>> \in Seq(Int) /\ Len(<<toc + 2>>) = 1
    OBVIOUS
  <2>4. Len(y \o <<>> \o sizes) = 2 + Len(e) /\ Len(<<toc + 2>> \o e) = 1 + Len(e)
    BY <2>6, <2>7, <2>8
  <2>5. Len(e) \in Nat
    BY <2>1
  <2> QED BY <1>1, <2>3, <2>4, <2>5
<1> QED BY <1>4, <1>5

\* What Out gives back: an error, or a header and fill that with the frames
\* make as many bytes as it says, and as many as asked for.
GoodOut(o, payload, maxlen, pad) ==
    \/ o = [ret |-> TooSmall]
    \/ /\ o.head \in Seq(Int) /\ o.head # <<>> /\ o.fill \in Nat
       /\ o.ret = Len(o.head) + payload + o.fill
       /\ o.ret <= maxlen
       /\ IF pad THEN o.ret = maxlen ELSE o.fill = 0

LEMMA MadeGood ==
    ASSUME NEW head \in Seq(Int), head # <<>>, NEW payload \in Nat, NEW fill \in Nat,
           NEW maxlen \in Int, NEW pad \in BOOLEAN,
           Len(head) + payload + fill <= maxlen,
           IF pad THEN Len(head) + payload + fill = maxlen ELSE fill = 0
    PROVE  GoodOut(Made(head, payload, fill), payload, maxlen, pad)
<1> DEFINE o == Made(head, payload, fill)
<1>1. o.head = head /\ o.fill = fill /\ o.ret = Len(head) + payload + fill
  BY DEF Made
<1> HIDE DEF o
<1>2. o.ret <= maxlen /\ (IF pad THEN o.ret = maxlen ELSE o.fill = 0)
  BY <1>1, Zenon
<1>3. GoodOut(o, payload, maxlen, pad)
  BY <1>1, <1>2, Zenon DEF GoodOut
<1> QED BY <1>3 DEF o

\* Len(LongHeadOf(toc, size, 0) \o tail) + payload + amount bytes.
LEMMA OutLongGood ==
    ASSUME NEW toc \in Int, NEW size \in Seq(Nat), Len(size) >= 1, NEW payload \in Nat,
           NEW tail \in Seq(Int), NEW amount \in Nat,
           NEW maxlen \in Int, NEW pad \in BOOLEAN, NEW room \in Nat,
           room = RoomFor(maxlen, LongHeadOf(toc, size, 0), tail, payload),
           pad => amount = room, ~pad => amount = 0
    PROVE  GoodOut(OutLong(toc, size, payload, tail, amount), payload, maxlen, pad)
<1> DEFINE h0 == LongHeadOf(toc, size, 0)
           h == LongHeadOf(toc, size, amount)
           head == h \o tail
           fill == IF amount = 0 THEN 0 ELSE amount - Len(PadCounts(amount))
<1>a. amount \in Int /\ 0 \in Int
  OBVIOUS
<1>1. h \in Seq(Int) /\ h0 \in Seq(Int) /\ h # <<>>
  BY <1>a, LongHeadType, LongHeadNonEmpty, Zenon
<1>2. Len(h) = Len(h0) + amount - fill /\ fill \in Nat
  <2>1. CASE amount = 0
    <3> HIDE DEF h0
    <3>1. h = h0 /\ fill = 0
      BY <2>1 DEF h0
    <3> QED BY <1>1, <2>1, <3>1
  <2>2. CASE amount # 0
    <3>1. /\ Len(h) = Len(h0) + Len(PadCounts(amount))
          /\ Len(PadCounts(amount)) \in Nat /\ amount - Len(PadCounts(amount)) \in Nat
      BY <2>2, LongHeadLength, PadCountsType
    <3> DEFINE n == Len(PadCounts(amount))
               x == Len(h)
               y == Len(h0)
    <3>2. fill = amount - n /\ y \in Nat /\ x = y + n /\ n \in Nat /\ fill \in Nat
      BY <1>1, <2>2, <3>1
    <3> HIDE DEF fill, n, x, y
    <3>3. x = y + amount - fill
      BY <3>2
    <3> QED BY <3>2, <3>3 DEF x, y
  <2> QED BY <2>1, <2>2
<1>3. OutLong(toc, size, payload, tail, amount) = Made(head, payload, fill)
  BY Zenon DEF OutLong
<1>4. room = maxlen - Len(h0 \o tail) - payload
  BY DEF RoomFor
<1> HIDE DEF h0, h, fill
<1>5. /\ head \in Seq(Int) /\ head # <<>>
      /\ Len(head) = Len(h) + Len(tail) /\ Len(h0 \o tail) = Len(h0) + Len(tail)
      /\ Len(tail) \in Nat /\ Len(h) \in Nat /\ Len(h0) \in Nat
  BY <1>1
<1>6. /\ Len(head) + payload + fill <= maxlen
      /\ IF pad THEN Len(head) + payload + fill = maxlen ELSE fill = 0
  <2> DEFINE x == Len(h)
             y == Len(h0)
             u == Len(tail)
             v == Len(head)
  <2>1. /\ x \in Nat /\ y \in Nat /\ u \in Nat /\ v = x + u
        /\ x = y + amount - fill /\ room = maxlen - (y + u) - payload
        /\ fill \in Nat
    BY Zenon, <1>2, <1>4, <1>5
  <2>2. amount = 0 => fill = 0
    BY DEF fill
  <2> HIDE DEF x, y, u, v
  <2>3. v + payload + fill = maxlen - room + amount
    <3>1. v + payload + fill = y + amount + u + payload
      BY <2>1
    <3>2. maxlen - room = y + u + payload
      BY <2>1, SMTT(30)
    <3> QED BY <2>1, <3>1, <3>2
  <2>4. CASE pad
    <3>1. amount = room
      BY <2>4
    <3>2. v + payload + fill = maxlen /\ v + payload + fill <= maxlen
      BY <2>1, <2>3, <3>1
    <3> QED BY <2>4, <3>2 DEF v
  <2>5. CASE ~pad
    <3>1. amount = 0
      BY <2>5
    <3>2. v + payload + fill <= maxlen /\ fill = 0
      BY <2>1, <2>2, <2>3, <3>1
    <3> QED BY <2>5, <3>2 DEF v
  <2> QED BY <2>4, <2>5
<1> HIDE DEF head
<1> QED BY Zenon, <1>2, <1>3, <1>5, <1>6, MadeGood

\* OutIn, called with the room there is.
LEMMA OutInGood ==
    ASSUME NEW toc \in Int, NEW size \in Seq(Nat), Len(size) >= 1, NEW payload \in Nat,
           NEW tail \in Seq(Int), NEW pad \in BOOLEAN, NEW maxlen \in Int,
           NEW roomShort \in Int, NEW roomLong \in Int,
           roomShort = RoomFor(maxlen, ShortHead(toc, size), tail, payload),
           roomLong = RoomFor(maxlen, LongHeadOf(toc, size, 0), tail, payload)
    PROVE  GoodOut(OutIn(toc, size, payload, tail, pad, roomShort, roomLong),
                   payload, maxlen, pad)
<1> DEFINE o == OutIn(toc, size, payload, tail, pad, roomShort, roomLong)
           A == Len(size) <= 2 /\ roomShort < 0
           B == Len(size) <= 2 /\ roomShort >= 0 /\ ~(pad /\ roomShort > 0)
           C == Len(size) > 2 /\ roomLong < 0
           h == ShortHead(toc, size)
           h0 == LongHeadOf(toc, size, 0)
           head == h \o tail
<1>1. h \in Seq(Int) /\ h0 \in Seq(Int) /\ h # <<>>
  <2>1. 0 \in Int
    OBVIOUS
  <2> QED BY <2>1, ShortHeadType, LongHeadType, Zenon
<1>2. /\ head \in Seq(Int) /\ head # <<>> /\ Len(head) \in Nat
      /\ roomShort = maxlen - Len(head) - payload
  <2> HIDE DEF h
  <2>1. head \in Seq(Int) /\ head # <<>> /\ Len(head) \in Nat
    BY <1>1
  <2> QED BY <2>1 DEF RoomFor, h
<1>3. Len(size) <= 2 => roomLong = roomShort - 1
  <2> SUFFICES ASSUME Len(size) <= 2 PROVE roomLong = roomShort - 1
    OBVIOUS
  <2>1. Len(size) \in {1, 2}
    <3> DEFINE n == Len(size)
    <3>1. n \in Nat /\ n >= 1 /\ n <= 2
      OBVIOUS
    <3> HIDE DEF n
    <3>2. n \in {1, 2}
      BY <3>1
    <3> QED BY <3>2 DEF n
  <2>2. Len(h0) = Len(h) + 1
    BY Zenon, <2>1, LongIsOneMore
  <2> HIDE DEF h, h0
  <2>3. Len(h0 \o tail) = Len(h \o tail) + 1 /\ Len(h \o tail) \in Nat
    <3>1. /\ Len(h0 \o tail) = Len(h0) + Len(tail) /\ Len(h \o tail) = Len(h) + Len(tail)
          /\ Len(h0) \in Nat /\ Len(h) \in Nat /\ Len(tail) \in Nat
      BY <1>1
    <3> DEFINE p == Len(h0 \o tail)
               q == Len(h \o tail)
               x == Len(h0)
               y == Len(h)
               z == Len(tail)
    <3>2. p = x + z /\ q = y + z /\ x \in Nat /\ y \in Nat /\ z \in Nat /\ x = y + 1
      BY <2>2, <3>1
    <3> HIDE DEF p, q, x, y, z
    <3>3. p = q + 1 /\ q \in Nat
      BY <3>2
    <3> QED BY <3>3 DEF p, q
  <2>4. roomLong = maxlen - Len(h0 \o tail) - payload
    BY DEF RoomFor, h0
  <2> DEFINE x == Len(h \o tail)
             y == Len(h0 \o tail)
  <2>5. x \in Nat /\ y = x + 1 /\ roomLong = maxlen - y - payload /\ roomShort = maxlen - x - payload
    BY Zenon, <1>2, <2>3, <2>4
  <2> HIDE DEF x, y
  <2>6. roomLong = maxlen - (x + 1) - payload
    BY Zenon, <2>5
  <2>7. roomShort - 1 = maxlen - (x + 1) - payload
    BY <2>5
  <2> QED BY <2>6, <2>7
<1>4. CASE A
  <2>1. o = [ret |-> TooSmall]
    <3>1. ~B /\ ~C
      BY <1>4
    <3> QED BY <1>4, <3>1, Zenon DEF OutIn
  <2> QED BY <2>1 DEF GoodOut
<1>5. CASE B
  <2>1. o = Made(head, payload, 0)
    <3>1. ~A /\ ~C
      BY <1>5
    <3> QED BY <1>5, <3>1, Zenon DEF OutIn
  <2>2. /\ Len(head) + payload + 0 <= maxlen
        /\ IF pad THEN Len(head) + payload + 0 = maxlen ELSE 0 = 0
    <3> DEFINE n == Len(head)
    <3>1. n \in Nat /\ roomShort = maxlen - n - payload
      BY <1>2
    <3> HIDE DEF n
    <3>2. n + payload + 0 <= maxlen /\ (pad => n + payload + 0 = maxlen)
      BY <1>5, <3>1
    <3> QED BY <3>2 DEF n
  <2> HIDE DEF head
  <2>3. GoodOut(Made(head, payload, 0), payload, maxlen, pad)
    BY <1>2, <2>2, MadeGood
  <2> QED BY <2>1, <2>3, Zenon
<1>6. CASE C
  <2>1. o = [ret |-> TooSmall]
    <3>1. ~A /\ ~B
      BY <1>6
    <3> QED BY <1>6, <3>1, Zenon DEF OutIn
  <2> QED BY <2>1 DEF GoodOut
<1>7. CASE ~A /\ ~B /\ ~C
  <2> DEFINE amount == IF pad THEN roomLong ELSE 0
  <2>1. o = OutLong(toc, size, payload, tail, amount)
    BY <1>7, Zenon DEF OutIn
  <2>2. roomLong \in Nat
    BY <1>3, <1>7
  <2>3. amount \in Nat /\ (pad => amount = roomLong) /\ (~pad => amount = 0)
    BY <2>2
  <2> HIDE DEF amount, A, B, C, h, h0, head
  <2>4. GoodOut(OutLong(toc, size, payload, tail, amount), payload, maxlen, pad)
    BY <2>2, <2>3, OutLongGood
  <2> QED BY <2>1, <2>4, Zenon
<1> QED BY <1>4, <1>5, <1>6, <1>7, Zenon

LEMMA OutGood ==
    ASSUME NEW toc \in Int, NEW size \in Seq(Nat), Len(size) >= 1, NEW maxlen \in Int,
           NEW sd \in BOOLEAN, NEW pad \in BOOLEAN
    PROVE  GoodOut(Out(toc, size, maxlen, sd, pad), SumFunction(size), maxlen, pad)
<1> DEFINE tail == Delimiter(size, sd)
           payload == SumFunction(size)
           roomShort == RoomFor(maxlen, ShortHead(toc, size), tail, payload)
           roomLong == RoomFor(maxlen, LongHeadOf(toc, size, 0), tail, payload)
<1>1. payload \in Nat
  BY SumNat
<1>2. tail \in Seq(Int)
  <2>1. size[Len(size)] \in Nat
    OBVIOUS
  <2>2. Seq(Nat) \subseteq Seq(Int) /\ <<>> \in Seq(Int)
    BY SeqWiden
  <2>3. EncodeSize(size[Len(size)]) \in Seq(Int)
    BY Zenon, <2>1, <2>2, EncodeSizeType
  <2> QED BY <2>2, <2>3 DEF Delimiter
<1>3. Out(toc, size, maxlen, sd, pad) =
        OutIn(toc, size, payload, tail, pad, roomShort, roomLong)
  BY Zenon DEF Out
<1> HIDE DEF tail, payload
<1>4. roomShort \in Int /\ roomLong \in Int
  <2>a. 0 \in Int
    OBVIOUS
  <2>1. ShortHead(toc, size) \in Seq(Int) /\ LongHeadOf(toc, size, 0) \in Seq(Int)
    BY <2>a, ShortHeadType, LongHeadType, Zenon
  <2> DEFINE h == ShortHead(toc, size)
             h0 == LongHeadOf(toc, size, 0)
  <2> HIDE DEF h, h0
  <2>2. Len(h \o tail) \in Nat /\ Len(h0 \o tail) \in Nat
    BY <1>2, <2>1 DEF h, h0
  <2> QED BY <1>1, <2>2 DEF RoomFor, h, h0
<1> HIDE DEF roomShort, roomLong
<1>5. GoodOut(OutIn(toc, size, payload, tail, pad, roomShort, roomLong), payload, maxlen, pad)
  <2>1. /\ roomShort = RoomFor(maxlen, ShortHead(toc, size), tail, payload)
        /\ roomLong = RoomFor(maxlen, LongHeadOf(toc, size, 0), tail, payload)
    BY DEF roomShort, roomLong
  <2> QED BY <1>1, <1>2, <1>4, <2>1, OutInGood
<1> QED BY <1>3, <1>5, Zenon DEF payload

LEMMA FlattenLength ==
    ASSUME NEW frames \in Seq(Seq(Int)), NEW size \in Seq(Nat),
           Len(frames) = Len(size), \A i \in 1..Len(size) : Len(frames[i]) = size[i]
    PROVE  /\ FlattenSeq(frames) \in Seq(Int)
           /\ Len(FlattenSeq(frames)) = SumFunction(size)
<1>1. PICK f : Building(f, frames, Int)
  BY FlattenBuilding
<1>2. /\ f[0] = <<>> /\ \A n \in 1..Len(frames) : f[n] = f[n - 1] \o frames[n]
      /\ \A n \in 0..Len(frames) : f[n] \in Seq(Int)
      /\ FlattenSeq(frames) = f[Len(frames)]
  BY Zenon, <1>1 DEF Building
<1> DEFINE S == {n \in Nat : n \in 0..Len(size) => Len(f[n]) = SumOf(size, n)}
<1>3. 0 \in S
  <2>1. Len(f[0]) = 0
    BY <1>2
  <2>2. SumOf(size, 0) = 0
    BY SumPrefix
  <2> QED BY <2>1, <2>2
<1>4. ASSUME NEW n \in Nat, n \in S PROVE n + 1 \in S
  <2> SUFFICES ASSUME n + 1 \in 0..Len(size) PROVE Len(f[n + 1]) = SumOf(size, n + 1)
    BY n + 1 \in Nat
  <2>1. /\ n \in 0..Len(size) /\ n \in 0 .. Len(size) - 1
        /\ n + 1 \in 1..Len(frames) /\ (n + 1) - 1 = n /\ n \in 0..Len(frames)
        /\ n + 1 \in 1..Len(size)
    OBVIOUS
  <2>2. Len(f[n]) = SumOf(size, n) /\ SumOf(size, n + 1) = SumOf(size, n) + size[n + 1]
    BY <1>4, <2>1, SumPrefix
  <2>6. f[n + 1] = f[n] \o frames[n + 1] /\ f[n] \in Seq(Int)
    <3>1. f[n + 1] = f[(n + 1) - 1] \o frames[n + 1]
      BY <1>2, <2>1, Zenon
    <3> QED BY <1>2, <2>1, <3>1, Zenon
  <2>7. frames[n + 1] \in Seq(Int)
    BY <2>1
  <2>3. f[n + 1] = f[n] \o frames[n + 1] /\ f[n] \in Seq(Int) /\ frames[n + 1] \in Seq(Int)
    BY <2>6, <2>7, Zenon
  <2>4. Len(f[n + 1]) = Len(f[n]) + Len(frames[n + 1])
    BY <2>3
  <2>5. Len(frames[n + 1]) = size[n + 1]
    BY <2>1
  <2> QED BY <2>2, <2>4, <2>5, Zenon
<1> HIDE DEF S
<1>5. \A n \in Nat : n \in S
  BY <1>3, <1>4, SetInduction
<1>6. Len(f[Len(size)]) = SumOf(size, Len(size))
  <2>1. Len(size) \in Nat /\ Len(size) \in 0..Len(size)
    OBVIOUS
  <2>2. Len(size) \in S
    BY <1>5, <2>1
  <2> QED BY <2>1, <2>2 DEF S
<1>7. SumOf(size, Len(size)) = SumFunction(size)
  BY SumPrefix
<1>8. FlattenSeq(frames) \in Seq(Int)
  BY FlattenType
<1> QED BY <1>2, <1>6, <1>7, <1>8, Zenon

LEMMA FramesLength ==
    ASSUME NEW d \in Seq(Int), NEW sd \in BOOLEAN, NEW p, GoodParse(p, d, sd)
    PROVE  \A i \in 1..Len(p.size) : Len(Frames(d, p)[i]) = p.size[i]
<1> SUFFICES ASSUME NEW i \in 1..Len(p.size) PROVE Len(Frames(d, p)[i]) = p.size[i]
  OBVIOUS
<1>1. i \in 1..p.count
  BY DEF GoodParse
<1> DEFINE x == FrameAt(p, i)
           y == p.size[i]
<1>2. x \in Nat \ {0} /\ y \in Nat
  BY <1>1, FramesType
<1>3. Frames(d, p)[i] = SubSeq(d, x, x + y - 1)
  BY Zenon, <1>1 DEF Frames
<1> HIDE DEF x, y
<1>4. Len(SubSeq(d, x, x + y - 1)) = y
  <2>1. x + y - 1 \in Int /\ (x + y - 1) - x + 1 = y
    BY <1>2
  <2> QED BY <1>2, <2>1
<1> QED BY <1>3, <1>4, Zenon DEF y

LEMMA PackedGood ==
    ASSUME NEW size \in Seq(Nat), NEW frames \in Seq(Seq(Int)),
           Len(frames) = Len(size), \A i \in 1..Len(size) : Len(frames[i]) = size[i],
           NEW maxlen \in Int, NEW pad \in BOOLEAN,
           NEW o, GoodOut(o, SumFunction(size), maxlen, pad), o.ret >= 0
    PROVE  Packed(o, frames) \in Seq(Int) /\ Len(Packed(o, frames)) = o.ret
<1>1. /\ o.head \in Seq(Int) /\ o.fill \in Nat
      /\ o.ret = Len(o.head) + SumFunction(size) + o.fill
  <2>1. o # [ret |-> TooSmall]
    BY DEF TooSmall
  <2> QED BY <2>1 DEF GoodOut
<1>2. FlattenSeq(frames) \in Seq(Int) /\ Len(FlattenSeq(frames)) = SumFunction(size)
  BY FlattenLength
<1>3. Zeros(o.fill) \in Seq(Int) /\ Len(Zeros(o.fill)) = o.fill
  <2> DEFINE n == o.fill
  <2>1. n \in Nat
    BY <1>1
  <2> HIDE DEF n
  <2>2. Zeros(n) \in Seq(Int) /\ Len(Zeros(n)) = n
    BY <2>1 DEF Zeros
  <2> QED BY <2>2 DEF n
<1> DEFINE x == o.head
           y == FlattenSeq(frames)
           z == Zeros(o.fill)
<1>4. Packed(o, frames) = x \o y \o z
  BY DEF Packed
<1>5. x \in Seq(Int) /\ y \in Seq(Int) /\ z \in Seq(Int)
  BY <1>1, <1>2, <1>3
<1> HIDE DEF x, y, z
<1>6. x \o y \o z \in Seq(Int) /\ Len(x \o y \o z) = Len(x) + Len(y) + Len(z)
  BY <1>5, ConcatThree, Zenon
<1>7. Len(x) + Len(y) + Len(z) = o.ret
  BY <1>1, <1>2, <1>3, Zenon DEF x, y, z
<1> QED BY <1>4, <1>6, <1>7, Zenon

LEMMA WriteType ==
    ASSUME NEW buf \in Seq(Int), NEW a \in Int, NEW bytes \in Seq(Int)
    PROVE  Write(buf, a, bytes) \in Seq(Int) /\ Len(Write(buf, a, bytes)) = Len(buf)
<1> DEFINE W(i) == IF i \in a .. a + Len(bytes) - 1 THEN bytes[i - a + 1] ELSE buf[i]
<1>1. ASSUME NEW i \in 1..Len(buf) PROVE W(i) \in Int
  <2>1. CASE i \in a .. a + Len(bytes) - 1
    <3>1. i - a + 1 \in 1..Len(bytes)
      BY <2>1
    <3> QED BY <2>1, <3>1
  <2>2. CASE ~ (i \in a .. a + Len(bytes) - 1)
    BY <2>2
  <2> QED BY <2>1, <2>2
<1>2. Write(buf, a, bytes) = [i \in 1..Len(buf) |-> W(i)]
  BY DEF Write
<1> HIDE DEF W
<1> QED BY <1>1, <1>2

MoveFold(f, from, p, base, n) ==
    f = [u \in SUBSET DOMAIN Upto(n) |->
           IF u = {} THEN base ELSE Moved(f[u \ {Max(u)}], from, p, Upto(n)[Max(u)])]

MoveBase(buf, dst, o) ==
    [mem |-> Write(buf, dst, o.head), ptr |-> dst + Len(o.head)]

Moving(w, buf, dst, o, from, p) ==
    /\ w[0] = MoveBase(buf, dst, o)
    /\ \A k \in 1..p.count : w[k] = Moved(w[k - 1], from, p, k)
    /\ MoveFrames(buf, dst, o, from, p) = w[p.count].mem

LEMMA MoveSteps ==
    ASSUME NEW buf, NEW dst, NEW o, NEW from, NEW p, p.count \in Nat
    PROVE  \E w : Moving(w, buf, dst, o, from, p)
<1> DEFINE base == MoveBase(buf, dst, o)
           n == p.count
           c == [from |-> from, p |-> p, q |-> Upto(p.count)]
           f == CHOOSE f : MoveFold(f, from, p, base, n)
<1>1. MoveFrames(buf, dst, o, from, p) = f[DOMAIN Upto(n)].mem
  BY Zenon DEF MoveFrames, FoldLeft, MapThenFoldSet, MoveFold, MoveBase, Moved, Upto
<1>2. DOMAIN Upto(n) = 1..n /\ \A k \in 1..n : Upto(n)[k] = k
  BY DEF Upto
<1>9. \A r, i : Step("move", c, r, i) = Moved(r, from, p, Upto(n)[i])
  <2>1. c.from = from /\ c.p = p /\ c.q = Upto(n) /\ "move" # "sizes" /\ "move" # "walk"
    OBVIOUS
  <2> HIDE DEF c, n
  <2> QED BY <2>1, Zenon DEF Step
<1>3. \A g : MoveFold(g, from, p, base, n) <=> Folds(g, "move", c, base, n)
  <2> SUFFICES ASSUME NEW g
               PROVE  MoveFold(g, from, p, base, n) <=> Folds(g, "move", c, base, n)
    OBVIOUS
  <2> HIDE DEF c, base, n, f
  <2> DEFINE A(u) == IF u = {} THEN base ELSE Moved(g[u \ {Max(u)}], from, p, Upto(n)[Max(u)])
             B(u) == IF u = {} THEN base ELSE Step("move", c, g[u \ {Max(u)}], Max(u))
  <2>1. \A u : A(u) = B(u)
    BY <1>9, Zenon
  <2>2. MoveFold(g, from, p, base, n) <=> g = [u \in SUBSET (1..n) |-> A(u)]
    BY <1>2, Zenon DEF MoveFold
  <2>3. Folds(g, "move", c, base, n) <=> g = [u \in SUBSET (1..n) |-> B(u)]
    BY Zenon DEF Folds
  <2> HIDE DEF A, B
  <2>4. [u \in SUBSET (1..n) |-> A(u)] = [u \in SUBSET (1..n) |-> B(u)]
    BY <2>1, Zenon
  <2> QED BY <2>2, <2>3, <2>4, Zenon
<1> HIDE DEF c, base
<1>4. PICK g : Folds(g, "move", c, base, n)
  BY FoldsExists
<1>5. MoveFold(f, from, p, base, n)
  BY <1>3, <1>4, Zenon
<1> HIDE DEF f
<1>6. Folds(f, "move", c, base, n)
  BY <1>3, <1>5
<1>7. PICK w : StepsOf(w, "move", c, base, n) /\ f[1..n] = w[n]
  BY <1>6, FoldsSteps
<1> HIDE DEF n
<1>8. MoveFrames(buf, dst, o, from, p) = w[n].mem
  BY <1>1, <1>2, <1>7, Zenon
<1>10. w[0] = base /\ \A k \in 1..n : w[k] = Moved(w[k - 1], from, p, k)
  <2>1. w[0] = base /\ \A k \in 1..n : w[k] = Step("move", c, w[k - 1], k)
    BY <1>7, Zenon DEF StepsOf
  <2>2. ASSUME NEW k \in 1..n PROVE w[k] = Moved(w[k - 1], from, p, k)
    <3>1. w[k] = Moved(w[k - 1], from, p, Upto(n)[k])
      BY <1>9, <2>1, Zenon
    <3>2. Upto(n)[k] = k
      BY <1>2
    <3> QED BY <3>1, <3>2, Zenon
  <2> QED BY <2>1, <2>2, Zenon
<1>11. Moving(w, buf, dst, o, from, p)
  BY <1>8, <1>10, Zenon DEF base, n, Moving
<1> QED BY <1>11

\* Moving frames within a buffer keeps it a buffer of the same length.
LEMMA MoveFramesType ==
    ASSUME NEW buf \in Seq(Int), NEW dst \in Int, NEW o, o.head \in Seq(Int),
           NEW from \in 1..Len(buf), NEW sd \in BOOLEAN,
           NEW p, GoodParse(p, SubSeq(buf, from, Len(buf)), sd)
    PROVE  /\ MoveFrames(buf, dst, o, from, p) \in Seq(Int)
           /\ Len(MoveFrames(buf, dst, o, from, p)) = Len(buf)
<1> DEFINE rest == SubSeq(buf, from, Len(buf))
           k == p.count
           Good(r) == r.mem \in Seq(Int) /\ Len(r.mem) = Len(buf) /\ r.ptr \in Int
<1>1. rest \in Seq(Int) /\ Len(rest) = Len(buf) - from + 1
  OBVIOUS
<1>2. k \in Nat /\ p.end \in Nat /\ p.end - 1 <= Len(rest)
  BY Zenon DEF GoodParse
<1>3. \A i \in 1..k : /\ FrameAt(p, i) \in Nat \ {0} /\ p.size[i] \in Nat
                      /\ FrameAt(p, i) + p.size[i] <= p.end
  BY Zenon, <1>1, FramesType
<1>a. \E w : Moving(w, buf, dst, o, from, p)
  <2>1. p.count \in Nat
    BY <1>2
  <2> HIDE DEF rest, k, Good
  <2> QED BY <2>1, MoveSteps, Zenon
<1>4. PICK w : /\ w[0] = MoveBase(buf, dst, o)
               /\ \A i \in 1..k : w[i] = Moved(w[i - 1], from, p, i)
               /\ MoveFrames(buf, dst, o, from, p) = w[k].mem
  BY <1>a, Zenon DEF Moving
<1> HIDE DEF rest, k
<1>5. ASSUME NEW i \in 1..k, NEW r, Good(r) PROVE Good(Moved(r, from, p, i))
  <2> DEFINE x == FrameAt(p, i)
             y == p.size[i]
             e == p.end
             part == SubSeq(r.mem, from + x - 1, from + x + y - 2)
             m == Moved(r, from, p, i)
  <2>1. x \in Nat \ {0} /\ y \in Nat /\ x + y <= e /\ e - 1 <= Len(buf) - from + 1 /\ e \in Nat
    BY Zenon, <1>1, <1>2, <1>3
  <2>2. /\ m.mem = Write(r.mem, r.ptr, part) /\ m.ptr = r.ptr + y
    BY DEF Moved
  <2> HIDE DEF x, y, e, m
  <2>3. from + x - 1 \in Nat \ {0} /\ from + x + y - 2 \in Int /\ from + x + y - 2 <= Len(buf)
    BY <2>1
  <2>4. part \in Seq(Int)
    <3>1. from + x + y - 2 <= Len(r.mem) /\ r.mem \in Seq(Int)
      BY <1>5, <2>3
    <3> QED BY Zenon, <2>3, <3>1, SliceType
  <2> HIDE DEF part
  <2>5. m.mem \in Seq(Int) /\ Len(m.mem) = Len(buf)
    <3>1. r.mem \in Seq(Int) /\ r.ptr \in Int /\ Len(r.mem) = Len(buf)
      BY <1>5
    <3>2. /\ Write(r.mem, r.ptr, part) \in Seq(Int)
          /\ Len(Write(r.mem, r.ptr, part)) = Len(r.mem)
      BY Zenon, <2>4, <3>1, WriteType
    <3> QED BY <2>2, <3>1, <3>2, Zenon
  <2>6. m.ptr \in Int
    <3> DEFINE q == r.ptr
    <3>1. q \in Int
      BY <1>5
    <3> HIDE DEF q
    <3>2. q + y \in Int
      BY <2>1, <3>1
    <3> QED BY <2>2, <3>2 DEF q
  <2> QED BY <2>5, <2>6 DEF m
<1>6. Good(w[0])
  <2> DEFINE b == MoveBase(buf, dst, o)
  <2>1. b.mem = Write(buf, dst, o.head) /\ b.ptr = dst + Len(o.head)
    BY DEF MoveBase
  <2> HIDE DEF b
  <2>2. Len(o.head) \in Nat
    OBVIOUS
  <2>3. b.ptr \in Int
    BY <2>1, <2>2
  <2>4. Write(buf, dst, o.head) \in Seq(Int) /\ Len(Write(buf, dst, o.head)) = Len(buf)
    BY WriteType
  <2>5. Good(b)
    BY <2>1, <2>3, <2>4
  <2> QED BY <1>4, <2>5 DEF b
<1> DEFINE S == {i \in Nat : i \in 0..k => Good(w[i])}
<1> HIDE DEF Good
<1>7. 0 \in S
  BY <1>6
<1>8. ASSUME NEW i \in Nat, i \in S PROVE i + 1 \in S
  <2> SUFFICES ASSUME i + 1 \in 0..k PROVE Good(w[i + 1])
    BY i + 1 \in Nat
  <2>1. i \in 0..k /\ i + 1 \in 1..k /\ (i + 1) - 1 = i
    BY <1>2
  <2>2. Good(w[i])
    BY <1>8, <2>1
  <2>3. w[i + 1] = Moved(w[i], from, p, i + 1)
    BY <1>4, <2>1
  <2> QED BY <1>5, <2>1, <2>2, <2>3
<1> HIDE DEF S
<1>9. \A i \in Nat : i \in S
  BY Zenon, <1>7, <1>8, SetInduction
<1>10. Good(w[k])
  <2>1. k \in S /\ k \in 0..k
    BY <1>2, <1>9
  <2> QED BY <2>1 DEF S
<1> QED BY <1>4, <1>10 DEF Good

LEMMA RepackedGood ==
    ASSUME NEW d \in Seq(Int), d # <<>>, NEW n \in Int,
           NEW r \in Repacked(d, Parse(d, FALSE), n)
    PROVE  /\ r.ret \in Int
           /\ r.ret >= 0 => /\ r.bytes \in Seq(Int) /\ Len(r.bytes) = r.ret
                            /\ r.ret = n
<1> DEFINE p == Parse(d, FALSE)
           o == Out(Plain(d[1]), p.size, n, FALSE, TRUE)
<1>0. r \in Repacked(d, p, n)
  OBVIOUS
<1>1. p = Refused \/ GoodParse(p, d, FALSE)
  <2>1. FALSE \in BOOLEAN
    OBVIOUS
  <2> QED BY Zenon, <2>1, ParseGood
<1> HIDE DEF p
<1>2. CASE p = Refused
  <2>1. p.count = InvalidPacket /\ InvalidPacket < 0 /\ InvalidPacket \in Int
    BY <1>2 DEF Refused, InvalidPacket
  <2>2. r.ret = InvalidPacket
    BY <1>0, <2>1 DEF Repacked
  <2>3. r.ret \in Int /\ ~ (r.ret >= 0)
    BY <2>1, <2>2
  <2> QED BY Zenon, <2>3
<1>3. CASE GoodParse(p, d, FALSE)
  <2>1. /\ p.count \in Nat \ {0} /\ p.size \in Seq(Nat) /\ Len(p.size) = p.count
        /\ Len(p.size) >= 1
    BY <1>3, SizesAreNat DEF GoodParse
  <2>2. Plain(d[1]) \in Int
    <3>1. d[1] \in Int
      OBVIOUS
    <3> QED BY Zenon, <3>1, TocFacts
  <2>3. GoodOut(o, SumFunction(p.size), n, TRUE)
    <3>1. TRUE \in BOOLEAN /\ FALSE \in BOOLEAN
      OBVIOUS
    <3> QED BY Zenon, <2>1, <2>2, <3>1, OutGood
  <2>4. PICK e \in Outs(Padding(d, p), Plain(d[1]), p.size, n, FALSE, TRUE) :
               r = Padded(d, p, e)
    <3>1. ~ (p.count < 0)
      BY <2>1
    <3> QED BY <1>0, <3>1, Zenon DEF Repacked
  <2>8. e = o \/ e = [ret |-> TooSmall] \/ e = [ret |-> Internal]
    <3> HIDE DEF p
    <3> QED BY Zenon DEF Outs
  <2> HIDE DEF o
  <2>5. /\ Frames(d, p) \in Seq(Seq(Int)) /\ Len(Frames(d, p)) = Len(p.size)
        /\ \A i \in 1..Len(p.size) : Len(Frames(d, p)[i]) = p.size[i]
    <3>1. FALSE \in BOOLEAN
      OBVIOUS
    <3>2. Frames(d, p) \in Seq(Seq(Int)) /\ Len(Frames(d, p)) = p.count
      BY Zenon, <1>3, <3>1, FramesType
    <3>3. \A i \in 1..Len(p.size) : Len(Frames(d, p)[i]) = p.size[i]
      BY Zenon, <1>3, <3>1, FramesLength
    <3> QED BY <2>1, <3>2, <3>3
  <2>6. CASE e = [ret |-> TooSmall] \/ e = [ret |-> Internal]
    <3>1. e.ret < 0 /\ e.ret \in Int /\ ~ (e.ret >= 0)
      BY <2>6 DEF TooSmall, Internal
    <3>2. r.ret = e.ret
      BY <2>4, <3>1 DEF Padded
    <3>3. r.ret \in Int /\ ~ (r.ret >= 0)
      BY <3>1, <3>2
    <3> QED BY Zenon, <3>3
  <2>7. CASE e = o /\ o # [ret |-> TooSmall]
    <3>1. o.ret = n /\ o.ret >= 0
      <4>1. /\ o.ret = n /\ o.head \in Seq(Int) /\ o.fill \in Nat
            /\ o.ret = Len(o.head) + SumFunction(p.size) + o.fill
        BY <2>3, <2>7 DEF GoodOut
      <4>2. Len(o.head) \in Nat /\ SumFunction(p.size) \in Nat
        BY <2>1, <4>1, SumNat
      <4> DEFINE x == Len(o.head)
                 y == SumFunction(p.size)
                 z == o.fill
      <4>3. x \in Nat /\ y \in Nat /\ z \in Nat /\ n = x + y + z
        BY <4>1, <4>2
      <4> HIDE DEF x, y, z
      <4>4. n >= 0
        BY <4>3
      <4> QED BY <4>1, <4>4
    <3>2. Packed(o, Frames(d, p)) \in Seq(Int) /\ Len(Packed(o, Frames(d, p))) = o.ret
      <4>1. TRUE \in BOOLEAN
        OBVIOUS
      <4> QED BY Zenon, <2>1, <2>3, <2>5, <3>1, <4>1, PackedGood
    <3>3. r.ret = o.ret /\ r.bytes = Packed(o, Frames(d, p))
      BY <2>4, <2>7, <3>1 DEF Padded
    <3>4. r.ret \in Int /\ r.bytes \in Seq(Int) /\ Len(r.bytes) = r.ret /\ r.ret = n
      BY <3>1, <3>2, <3>3
    <3> QED BY Zenon, <3>4
  <2> QED BY Zenon, <2>6, <2>7, <2>8
<1> QED BY Zenon, <1>1, <1>2, <1>3

LEMMA PacketPadGood ==
    ASSUME NEW d \in Seq(Int), NEW n \in Int, NEW r \in PacketPad(d, n)
    PROVE  /\ r.ret \in Int
           /\ r.ret >= 0 => /\ r.bytes \in Seq(Int) /\ Len(r.bytes) = r.ret
                            /\ r.ret = n
<1>1. CASE d = <<>>
  <2>1. r = [ret |-> BadArg]
    <3>1. ~ (d # <<>> /\ Len(d) = n) /\ ~ (d # <<>> /\ Len(d) > n)
      BY <1>1
    <3> QED BY <1>1, <3>1, Zenon DEF PacketPad
  <2> QED BY <2>1 DEF BadArg
<1>2. CASE d # <<>> /\ Len(d) = n
  <2>1. r = [ret |-> n, bytes |-> d]
    <3>1. ~ (d # <<>> /\ Len(d) > n) /\ ~ (d = <<>>)
      BY <1>2
    <3> QED BY <1>2, <3>1, Zenon DEF PacketPad
  <2> QED BY <1>2, <2>1
<1>3. CASE d # <<>> /\ Len(d) > n
  <2>1. r = [ret |-> BadArg]
    <3>1. ~ (d # <<>> /\ Len(d) = n) /\ ~ (d = <<>>)
      <4>1. Len(d) \in Int
        OBVIOUS
      <4> QED BY <1>3, <4>1
    <3> QED BY <1>3, <3>1, Zenon DEF PacketPad
  <2> QED BY <2>1 DEF BadArg
<1>4. CASE d # <<>> /\ ~ (Len(d) = n) /\ ~ (Len(d) > n)
  <2>1. r \in Repacked(d, Parse(d, FALSE), n)
    BY <1>4, Zenon DEF PacketPad
  <2>2. d # <<>>
    BY <1>4
  <2> QED BY Zenon, <2>1, <2>2, RepackedGood
<1> QED BY <1>1, <1>2, <1>3, <1>4

\* What HeadLen counts is the header Out writes without padding.
LEMMA BareHeads ==
    ASSUME NEW toc \in Int, NEW size \in Seq(Nat), Len(size) >= 1
    PROVE  /\ Len(LongHeadOf(toc, size, 0)) =
                2 + (IF Vbr(size) THEN Len(AllSizes(size, Len(size) - 1)) ELSE 0)
           /\ Len(size) <= 2 => Len(ShortHead(toc, size)) = HeadLen(size)
           /\ Len(size) > 2 => Len(LongHeadOf(toc, size, 0)) = HeadLen(size)
           /\ HeadLen(size) \in Nat
<1> DEFINE sizes == IF Vbr(size) THEN AllSizes(size, Len(size) - 1) ELSE <<>>
           v == IF Vbr(size) THEN Len(AllSizes(size, Len(size) - 1)) ELSE 0
           y == <<toc + 3, Len(size) + (IF Vbr(size) THEN Byte \div 2 ELSE 0)
                                     + (IF 0 > 0 THEN Byte \div 4 ELSE 0)>>
<1>1. LongHeadOf(toc, size, 0) = y \o <<>> \o sizes
  <2>1. ~ (0 > 0)
    OBVIOUS
  <2> QED BY <2>1, Zenon DEF LongHeadOf
<1>2. y \in Seq(Int) /\ Len(y) = 2
  <2>1. Byte \div 2 \in Int /\ Byte \div 4 \in Int /\ Len(size) \in Int
    BY ByteFacts
  <2> QED BY <2>1
<1>3. sizes \in Seq(Int) /\ Len(sizes) = v /\ v \in Nat
  <2>1. Len(size) - 1 \in 0..Len(size)
    OBVIOUS
  <2>2. AllSizes(size, Len(size) - 1) \in Seq(Int)
    BY <2>1, AllSizesType
  <2>3. CASE Vbr(size)
    BY <2>2, <2>3
  <2>4. CASE ~Vbr(size)
    BY <2>4
  <2> QED BY <2>3, <2>4
<1>4. Len(LongHeadOf(toc, size, 0)) = 2 + v
  <2> HIDE DEF y, sizes, v
  <2>1. y \o <<>> \o sizes = y \o sizes /\ Len(y \o sizes) = Len(y) + Len(sizes)
    BY <1>2, <1>3, ConcatThree, Zenon
  <2> QED BY <1>1, <1>2, <1>3, <2>1, Zenon
<1>5. HeadLen(size) = (IF Len(size) > 2 THEN 2 ELSE 1) + v
  BY DEF HeadLen
<1> HIDE DEF v
<1>6. Len(size) <= 2 => Len(ShortHead(toc, size)) = HeadLen(size)
  <2> SUFFICES ASSUME Len(size) <= 2 PROVE Len(ShortHead(toc, size)) = HeadLen(size)
    OBVIOUS
  <2> DEFINE n == Len(size)
             x == Len(ShortHead(toc, size))
  <2>1. n \in Nat /\ n >= 1 /\ n <= 2
    OBVIOUS
  <2>2. n \in {1, 2}
    <3> HIDE DEF n
    <3> QED BY <2>1
  <2>3. 2 + v = x + 1 /\ x \in Nat
    <3>1. ShortHead(toc, size) \in Seq(Int)
      BY ShortHeadType
    <3> QED BY <1>4, <2>2, <3>1, LongIsOneMore
  <2>4. HeadLen(size) = 1 + v
    BY <1>5
  <2> HIDE DEF x, n
  <2>5. x = HeadLen(size)
    BY <1>3, <2>3, <2>4
  <2> QED BY <2>5 DEF x
<1>7. Len(size) > 2 => Len(LongHeadOf(toc, size, 0)) = HeadLen(size)
  BY <1>4, <1>5
<1>8. HeadLen(size) \in Nat
  BY <1>3, <1>5
<1> QED BY <1>4, <1>6, <1>7, <1>8 DEF v

BareOut(o, size, sd) ==
    /\ o.ret = HeadLen(size) + Len(Delimiter(size, sd)) + SumFunction(size)
    /\ o.head \in Seq(Int) /\ o.head # <<>> /\ o.fill = 0
    /\ o.ret = Len(o.head) + SumFunction(size)
    /\ o.ret \in Nat \ {0}

\* Asked for no padding, Out makes the shortest header there is, and fails
\* only if that does not fit.
LEMMA OutBare ==
    ASSUME NEW toc \in Int, NEW size \in Seq(Nat), Len(size) >= 1, NEW maxlen \in Int,
           NEW sd \in BOOLEAN,
           HeadLen(size) + Len(Delimiter(size, sd)) + SumFunction(size) <= maxlen
    PROVE  BareOut(Out(toc, size, maxlen, sd, FALSE), size, sd)
<1> DEFINE tail == Delimiter(size, sd)
           payload == SumFunction(size)
           h == ShortHead(toc, size)
           h0 == LongHeadOf(toc, size, 0)
           head == IF Len(size) <= 2 THEN h ELSE h0
           roomShort == RoomFor(maxlen, h, tail, payload)
           roomLong == RoomFor(maxlen, h0, tail, payload)
           o == Out(toc, size, maxlen, sd, FALSE)
           n == HeadLen(size)
<1>1. payload \in Nat
  BY SumNat
<1>2. tail \in Seq(Int)
  <2>1. size[Len(size)] \in Nat
    OBVIOUS
  <2>2. Seq(Nat) \subseteq Seq(Int) /\ <<>> \in Seq(Int)
    BY SeqWiden
  <2>3. EncodeSize(size[Len(size)]) \in Seq(Int)
    BY Zenon, <2>1, <2>2, EncodeSizeType
  <2> QED BY <2>2, <2>3 DEF Delimiter
<1>3. o = OutIn(toc, size, payload, tail, FALSE, roomShort, roomLong)
  BY Zenon DEF Out
<1>4. /\ h \in Seq(Int) /\ h # <<>> /\ h0 \in Seq(Int) /\ h0 # <<>>
      /\ head \in Seq(Int) /\ head # <<>>
  <2>1. 0 \in Int
    OBVIOUS
  <2>2. h \in Seq(Int) /\ h # <<>> /\ h0 \in Seq(Int) /\ h0 # <<>>
    BY <2>1, ShortHeadType, LongHeadType, LongHeadNonEmpty, Zenon
  <2> QED BY <2>2
<1>5. Len(head) = n /\ n \in Nat
  <2> DEFINE k == Len(size)
  <2>1. k \in Nat /\ k >= 1
    OBVIOUS
  <2>2. k <= 2 => Len(h) = n
    BY BareHeads
  <2>3. k > 2 => Len(h0) = n
    BY BareHeads
  <2>4. n \in Nat
    BY Zenon, BareHeads
  <2>5. k <= 2 \/ k > 2
    BY <2>1
  <2> HIDE DEF n, h, h0, k
  <2>6. head = IF k <= 2 THEN h ELSE h0
    BY DEF k
  <2>7. CASE k <= 2
    BY <2>2, <2>4, <2>6, <2>7
  <2>8. CASE ~(k <= 2)
    BY <2>3, <2>4, <2>5, <2>6, <2>8
  <2> QED BY <2>7, <2>8
<1> HIDE DEF h, h0, tail, payload, o, n, head
<1>6. Len(head \o tail) = n + Len(tail) /\ Len(tail) \in Nat /\ head \o tail \in Seq(Int)
  <2>1. head \in Seq(Int) /\ tail \in Seq(Int)
    BY <1>2, <1>4
  <2>2. Len(head \o tail) = Len(head) + Len(tail)
    BY <2>1
  <2>3. Len(tail) \in Nat /\ head \o tail \in Seq(Int)
    BY <2>1
  <2> QED BY <1>5, <2>2, <2>3, Zenon
<1>7. n + Len(tail) + payload <= maxlen
  BY DEF n, tail, payload
<1>8. o = Made(head \o tail, payload, 0)
  <2> DEFINE room == maxlen - Len(head \o tail) - payload
             x == Len(head \o tail)
             t == Len(tail)
  <2>1. room >= 0
    <3>1. x = n + t /\ t \in Nat /\ n + t + payload <= maxlen
      BY <1>6, <1>7
    <3> HIDE DEF x, t
    <3>2. maxlen - x - payload >= 0
      BY <1>1, <1>5, <3>1
    <3> QED BY <3>2 DEF x
  <2>2. Len(size) \in Nat
    OBVIOUS
  <2>3. CASE Len(size) <= 2
    <3>1. head = h
      BY <2>3 DEF head
    <3>2. roomShort >= 0
      BY <2>1, <3>1, Zenon DEF RoomFor
    <3>3. ~ (Len(size) <= 2 /\ roomShort < 0) /\ ~ (Len(size) > 2 /\ roomLong < 0)
      <4> HIDE DEF roomLong
      <4>1. roomShort \in Int
        <5> HIDE DEF roomShort, room, x
        <5>1. x \in Nat
          BY <1>6 DEF x
        <5>2. roomShort = room
          BY <3>1, Zenon DEF roomShort, RoomFor, room
        <5>3. room = maxlen - x - payload
          BY DEF room, x
        <5> QED BY <1>1, <5>1, <5>2, <5>3
      <4> HIDE DEF roomShort
      <4> QED BY <2>2, <2>3, <3>2, <4>1
    <3> HIDE DEF roomShort, roomLong
    <3>4. o = Made(h \o tail, payload, 0)
      BY <1>3, <2>3, <3>2, <3>3, Zenon DEF OutIn, h
    <3> QED BY <3>1, <3>4
  <2>4. CASE ~ (Len(size) <= 2)
    <3>1. head = h0
      BY <2>4 DEF head
    <3>2. ~ (roomLong < 0)
      <4> HIDE DEF roomLong, room, x
      <4>1. roomLong = room
        BY <3>1, Zenon DEF roomLong, RoomFor, room
      <4>2. x \in Nat
        BY <1>6 DEF x
      <4>3. room = maxlen - x - payload
        BY DEF room, x
      <4> QED BY <1>1, <2>1, <4>1, <4>2, <4>3
    <3> HIDE DEF roomShort, roomLong
    <3>3. o = OutLong(toc, size, payload, tail, 0)
      BY <1>3, <2>4, <3>2, Zenon DEF OutIn
    <3>4. o = Made(h0 \o tail, payload, 0)
      BY <3>3, Zenon DEF OutLong, h0
    <3> QED BY <3>1, <3>4
  <2> QED BY <2>3, <2>4
<1>9. /\ o.head = head \o tail /\ o.fill = 0
      /\ o.ret = Len(head \o tail) + payload + 0
  BY <1>8 DEF Made
<1>10. head \o tail # <<>>
  BY <1>2, <1>4
<1>11. /\ o.ret = n + Len(tail) + payload
       /\ o.ret = Len(o.head) + payload
       /\ n \in Nat \ {0}
  <2> DEFINE x == Len(head \o tail)
             t == Len(tail)
             r == o.ret
  <2>1. x = n + t /\ t \in Nat /\ r = x + payload + 0 /\ Len(o.head) = x
    BY <1>6, <1>9
  <2>2. n # 0
    BY <1>4, <1>5
  <2> HIDE DEF x, t, r
  <2>3. r = n + t + payload /\ r = x + payload
    BY <1>1, <1>5, <2>1
  <2> QED BY <1>5, <2>1, <2>2, <2>3 DEF x, t, r
<1>12. o.ret \in Nat \ {0}
  <2> DEFINE t == Len(tail)
  <2>1. t \in Nat /\ o.ret = n + t + payload
    BY <1>6, <1>11
  <2> HIDE DEF t
  <2> QED BY <1>1, <1>11, <2>1
<1>13. o.head \in Seq(Int) /\ o.head # <<>>
  BY <1>6, <1>9, <1>10
<1> QED BY Zenon, <1>9, <1>11, <1>12, <1>13 DEF o, n, tail, payload, BareOut

-----------------------------------------------------------------------------
(* Validating a packet, stream by stream.                                  *)

LEMMA ParseNothing == \A sd : Parse(<<>>, sd) = Refused
  BY DEF Parse

LEMMA SamplesGood ==
    ASSUME NEW d \in Seq(Int), d # <<>>, NEW sd, NEW p, GoodParse(p, d, sd)
    PROVE  /\ NbSamples(d, p.count) = p.count * Duration[Config(d[1])]
           /\ NbSamples(d, p.count) \in 1..MaxDuration
<1> DEFINE k == p.count
           u == Duration[Config(d[1])]
<1>1. d[1] \in Int
  OBVIOUS
<1>2. u \in Nat \ {0} /\ MaxDuration \in Nat
  BY Zenon, <1>1, TocFacts, ByteFacts
<1>3. k \in Nat \ {0} /\ k * u <= MaxDuration
  BY DEF GoodParse
<1>4. NbSamples(d, k) = IF k * u > MaxDuration THEN InvalidPacket ELSE k * u
  BY DEF NbSamples
<1> HIDE DEF k, u
<1>5. k * u \in Nat \ {0}
  BY <1>2, <1>3
<1>6. NbSamples(d, k) = k * u
  BY <1>2, <1>3, <1>4, <1>5
<1>7. NbSamples(d, k) \in 1..MaxDuration
  BY <1>2, <1>3, <1>5, <1>6
<1> QED BY <1>6, <1>7 DEF k, u

WalkState(r) == "ret" \in DOMAIN r /\ "at" \in DOMAIN r /\ r.ret \in Int /\ r.at \in Nat \ {0}

\* The walk went on from r, at the rest of the packet, to t.
WalkedOn(r, t, n, rest, last) ==
    LET p == Parse(rest, n # last)
    IN  /\ rest # <<>> /\ GoodParse(p, rest, n # last)
        /\ t.ret = NbSamples(rest, p.count) /\ t.ret \in 1..MaxDuration
        /\ t.at = r.at + p.end - 1
        /\ t.frames = Append(r.frames, Frames(rest, p))
        /\ n > 1 => t.ret = r.ret

LEMMA WalkPartGood ==
    ASSUME NEW rest \in Seq(Int), NEW r, WalkState(r), NEW n \in Nat, NEW last
    PROVE  LET t == WalkPart(r, n, rest, last)
           IN  /\ WalkState(t)
               /\ t.ret >= 0 => r.ret >= 0 /\ WalkedOn(r, t, n, rest, last)
<1> DEFINE sd == n # last
           p == Parse(rest, sd)
           t == WalkPart(r, n, rest, last)
<1>1. /\ WalkState(t)
      /\ t.ret >= 0 => r.ret >= 0 /\ WalkedOn(r, t, n, rest, last)
  <2>1. CASE r.ret < 0
    <3>1. t = r
      BY <2>1 DEF WalkPart
    <3> HIDE DEF t
    <3> QED BY <2>1, <3>1 DEF WalkState
  <2>2. CASE ~ (r.ret < 0)
    <3>1. t = WalkOn(r, n, rest, p)
      BY <2>2, Zenon DEF WalkPart
    <3>2. p = Refused \/ (rest # <<>> /\ GoodParse(p, rest, sd))
      <4>1. sd \in BOOLEAN
        OBVIOUS
      <4>2. p = Refused \/ GoodParse(p, rest, sd)
        BY Zenon, <4>1, ParseGood
      <4>3. rest = <<>> => p = Refused
        BY ParseNothing
      <4> QED BY <4>2, <4>3
    <3>3. CASE p = Refused
      <4>1. p.count < 0 /\ p.count = InvalidPacket
        BY <3>3 DEF Refused, InvalidPacket
      <4>2. ~ (p.count > 0)
        BY <4>1 DEF InvalidPacket
      <4> HIDE DEF p, t
      <4>3. t = [r EXCEPT !.ret = p.count]
        BY <3>1, <4>1, <4>2, Zenon DEF WalkOn
      <4>4. t.ret = p.count /\ t.at = r.at /\ DOMAIN t = DOMAIN r
        BY <4>3 DEF WalkState
      <4> QED BY <4>1, <4>4 DEF WalkState, InvalidPacket
    <3>4. CASE rest # <<>> /\ GoodParse(p, rest, sd)
      <4> DEFINE ns == NbSamples(rest, p.count)
      <4>1. p.count > 0 /\ ~ (p.count < 0) /\ p.end \in Nat /\ p.at \in Nat /\ p.at >= 2 /\ p.at <= p.end
        <5>1. SumFunction(p.size) \in Nat
          <6>1. p.size \in Seq(0..MaxFrame)
            BY <3>4 DEF GoodParse
          <6>2. p.size \in Seq(Nat)
            BY <6>1, SizesAreNat
          <6> QED BY <6>2, SumNat
        <5> DEFINE q == SumFunction(p.size)
                   a == p.at
                   e == p.end
                   c == p.count
        <5>2. q \in Nat /\ a \in Nat /\ a >= 2 /\ e \in Nat /\ a + q <= e /\ c \in Nat \ {0}
          BY <3>4, <5>1 DEF GoodParse
        <5> HIDE DEF q, a, e, c
        <5>3. a <= e /\ c > 0 /\ ~ (c < 0)
          BY <5>2
        <5> QED BY <5>2, <5>3 DEF a, e, c
      <4>2. ns \in 1..MaxDuration
        BY <3>4, SamplesGood
      <4>3. CASE n > 1 /\ Differs(ns, r.ret)
        <5> HIDE DEF p, t
        <5>1. t = [r EXCEPT !.ret = InvalidPacket]
          BY <3>1, <4>1, <4>3, Zenon DEF WalkOn
        <5>2. t.ret = InvalidPacket /\ t.at = r.at /\ DOMAIN t = DOMAIN r
          BY <5>1 DEF WalkState
        <5> QED BY <5>2 DEF WalkState, InvalidPacket
      <4>4. CASE ~ (n > 1 /\ Differs(ns, r.ret))
        <5> DEFINE fr == Append(r.frames, Frames(rest, p))
                   a == r.at + p.end - 1
        <5>1. t = [ret |-> ns, at |-> a, frames |-> fr]
          <6> HIDE DEF p, t, fr, a, ns
          <6>1. ~ (p.count > 0 /\ n > 1 /\ Differs(ns, r.ret))
            BY <4>4
          <6>2. t = [ret |-> NbSamples(rest, p.count), at |-> r.at + p.end - 1,
                     frames |-> Append(r.frames, Frames(rest, p))]
            BY <3>1, <4>1, <6>1, Zenon DEF WalkOn, ns
          <6> QED BY <6>2 DEF ns, a, fr
        <5>2. a \in Nat \ {0}
          <6> DEFINE x == r.at
                     e == p.end
                     y == p.at
          <6>1. x \in Nat \ {0} /\ e \in Nat /\ y >= 2 /\ y <= e /\ y \in Nat
            BY <4>1 DEF WalkState
          <6> HIDE DEF x, e, y
          <6>2. x + e - 1 \in Nat \ {0}
            BY <6>1
          <6> QED BY <6>2 DEF x, e
        <5>3. t.ret = ns /\ t.at = a /\ t.frames = fr /\ "ret" \in DOMAIN t /\ "at" \in DOMAIN t
          <6> HIDE DEF ns, a, fr, t
          <6> QED BY <5>1
        <5>4. n > 1 => ns = r.ret
          BY <4>4 DEF Differs
        <5>5. r.ret >= 0
          BY <2>2 DEF WalkState
        <5>6. WalkState(t)
          <6> HIDE DEF ns, a, fr, t
          <6>1. ns \in Int /\ a \in Nat \ {0}
            BY <4>2, <5>2
          <6> QED BY <5>3, <6>1, Zenon DEF WalkState
        <5>7. WalkedOn(r, t, n, rest, last)
          <6> HIDE DEF ns, a, fr, t
          <6> QED BY <3>4, <4>2, <5>3, <5>4, Zenon DEF WalkedOn, ns, a, fr
        <5> QED BY <5>5, <5>6, <5>7
      <4> QED BY <4>3, <4>4
    <3> QED BY <3>2, <3>3, <3>4
  <2> QED BY <2>1, <2>2
<1> QED BY <1>1

\* What is in w after each stream.
WalkBase == [ret |-> 0, at |-> 1, frames |-> <<>>]

Walking(w, l, d) ==
    /\ w[0] = WalkBase
    /\ \A k \in 1..l.streams :
         w[k] = WalkPart(w[k - 1], k, SubSeq(d, w[k - 1].at, Len(d)), l.streams)
    /\ Walk(l, d) = w[l.streams]

WalkFold(f, l, d) ==
    f = [u \in SUBSET DOMAIN Upto(l.streams) |->
           IF u = {} THEN WalkBase
           ELSE WalkPart(f[u \ {Max(u)}], Upto(l.streams)[Max(u)],
                         SubSeq(d, f[u \ {Max(u)}].at, Len(d)), l.streams)]

LEMMA WalkSteps ==
    ASSUME NEW l, l.streams \in Nat, NEW d
    PROVE  \E w : Walking(w, l, d)
<1> DEFINE n == l.streams
           c == [d |-> d, l |-> l, q |-> Upto(l.streams)]
           f == CHOOSE f : WalkFold(f, l, d)
<1>1. Walk(l, d) = f[DOMAIN Upto(n)]
  BY Zenon DEF Walk, FoldLeft, MapThenFoldSet, WalkFold, WalkBase, Upto
<1>2. DOMAIN Upto(n) = 1..n /\ \A k \in 1..n : Upto(n)[k] = k
  BY DEF Upto
<1>9. \A r, i : Step("walk", c, r, i) =
                  WalkPart(r, Upto(n)[i], SubSeq(d, r.at, Len(d)), l.streams)
  <2>1. c.d = d /\ c.l = l /\ c.q = Upto(n) /\ "walk" # "sizes"
    OBVIOUS
  <2> HIDE DEF c, n
  <2> QED BY <2>1, Zenon DEF Step
<1>3. \A g : WalkFold(g, l, d) <=> Folds(g, "walk", c, WalkBase, n)
  <2> SUFFICES ASSUME NEW g
               PROVE  WalkFold(g, l, d) <=> Folds(g, "walk", c, WalkBase, n)
    OBVIOUS
  <2> DEFINE A(u) == IF u = {} THEN WalkBase
                     ELSE WalkPart(g[u \ {Max(u)}], Upto(n)[Max(u)],
                                   SubSeq(d, g[u \ {Max(u)}].at, Len(d)), l.streams)
             B(u) == IF u = {} THEN WalkBase ELSE Step("walk", c, g[u \ {Max(u)}], Max(u))
  <2>1. \A u : A(u) = B(u)
    <3> HIDE DEF c, n, f
    <3> QED BY <1>9, Zenon
  <2>2. WalkFold(g, l, d) <=> g = [u \in SUBSET (1..n) |-> A(u)]
    BY <1>2, Zenon DEF WalkFold
  <2> HIDE DEF c, n, f
  <2>3. Folds(g, "walk", c, WalkBase, n) <=> g = [u \in SUBSET (1..n) |-> B(u)]
    BY Zenon DEF Folds
  <2> HIDE DEF A, B
  <2>4. [u \in SUBSET (1..n) |-> A(u)] = [u \in SUBSET (1..n) |-> B(u)]
    BY <2>1, Zenon
  <2> QED BY <2>2, <2>3, <2>4, Zenon
<1> HIDE DEF c
<1>4. PICK g : Folds(g, "walk", c, WalkBase, n)
  BY FoldsExists
<1>5. WalkFold(f, l, d)
  BY <1>3, <1>4, Zenon
<1> HIDE DEF f
<1>6. Folds(f, "walk", c, WalkBase, n)
  BY <1>3, <1>5
<1>7. PICK w : StepsOf(w, "walk", c, WalkBase, n) /\ f[1..n] = w[n]
  BY <1>6, FoldsSteps
<1>8. Walk(l, d) = w[n]
  BY <1>1, <1>2, <1>7, Zenon
<1>10. /\ w[0] = WalkBase
       /\ \A k \in 1..n : w[k] = WalkPart(w[k - 1], k, SubSeq(d, w[k - 1].at, Len(d)), l.streams)
  <2>1. w[0] = WalkBase /\ \A k \in 1..n : w[k] = Step("walk", c, w[k - 1], k)
    BY <1>7, Zenon DEF StepsOf
  <2>2. ASSUME NEW k \in 1..n
        PROVE  w[k] = WalkPart(w[k - 1], k, SubSeq(d, w[k - 1].at, Len(d)), l.streams)
    <3>1. w[k] = WalkPart(w[k - 1], Upto(n)[k], SubSeq(d, w[k - 1].at, Len(d)), l.streams)
      BY <1>9, <2>1, Zenon
    <3>2. Upto(n)[k] = k
      BY <1>2
    <3> QED BY <3>1, <3>2, Zenon
  <2> QED BY <2>1, <2>2, Zenon
<1>11. Walking(w, l, d)
  BY <1>8, <1>10, Zenon DEF n, Walking
<1> QED BY <1>11

\* A walk that found no error took every stream's part for good, one behind
\* the other, all of the same duration.
Walked(w, l, d) ==
    /\ w[0] = WalkBase
    /\ \A k \in 0..l.streams : WalkState(w[k]) /\ w[k].ret >= 0
    /\ \A k \in 1..l.streams :
         WalkedOn(w[k - 1], w[k], k, SubSeq(d, w[k - 1].at, Len(d)), l.streams)

LEMMA WalkGood ==
    ASSUME NEW l, l.streams \in Nat, NEW d \in Seq(Int), NEW w, Walking(w, l, d)
    PROVE  /\ Validate(l, d) \in Int
           /\ Validate(l, d) >= 0 => Walked(w, l, d)
<1> DEFINE n == l.streams
           rest(k) == SubSeq(d, w[k - 1].at, Len(d))
           S == {k \in Nat : k \in 0..n =>
                   /\ WalkState(w[k])
                   /\ w[k].ret >= 0 =>
                        /\ \A j \in 0..k : WalkState(w[j]) /\ w[j].ret >= 0
                        /\ \A j \in 1..k : WalkedOn(w[j - 1], w[j], j, rest(j), n)}
<1>1. /\ w[0] = WalkBase
      /\ \A k \in 1..n : w[k] = WalkPart(w[k - 1], k, rest(k), n)
      /\ Validate(l, d) = w[n].ret
  BY Zenon DEF Walking, Validate
<1> HIDE DEF rest
<1>2. WalkState(w[0]) /\ w[0].ret = 0
  BY <1>1 DEF WalkBase, WalkState
<1>3. 0 \in S
  <2>1. \A j \in 0..0 : j = 0
    OBVIOUS
  <2>2. \A j \in 1..0 : FALSE
    OBVIOUS
  <2>3. w[0].ret >= 0
    BY <1>2
  <2> QED BY <1>2, <2>1, <2>2, <2>3
<1>4. ASSUME NEW k \in Nat, k \in S PROVE k + 1 \in S
  <2> SUFFICES ASSUME k + 1 \in 0..n
               PROVE  /\ WalkState(w[k + 1])
                      /\ w[k + 1].ret >= 0 =>
                           /\ \A j \in 0..k + 1 : WalkState(w[j]) /\ w[j].ret >= 0
                           /\ \A j \in 1..k + 1 : WalkedOn(w[j - 1], w[j], j, rest(j), n)
    BY k + 1 \in Nat
  <2>1. k \in 0..n /\ k + 1 \in 1..n /\ (k + 1) - 1 = k /\ k + 1 \in Nat
    OBVIOUS
  <2>2. /\ WalkState(w[k])
        /\ w[k].ret >= 0 =>
             /\ \A j \in 0..k : WalkState(w[j]) /\ w[j].ret >= 0
             /\ \A j \in 1..k : WalkedOn(w[j - 1], w[j], j, rest(j), n)
    BY <1>4, <2>1
  <2> DEFINE t == WalkPart(w[k], k + 1, rest(k + 1), n)
  <2>3. w[k + 1] = t
    <3>1. w[k + 1] = WalkPart(w[(k + 1) - 1], k + 1, rest(k + 1), n)
      BY <1>1, <2>1, Zenon
    <3> QED BY <2>1, <3>1, Zenon
  <2>4. rest(k + 1) \in Seq(Int)
    <3>1. rest(k + 1) = SubSeq(d, w[k].at, Len(d))
      BY <2>1, Zenon DEF rest
    <3>2. w[k].at \in Nat \ {0}
      BY <2>2 DEF WalkState
    <3> DEFINE a == w[k].at
    <3> HIDE DEF a
    <3>3. SubSeq(d, a, Len(d)) \in Seq(Int)
      BY <3>2, RestType DEF a
    <3> QED BY Zenon, <3>1, <3>3 DEF a
  <2>5. /\ WalkState(t)
        /\ t.ret >= 0 => w[k].ret >= 0 /\ WalkedOn(w[k], t, k + 1, rest(k + 1), n)
    <3> HIDE DEF n, S
    <3> QED BY <2>1, <2>2, <2>4, WalkPartGood
  <2> HIDE DEF t
  <2>6. WalkState(w[k + 1])
    BY <2>3, <2>5
  <2>7. ASSUME w[k + 1].ret >= 0
        PROVE  /\ \A j \in 0..k + 1 : WalkState(w[j]) /\ w[j].ret >= 0
               /\ \A j \in 1..k + 1 : WalkedOn(w[j - 1], w[j], j, rest(j), n)
    <3>1. w[k].ret >= 0 /\ WalkedOn(w[k], w[k + 1], k + 1, rest(k + 1), n)
      BY <2>3, <2>5, <2>7, Zenon
    <3>2. WalkedOn(w[(k + 1) - 1], w[k + 1], k + 1, rest(k + 1), n)
      BY <2>1, <3>1, Zenon
    <3>3. \A j \in 0..k + 1 : j \in 0..k \/ j = k + 1
      OBVIOUS
    <3>4. \A j \in 1..k + 1 : j \in 1..k \/ j = k + 1
      OBVIOUS
    <3>5. \A j \in 0..k + 1 : WalkState(w[j]) /\ w[j].ret >= 0
      <4> SUFFICES ASSUME NEW j \in 0..k + 1 PROVE WalkState(w[j]) /\ w[j].ret >= 0
        OBVIOUS
      <4> QED BY <2>2, <2>6, <2>7, <3>1, <3>3, Zenon
    <3>6. \A j \in 1..k + 1 : WalkedOn(w[j - 1], w[j], j, rest(j), n)
      BY <2>2, <3>1, <3>2, <3>4, Zenon
    <3> QED BY <3>5, <3>6
  <2> QED BY <2>6, <2>7
<1>5. n \in S
  <2> HIDE DEF S
  <2>1. \A k \in Nat : k \in S
    BY Zenon, <1>3, <1>4, SetInduction
  <2> QED BY <2>1
<1>6. n \in 0..n
  OBVIOUS
<1>7. WalkState(w[n])
  BY <1>5, <1>6
<1>8. ASSUME w[n].ret >= 0 PROVE Walked(w, l, d)
  <2>1. /\ \A j \in 0..n : WalkState(w[j]) /\ w[j].ret >= 0
        /\ \A j \in 1..n : WalkedOn(w[j - 1], w[j], j, rest(j), n)
    BY <1>5, <1>6, <1>8
  <2> QED BY <1>1, <2>1, Zenon DEF Walked, rest, n
<1> QED BY <1>1, <1>7, <1>8 DEF WalkState

-----------------------------------------------------------------------------
(* The state.  A packet is a sequence of bytes wherever it is; unpadding    *)
(* in place writes no further than it has read; decoding follows the walk  *)
(* of the validation, every decoder so far has given as many samples, and  *)
(* each channel has what its stream gave it.                               *)
Types ==
    /\ layout \in Layouts /\ ValidLayout(layout)
    /\ job \in [kind : {"encode", "garbage", "lost"}, units : Nat, max : Int, vbr : BOOLEAN]
    /\ phase \in {"encode", "streams", "unsent", "wire", "torn", "pad", "unpad", "decode",
                  "children", "done"}
    /\ data \in Seq(Int) /\ sent \in Seq(Seq(Seq(Int)))
    /\ s \in 0..layout.streams /\ at \in Nat \ {0} /\ to \in Int /\ ret \in Int
    /\ dec \in [frame : Int, fec : BOOLEAN, plc : BOOLEAN]
    /\ child \in [0..layout.streams - 1 -> [touched : BOOLEAN, frames : Seq(Seq(Int))]]
    /\ pcm = [c \in DOMAIN layout.mapping |-> pcm[c]]

Positions ==
    /\ phase \in {"encode", "wire", "decode"} => s = 0
    /\ phase \in {"encode", "streams", "wire", "decode"} => at = 1
    /\ phase \in {"encode", "wire"} => to = 0
    /\ phase = "unpad" => to \in 0..at - 1 /\ at - 1 <= Len(data)

Silent ==
    phase \notin {"children", "done"} =>
      /\ \A n \in 0..layout.streams - 1 : ~child[n].touched
      /\ \A c \in DOMAIN layout.mapping : pcm[c] = <<>>

\* The side of a stream that a channel is mapped to.
Origin(m) ==
    IF m < 2 * layout.coupled THEN <<m \div 2, m % 2>> ELSE <<m - layout.coupled, 0>>

\* What channel c has got from the streams before n.
HeardSo(c, n, frames) ==
    LET m == layout.mapping[c]
    IN  IF m # Muted /\ Origin(m)[1] < n
        THEN <<[from |-> Origin(m), n |-> frames]>> ELSE <<>>

Decoding ==
    phase = "children" =>
      /\ dec.frame > 0
      /\ \A n \in 0..layout.streams - 1 : child[n].touched <=> n < s
      /\ \A c \in DOMAIN layout.mapping : pcm[c] = HeardSo(c, s, dec.frame)
      /\ (dec.plc \/ dec.fec) /\ s > 0 => dec.frame % F2_5 = 0
      /\ ~dec.plc =>
           /\ Validate(layout, data) >= 0
           /\ \A w : Walking(w, layout, data) =>
                /\ at = w[s].at
                /\ ~dec.fec /\ s > 0 => dec.frame = w[s].ret

StreamInv == Types /\ Positions /\ Silent /\ Decoding /\ AllOrNothing

LEMMA LayoutFacts ==
    ASSUME Types
    PROVE  /\ layout.streams \in Nat \ {0} /\ layout.coupled \in 0..layout.streams
           /\ layout.streams + layout.coupled <= 255
           /\ \A c \in DOMAIN layout.mapping :
                /\ layout.mapping[c] \in Nat
                /\ layout.mapping[c] < layout.streams + layout.coupled
                     \/ layout.mapping[c] = Muted
           /\ F2_5 \in Nat \ {0}
  BY Zenon, MultistreamAssumption DEF Types, ValidLayout

LEMMA WalkFrames ==
    ASSUME NEW l, l.streams \in Nat, NEW d \in Seq(Int), NEW w, Walked(w, l, d)
    PROVE  \A k \in 0..l.streams :
             w[k].frames \in Seq(Seq(Seq(Int))) /\ Len(w[k].frames) = k
<1> DEFINE n == l.streams
           rest(k) == SubSeq(d, w[k - 1].at, Len(d))
           S == {k \in Nat : k \in 0..n =>
                   w[k].frames \in Seq(Seq(Seq(Int))) /\ Len(w[k].frames) = k}
<1>1. /\ w[0] = WalkBase
      /\ \A k \in 0..n : WalkState(w[k])
      /\ \A k \in 1..n : WalkedOn(w[k - 1], w[k], k, rest(k), n)
  BY Zenon DEF Walked
<1> HIDE DEF rest
<1>2. 0 \in S
  <2>1. w[0].frames = <<>>
    BY <1>1 DEF WalkBase
  <2> DEFINE x == w[0].frames
  <2>2. x = <<>>
    BY <2>1
  <2> HIDE DEF x
  <2>3. x \in Seq(Seq(Seq(Int))) /\ Len(x) = 0
    BY <2>2
  <2> QED BY <2>3 DEF x
<1>3. ASSUME NEW k \in Nat, k \in S PROVE k + 1 \in S
  <2> SUFFICES ASSUME k + 1 \in 0..n
               PROVE  w[k + 1].frames \in Seq(Seq(Seq(Int))) /\ Len(w[k + 1].frames) = k + 1
    BY k + 1 \in Nat
  <2>1. k \in 0..n /\ k + 1 \in 1..n /\ (k + 1) - 1 = k
    OBVIOUS
  <2>2. w[k].frames \in Seq(Seq(Seq(Int))) /\ Len(w[k].frames) = k
    BY <1>3, <2>1
  <2> DEFINE r == rest(k + 1)
             p == Parse(r, k + 1 # n)
  <2>3. /\ GoodParse(p, r, k + 1 # n)
        /\ w[k + 1].frames = Append(w[k].frames, Frames(r, p))
    <3>1. WalkedOn(w[(k + 1) - 1], w[k + 1], k + 1, rest(k + 1), n)
      BY <1>1, <2>1
    <3>2. WalkedOn(w[k], w[k + 1], k + 1, r, n)
      BY <2>1, <3>1, Zenon
    <3> QED BY <3>2, Zenon DEF WalkedOn
  <2>4. r \in Seq(Int)
    <3> DEFINE a == w[k].at
    <3>1. r = SubSeq(d, a, Len(d)) /\ a \in Nat \ {0}
      BY <1>1, <2>1 DEF rest, WalkState
    <3> HIDE DEF a
    <3> QED BY Zenon, <3>1, RestType
  <2>5. Frames(r, p) \in Seq(Seq(Int))
    <3>1. (k + 1 # n) \in BOOLEAN
      OBVIOUS
    <3> HIDE DEF r, p
    <3> QED BY Zenon, <2>3, <2>4, <3>1, FramesType
  <2> DEFINE q == w[k].frames
             v == Frames(r, p)
             u == w[k + 1].frames
  <2>6. q \in Seq(Seq(Seq(Int))) /\ Len(q) = k /\ v \in Seq(Seq(Int)) /\ u = Append(q, v)
    BY <2>2, <2>3, <2>5
  <2> HIDE DEF q, v, u
  <2>7. u \in Seq(Seq(Seq(Int))) /\ Len(u) = k + 1
    BY <2>6
  <2> QED BY <2>7 DEF u
<1> HIDE DEF S
<1>4. \A k \in Nat : k \in S
  BY Zenon, <1>2, <1>3, SetInduction
<1> QED BY <1>4 DEF S

LEMMA InitInv ==
    ASSUME Init PROVE StreamInv
<1>1. /\ layout \in Layouts /\ ValidLayout(layout)
      /\ layout.streams \in Nat \ {0}
  BY MultistreamAssumption DEF Init
<1>2. /\ job \in [kind : {"encode", "garbage", "lost"}, units : Nat, max : Int, vbr : BOOLEAN]
      /\ job.kind \in {"encode", "garbage", "lost"}
  <2>1. job \in [kind : {"encode"}, units : Units, max : EncodeMax, vbr : BOOLEAN]
        \/ job \in [kind : {"garbage", "lost"}, units : {0}, max : {0}, vbr : {FALSE}]
    BY Zenon DEF Init
  <2>3. Units \subseteq Nat
    <3> SUFFICES ASSUME NEW u \in Units PROVE u \in Nat
      OBVIOUS
    <3>1. PICK c \in DOMAIN Duration, k \in 1 .. Byte \div 4 - 1 : k * Duration[c] = u
      BY EncoderAssumption
    <3>2. Duration[c] \in Nat /\ k \in Nat
      BY <3>1, PacketAssumption
    <3> DEFINE x == Duration[c]
    <3>3. k * x = u /\ x \in Nat
      BY <3>1, <3>2
    <3> HIDE DEF x
    <3> QED BY <3>2, <3>3
  <2>4. EncodeMax \subseteq Int
    BY MultistreamAssumption
  <2> DEFINE A == Units
  <2>5. A \subseteq Nat
    BY <2>3
  <2> HIDE DEF A
  <2>6. CASE job \in [kind : {"encode"}, units : A, max : EncodeMax, vbr : BOOLEAN]
    BY Zenon, <2>4, <2>5, <2>6
  <2>7. CASE job \in [kind : {"garbage", "lost"}, units : {0}, max : {0}, vbr : {FALSE}]
    <3>1. {"garbage", "lost"} \subseteq {"encode", "garbage", "lost"} /\ {0} \subseteq Nat
          /\ {0} \subseteq Int
      OBVIOUS
    <3>2. {FALSE} \subseteq BOOLEAN
      BY Zenon
    <3> DEFINE K == {"garbage", "lost"}
               L == {"encode", "garbage", "lost"}
               Z == {0}
               F == {FALSE}
               B == BOOLEAN
    <3>3. K \subseteq L /\ Z \subseteq Nat /\ Z \subseteq Int /\ F \subseteq B
      BY <3>1, <3>2
    <3>4. job \in [kind : K, units : Z, max : Z, vbr : F]
      BY Zenon, <2>7
    <3> HIDE DEF K, L, Z, F, B
    <3>5. job \in [kind : L, units : Nat, max : Int, vbr : B] /\ job.kind \in L
      BY Zenon, <3>3, <3>4
    <3> QED BY <3>5 DEF L, B
  <2>8. \/ job \in [kind : {"encode"}, units : A, max : EncodeMax, vbr : BOOLEAN]
        \/ job \in [kind : {"garbage", "lost"}, units : {0}, max : {0}, vbr : {FALSE}]
    BY <2>1, Zenon DEF A
  <2> QED BY <2>6, <2>7, <2>8, Zenon
<1>3. data \in Seq(Int)
  <2>1. <<>> \in Seq(Int) /\ Garbage \subseteq Seq(Nat) /\ Seq(Nat) \subseteq Seq(Int)
    BY MultistreamAssumption, SeqWiden
  <2>2. data \in Garbage \/ data = <<>>
    BY DEF Init
  <2> QED BY Zenon, <2>1, <2>2
<1>4. sent \in Seq(Seq(Seq(Int)))
  <2>1. CASE job.kind = "garbage" /\ Validate(layout, data) > 0
    <3>1. sent = Walk(layout, data).frames
      BY <2>1 DEF Init
    <3>2. layout.streams \in Nat /\ layout.streams \in 0..layout.streams
      BY <1>1
    <3>3. PICK w : Walking(w, layout, data)
      BY <3>2, WalkSteps
    <3>4. Walked(w, layout, data)
      <4>1. Validate(layout, data) \in Int /\ (Validate(layout, data) >= 0 => Walked(w, layout, data))
        BY <1>3, <3>2, <3>3, WalkGood
      <4> QED BY <2>1, <4>1
    <3>5. Walk(layout, data) = w[layout.streams]
      BY <3>3 DEF Walking
    <3>6. w[layout.streams].frames \in Seq(Seq(Seq(Int)))
      BY <1>3, <3>2, <3>4, WalkFrames
    <3> QED BY <3>1, <3>5, <3>6, Zenon
  <2>2. CASE ~ (job.kind = "garbage" /\ Validate(layout, data) > 0)
    <3>1. sent = <<>>
      BY <2>2, Zenon DEF Init
    <3> QED BY <3>1
  <2> QED BY <2>1, <2>2
<1>5. phase \in {"encode", "decode", "wire"}
  BY DEF Init
<1>6. Types
  <2>1. s = 0 /\ at = 1 /\ to = 0 /\ ret = 0
    BY DEF Init
  <2>2. dec \in [frame : Int, fec : BOOLEAN, plc : BOOLEAN]
    BY DEF Init, NoDecode
  <2>3. child \in [0..layout.streams - 1 -> [touched : BOOLEAN, frames : Seq(Seq(Int))]]
    BY DEF Init
  <2>4. pcm = [c \in DOMAIN layout.mapping |-> pcm[c]]
    BY DEF Init
  <2>5. phase \in {"encode", "streams", "unsent", "wire", "torn", "pad", "unpad", "decode",
                  "children", "done"}
    BY <1>5
  <2>6. s \in 0..layout.streams /\ at \in Nat \ {0} /\ to \in Int /\ ret \in Int
    BY <1>1, <2>1
  <2> QED BY <1>1, <1>2, <1>3, <1>4, <2>2, <2>3, <2>4, <2>5, <2>6, Zenon DEF Types
<1>7. Positions
  BY <1>5 DEF Positions, Init
<1>8. Silent
  BY DEF Silent, Init
<1>9. Decoding /\ AllOrNothing
  BY <1>5 DEF Decoding, AllOrNothing
<1> QED BY <1>6, <1>7, <1>8, <1>9 DEF StreamInv

-----------------------------------------------------------------------------
(* Before the decode call no decoder and no channel is touched.            *)
Phases == {"encode", "streams", "unsent", "wire", "torn", "pad", "unpad", "decode",
           "children", "done"}
Jobs == [kind : {"encode", "garbage", "lost"}, units : Nat, max : Int, vbr : BOOLEAN]

LEMMA EarlyStep ==
    ASSUME StreamInv, UNCHANGED <<layout, dec, child, pcm>>,
           phase \notin {"children", "done"}, phase' \in Phases \ {"children", "done"},
           job' \in Jobs, data' \in Seq(Int), sent' \in Seq(Seq(Seq(Int))),
           s' \in 0..layout.streams, at' \in Nat \ {0}, to' \in Int, ret' \in Int,
           Positions'
    PROVE  StreamInv'
<1>1. Types'
  BY Zenon DEF StreamInv, Types, Phases, Jobs, ValidLayout
<1>2. Silent'
  BY Zenon DEF StreamInv, Silent
<1>3. Decoding' /\ AllOrNothing'
  BY DEF Decoding, AllOrNothing, Phases
<1> QED BY <1>1, <1>2, <1>3 DEF StreamInv

LEMMA EarlyTypes ==
    ASSUME StreamInv
    PROVE  /\ job \in Jobs /\ data \in Seq(Int) /\ sent \in Seq(Seq(Seq(Int)))
           /\ s \in 0..layout.streams /\ at \in Nat \ {0} /\ to \in Int /\ ret \in Int
           /\ phase \in Phases /\ layout.streams \in Nat \ {0}
  BY LayoutFacts DEF StreamInv, Types, Jobs, Phases

ErrorCodes == {BadArg, TooSmall, Internal, InvalidPacket}

LEMMA CodesAreInts == \A c \in ErrorCodes : c \in Int /\ c < 0
  BY DEF ErrorCodes, BadArg, TooSmall, Internal, InvalidPacket

LEMMA EncodeStartInv ==
    ASSUME StreamInv, EncodeStart PROVE StreamInv'
<1>1. UNCHANGED <<layout, dec, child, pcm>>
  BY DEF EncodeStart
<1>2. /\ job' \in Jobs /\ data' \in Seq(Int) /\ sent' \in Seq(Seq(Seq(Int)))
      /\ s' \in 0..layout.streams /\ at' \in Nat \ {0} /\ to' \in Int
  BY EarlyTypes DEF EncodeStart, Stop
<1>3. phase = "encode" /\ phase' \in {"streams", "unsent"} /\ ret' \in Int
  BY EarlyTypes DEF EncodeStart, Stop, TooSmall
<1>4. Positions'
  BY <1>3 DEF EncodeStart, Stop, Positions, StreamInv
<1> QED BY <1>1, <1>2, <1>3, <1>4, EarlyStep DEF Phases

LEMMA EncodeDoneInv ==
    ASSUME StreamInv, EncodeDone PROVE StreamInv'
<1>1. UNCHANGED <<layout, dec, child, pcm>>
  BY DEF EncodeDone
<1>2. /\ job' \in Jobs /\ data' \in Seq(Int) /\ sent' \in Seq(Seq(Seq(Int)))
      /\ s' \in 0..layout.streams /\ at' \in Nat \ {0} /\ to' \in Int
      /\ phase = "streams" /\ phase' = "wire" /\ ret' \in Int
  BY EarlyTypes DEF EncodeDone
<1>4. Positions'
  BY <1>2 DEF EncodeDone, Positions, StreamInv
<1> QED BY <1>1, <1>2, <1>4, EarlyStep DEF Phases

LEMMA AsIsInv ==
    ASSUME StreamInv, AsIs PROVE StreamInv'
<1>1. UNCHANGED <<layout, dec, child, pcm>>
  BY DEF AsIs
<1>2. /\ job' \in Jobs /\ data' \in Seq(Int) /\ sent' \in Seq(Seq(Seq(Int)))
      /\ s' \in 0..layout.streams /\ at' \in Nat \ {0} /\ to' \in Int
      /\ phase = "wire" /\ phase' = "decode" /\ ret' \in Int
  BY EarlyTypes DEF AsIs
<1>4. Positions'
  BY <1>2 DEF AsIs, Positions, StreamInv
<1> QED BY <1>1, <1>2, <1>4, EarlyStep DEF Phases

LEMMA PadStartInv ==
    ASSUME StreamInv, NEW n \in Growth, PadStart(Len(data) + n) PROVE StreamInv'
<1>1. UNCHANGED <<layout, dec, child, pcm>>
  BY DEF PadStart
<1>2. /\ data' \in Seq(Int) /\ sent' \in Seq(Seq(Seq(Int)))
      /\ s' \in 0..layout.streams /\ at' \in Nat \ {0} /\ to' \in Int
      /\ phase = "wire" /\ phase' \in {"torn", "decode", "pad"}
  BY EarlyTypes DEF PadStart, Refuse
<1>3. job' \in Jobs
  <2>1. job' = job \/ job' = [job EXCEPT !.max = Len(data) + n]
    BY DEF PadStart
  <2>2. Len(data) + n \in Int
    BY EarlyTypes, MultistreamAssumption
  <2> DEFINE m == Len(data) + n
  <2> HIDE DEF m
  <2>3. [job EXCEPT !.max = m] \in Jobs
    BY Zenon, <2>2, EarlyTypes DEF Jobs, m
  <2> QED BY Zenon, <2>1, <2>3, EarlyTypes DEF m
<1>4. ret' \in Int
  BY EarlyTypes DEF PadStart, Refuse, BadArg
<1>5. Positions'
  BY <1>2 DEF PadStart, Positions, StreamInv
<1> QED BY <1>1, <1>2, <1>3, <1>4, <1>5, EarlyStep DEF Phases

LEMMA UnpadStartInv ==
    ASSUME StreamInv, UnpadStart PROVE StreamInv'
<1>1. UNCHANGED <<layout, dec, child, pcm>>
  BY DEF UnpadStart
<1>2. /\ job' \in Jobs /\ data' \in Seq(Int) /\ sent' \in Seq(Seq(Seq(Int)))
      /\ s' \in 0..layout.streams /\ at' \in Nat \ {0} /\ to' \in Int
      /\ phase = "wire" /\ phase' \in {"torn", "unpad"} /\ ret' \in Int
  BY EarlyTypes DEF UnpadStart, Refuse, BadArg
<1>3. at' = 1 /\ to' = 0 /\ Len(data') \in Nat
  BY <1>2 DEF UnpadStart, Positions, StreamInv
<1>4. Positions'
  BY <1>2, <1>3 DEF Positions
<1> QED BY <1>1, <1>2, <1>4, EarlyStep DEF Phases

LEMMA UnpadDoneInv ==
    ASSUME StreamInv, UnpadDone PROVE StreamInv'
<1>1. UNCHANGED <<layout, dec, child, pcm>>
  BY DEF UnpadDone
<1>2. to \in Nat /\ to <= Len(data) /\ phase = "unpad"
  <2> DEFINE n == Len(data)
  <2>1. n \in Nat
    BY EarlyTypes
  <2>2. to \in 0..at - 1 /\ at - 1 <= n /\ phase = "unpad" /\ at \in Nat
    BY EarlyTypes DEF UnpadDone, Positions, StreamInv
  <2> HIDE DEF n
  <2>3. to \in Nat /\ to <= n
    BY <2>1, <2>2
  <2> QED BY <2>2, <2>3 DEF n
<1>3. data' \in Seq(Int)
  <2>1. data' = SubSeq(data, 1, to) /\ data \in Seq(Int)
    BY EarlyTypes DEF UnpadDone
  <2> QED BY <1>2, <2>1, SliceType
<1>4. /\ job' \in Jobs /\ sent' \in Seq(Seq(Seq(Int)))
      /\ s' = 0 /\ at' = 1 /\ to' = 0 /\ phase' = "decode" /\ ret' \in Int
      /\ s' \in 0..layout.streams
  BY EarlyTypes DEF UnpadDone
<1>5. Positions'
  BY <1>4 DEF Positions
<1> QED BY <1>1, <1>2, <1>3, <1>4, <1>5, EarlyStep DEF Phases

\* A part that parses is there.
LEMMA PartGood ==
    ASSUME StreamInv, NEW sd \in BOOLEAN, Parse(Part, sd).count > 0
    PROVE  /\ GoodParse(Parse(Part, sd), Part, sd)
           /\ Part \in Seq(Int) /\ Part # <<>>
           /\ at \in 1..Len(data) /\ Len(Part) = Len(data) - at + 1
           /\ Part[1] \in Int
<1>1. data \in Seq(Int) /\ at \in Nat \ {0}
  BY EarlyTypes
<1>2. Part \in Seq(Int)
  BY <1>1, RestType DEF Part
<1>3. Parse(Part, sd) = Refused \/ GoodParse(Parse(Part, sd), Part, sd)
  BY <1>2, ParseGood
<1>4. Parse(Part, sd) # Refused
  <2> DEFINE p == Parse(Part, sd)
  <2>1. p.count > 0
    OBVIOUS
  <2> HIDE DEF p
  <2>2. p # Refused
    BY <2>1 DEF Refused, InvalidPacket
  <2> QED BY <2>2 DEF p
<1>5. Part # <<>>
  BY <1>4, ParseNothing
<1>6. at \in 1..Len(data) /\ Len(Part) = Len(data) - at + 1
  <2> HIDE DEF Part
  <2>1. Part = SubSeq(data, at, Len(data))
    BY DEF Part
  <2>2. at <= Len(data)
    BY <1>1, <1>5, <2>1
  <2> QED BY <1>1, <2>1, <2>2
<1> HIDE DEF Part
<1> QED BY <1>2, <1>3, <1>4, <1>5, <1>6

LEMMA RefusedCode ==
    ASSUME StreamInv, NEW sd \in BOOLEAN, Parse(Part, sd).count < 0
    PROVE  Parse(Part, sd).count = InvalidPacket
<1> DEFINE p == Parse(Part, sd)
<1>1. p = Refused \/ GoodParse(p, Part, sd)
  <2>1. Part \in Seq(Int)
    BY EarlyTypes, RestType DEF Part
  <2> QED BY <2>1, ParseGood
<1>2. p.count < 0
  OBVIOUS
<1> HIDE DEF p
<1> QED BY <1>1, <1>2 DEF Refused, GoodParse, p

LEMMA PadSkipInv ==
    ASSUME StreamInv, PadSkip PROVE StreamInv'
<1> DEFINE p == Parse(Part, TRUE)
<1>1. UNCHANGED <<layout, dec, child, pcm>>
  BY DEF PadSkip
<1>2. /\ job' \in Jobs /\ data' \in Seq(Int) /\ sent' \in Seq(Seq(Seq(Int))) /\ to' \in Int
      /\ phase = "pad" /\ s < layout.streams - 1
  BY EarlyTypes DEF PadSkip, LastStream
<1>3. \/ p.count < 0 /\ phase' = "torn" /\ ret' = p.count /\ UNCHANGED <<s, at>>
      \/ p.count > 0 /\ at' = at + p.end - 1 /\ s' = s + 1 /\ UNCHANGED <<phase, ret>>
  BY Zenon DEF PadSkip, Refuse
<1>4. CASE p.count < 0 /\ phase' = "torn" /\ ret' = p.count /\ UNCHANGED <<s, at>>
  <2>1. ret' \in Int
    <3>1. TRUE \in BOOLEAN
      OBVIOUS
    <3>2. p.count = InvalidPacket
      BY Zenon, <1>4, <3>1, RefusedCode
    <3> HIDE DEF p
    <3> QED BY <1>4, <3>2 DEF InvalidPacket
  <2>2. Positions'
    BY <1>4 DEF Positions
  <2>3. s' \in 0..layout.streams /\ at' \in Nat \ {0}
    BY <1>4, EarlyTypes
  <2> QED BY Zenon, <1>1, <1>2, <1>4, <2>1, <2>2, <2>3, EarlyStep DEF Phases
<1>5. CASE p.count > 0 /\ at' = at + p.end - 1 /\ s' = s + 1 /\ UNCHANGED <<phase, ret>>
  <2>1. p.end \in Nat /\ p.end >= 2
    <3>1. TRUE \in BOOLEAN
      OBVIOUS
    <3>2. GoodParse(p, Part, TRUE)
      BY Zenon, <1>5, <3>1, PartGood
    <3> HIDE DEF p
    <3>3. SumFunction(p.size) \in Nat
      <4>1. p.size \in Seq(Nat)
        BY <3>2, SizesAreNat DEF GoodParse
      <4> QED BY <4>1, SumNat
    <3> DEFINE x == SumFunction(p.size)
               y == p.at
               z == p.end
    <3>4. x \in Nat /\ y \in Nat /\ y >= 2 /\ z \in Nat /\ y + x <= z
      BY <3>2, <3>3 DEF GoodParse
    <3> HIDE DEF x, y, z
    <3>5. z >= 2
      BY <3>4
    <3> QED BY <3>4, <3>5 DEF z
  <2>2. at' \in Nat \ {0}
    <3> DEFINE z == p.end
    <3>1. z \in Nat /\ z >= 2 /\ at' = at + z - 1 /\ at \in Nat \ {0}
      BY Zenon, <1>5, <2>1, EarlyTypes
    <3> HIDE DEF z
    <3> QED BY <3>1
  <2>3. s' \in 0..layout.streams /\ ret' \in Int /\ phase' = "pad"
    BY <1>2, <1>5, EarlyTypes
  <2>4. Positions'
    BY <2>3 DEF Positions
  <2> QED BY <1>1, <1>2, <2>2, <2>3, <2>4, EarlyStep DEF Phases
<1> QED BY <1>3, <1>4, <1>5, Zenon

LEMMA PadLastInv ==
    ASSUME StreamInv, PadLast PROVE StreamInv'
<1> DEFINE n == Len(Part) + job.max - Len(data)
<1>1. UNCHANGED <<layout, dec, child, pcm>>
  BY DEF PadLast
<1>2. job' \in Jobs /\ sent' \in Seq(Seq(Seq(Int))) /\ to' \in Int /\ phase = "pad"
  BY EarlyTypes DEF PadLast
<1>3. Part \in Seq(Int) /\ n \in Int
  <2>1. Part \in Seq(Int)
    BY EarlyTypes, RestType DEF Part
  <2> HIDE DEF Part
  <2>2. job.max \in Int /\ Len(data) \in Int /\ Len(Part) \in Int
    BY <2>1, EarlyTypes DEF Jobs
  <2> QED BY <2>1, <2>2
<1>5. PICK o \in PacketPad(Part, n) :
      \/ o.ret < 0 /\ phase' = "torn" /\ ret' = o.ret /\ UNCHANGED <<data, s, at>>
      \/ /\ o.ret >= 0
         /\ data' = SubSeq(data, 1, at - 1) \o o.bytes
         /\ phase' = "decode" /\ ret' = 0 /\ s' = 0 /\ at' = 1
  BY Zenon DEF PadLast, Refuse
<1>4. /\ o.ret \in Int
      /\ o.ret >= 0 => o.bytes \in Seq(Int)
  <2> HIDE DEF n
  <2> QED BY Zenon, <1>3, PacketPadGood
<1>6. CASE o.ret < 0 /\ phase' = "torn" /\ ret' = o.ret /\ UNCHANGED <<data, s, at>>
  <2>1. /\ ret' \in Int /\ s' \in 0..layout.streams /\ at' \in Nat \ {0} /\ data' \in Seq(Int)
    BY <1>4, <1>6, EarlyTypes
  <2>2. Positions'
    BY <1>6 DEF Positions
  <2> QED BY <1>1, <1>2, <1>6, <2>1, <2>2, EarlyStep DEF Phases
<1>7. CASE /\ o.ret >= 0
           /\ data' = SubSeq(data, 1, at - 1) \o o.bytes
           /\ phase' = "decode" /\ ret' = 0 /\ s' = 0 /\ at' = 1
  <2>1. Part # <<>>
    <3> SUFFICES ASSUME Part = <<>> PROVE FALSE
      OBVIOUS
    <3> HIDE DEF Part, n
    <3>1. o = [ret |-> BadArg]
      <4>1. ~ (Part # <<>> /\ Len(Part) = n) /\ ~ (Part # <<>> /\ Len(Part) > n)
        OBVIOUS
      <4> QED BY <4>1, Zenon DEF PacketPad
    <3> QED BY <1>7, <3>1 DEF BadArg
  <2>2. at - 1 <= Len(data)
    BY <2>1, EarlyTypes DEF Part
  <2>3. SubSeq(data, 1, at - 1) \in Seq(Int)
    <3>1. data \in Seq(Int) /\ at - 1 \in Int /\ 1 \in Nat \ {0}
      BY EarlyTypes
    <3> QED BY <2>2, <3>1, SliceType
  <2>4. data' \in Seq(Int)
    <3> DEFINE x == SubSeq(data, 1, at - 1)
               y == o.bytes
    <3>1. x \in Seq(Int) /\ y \in Seq(Int) /\ data' = x \o y
      BY <1>4, <1>7, <2>3
    <3> HIDE DEF x, y
    <3> QED BY <3>1
  <2>5. Positions'
    BY <1>7 DEF Positions
  <2>6. s' \in 0..layout.streams /\ at' \in Nat \ {0} /\ ret' \in Int
    BY <1>7, EarlyTypes
  <2> QED BY <1>1, <1>2, <1>7, <2>4, <2>5, <2>6, EarlyStep DEF Phases
<1> QED BY <1>5, <1>6, <1>7, Zenon

\* Where a part ends, and that what Out makes of it is no longer.
LEMMA PartEnds ==
    ASSUME StreamInv, NEW sd \in BOOLEAN, Parse(Part, sd).count > 0
    PROVE  LET p == Parse(Part, sd)
               o == Out(Plain(Part[1]), p.size, Len(Part), sd, FALSE)
           IN  /\ p.end \in Nat /\ p.end >= 2 /\ at + p.end - 1 \in Nat \ {0}
               /\ (at + p.end - 1) - 1 <= Len(data)
               /\ o.ret \in Nat \ {0} /\ o.ret <= p.end - 1
               /\ o.head \in Seq(Int) /\ o.head # <<>> /\ o.fill = 0
               /\ o.ret = Len(o.head) + SumFunction(p.size)
<1> DEFINE p == Parse(Part, sd)
           x == SumFunction(p.size)
           y == p.at
           z == p.end
           h == HeadLen(p.size)
           t == Len(Delimiter(p.size, sd))
           m == Len(Part)
           n == Len(data)
           o == Out(Plain(Part[1]), p.size, m, sd, FALSE)
<1>1. /\ GoodParse(p, Part, sd) /\ Part \in Seq(Int) /\ Part # <<>>
      /\ at \in 1..n /\ m = n - at + 1 /\ Part[1] \in Int
  BY PartGood
<1> HIDE DEF p
<1>2. p.size \in Seq(Nat) /\ Len(p.size) >= 1
  BY <1>1, SizesAreNat, SMTT(30) DEF GoodParse
<1>3. x \in Nat /\ h \in Nat /\ t \in Nat
  <2>1. x \in Nat
    BY <1>2, SumNat
  <2>2. h \in Nat
    <3>1. 0 \in Int
      OBVIOUS
    <3> QED BY Zenon, <1>2, <3>1, BareHeads
  <2>3. t \in Nat
    <3> DEFINE u == p.size[Len(p.size)]
    <3>1. u \in Nat
      BY <1>2
    <3> HIDE DEF u
    <3>2. EncodeSize(u) \in Seq(Nat)
      BY <3>1, EncodeSizeType
    <3>3. Delimiter(p.size, sd) = IF sd THEN EncodeSize(u) ELSE <<>>
      BY DEF Delimiter, u
    <3> QED BY <3>2, <3>3
  <2> QED BY <2>1, <2>2, <2>3
<1>4. /\ y \in Nat /\ y >= 2 /\ z \in Nat /\ y + x <= z /\ z - 1 <= m
      /\ h + t <= y - 1
  BY <1>1 DEF GoodParse
<1>5. n \in Nat /\ m \in Nat
  <2>1. data \in Seq(Int)
    BY EarlyTypes
  <2> QED BY <1>1, <2>1
<1>6. Plain(Part[1]) \in Int
  BY Zenon, <1>1, TocFacts
<1> HIDE DEF x, y, z, h, t, m, n
<1>7. h + t + x <= m
  BY <1>3, <1>4, <1>5
<1>8. /\ o.ret = h + t + x /\ o.head \in Seq(Int) /\ o.head # <<>> /\ o.fill = 0
      /\ o.ret = Len(o.head) + x /\ o.ret \in Nat \ {0}
  <2>1. m \in Int /\ HeadLen(p.size) + Len(Delimiter(p.size, sd)) + SumFunction(p.size) <= m
    BY <1>5, <1>7 DEF h, t, x
  <2>2. BareOut(o, p.size, sd)
    BY Zenon, <1>2, <1>6, <2>1, OutBare
  <2> HIDE DEF o
  <2> QED BY <2>2, Zenon DEF BareOut, h, t, x
<1>9. /\ z >= 2 /\ at + z - 1 \in Nat \ {0} /\ (at + z - 1) - 1 <= n
  <2>1. at + z - 1 \in Nat \ {0} /\ z >= 2
    BY <1>1, <1>3, <1>4
  <2>2. (at + z - 1) - 1 <= n
    BY <1>1, <1>4, <1>5
  <2> QED BY <2>1, <2>2
<1>10. o.ret <= z - 1
  <2> DEFINE r == o.ret
  <2>1. r = h + t + x
    BY Zenon, <1>8
  <2> HIDE DEF r
  <2>2. r <= z - 1
    BY <1>3, <1>4, <2>1
  <2> QED BY Zenon, <2>2 DEF r
<1> QED BY Zenon, <1>4, <1>8, <1>9, <1>10 DEF p, x, z, m, n

LEMMA UnpadStreamInv ==
    ASSUME StreamInv, UnpadStream PROVE StreamInv'
<1> DEFINE sd == ~IsLast(s)
           p == Parse(Part, sd)
           o == Out(Plain(Part[1]), p.size, Len(Part), sd, FALSE)
<1>0. sd \in BOOLEAN
  BY DEF IsLast
<1> HIDE DEF sd
<1>1. UNCHANGED <<layout, dec, child, pcm>>
  BY DEF UnpadStream
<1>2. /\ job' \in Jobs /\ sent' \in Seq(Seq(Seq(Int)))
      /\ phase = "unpad" /\ s <= layout.streams - 1
  BY EarlyTypes DEF UnpadStream, LastStream
<1>3. \/ p.count < 0 /\ phase' = "torn" /\ ret' = p.count /\ UNCHANGED <<data, s, at, to>>
      \/ p.count > 0 /\ o.ret < 0 /\ phase' = "torn"
      \/ /\ p.count > 0
         /\ data' = MoveFrames(data, to + 1, o, at, p)
         /\ to' = to + o.ret
         /\ at' = at + p.end - 1
         /\ s' = s + 1
         /\ UNCHANGED <<phase, ret>>
  BY Zenon DEF UnpadStream, Refuse, sd
<1>4. CASE p.count < 0 /\ phase' = "torn" /\ ret' = p.count /\ UNCHANGED <<data, s, at, to>>
  <2>1. ret' \in Int
    <3>1. p.count = InvalidPacket
      BY <1>0, <1>4, RefusedCode
    <3> HIDE DEF p
    <3> QED BY <1>4, <3>1 DEF InvalidPacket
  <2>2. Positions'
    BY <1>4 DEF Positions
  <2>3. /\ s' \in 0..layout.streams /\ at' \in Nat \ {0} /\ data' \in Seq(Int)
        /\ to' \in Int
    BY <1>4, EarlyTypes
  <2> QED BY <1>1, <1>2, <1>4, <2>1, <2>2, <2>3, EarlyStep DEF Phases
<1>5. CASE p.count > 0 /\ o.ret < 0 /\ phase' = "torn"
  <2>1. o.ret \in Nat \ {0}
    BY Zenon, <1>0, <1>5, PartEnds
  <2> DEFINE r == o.ret
  <2>2. r \in Nat \ {0} /\ r < 0
    BY Zenon, <1>5, <2>1
  <2> HIDE DEF r
  <2> QED BY <2>2
<1>6. CASE /\ p.count > 0
           /\ data' = MoveFrames(data, to + 1, o, at, p)
           /\ to' = to + o.ret
           /\ at' = at + p.end - 1
           /\ s' = s + 1
           /\ UNCHANGED <<phase, ret>>
  <2>1. /\ GoodParse(p, Part, sd) /\ at \in 1..Len(data)
    BY <1>0, <1>6, PartGood
  <2>2. /\ p.end \in Nat /\ p.end >= 2 /\ at' \in Nat \ {0}
        /\ at' - 1 <= Len(data)
        /\ o.ret \in Nat \ {0} /\ o.ret <= p.end - 1
        /\ o.head \in Seq(Int)
    BY Zenon, <1>0, <1>6, PartEnds
  <2>3. to \in 0..at - 1 /\ data \in Seq(Int) /\ at \in Nat \ {0}
    BY <1>2, EarlyTypes DEF StreamInv, Positions
  <2>4. data' \in Seq(Int) /\ Len(data') = Len(data)
    <3>1. to + 1 \in Int
      BY <2>3
    <3>2. GoodParse(p, SubSeq(data, at, Len(data)), sd)
      BY <2>1 DEF Part
    <3> DEFINE d2 == MoveFrames(data, to + 1, o, at, p)
    <3>3. data' = d2
      BY <1>6
    <3> HIDE DEF o, p
    <3>5. at \in 1..Len(data) /\ o.head \in Seq(Int) /\ data \in Seq(Int)
      BY <2>1, <2>2, <2>3, Zenon
    <3>4. d2 \in Seq(Int) /\ Len(d2) = Len(data)
      BY <1>0, <3>1, <3>2, <3>5, MoveFramesType
    <3> HIDE DEF d2
    <3> QED BY <3>3, <3>4
  <2>5. to' \in 0..at' - 1 /\ to' \in Int
    <3> DEFINE r == o.ret
               z == p.end
    <3>4. /\ r \in Nat \ {0} /\ z \in Nat /\ r <= z - 1
      BY <2>2, Zenon
    <3>5. to' = to + r /\ at' = at + z - 1
      BY <1>6, Zenon
    <3> HIDE DEF r, z, o, p
    <3>6. to \in Nat /\ to <= at - 1 /\ at \in Nat
      BY <2>3
    <3>1. /\ r \in Nat \ {0} /\ z \in Nat /\ r <= z - 1 /\ to' = to + r /\ at' = at + z - 1
          /\ to \in Nat /\ to <= at - 1 /\ at \in Nat
      BY <3>4, <3>5, <3>6
    <3>2. to + r <= at + (z - 1) - 1
      BY <3>1
    <3>3. to' <= at' - 1 /\ to' \in Nat /\ at' \in Int
      BY <3>1, <3>2
    <3> DEFINE u == to'
               v == at'
    <3>7. u <= v - 1 /\ u \in Nat /\ v \in Int
      BY Zenon, <3>3
    <3> HIDE DEF u, v
    <3>8. u \in 0..v - 1 /\ u \in Int
      BY <3>7
    <3> QED BY <3>8 DEF u, v
  <2>6. s' \in 0..layout.streams /\ ret' \in Int /\ phase' = "unpad"
    BY <1>2, <1>6, EarlyTypes
  <2>7. Positions'
    <3>1. at' - 1 <= Len(data')
      BY <2>2, <2>4
    <3> QED BY <2>5, <2>6, <3>1 DEF Positions
  <2> QED BY <1>1, <1>2, <2>2, <2>4, <2>5, <2>6, <2>7, EarlyStep DEF Phases
<1> QED BY <1>3, <1>4, <1>5, <1>6, Zenon

\* The payload of a stream's packet, and the packet.
LEMMA PossibleGood ==
    ASSUME StreamInv, NEW f \in Possible(s)
    PROVE  /\ f.size \in Seq(Nat) /\ Len(f.size) >= 1 /\ 4 * f.config \in Int
           /\ Payload(s, f.size) \in Seq(Seq(Int))
           /\ Len(Payload(s, f.size)) = Len(f.size)
           /\ \A i \in 1..Len(f.size) : Len(Payload(s, f.size)[i]) = f.size[i]
<1>1. /\ f.config \in DOMAIN Duration
      /\ f.size \in UNION {[1..k -> FrameSize] : k \in 1 .. Byte \div 4 - 1}
  <2> DEFINE U == UNION {[1..k -> FrameSize] : k \in 1 .. Byte \div 4 - 1}
  <2>1. f \in [config : DOMAIN Duration, size : U]
    BY Zenon DEF Possible
  <2> HIDE DEF U
  <2>2. f.config \in DOMAIN Duration /\ f.size \in U
    BY <2>1
  <2> QED BY <2>2 DEF U
<1>2. PICK k \in 1 .. Byte \div 4 - 1 : f.size \in [1..k -> FrameSize]
  BY <1>1
<1>3. k \in Nat \ {0}
  BY <1>2, ByteFacts
<1>4. f.size \in Seq(Nat) /\ Len(f.size) = k /\ DOMAIN f.size = 1..k
  <2>1. FrameSize \subseteq Nat
    BY MultistreamAssumption
  <2> DEFINE q == f.size
  <2>2. q \in [1..k -> Nat]
    BY Zenon, <1>2, <2>1
  <2> HIDE DEF q
  <2>3. q \in Seq(Nat) /\ Len(q) = k /\ DOMAIN q = 1..k
    BY <1>3, <2>2
  <2> QED BY <2>3 DEF q
<1>5. 4 * f.config \in Int
  <2>1. DOMAIN Duration \subseteq Int
    BY ByteFacts, PacketAssumption
  <2>2. f.config \in Int
    BY <1>1, <2>1
  <2> QED BY <2>2
<1> DEFINE q == f.size
           tag(i, j) == Chunk + Byte * (1000 * (s + 1) + 100 * i + j)
           one(i) == [j \in 1..q[i] |-> tag(i, j)]
<1>6. ASSUME NEW i \in 1..k PROVE one(i) \in Seq(Int) /\ Len(one(i)) = q[i]
  <2>1. q[i] \in Nat
    BY <1>4
  <2> DEFINE n == q[i]
  <2>2. ASSUME NEW j \in 1..n PROVE tag(i, j) \in Int
    <3>1. 1000 * (s + 1) + 100 * i + j \in Int
      <4>1. s \in Int /\ i \in Int /\ j \in Int
        BY <2>1, EarlyTypes
      <4> QED BY <4>1
    <3> DEFINE v == 1000 * (s + 1) + 100 * i + j
    <3> HIDE DEF v
    <3>2. Byte * v \in Int /\ Chunk \in Int
      BY <3>1, ByteFacts DEF v
    <3>3. Chunk + Byte * v \in Int
      BY <3>2
    <3> QED BY <3>3 DEF v
  <2> HIDE DEF tag, n
  <2>3. n \in Nat
    BY <2>1 DEF n
  <2>4. [j \in 1..n |-> tag(i, j)] \in Seq(Int) /\ Len([j \in 1..n |-> tag(i, j)]) = n
    BY <2>2, <2>3
  <2> QED BY Zenon, <2>4 DEF n
<1>7. Payload(s, q) = [i \in 1..k |-> one(i)]
  BY <1>4 DEF Payload
<1> HIDE DEF one, q
<1>8. /\ Payload(s, q) \in Seq(Seq(Int)) /\ Len(Payload(s, q)) = k
      /\ \A i \in 1..k : Len(Payload(s, q)[i]) = q[i]
  BY <1>3, <1>6, <1>7
<1> QED BY <1>3, <1>4, <1>5, <1>8 DEF q

LEMMA EncodeStreamInv ==
    ASSUME StreamInv, EncodeStream PROVE StreamInv'
<1>1. UNCHANGED <<layout, dec, child, pcm>>
  BY DEF EncodeStream
<1>2. /\ job' \in Jobs /\ at' \in Nat \ {0} /\ phase = "streams" /\ s <= layout.streams - 1
      /\ at = 1 /\ at' = 1
  BY EarlyTypes DEF EncodeStream, LastStream, Positions, StreamInv
<1>3. ASSUME NEW code \in ErrorCodes, Stop(code) PROVE StreamInv'
  <2>1. /\ data' \in Seq(Int) /\ sent' \in Seq(Seq(Seq(Int))) /\ s' \in 0..layout.streams
        /\ to' \in Int /\ phase' = "unsent" /\ ret' \in Int
    BY <1>3, EarlyTypes, CodesAreInts DEF Stop
  <2>2. Positions'
    BY <2>1 DEF Positions
  <2> QED BY <1>1, <1>2, <2>1, <2>2, EarlyStep DEF Phases
<1>4. CASE Possible(s) = {} /\ Stop(TooSmall)
  BY <1>3, <1>4 DEF ErrorCodes
<1>5. ASSUME NEW f \in Possible(s), NEW pad \in BOOLEAN, NEW e,
             e = EncodedOut(s, f, pad), e.ret > 0,
             Repacketize(Packed(e, Payload(s, f.size)), Payload(s, f.size))
      PROVE  StreamInv'
  <2> DEFINE frames == Payload(s, f.size)
             packet == Packed(e, frames)
             p == Parse(packet, FALSE)
             o == Out(Plain(packet[1]), p.size, job.max - to, ~IsLast(s), ~job.vbr /\ IsLast(s))
  <2>1. /\ f.size \in Seq(Nat) /\ Len(f.size) >= 1 /\ 4 * f.config \in Int
        /\ frames \in Seq(Seq(Int)) /\ Len(frames) = Len(f.size)
        /\ \A i \in 1..Len(f.size) : Len(frames[i]) = f.size[i]
    BY PossibleGood
  <2>2. job.max - to \in Int /\ CurrMax(s) \in Int /\ job.vbr \in BOOLEAN
    <3>1. /\ job.max \in Int /\ to \in Int /\ s \in Int /\ layout.streams \in Int
          /\ job.vbr \in BOOLEAN
      BY EarlyTypes DEF Jobs
    <3> DEFINE behind == layout.streams - s - 1
               y == 2 * behind - 1
               u == job.max - to
               w == IF job.units = LongD THEN behind ELSE 0
               free == u - Most(0, y) - w
               most == Least(free, 6 * MaxFrame + 12)
    <3>2. behind \in Int /\ u \in Int
      BY <3>1
    <3> HIDE DEF behind, u
    <3>3. y \in Int /\ w \in Int
      BY <3>2
    <3> HIDE DEF y, w
    <3>4. Most(0, y) \in Int
      BY <3>3 DEF Most
    <3>5. free \in Int
      BY <3>2, <3>3, <3>4
    <3> HIDE DEF free
    <3>6. most \in Int
      <4>1. 6 * MaxFrame + 12 \in Int
        <5>1. MaxFrame \in Nat
          BY ByteFacts
        <5> HIDE DEF MaxFrame
        <5> QED BY <5>1
      <4> QED BY <3>5, <4>1 DEF Least
    <3>7. CurrMax(s) = most - IF IsLast(s) THEN 0 ELSE IF most > Escape + 1 THEN 2 ELSE 1
      BY Zenon DEF CurrMax, most, free, w, y, behind, u
    <3> HIDE DEF most
    <3>8. CurrMax(s) \in Int
      BY <3>6, <3>7
    <3> QED BY <3>1, <3>2, <3>8 DEF u
  <2>3. GoodOut(e, SumFunction(f.size), CurrMax(s), pad)
    <3>1. FALSE \in BOOLEAN
      OBVIOUS
    <3>2. GoodOut(Out(4 * f.config, f.size, CurrMax(s), FALSE, pad),
                  SumFunction(f.size), CurrMax(s), pad)
      BY Zenon, <2>1, <2>2, <3>1, OutGood
    <3> QED BY <1>5, <3>2, Zenon DEF EncodedOut
  <2>4. packet \in Seq(Int)
    <3> HIDE DEF frames
    <3>1. e.ret >= 0
      <4>1. e # [ret |-> TooSmall]
        BY <1>5 DEF TooSmall
      <4>2. SumFunction(f.size) \in Nat
        BY <2>1, SumNat
      <4> DEFINE r == e.ret
                 h == Len(e.head)
                 v == SumFunction(f.size)
                 g == e.fill
      <4>3. h \in Nat /\ v \in Nat /\ g \in Nat /\ r = h + v + g
        BY <2>3, <4>1, <4>2 DEF GoodOut
      <4> HIDE DEF r, h, v, g
      <4>4. r >= 0
        BY <4>3
      <4> QED BY <4>4 DEF r
    <3> QED BY <2>1, <2>2, <2>3, <3>1, PackedGood, ZenonT(40)
  <2> HIDE DEF packet
  <2>5. p = Refused \/ GoodParse(p, packet, FALSE)
    <3>1. FALSE \in BOOLEAN
      OBVIOUS
    <3> QED BY Zenon, <2>4, <3>1, ParseGood
  <2>6. \/ p.count < 0 /\ Stop(Internal)
        \/ /\ p.count > 0
           /\ data' = IF o.ret < 0 THEN data ELSE data \o Packed(o, Frames(packet, p))
           /\ to' = to + o.ret
           /\ sent' = Append(sent, frames)
           /\ s' = s + 1
           /\ UNCHANGED <<phase, ret>>
    BY <1>5, ZenonT(40) DEF Repacketize, packet
  <2> HIDE DEF frames
  <2>7. CASE p.count < 0 /\ Stop(Internal)
    BY <1>3, <2>7 DEF ErrorCodes
  <2>8. CASE /\ p.count > 0
             /\ data' = IF o.ret < 0 THEN data ELSE data \o Packed(o, Frames(packet, p))
             /\ to' = to + o.ret
             /\ sent' = Append(sent, frames)
             /\ s' = s + 1
             /\ UNCHANGED <<phase, ret>>
    <3> DEFINE sd == ~IsLast(s)
               pad2 == ~job.vbr /\ IsLast(s)
               max2 == job.max - to
    <3>1. GoodParse(p, packet, FALSE) /\ packet # <<>>
      <4>1. p # Refused
        <5> HIDE DEF p
        <5> QED BY <2>8 DEF Refused, InvalidPacket
      <4>2. packet # <<>>
        BY Zenon, <4>1, ParseNothing
      <4> QED BY Zenon, <2>5, <4>1, <4>2
    <3> HIDE DEF p
    <3>2. p.size \in Seq(Nat) /\ Len(p.size) >= 1
      BY <3>1, SizesAreNat DEF GoodParse
    <3>3. Plain(packet[1]) \in Int
      <4>1. packet[1] \in Int
        BY <2>4, <3>1
      <4> QED BY <4>1, TocFacts
    <3>4. sd \in BOOLEAN /\ pad2 \in BOOLEAN /\ max2 \in Int
      BY <2>2 DEF IsLast
    <3> HIDE DEF sd, pad2, max2
    <3>5. o = Out(Plain(packet[1]), p.size, max2, sd, pad2)
      BY DEF sd, pad2, max2
    <3> HIDE DEF o
    <3>6. GoodOut(o, SumFunction(p.size), max2, pad2)
      BY <3>2, <3>3, <3>4, <3>5, OutGood
    <3>7. o.ret \in Int
      <4>1. SumFunction(p.size) \in Nat
        BY <3>2, SumNat
      <4>2. o = [ret |-> TooSmall] => o.ret \in Int
        BY DEF TooSmall
      <4>3. o # [ret |-> TooSmall] => o.ret \in Int
        <5> SUFFICES ASSUME o # [ret |-> TooSmall] PROVE o.ret \in Int
          OBVIOUS
        <5> DEFINE h == Len(o.head)
                   v == SumFunction(p.size)
                   g == o.fill
        <5>1. h \in Nat /\ v \in Nat /\ g \in Nat /\ o.ret = h + v + g
          BY <3>6, <4>1 DEF GoodOut
        <5> HIDE DEF h, v, g
        <5> QED BY <5>1
      <4> QED BY <4>2, <4>3
    <3>8. data' \in Seq(Int)
      <4>1. CASE o.ret < 0
        BY <2>8, <4>1, EarlyTypes
      <4>2. CASE ~ (o.ret < 0)
        <5> DEFINE fr == Frames(packet, p)
        <5>1. fr \in Seq(Seq(Int)) /\ Len(fr) = Len(p.size)
              /\ \A i \in 1..Len(p.size) : Len(fr[i]) = p.size[i]
          <6>1. FALSE \in BOOLEAN
            OBVIOUS
          <6>2. fr \in Seq(Seq(Int)) /\ Len(fr) = p.count
            BY Zenon, <2>4, <3>1, <6>1, FramesType
          <6>3. p.count = Len(p.size)
            BY <3>1 DEF GoodParse
          <6>4. \A i \in 1..Len(p.size) : Len(fr[i]) = p.size[i]
            BY Zenon, <2>4, <3>1, <6>1, FramesLength
          <6> QED BY <6>2, <6>3, <6>4
        <5> HIDE DEF fr
        <5>2. o.ret >= 0
          BY <3>7, <4>2
        <5>3. Packed(o, fr) \in Seq(Int)
          BY Zenon, <3>2, <3>4, <3>6, <5>1, <5>2, PackedGood
        <5>4. data' = data \o Packed(o, fr)
          BY <2>8, <4>2 DEF fr
        <5> DEFINE x == Packed(o, fr)
        <5>5. x \in Seq(Int) /\ data \in Seq(Int) /\ data' = data \o x
          BY <5>3, <5>4, EarlyTypes
        <5> HIDE DEF x
        <5> QED BY <5>5
      <4> QED BY <4>1, <4>2
    <3>9. sent' \in Seq(Seq(Seq(Int)))
      BY <2>1, <2>8, EarlyTypes
    <3>10. to' \in Int /\ s' \in 0..layout.streams /\ phase' = "streams" /\ ret' \in Int
      <4>1. to' \in Int
        <5> DEFINE r == o.ret
        <5>1. r \in Int /\ to \in Int /\ to' = to + r
          BY <2>8, <3>7, EarlyTypes
        <5> HIDE DEF r
        <5> QED BY <5>1
      <4>2. s' \in 0..layout.streams /\ phase' = "streams" /\ ret' \in Int
        BY <1>2, <2>8, EarlyTypes
      <4> QED BY <4>1, <4>2
    <3>11. Positions'
      BY <1>2, <3>10 DEF Positions
    <3> QED BY <1>1, <1>2, <3>8, <3>9, <3>10, <3>11, EarlyStep DEF Phases
  <2> QED BY <2>6, <2>7, <2>8, Zenon
<1>6. ASSUME NEW f \in Possible(s), NEW pad \in {FALSE, ~job.vbr}, NEW e,
             e = EncodedOut(s, f, pad),
             \/ e.ret < 0 /\ Stop(Internal)
             \/ e.ret > 0 /\ Repacketize(Packed(e, Payload(s, f.size)), Payload(s, f.size))
      PROVE  StreamInv'
  <2>1. pad \in BOOLEAN
    BY Zenon
  <2>2. CASE Stop(Internal)
    BY <1>3, <2>2 DEF ErrorCodes
  <2>3. CASE e.ret > 0 /\ Repacketize(Packed(e, Payload(s, f.size)), Payload(s, f.size))
    BY <1>5, <1>6, <2>1, <2>3
  <2> QED BY <1>6, <2>2, <2>3
<1>7. \/ Possible(s) = {} /\ Stop(TooSmall)
      \/ \E f \in Possible(s), pad \in {FALSE, ~job.vbr} :
           \E e \in {EncodedOut(s, f, pad)} :
             \/ e.ret < 0 /\ Stop(Internal)
             \/ e.ret > 0 /\ Repacketize(Packed(e, Payload(s, f.size)),
                                        Payload(s, f.size))
  BY Zenon DEF EncodeStream
<1>8. ASSUME \E f \in Possible(s), pad \in {FALSE, ~job.vbr} :
               \E e \in {EncodedOut(s, f, pad)} :
                 \/ e.ret < 0 /\ Stop(Internal)
                 \/ e.ret > 0 /\ Repacketize(Packed(e, Payload(s, f.size)),
                                            Payload(s, f.size))
      PROVE  StreamInv'
  <2>1. PICK f \in Possible(s), pad \in {FALSE, ~job.vbr} :
               \E e \in {EncodedOut(s, f, pad)} :
                 \/ e.ret < 0 /\ Stop(Internal)
                 \/ e.ret > 0 /\ Repacketize(Packed(e, Payload(s, f.size)),
                                            Payload(s, f.size))
    BY Zenon, <1>8
  <2>2. PICK e : /\ e = EncodedOut(s, f, pad)
                 /\ \/ e.ret < 0 /\ Stop(Internal)
                    \/ e.ret > 0 /\ Repacketize(Packed(e, Payload(s, f.size)),
                                               Payload(s, f.size))
    BY <2>1, Zenon
  <2> QED BY <1>6, <2>2, Zenon
<1> QED BY <1>4, <1>7, <1>8, Zenon

-----------------------------------------------------------------------------
(* Decoding.                                                               *)

LEMMA OriginFacts ==
    ASSUME Types, NEW c \in DOMAIN layout.mapping, layout.mapping[c] # Muted
    PROVE  LET o == Origin(layout.mapping[c])
           IN  /\ o = <<o[1], o[2]>> /\ o[1] \in 0..layout.streams - 1 /\ o[2] \in {0, 1}
               /\ o[2] = 1 => o[1] < layout.coupled
<1> DEFINE m == layout.mapping[c]
           k == layout.coupled
           n == layout.streams
<1>1. m \in Nat /\ k \in Nat /\ n \in Nat /\ k <= n /\ m < n + k
  BY LayoutFacts
<1>2. Origin(m) = IF m < 2 * k THEN <<m \div 2, m % 2>> ELSE <<m - k, 0>>
  BY DEF Origin
<1> HIDE DEF m, k, n
<1>3. CASE m < 2 * k
  <2>1. m \div 2 \in 0..n - 1 /\ m % 2 \in {0, 1} /\ m \div 2 < k
    BY <1>1, <1>3
  <2>2. Origin(m)[1] = m \div 2 /\ Origin(m)[2] = m % 2
        /\ Origin(m) = <<m \div 2, m % 2>>
    BY <1>2, <1>3
  <2> QED BY <2>1, <2>2 DEF m, n, k
<1>4. CASE ~ (m < 2 * k)
  <2>1. m - k \in 0..n - 1
    BY <1>1, <1>4
  <2>2. Origin(m)[1] = m - k /\ Origin(m)[2] = 0 /\ Origin(m) = <<m - k, 0>>
    BY <1>2, <1>4
  <2> QED BY <2>1, <2>2 DEF m, n
<1> QED BY <1>3, <1>4

LEMMA OriginSource ==
    ASSUME Types, NEW c \in DOMAIN layout.mapping, layout.mapping[c] # Muted,
           NEW n \in 0..layout.streams - 1, NEW side \in {0, 1},
           side = 1 => n < layout.coupled
    PROVE  layout.mapping[c] = Source(n, side) <=>
             Origin(layout.mapping[c])[1] = n /\ Origin(layout.mapping[c])[2] = side
<1> DEFINE m == layout.mapping[c]
           k == layout.coupled
           o == Origin(m)
<1>1. m \in Nat /\ k \in Nat /\ n \in Nat
  BY LayoutFacts
<1>2. o = IF m < 2 * k THEN <<m \div 2, m % 2>> ELSE <<m - k, 0>>
  BY DEF Origin
<1>3. Source(n, side) = IF n < k THEN 2 * n + side ELSE n + k
  BY DEF Source
<1>4. side \in {0, 1} /\ (side = 1 => n < k)
  OBVIOUS
<1> HIDE DEF m, k, o
<1>5. CASE m < 2 * k
  <2>1. o[1] = m \div 2 /\ o[2] = m % 2
    BY <1>2, <1>5
  <2>2. CASE n < k
    <3>1. m = 2 * n + side <=> (m \div 2 = n /\ m % 2 = side)
      BY <1>1, <1>4
    <3> QED BY <1>3, <2>1, <2>2, <3>1 DEF m, o
  <2>3. CASE ~ (n < k)
    <3>1. m \div 2 < n /\ m # n + k /\ m \div 2 # n
      BY <1>1, <1>5, <2>3
    <3> QED BY <1>3, <2>1, <2>3, <3>1 DEF m, o
  <2> QED BY <2>2, <2>3
<1>6. CASE ~ (m < 2 * k)
  <2>1. o[1] = m - k /\ o[2] = 0
    BY <1>2, <1>6
  <2>2. CASE n < k
    <3>1. m # 2 * n + side /\ m - k # n
      BY <1>1, <1>4, <1>6, <2>2
    <3> QED BY <1>3, <2>1, <2>2, <3>1 DEF m, o
  <2>3. CASE ~ (n < k)
    <3>1. side = 0 /\ (m = n + k <=> m - k = n)
      BY <1>1, <1>4, <2>3
    <3> QED BY <1>3, <2>1, <2>3, <3>1 DEF m, o
  <2> QED BY <2>2, <2>3
<1> QED BY <1>5, <1>6

\* What reaches channel c from stream n.
LEMMA HeardNext ==
    ASSUME Types, s \in 0..layout.streams - 1, NEW n,
           NEW c \in DOMAIN layout.mapping, pcm[c] = HeardSo(c, s, n)
    PROVE  Heard(s, n)[c] = HeardSo(c, s + 1, n)
<1> DEFINE m == layout.mapping[c]
           rec(side) == [from |-> <<s, side>>, n |-> n]
           piece(i) == IF m = Source(s, i - 1) /\ m # Muted THEN <<rec(i - 1)>> ELSE <<>>
           K == IF s < layout.coupled THEN 2 ELSE 1
           flat == FlattenSeq([i \in 1..K |-> piece(i)])
           R == {rec(0), rec(1)}
           a == piece(1)
           b == piece(2)
<1>1. Heard(s, n)[c] = pcm[c] \o flat
  <2>1. c \in DOMAIN pcm
    BY DEF Types
  <2> QED BY <2>1 DEF Heard
<1>2. /\ a = IF m = Source(s, 0) /\ m # Muted THEN <<rec(0)>> ELSE <<>>
      /\ b = IF m = Source(s, 1) /\ m # Muted THEN <<rec(1)>> ELSE <<>>
  <2>1. 1 - 1 = 0 /\ 2 - 1 = 1
    OBVIOUS
  <2> HIDE DEF rec, m
  <2> QED BY <2>1
<1>3. a \in Seq(R) /\ b \in Seq(R)
  <2> HIDE DEF rec, a, b, m
  <2>1. <<rec(0)>> \in Seq(R) /\ <<rec(1)>> \in Seq(R) /\ <<>> \in Seq(R)
    OBVIOUS
  <2> HIDE DEF R
  <2> QED BY <1>2, <2>1
<1>4. flat = IF s < layout.coupled THEN a \o b ELSE a
  <2> HIDE DEF R, rec, m
  <2>1. CASE s < layout.coupled
    <3>1. [i \in 1..K |-> piece(i)] = Append(<<a>>, b)
      <4>1. K = 2
        BY <2>1
      <4>2. [i \in 1..K |-> piece(i)] = [i \in 1..2 |-> piece(i)]
        BY <4>1
      <4> HIDE DEF piece
      <4>3. [i \in 1..2 |-> piece(i)] = Append(<<piece(1)>>, piece(2))
        OBVIOUS
      <4> QED BY <4>2, <4>3
    <3> HIDE DEF a, b
    <3>2. <<a>> \in Seq(Seq(R))
      BY <1>3
    <3>3. FlattenSeq(Append(<<a>>, b)) = FlattenSeq(<<a>>) \o b
      BY Zenon, <1>3, <3>2, FlattenAppend
    <3>4. FlattenSeq(<<a>>) = a
      BY <1>3, FlattenOne
    <3> QED BY <2>1, <3>1, <3>3, <3>4, Zenon
  <2>2. CASE ~ (s < layout.coupled)
    <3>1. [i \in 1..K |-> piece(i)] = <<a>>
      <4>1. K = 1
        BY <2>2
      <4>2. [i \in 1..K |-> piece(i)] = [i \in 1..1 |-> piece(i)]
        BY <4>1
      <4> HIDE DEF piece
      <4>3. [i \in 1..1 |-> piece(i)] = <<piece(1)>>
        OBVIOUS
      <4> QED BY <4>2, <4>3
    <3> HIDE DEF a
    <3>2. FlattenSeq(<<a>>) = a
      BY <1>3, FlattenOne
    <3> QED BY <2>2, <3>1, <3>2, Zenon
  <2> QED BY Zenon, <2>1, <2>2
<1> HIDE DEF flat, R, a, b, K, piece
<1>5. CASE m = Muted
  <2>1. a = <<>> /\ b = <<>> /\ flat = <<>>
    <3>1. a = <<>> /\ b = <<>>
      BY <1>2, <1>5, Zenon
    <3> QED BY <1>4, <3>1
  <2>2. HeardSo(c, s, n) = <<>> /\ HeardSo(c, s + 1, n) = <<>>
    BY <1>5 DEF HeardSo
  <2> QED BY <1>1, <2>1, <2>2
<1>6. CASE m # Muted
  <2> DEFINE o == Origin(m)
             k == o[1]
             side == o[2]
             mine == <<[from |-> o, n |-> n]>>
  <2>1. /\ o = <<k, side>> /\ k \in 0..layout.streams - 1 /\ side \in {0, 1}
        /\ side = 1 => k < layout.coupled
    BY <1>6, OriginFacts
  <2>2. /\ HeardSo(c, s, n) = IF k < s THEN mine ELSE <<>>
        /\ HeardSo(c, s + 1, n) = IF k < s + 1 THEN mine ELSE <<>>
    BY <1>6 DEF HeardSo
  <2>3. m = Source(s, 0) <=> k = s /\ side = 0
    <3>1. 0 \in {0, 1} /\ (0 = 1 => s < layout.coupled)
      OBVIOUS
    <3> QED BY <1>6, <3>1, OriginSource
  <2>4. s < layout.coupled => (m = Source(s, 1) <=> k = s /\ side = 1)
    <3>1. 1 \in {0, 1}
      OBVIOUS
    <3> QED BY <1>6, <3>1, OriginSource
  <2> HIDE DEF m, k, side
  <2>5. k = s => mine = <<rec(side)>>
    BY <2>1
  <2>6. flat = IF k = s THEN mine ELSE <<>>
    <3>1. CASE k = s /\ side = 0
      <4>1. a = mine
        BY <1>2, <1>6, <2>3, <2>5, <3>1
      <4>2. s < layout.coupled => b = <<>>
        <5>1. 0 # 1
          OBVIOUS
        <5> QED BY <1>2, <2>4, <3>1, <5>1
      <4>3. a \o <<>> = a
        BY <1>3
      <4> QED BY Zenon, <1>4, <3>1, <4>1, <4>2, <4>3
    <3>2. CASE k = s /\ side = 1
      <4>1. s < layout.coupled
        BY <2>1, <3>2
      <4>2. b = mine
        BY <1>2, <1>6, <2>4, <2>5, <3>2, <4>1
      <4>3. a = <<>>
        <5>1. 0 # 1
          OBVIOUS
        <5> QED BY <1>2, <2>3, <3>2, <5>1
      <4>4. <<>> \o b = b
        BY <1>3
      <4> QED BY <1>4, <3>2, <4>1, <4>2, <4>3, <4>4
    <3>3. CASE k # s
      <4>1. a = <<>>
        BY <1>2, <2>3, <3>3
      <4>2. s < layout.coupled => b = <<>>
        BY <1>2, <2>4, <3>3
      <4>3. <<>> \o <<>> = <<>>
        OBVIOUS
      <4> QED BY <1>4, <3>3, <4>1, <4>2, <4>3
    <3> QED BY <2>1, <3>1, <3>2, <3>3
  <2> HIDE DEF mine, o
  <2>7. mine \in Seq({mine[1]})
    BY DEF mine
  <2>8. mine \o <<>> = mine /\ <<>> \o mine = mine /\ <<>> \o <<>> = <<>>
    BY <2>7
  <2>9. CASE k < s
    <3>1. k # s /\ k < s + 1
      BY <2>1, <2>9
    <3> QED BY <1>1, <2>2, <2>6, <2>8, <2>9, <3>1
  <2>10. CASE k = s
    <3>1. ~ (k < s) /\ k < s + 1
      BY <2>1, <2>10
    <3> QED BY <1>1, <2>2, <2>6, <2>8, <2>10, <3>1
  <2>11. CASE k > s
    <3>1. ~ (k < s) /\ ~ (k < s + 1) /\ k # s
      BY <2>1, <2>11
    <3> QED BY <1>1, <2>2, <2>6, <2>8, <2>11, <3>1
  <2> QED BY <2>1, <2>9, <2>10, <2>11
<1> QED BY <1>5, <1>6

LEMMA HeardNothing ==
    ASSUME Types, NEW c \in DOMAIN layout.mapping, NEW n
    PROVE  HeardSo(c, 0, n) = <<>>
<1>1. CASE layout.mapping[c] = Muted
  BY <1>1 DEF HeardSo
<1>2. CASE layout.mapping[c] # Muted
  <2> DEFINE k == Origin(layout.mapping[c])[1]
  <2>1. k \in 0..layout.streams - 1
    BY <1>2, OriginFacts
  <2>2. ~ (k < 0)
    <3> HIDE DEF k
    <3> QED BY <2>1
  <2> QED BY <2>2 DEF HeardSo
<1> QED BY <1>1, <1>2

LEMMA RefusalFacts ==
    ASSUME StreamInv, NEW size \in Int
    PROVE  /\ Refusal(size) \in Int /\ Refusal(size) <= 0
           /\ Refusal(size) = 0 => size > 0 /\ (data # <<>> => Validate(layout, data) >= 0)
<1> DEFINE v == Validate(layout, data)
           n == Len(data)
           k == 2 * layout.streams - 1
<1>1. v \in Int /\ n \in Nat /\ k \in Int
  <2>1. layout.streams \in Nat /\ data \in Seq(Int)
    BY EarlyTypes
  <2>2. PICK w : Walking(w, layout, data)
    BY Zenon, <2>1, WalkSteps
  <2>3. v \in Int
    BY <2>1, <2>2, WalkGood
  <2> QED BY <2>1, <2>3
<1> DEFINE u == Unfit(v, size)
<1>2. u \in Int /\ u <= 0 /\ (u = 0 => v >= 0)
  <2> DEFINE most == Least(size, MaxDuration)
  <2>1. most \in Int
    BY ByteFacts DEF Least
  <2> HIDE DEF most, v
  <2>2. CASE v < 0
    <3>1. ~ (v >= 0 /\ v > most)
      BY <1>1, <2>2
    <3>2. u = v
      BY <2>2, <3>1, Zenon DEF Unfit, most
    <3> QED BY <1>1, <2>2, <3>2
  <2>3. CASE v >= 0 /\ v > most
    <3>1. ~ (v < 0)
      BY <1>1, <2>3
    <3>2. u = TooSmall
      BY <2>3, <3>1, Zenon DEF Unfit, most
    <3> QED BY <2>3, <3>2 DEF TooSmall
  <2>4. CASE v >= 0 /\ ~ (v > most)
    <3>1. ~ (v < 0)
      BY <1>1, <2>4
    <3>2. u = 0
      BY <2>4, <3>1, Zenon DEF Unfit, most
    <3> QED BY <2>4, <3>2
  <2> QED BY <1>1, <2>2, <2>3, <2>4
<1> HIDE DEF u, v, n, k
<1>3. CASE size <= 0
  <2>1. ~ (size > 0)
    BY <1>3
  <2>2. Refusal(size) = BadArg
    BY <1>3, <2>1, Zenon DEF Refusal
  <2> QED BY <2>2 DEF BadArg
<1>4. CASE size > 0 /\ data = <<>>
  <2>1. ~ (size <= 0)
    BY <1>4
  <2>2. Refusal(size) = 0
    BY <1>4, <2>1, Zenon DEF Refusal
  <2> QED BY <1>4, <2>2
<1>5. CASE size > 0 /\ data # <<>> /\ n < k
  <2>1. ~ (size <= 0)
    BY <1>5
  <2>2. Refusal(size) = InvalidPacket
    BY <1>5, <2>1, Zenon DEF Refusal, n, k
  <2> QED BY <2>2 DEF InvalidPacket
<1>6. CASE size > 0 /\ data # <<>> /\ ~ (n < k)
  <2>1. ~ (size <= 0)
    BY <1>6
  <2>2. Refusal(size) = u
    BY <1>6, <2>1, Zenon DEF Refusal, u, v, n, k
  <2> QED BY <1>2, <1>6, <2>2 DEF v
<1>7. size <= 0 \/ size > 0
  OBVIOUS
<1> QED BY <1>3, <1>4, <1>5, <1>6, <1>7, Zenon

LEMMA DecodeStartInv ==
    ASSUME StreamInv, NEW size \in DecodeSize, NEW fec \in BOOLEAN, DecodeStart(size, fec)
    PROVE  StreamInv'
<1>1. /\ UNCHANGED <<layout, job, data, sent, s, at, to, child, pcm>>
      /\ phase = "decode"
  BY DEF DecodeStart
<1>2. size \in Int
  BY MultistreamAssumption
<1>3. s = 0 /\ at = 1 /\ Types
  BY <1>1 DEF StreamInv, Positions
<1>4. Silent
  BY DEF StreamInv
<1> DEFINE code == Refusal(size)
<1>5. /\ code \in Int /\ code <= 0
      /\ code = 0 => size > 0 /\ (data # <<>> => Validate(layout, data) >= 0)
  BY <1>2, RefusalFacts
<1>6. \/ code # 0 /\ phase' = "done" /\ ret' = code /\ UNCHANGED dec
      \/ /\ code = 0
         /\ dec' = [frame |-> Least(size, MaxDuration), fec |-> fec, plc |-> data = <<>>]
         /\ phase' = "children"
         /\ UNCHANGED ret
  BY Zenon DEF DecodeStart, Return
<1> HIDE DEF code
<1>7. CASE code # 0 /\ phase' = "done" /\ ret' = code /\ UNCHANGED dec
  <2>1. Types'
    <3>1. ret' \in Int
      BY <1>5, <1>7
    <3> QED BY <1>1, <1>3, <1>7, <3>1 DEF Types, ValidLayout
  <2>2. Positions' /\ Silent' /\ Decoding'
    BY <1>7 DEF Positions, Silent, Decoding
  <2>3. AllOrNothing'
    <3>1. ~ (ret' > 0)
      BY <1>5, <1>7
    <3>2. DOMAIN pcm = DOMAIN layout.mapping
      BY <1>3 DEF Types
    <3>3. (\A n \in Stream : ~child[n].touched)'
      BY <1>1, <1>4 DEF Silent, Stream, LastStream
    <3>4. (\A c \in DOMAIN pcm : pcm[c] = <<>>)'
      BY <1>1, <1>4, <3>2 DEF Silent
    <3> QED BY <3>1, <3>3, <3>4, Zenon DEF AllOrNothing
  <2> QED BY <2>1, <2>2, <2>3 DEF StreamInv
<1>8. CASE /\ code = 0
           /\ dec' = [frame |-> Least(size, MaxDuration), fec |-> fec, plc |-> data = <<>>]
           /\ phase' = "children"
           /\ UNCHANGED ret
  <2> DEFINE f == Least(size, MaxDuration)
  <2>1. f \in Int /\ f > 0
    BY <1>2, <1>5, <1>8, ByteFacts DEF Least
  <2> HIDE DEF f
  <2>2. /\ dec'.frame = f /\ dec'.fec = fec /\ dec'.plc = (data = <<>>)
        /\ dec' \in [frame : Int, fec : BOOLEAN, plc : BOOLEAN]
    <3>1. dec' = [frame |-> f, fec |-> fec, plc |-> data = <<>>]
      BY <1>8 DEF f
    <3> DEFINE b == data = <<>>
    <3>2. b \in BOOLEAN
      OBVIOUS
    <3> HIDE DEF b
    <3>3. dec' = [frame |-> f, fec |-> fec, plc |-> b]
      BY <3>1 DEF b
    <3>4. dec'.frame = f /\ dec'.fec = fec /\ dec'.plc = b
      BY <3>3, Zenon
    <3>5. dec' \in [frame : Int, fec : BOOLEAN, plc : BOOLEAN]
      BY <2>1, <3>2, <3>3
    <3> QED BY <3>4, <3>5 DEF b
  <2>3. Types'
    BY Zenon, <1>1, <1>3, <1>8, <2>2 DEF Types, ValidLayout
  <2>4. Positions' /\ Silent' /\ AllOrNothing'
    BY <1>8 DEF Positions, Silent, AllOrNothing
  <2>5. (\A n \in 0..layout.streams - 1 : child[n].touched <=> n < s)'
    <3>1. \A n \in 0..layout.streams - 1 : ~ (n < 0) /\ ~ child[n].touched
      BY <1>1, <1>3, <1>4, LayoutFacts DEF Silent
    <3> QED BY <1>1, <1>3, <3>1
  <2>6. (\A c \in DOMAIN layout.mapping : pcm[c] = HeardSo(c, s, dec.frame))'
    <3> SUFFICES ASSUME NEW c \in DOMAIN layout'.mapping
                 PROVE  (pcm[c] = HeardSo(c, s, dec.frame))'
      BY Zenon
    <3>1. c \in DOMAIN layout.mapping /\ pcm[c] = <<>>
      BY <1>1, <1>4 DEF Silent
    <3>2. HeardSo(c, 0, dec'.frame) = <<>>
      BY <1>3, <3>1, HeardNothing
    <3>3. HeardSo(c, s, dec.frame)' = HeardSo(c, 0, dec'.frame)
      BY <1>1, <1>3 DEF HeardSo, Origin
    <3> QED BY <1>1, <3>1, <3>2, <3>3
  <2>7. \A w : w[0].at = 1 \/ ~Walking(w, layout, data)
    BY DEF Walking, WalkBase
  <2>8. ~dec'.plc => Validate(layout, data) >= 0
    BY Zenon, <1>5, <1>8, <2>2
  <2>9. Decoding'
    <3>1. dec'.frame > 0
      BY <2>1, <2>2
    <3>2. s' = 0 /\ at' = 1 /\ layout' = layout /\ data' = data
      BY <1>1, <1>3
    <3>3. ~ (s' > 0)
      BY <3>2
    <3>4. \A w : Walking(w, layout, data)' => (at = w[s].at)'
      <4> SUFFICES ASSUME NEW w, Walking(w, layout, data)' PROVE (at = w[s].at)'
        OBVIOUS
      <4>1. Walking(w, layout, data)
        BY <3>2, Zenon DEF Walking
      <4> QED BY <2>7, <3>2, <4>1
    <3>5. (~dec.plc => Validate(layout, data) >= 0)'
      BY <2>8, <3>2, Zenon
    <3> QED BY <2>5, <2>6, <3>1, <3>3, <3>4, <3>5, Zenon DEF Decoding
  <2> QED BY <2>3, <2>4, <2>9 DEF StreamInv
<1> QED BY <1>6, <1>7, <1>8, Zenon

\* What the validation says of the part that stream s is given.
LEMMA ChildPart ==
    ASSUME StreamInv, phase = "children", s <= layout.streams - 1, ~dec.plc
    PROVE  /\ GoodParse(Parse(Part, ~IsLast(s)), Part, ~IsLast(s))
           /\ Part # <<>> /\ Part \in Seq(Int)
           /\ \A w : Walking(w, layout, data) =>
                /\ w[s + 1].at = at + Parse(Part, ~IsLast(s)).end - 1
                /\ w[s + 1].ret = NbSamples(Part, Parse(Part, ~IsLast(s)).count)
                /\ w[s + 1].ret \in 1..MaxDuration
                /\ s > 0 => w[s + 1].ret = w[s].ret
<1> DEFINE n == s + 1
           rest(w) == SubSeq(data, w[n - 1].at, Len(data))
<1>1. /\ layout.streams \in Nat /\ data \in Seq(Int) /\ at \in Nat \ {0}
      /\ n \in 1..layout.streams /\ n - 1 = s /\ s \in Nat
      /\ Validate(layout, data) >= 0
      /\ \A w : Walking(w, layout, data) => at = w[s].at
  BY EarlyTypes DEF StreamInv, Decoding
<1>2. (n # layout.streams) = ~IsLast(s)
  <2>1. n = layout.streams <=> s = layout.streams - 1
    BY <1>1
  <2> HIDE DEF n
  <2> QED BY <2>1 DEF IsLast, LastStream
<1>3. Part \in Seq(Int)
  BY <1>1, RestType DEF Part
<1> HIDE DEF n
<1>4. ASSUME NEW w, Walking(w, layout, data)
      PROVE  /\ WalkedOn(w[s], w[n], n, Part, layout.streams)
             /\ n > 1 => w[n].ret = w[s].ret
  <2>1. Walked(w, layout, data)
    BY <1>1, <1>4, WalkGood
  <2>2. WalkedOn(w[n - 1], w[n], n, rest(w), layout.streams)
    BY <1>1, <2>1 DEF Walked
  <2>3. rest(w) = Part
    BY Zenon, <1>1, <1>4 DEF Part
  <2>4. WalkedOn(w[s], w[n], n, Part, layout.streams)
    BY <1>1, <2>2, <2>3, Zenon
  <2> QED BY <2>4 DEF WalkedOn
<1>5. ASSUME NEW w, Walking(w, layout, data)
      PROVE  /\ Part # <<>> /\ GoodParse(Parse(Part, ~IsLast(s)), Part, ~IsLast(s))
             /\ w[n].at = at + Parse(Part, ~IsLast(s)).end - 1
             /\ w[n].ret = NbSamples(Part, Parse(Part, ~IsLast(s)).count)
             /\ w[n].ret \in 1..MaxDuration
             /\ s > 0 => w[n].ret = w[s].ret
  <2> DEFINE p == Parse(Part, n # layout.streams)
             q == Parse(Part, ~IsLast(s))
  <2>1. /\ Part # <<>> /\ GoodParse(p, Part, n # layout.streams)
        /\ w[n].ret = NbSamples(Part, p.count) /\ w[n].ret \in 1..MaxDuration
        /\ w[n].at = w[s].at + p.end - 1
    BY <1>4, <1>5, Zenon DEF WalkedOn
  <2>2. p = q /\ GoodParse(q, Part, ~IsLast(s))
    BY <1>2, <2>1, Zenon
  <2>3. w[s].at = at
    BY <1>1, <1>5
  <2>4. w[n].at = at + q.end - 1 /\ w[n].ret = NbSamples(Part, q.count)
    BY <2>1, <2>2, <2>3, Zenon
  <2>5. s > 0 => n > 1
    BY <1>1 DEF n
  <2> QED BY <1>4, <1>5, <2>1, <2>2, <2>4, <2>5, Zenon
<1>6. PICK w : Walking(w, layout, data)
  BY Zenon, <1>1, WalkSteps
<1> QED BY <1>3, <1>5, <1>6 DEF n

\* What a child returns, when it does not fail inside.
LEMMA ChildReturns ==
    ASSUME StreamInv, phase = "children", s <= layout.streams - 1,
           NEW p, p = IF dec.plc THEN Refused ELSE Parse(Part, ~IsLast(s))
    PROVE  /\ ChildSamples(p) \in Int
           /\ s > 0 => ChildSamples(p) = dec.frame
           /\ ChildSamples(p) > 0 /\ (dec.plc \/ dec.fec) => ChildSamples(p) % F2_5 = 0
           /\ ChildSamples(p) > 0 /\ ~dec.plc /\ ~dec.fec =>
                ChildSamples(p) = NbSamples(Part, p.count)
<1> DEFINE n == ChildSamples(p)
           f == dec.frame
           nb == NbSamples(Part, p.count)
<1>1. f \in Int /\ f > 0 /\ dec.plc \in BOOLEAN /\ dec.fec \in BOOLEAN
  BY DEF StreamInv, Types, Decoding
<1>2. s > 0 /\ (dec.plc \/ dec.fec) => f % F2_5 = 0
  BY DEF StreamInv, Decoding
<1>3. ~dec.plc => /\ ~ (p.count < 0) /\ nb \in Int
                  /\ s > 0 /\ ~dec.fec => nb = f
  <2> SUFFICES ASSUME ~dec.plc
               PROVE  /\ ~ (p.count < 0) /\ nb \in Int
                      /\ s > 0 /\ ~dec.fec => nb = f
    OBVIOUS
  <2>1. p = Parse(Part, ~IsLast(s))
    OBVIOUS
  <2>2. GoodParse(p, Part, ~IsLast(s))
    BY <2>1, ChildPart
  <2>3. layout.streams \in Nat /\ data \in Seq(Int)
    BY EarlyTypes
  <2>4. PICK w : Walking(w, layout, data)
    BY Zenon, <2>3, WalkSteps
  <2>5. /\ w[s + 1].ret = nb /\ w[s + 1].ret \in 1..MaxDuration
        /\ s > 0 => w[s + 1].ret = w[s].ret
    BY <2>1, <2>4, ChildPart
  <2>6. s > 0 /\ ~dec.fec => f = w[s].ret
    BY <2>4 DEF StreamInv, Decoding
  <2>7. ~ (p.count < 0)
    <3> DEFINE k == p.count
    <3>1. k \in Nat \ {0}
      BY <2>2 DEF GoodParse
    <3> HIDE DEF k
    <3> QED BY <3>1 DEF k
  <2> HIDE DEF nb, f
  <2>8. nb \in Int
    BY <2>5
  <2> QED BY <2>5, <2>6, <2>7, <2>8
<1> DEFINE A1 == (dec.plc \/ dec.fec) /\ f % F2_5 # 0
           A2 == ~dec.plc /\ p.count < 0
           A3 == ~dec.plc /\ ~dec.fec /\ nb > f
           A4 == ~dec.plc /\ ~dec.fec /\ nb <= f
<1>4. CASE A1
  <2>1. ~A2 /\ ~A3 /\ ~A4
    BY <1>3, <1>4
  <2>2. n = BadArg
    BY <1>4, <2>1, Zenon DEF ChildSamples
  <2>3. ~ (s > 0)
    BY <1>2, <1>4
  <2> QED BY <2>2, <2>3 DEF BadArg
<1>5. CASE A3
  <2>1. ~A1 /\ ~A2 /\ ~A4
    <3> HIDE DEF nb, f
    <3> QED BY <1>1, <1>3, <1>5
  <2>2. n = TooSmall
    BY <1>5, <2>1, Zenon DEF ChildSamples
  <2>3. ~ (s > 0)
    <3> HIDE DEF nb, f
    <3> QED BY <1>1, <1>3, <1>5
  <2> QED BY <2>2, <2>3 DEF TooSmall
<1>6. CASE A4
  <2>1. ~A1 /\ ~A2 /\ ~A3
    <3> HIDE DEF nb, f
    <3> QED BY <1>1, <1>3, <1>6
  <2>2. n = nb
    BY <1>6, <2>1, Zenon DEF ChildSamples
  <2> HIDE DEF nb, n
  <2>3. n \in Int /\ (s > 0 => n = f) /\ ~dec.plc /\ ~dec.fec
    BY <1>3, <1>6, <2>2
  <2> QED BY <2>2, <2>3 DEF n, nb
<1>7. CASE ~A1 /\ ~A3 /\ ~A4
  <2>1. ~A2
    BY <1>3
  <2>2. n = f
    BY <1>7, <2>1, Zenon DEF ChildSamples
  <2>3. dec.plc \/ dec.fec
    <3> HIDE DEF nb, f
    <3> QED BY <1>1, <1>3, <1>7
  <2>4. f % F2_5 = 0
    BY <1>7, <2>3
  <2> HIDE DEF n, nb
  <2>5. n \in Int /\ n % F2_5 = 0 /\ n = f
    BY <1>1, <2>2, <2>4
  <2> QED BY <2>3, <2>5 DEF n
<1> QED BY <1>4, <1>5, <1>6, <1>7

LEMMA ChildTypes ==
    ASSUME StreamInv, phase = "children"
    PROVE  /\ Types
           /\ dec.frame > 0
           /\ \A n \in 0..layout.streams - 1 : child[n].touched <=> n < s
           /\ \A c \in DOMAIN layout.mapping : pcm[c] = HeardSo(c, s, dec.frame)
  BY DEF StreamInv, Decoding

LEMMA DecodeChildInv ==
    ASSUME StreamInv, DecodeChild PROVE StreamInv'
<1> DEFINE p == IF dec.plc THEN Refused ELSE Parse(Part, ~IsLast(s))
           n == ChildSamples(p)
           frames == IF dec.plc THEN <<>> ELSE Frames(Part, p)
           one == [touched |-> TRUE, frames |-> frames]
<1>1. /\ phase = "children" /\ s <= layout.streams - 1
      /\ UNCHANGED <<layout, job, data, sent, to>>
  BY DEF DecodeChild, LastStream
<1>2. /\ Types /\ s \in 0..layout.streams - 1 /\ dec.frame > 0
      /\ layout.streams \in Nat \ {0}
  BY <1>1, ChildTypes, EarlyTypes
<1>3. \/ Return(Internal) /\ UNCHANGED <<s, at, dec, child, pcm>>
      \/ n <= 0 /\ Return(n) /\ UNCHANGED <<s, at, dec, child, pcm>>
      \/ /\ child' = [child EXCEPT ![s].touched = TRUE]
         /\ Return(Internal) /\ UNCHANGED <<s, at, dec, pcm>>
      \/ /\ n > 0
         /\ child' = [child EXCEPT ![s] = one]
         /\ at' = IF dec.plc THEN at ELSE at + p.end - 1
         /\ dec' = [dec EXCEPT !.frame = n]
         /\ pcm' = Heard(s, n)
         /\ s' = s + 1
         /\ UNCHANGED <<phase, ret>>
  BY ZenonT(40) DEF DecodeChild
<1>4. /\ n \in Int
      /\ s > 0 => n = dec.frame
      /\ n > 0 /\ (dec.plc \/ dec.fec) => n % F2_5 = 0
      /\ n > 0 /\ ~dec.plc /\ ~dec.fec => n = NbSamples(Part, p.count)
  BY <1>1, ChildReturns
<1> HIDE DEF n
<1>5. ASSUME phase' = "done" PROVE Positions' /\ Silent' /\ Decoding'
  BY <1>5 DEF Positions, Silent, Decoding
<1>6. CASE Return(Internal) /\ UNCHANGED <<s, at, dec, child, pcm>>
  <2>1. phase' = "done" /\ ret' = Internal
    BY <1>6 DEF Return
  <2>2. Types'
    <3>1. ret' \in Int
      BY <2>1 DEF Internal
    <3> QED BY Zenon, <1>1, <1>2, <1>6, <2>1, <3>1 DEF Types, ValidLayout
  <2>3. AllOrNothing'
    <3>1. ~ (ret' > 0)
      BY <2>1 DEF Internal
    <3> QED BY <2>1, <3>1, Zenon DEF AllOrNothing
  <2> QED BY <1>5, <2>1, <2>2, <2>3 DEF StreamInv
<1>7. CASE n <= 0 /\ Return(n) /\ UNCHANGED <<s, at, dec, child, pcm>>
  <2>1. phase' = "done" /\ ret' = n
    BY <1>7 DEF Return
  <2>2. Types'
    BY Zenon, <1>1, <1>2, <1>4, <1>7, <2>1 DEF Types, ValidLayout
  <2>3. s = 0
    <3>1. ~ (s > 0)
      BY <1>2, <1>4, <1>7
    <3> QED BY <1>2, <3>1
  <2>4. AllOrNothing'
    <3>1. ~ (ret' > 0)
      BY <1>4, <1>7, <2>1
    <3>2. \A k \in Stream : ~child[k].touched
      <4> SUFFICES ASSUME NEW k \in Stream PROVE ~child[k].touched
        OBVIOUS
      <4>1. k \in 0..layout.streams - 1
        BY DEF Stream, LastStream
      <4>2. ~ (k < 0)
        BY <1>2, <4>1
      <4> QED BY <1>1, <2>3, <4>1, <4>2, ChildTypes
    <3>3. \A c \in DOMAIN pcm : pcm[c] = <<>>
      <4> SUFFICES ASSUME NEW c \in DOMAIN pcm PROVE pcm[c] = <<>>
        OBVIOUS
      <4>1. c \in DOMAIN layout.mapping
        BY <1>2 DEF Types
      <4>2. pcm[c] = HeardSo(c, 0, dec.frame)
        BY <1>1, <2>3, <4>1, ChildTypes
      <4> QED BY <1>2, <4>1, <4>2, HeardNothing
    <3>4. (\A k \in Stream : ~child[k].touched)'
      BY <1>1, <1>7, <3>2 DEF Stream, LastStream
    <3>5. (\A c \in DOMAIN pcm : pcm[c] = <<>>)'
      BY <1>7, <3>3
    <3> QED BY <3>1, <3>4, <3>5, Zenon DEF AllOrNothing
  <2> QED BY <1>5, <2>1, <2>2, <2>4 DEF StreamInv
<1>8. CASE /\ child' = [child EXCEPT ![s].touched = TRUE]
           /\ Return(Internal) /\ UNCHANGED <<s, at, dec, pcm>>
  <2>1. phase' = "done" /\ ret' = Internal
    BY <1>8 DEF Return
  <2>2. child' \in [0..layout.streams - 1 -> [touched : BOOLEAN, frames : Seq(Seq(Int))]]
    <3> DEFINE D == 0..layout.streams - 1
               F == Seq(Seq(Int))
               R == [touched : BOOLEAN, frames : F]
    <3>1. s \in D /\ child \in [D -> R] /\ child' = [child EXCEPT ![s].touched = TRUE]
      BY Zenon, <1>2, <1>8 DEF Types
    <3> HIDE DEF D, F
    <3>2. [child[s] EXCEPT !.touched = TRUE] \in R
      BY Zenon, <3>1
    <3>3. child' = [child EXCEPT ![s] = [child[s] EXCEPT !.touched = TRUE]]
      BY <3>1
    <3> HIDE DEF R
    <3>4. child' \in [D -> R]
      BY <3>1, <3>2, <3>3
    <3> QED BY <3>4 DEF D, F, R
  <2>3. Types'
    <3>1. ret' \in Int
      BY <2>1 DEF Internal
    <3> QED BY Zenon, <1>1, <1>2, <1>8, <2>1, <2>2, <3>1 DEF Types, ValidLayout
  <2>4. AllOrNothing'
    <3>1. ~ (ret' > 0)
      BY <2>1 DEF Internal
    <3> QED BY <2>1, <3>1, Zenon DEF AllOrNothing
  <2> QED BY <1>5, <2>1, <2>3, <2>4 DEF StreamInv
<1>9. CASE /\ n > 0
           /\ child' = [child EXCEPT ![s] = one]
           /\ at' = IF dec.plc THEN at ELSE at + p.end - 1
           /\ dec' = [dec EXCEPT !.frame = n]
           /\ pcm' = Heard(s, n)
           /\ s' = s + 1
           /\ UNCHANGED <<phase, ret>>
  <2>1. dec' \in [frame : Int, fec : BOOLEAN, plc : BOOLEAN]
        /\ dec'.frame = n /\ dec'.fec = dec.fec /\ dec'.plc = dec.plc
    <3>1. dec \in [frame : Int, fec : BOOLEAN, plc : BOOLEAN]
      BY <1>2 DEF Types
    <3>2. dec' = [dec EXCEPT !.frame = n]
      BY <1>9
    <3> QED BY <1>4, <3>1, <3>2
  <2>2. frames \in Seq(Seq(Int))
    <3>1. CASE dec.plc
      BY <3>1
    <3>2. CASE ~dec.plc
      <4>1. (~IsLast(s)) \in BOOLEAN
        BY DEF IsLast
      <4>2. GoodParse(p, Part, ~IsLast(s)) /\ Part \in Seq(Int)
        BY <1>1, <3>2, ChildPart
      <4> HIDE DEF p
      <4>3. Frames(Part, p) \in Seq(Seq(Int))
        BY Zenon, <4>1, <4>2, FramesType
      <4> QED BY <3>2, <4>3
    <3> QED BY <3>1, <3>2
  <2> HIDE DEF frames
  <2>3. child' \in [0..layout.streams - 1 -> [touched : BOOLEAN, frames : Seq(Seq(Int))]]
        /\ \A k \in 0..layout.streams - 1 :
             child'[k].touched = IF k = s THEN TRUE ELSE child[k].touched
    <3> DEFINE D == 0..layout.streams - 1
               F == Seq(Seq(Int))
               R == [touched : BOOLEAN, frames : F]
    <3>1. s \in D /\ child \in [D -> R] /\ child' = [child EXCEPT ![s] = one]
      BY Zenon, <1>2, <1>9 DEF Types
    <3>2. frames \in F
      BY <2>2
    <3> HIDE DEF D, F
    <3>3. one \in R /\ one.touched = TRUE
      BY <3>2
    <3> HIDE DEF R, one
    <3>4. child' \in [D -> R] /\ child'[s] = one /\ \A k \in D \ {s} : child'[k] = child[k]
      BY <3>1, <3>3
    <3>5. \A k \in D : child'[k].touched = IF k = s THEN TRUE ELSE child[k].touched
      BY <3>3, <3>4, Zenon
    <3> QED BY Zenon, <3>4, <3>5 DEF D, F, R
  <2>4. at' \in Nat \ {0}
    <3>1. CASE dec.plc
      BY <1>2, <1>9, <3>1 DEF Types
    <3>2. CASE ~dec.plc
      <4>1. (~IsLast(s)) \in BOOLEAN
        BY DEF IsLast
      <4>2. p = Parse(Part, ~IsLast(s))
        BY <3>2
      <4>3. p.count > 0
        <5>1. GoodParse(p, Part, ~IsLast(s))
          BY <1>1, <3>2, ChildPart
        <5> DEFINE k == p.count
        <5>2. k \in Nat \ {0}
          BY <5>1 DEF GoodParse
        <5> HIDE DEF k
        <5> QED BY <5>2 DEF k
      <4>4. at + p.end - 1 \in Nat \ {0}
        BY Zenon, <4>1, <4>2, <4>3, PartEnds
      <4> HIDE DEF p
      <4> QED BY <1>9, <3>2, <4>4
    <3> QED BY <3>1, <3>2
  <2>5. /\ DOMAIN pcm = DOMAIN layout.mapping
        /\ pcm' = [c \in DOMAIN layout.mapping |-> pcm'[c]]
    <3>1. DOMAIN pcm = DOMAIN layout.mapping
      BY <1>2 DEF Types
    <3> QED BY <1>9, <3>1 DEF Heard
  <2>6. Types'
    <3>1. s' \in 0..layout.streams
      BY <1>2, <1>9
    <3> HIDE DEF p
    <3> QED BY Zenon, <1>1, <1>2, <1>9, <2>1, <2>3, <2>4, <2>5, <3>1 DEF Types, ValidLayout
  <2>7. Positions' /\ Silent' /\ AllOrNothing'
    BY <1>1, <1>9 DEF Positions, Silent, AllOrNothing
  <2>8. (\A k \in 0..layout.streams - 1 : child[k].touched <=> k < s)'
    <3> SUFFICES ASSUME NEW k \in 0..layout'.streams - 1
                 PROVE  child'[k].touched <=> k < s'
      OBVIOUS
    <3>1. k \in 0..layout.streams - 1 /\ s' = s + 1 /\ k \in Int /\ s \in Int
      BY <1>1, <1>2, <1>9
    <3>2. child[k].touched <=> k < s
      BY <1>1, <3>1, ChildTypes
    <3>3. child'[k].touched = IF k = s THEN TRUE ELSE child[k].touched
      BY Zenon, <2>3, <3>1
    <3>4. CASE k = s
      <4>1. k < s'
        BY <3>1, <3>4
      <4>2. child'[k].touched
        BY <3>3, <3>4, Zenon
      <4> QED BY <4>1, <4>2
    <3>5. CASE k # s
      <4>1. k < s' <=> k < s
        BY <3>1, <3>5
      <4>2. child'[k].touched <=> child[k].touched
        BY <3>3, <3>5, Zenon
      <4> QED BY <3>2, <4>1, <4>2, Zenon
    <3> QED BY <3>4, <3>5
  <2>9. (\A c \in DOMAIN layout.mapping : pcm[c] = HeardSo(c, s, dec.frame))'
    <3> SUFFICES ASSUME NEW c \in DOMAIN layout'.mapping
                 PROVE  (pcm[c] = HeardSo(c, s, dec.frame))'
      BY Zenon
    <3>1. c \in DOMAIN layout.mapping
      BY <1>1
    <3>2. pcm[c] = HeardSo(c, s, n)
      <4>1. pcm[c] = HeardSo(c, s, dec.frame)
        BY <1>1, <3>1, ChildTypes
      <4>2. CASE s = 0
        BY <1>2, <3>1, <4>1, <4>2, HeardNothing
      <4>3. CASE s # 0
        <5>1. s > 0
          BY <1>2, <4>3
        <5> QED BY <1>4, <4>1, <5>1
      <4> QED BY <4>2, <4>3
    <3>3. Heard(s, n)[c] = HeardSo(c, s + 1, n)
      BY <1>2, <3>1, <3>2, HeardNext
    <3>4. HeardSo(c, s, dec.frame)' = HeardSo(c, s + 1, n)
      BY <1>1, <1>9, <2>1 DEF HeardSo, Origin
    <3> QED BY <1>9, <3>3, <3>4, Zenon
  <2>10. /\ layout' = layout /\ data' = data /\ s' = s + 1 /\ phase' = "children"
         /\ s + 1 > 0
    BY <1>1, <1>2, <1>9
  <2>11. dec'.plc \/ dec'.fec => dec'.frame % F2_5 = 0
    BY <1>4, <1>9, <2>1
  <2>12. ASSUME ~dec'.plc, NEW w, Walking(w, layout, data)
         PROVE  /\ at' = w[s + 1].at
                /\ ~dec'.fec => dec'.frame = w[s + 1].ret
    <3>1. p = Parse(Part, ~IsLast(s)) /\ ~dec.plc
      BY <2>1, <2>12
    <3>2. /\ w[s + 1].at = at + p.end - 1
          /\ w[s + 1].ret = NbSamples(Part, p.count)
      BY <1>1, <2>12, <3>1, ChildPart
    <3>3. at' = at + p.end - 1
      BY <1>9, <3>1, Zenon
    <3>4. ~dec'.fec => n = NbSamples(Part, p.count)
      BY <1>4, <1>9, <2>1, <3>1
    <3> QED BY <2>1, <3>2, <3>3, <3>4, Zenon
  <2>13. ~dec'.plc => Validate(layout, data) >= 0
    BY <1>1, <2>1 DEF StreamInv, Decoding
  <2>14. Decoding'
    <3>1. dec'.frame > 0
      BY <1>9, <2>1
    <3>2. (~dec.plc => Validate(layout, data) >= 0)'
      BY <2>10, <2>13, Zenon
    <3>3. ((dec.plc \/ dec.fec) /\ s > 0 => dec.frame % F2_5 = 0)'
      BY <2>11, Zenon
    <3>4. (~dec.plc => \A w : Walking(w, layout, data) =>
                         at = w[s].at /\ (~dec.fec /\ s > 0 => dec.frame = w[s].ret))'
      <4> SUFFICES ASSUME ~dec'.plc, NEW w, Walking(w, layout, data)'
                   PROVE  (at = w[s].at /\ (~dec.fec /\ s > 0 => dec.frame = w[s].ret))'
        BY Zenon
      <4>1. Walking(w, layout, data)
        BY <2>10, Zenon DEF Walking
      <4>2. at' = w[s + 1].at /\ (~dec'.fec => dec'.frame = w[s + 1].ret)
        BY <2>12, <4>1, Zenon
      <4> QED BY <2>10, <4>2, Zenon
    <3> QED BY <2>8, <2>9, <3>1, <3>2, <3>3, <3>4, Zenon DEF Decoding
  <2> QED BY <2>6, <2>7, <2>14 DEF StreamInv
<1> QED BY <1>3, <1>6, <1>7, <1>8, <1>9, Zenon

LEMMA MuteInv ==
    ASSUME StreamInv, Mute PROVE StreamInv'
<1> DEFINE f == dec.frame
<1>1. /\ phase = "children" /\ s > layout.streams - 1
      /\ UNCHANGED <<layout, job, data, sent, s, at, to, dec, child>>
      /\ phase' = "done" /\ ret' = f
      /\ pcm' = [c \in DOMAIN pcm |->
                   IF layout.mapping[c] = Muted
                   THEN Append(pcm[c], [from |-> <<>>, n |-> f]) ELSE pcm[c]]
  BY DEF Mute, Return, LastStream
<1>2. /\ Types /\ s = layout.streams /\ layout.streams \in Nat \ {0} /\ f \in Int /\ f > 0
      /\ DOMAIN pcm = DOMAIN layout.mapping
  <2>1. Types /\ s \in 0..layout.streams /\ layout.streams \in Nat \ {0} /\ f > 0
    BY <1>1, ChildTypes, EarlyTypes
  <2> QED BY <1>1, <2>1 DEF Types
<1>3. Types'
  <2>1. pcm' = [c \in DOMAIN layout.mapping |-> pcm'[c]]
    BY <1>1, <1>2
  <2> HIDE DEF f
  <2> QED BY Zenon, <1>1, <1>2, <2>1 DEF Types, ValidLayout
<1>4. Positions' /\ Silent' /\ Decoding'
  BY <1>1 DEF Positions, Silent, Decoding
<1>5. (\A k \in Stream : child[k].touched)'
  <2> SUFFICES ASSUME NEW k \in Stream' PROVE child'[k].touched
    OBVIOUS
  <2>1. k \in 0..layout.streams - 1
    BY <1>1 DEF Stream, LastStream
  <2>2. k < s
    BY <1>2, <2>1
  <2> QED BY <1>1, <2>1, <2>2, ChildTypes
<1>6. ASSUME NEW c \in DOMAIN layout.mapping
      PROVE  LET m == layout.mapping[c]
                 from == IF m = Muted THEN <<>>
                         ELSE IF m < 2 * layout.coupled
                              THEN <<m \div 2, m % 2>>
                              ELSE <<m - layout.coupled, 0>>
             IN  pcm'[c] = <<[from |-> from, n |-> f]>>
  <2> DEFINE m == layout.mapping[c]
  <2>1. pcm[c] = HeardSo(c, layout.streams, f)
    BY <1>1, <1>2, ChildTypes
  <2>2. pcm'[c] = IF m = Muted THEN Append(pcm[c], [from |-> <<>>, n |-> f]) ELSE pcm[c]
    BY <1>1, <1>2
  <2>3. CASE m = Muted
    <3>1. pcm[c] = <<>>
      BY <2>1, <2>3 DEF HeardSo
    <3>2. pcm'[c] = Append(<<>>, [from |-> <<>>, n |-> f])
      BY <2>2, <2>3, <3>1
    <3> DEFINE r == [from |-> <<>>, n |-> f]
    <3>3. Append(<<>>, r) = <<r>>
      <4> HIDE DEF r
      <4> QED OBVIOUS
    <3> QED BY <2>3, <3>2, <3>3
  <2>4. CASE m # Muted
    <3> DEFINE o == Origin(m)
    <3>1. o[1] < layout.streams
      <4>1. o[1] \in 0..layout.streams - 1
        BY <1>2, <2>4, OriginFacts
      <4> DEFINE k == o[1]
      <4> HIDE DEF k
      <4>2. k < layout.streams
        BY <1>2, <4>1 DEF k
      <4> QED BY <4>2 DEF k
    <3>2. pcm[c] = <<[from |-> o, n |-> f]>>
      BY <2>1, <2>4, <3>1 DEF HeardSo
    <3>3. pcm'[c] = <<[from |-> o, n |-> f]>>
      BY <2>2, <2>4, <3>2, Zenon
    <3> QED BY <2>4, <3>3, Zenon DEF Origin
  <2> QED BY <2>3, <2>4
<1>7. AllOrNothing'
  <2>1. ~ (ret' <= 0)
    BY <1>1, <1>2
  <2>2. (\A c \in DOMAIN pcm :
           LET m == layout.mapping[c]
               from == IF m = Muted THEN <<>>
                       ELSE IF m < 2 * layout.coupled
                            THEN <<m \div 2, m % 2>>
                            ELSE <<m - layout.coupled, 0>>
           IN  pcm[c] = <<[from |-> from, n |-> ret]>>)'
    <3>1. DOMAIN pcm' = DOMAIN layout.mapping
      BY <1>1, <1>2
    <3> HIDE DEF f
    <3> QED BY <1>1, <1>6, <3>1, Zenon
  <2> QED BY <1>5, <2>1, <2>2, Zenon DEF AllOrNothing
<1> QED BY <1>3, <1>4, <1>7 DEF StreamInv

LEMMA StutterInv ==
    ASSUME StreamInv, UNCHANGED vars PROVE StreamInv'
<1>1. UNCHANGED <<layout, job, phase, data, sent, s, at, to, dec, child, pcm, ret>>
  BY DEF vars
<1>2. Types'
  BY <1>1 DEF StreamInv, Types, ValidLayout
<1>3. Positions' /\ Silent'
  BY <1>1 DEF StreamInv, Positions, Silent
<1>4. Decoding'
  <2> SUFFICES ASSUME phase = "children" PROVE Decoding'
    BY <1>1 DEF Decoding
  <2>1. /\ dec.frame > 0
        /\ \A n \in 0..layout.streams - 1 : child[n].touched <=> n < s
        /\ \A c \in DOMAIN layout.mapping : pcm[c] = HeardSo(c, s, dec.frame)
        /\ (dec.plc \/ dec.fec) /\ s > 0 => dec.frame % F2_5 = 0
        /\ ~dec.plc => Validate(layout, data) >= 0
    BY DEF StreamInv, Decoding
  <2>2. ASSUME ~dec.plc, NEW w, Walking(w, layout, data)
        PROVE  at = w[s].at /\ (~dec.fec /\ s > 0 => dec.frame = w[s].ret)
    BY <2>2 DEF StreamInv, Decoding
  <2>3. (\A c \in DOMAIN layout.mapping : pcm[c] = HeardSo(c, s, dec.frame))'
    <3> SUFFICES ASSUME NEW c \in DOMAIN layout'.mapping
                 PROVE  (pcm[c] = HeardSo(c, s, dec.frame))'
      BY Zenon
    <3>1. HeardSo(c, s, dec.frame)' = HeardSo(c, s, dec.frame)
      BY <1>1 DEF HeardSo, Origin
    <3> QED BY <1>1, <2>1, <3>1
  <2>4. (~dec.plc => \A w : Walking(w, layout, data) =>
                       at = w[s].at /\ (~dec.fec /\ s > 0 => dec.frame = w[s].ret))'
    <3> SUFFICES ASSUME ~dec'.plc, NEW w, Walking(w, layout, data)'
                 PROVE  (at = w[s].at /\ (~dec.fec /\ s > 0 => dec.frame = w[s].ret))'
      BY Zenon
    <3>1. Walking(w, layout, data) /\ ~dec.plc
      BY <1>1, Zenon DEF Walking
    <3>2. at = w[s].at /\ (~dec.fec /\ s > 0 => dec.frame = w[s].ret)
      BY <2>2, <3>1
    <3> QED BY <1>1, <3>2, Zenon
  <2>5. (\A n \in 0..layout.streams - 1 : child[n].touched <=> n < s)'
    BY <1>1, <2>1
  <2>6. /\ dec'.frame > 0
        /\ ((dec.plc \/ dec.fec) /\ s > 0 => dec.frame % F2_5 = 0)'
        /\ (~dec.plc => Validate(layout, data) >= 0)'
    BY <1>1, <2>1, Zenon
  <2> QED BY <2>3, <2>4, <2>5, <2>6, Zenon DEF Decoding
<1>5. AllOrNothing'
  BY <1>1, Zenon DEF StreamInv, AllOrNothing, Stream, LastStream
<1> QED BY <1>2, <1>3, <1>4, <1>5 DEF StreamInv

LEMMA StepInv ==
    ASSUME StreamInv, [Next]_vars PROVE StreamInv'
<1>1. CASE UNCHANGED vars
  BY <1>1, StutterInv
<1>2. CASE Next
  <2>1. CASE EncodeStart
    BY <2>1, EncodeStartInv
  <2>2. CASE EncodeStream
    BY <2>2, EncodeStreamInv
  <2>3. CASE EncodeDone
    BY <2>3, EncodeDoneInv
  <2>4. CASE AsIs
    BY <2>4, AsIsInv
  <2>5. CASE UnpadStart
    BY <2>5, UnpadStartInv
  <2>6. CASE UnpadStream
    BY <2>6, UnpadStreamInv
  <2>7. CASE UnpadDone
    BY <2>7, UnpadDoneInv
  <2>8. CASE \E n \in Growth : PadStart(Len(data) + n)
    BY <2>8, PadStartInv
  <2>9. CASE PadSkip
    BY <2>9, PadSkipInv
  <2>10. CASE PadLast
    BY <2>10, PadLastInv
  <2>11. CASE \E size \in DecodeSize, fec \in BOOLEAN : DecodeStart(size, fec)
    BY <2>11, DecodeStartInv
  <2>12. CASE DecodeChild
    BY <2>12, DecodeChildInv
  <2>13. CASE Mute
    BY <2>13, MuteInv
  <2> QED BY Zenon, <1>2, <2>1, <2>2, <2>3, <2>4, <2>5, <2>6, <2>7, <2>8, <2>9, <2>10, <2>11,
             <2>12, <2>13, Zenon DEF Next
<1> QED BY <1>1, <1>2

\* A packet that is taken apart keeps to itself, by what the parser computes
\* on any bytes at all.
LEMMA ParsedWithin ==
    ASSUME StreamInv PROVE WithinPacket
<1> SUFFICES ASSUME data # <<>>, NEW sd \in BOOLEAN, NEW p, p = Parse(data, sd), p.count > 0
             PROVE  /\ p.at >= 2 /\ p.end - 1 <= Len(data)
                    /\ p.at + SumFunction(p.size) <= p.end
                    /\ ~sd => p.end - 1 = Len(data)
                    /\ Len(p.size) = p.count
                    /\ \A i \in 1..p.count : p.size[i] \in 0..MaxFrame
                    /\ NbSamples(data, p.count) > 0
  BY Zenon DEF WithinPacket
<1>1. data \in Seq(Int)
  BY EarlyTypes
<1>2. GoodParse(p, data, sd)
  <2>1. p = Refused \/ GoodParse(p, data, sd)
    BY <1>1, ParseGood
  <2>2. p # Refused
    BY DEF Refused, InvalidPacket
  <2> QED BY <2>1, <2>2
<1>3. \A i \in 1..p.count : p.size[i] \in 0..MaxFrame
  <2>1. p.size \in Seq(0..MaxFrame) /\ Len(p.size) = p.count
    BY <1>2 DEF GoodParse
  <2> DEFINE q == p.size
             k == p.count
             R == 0..MaxFrame
  <2>2. q \in Seq(R) /\ Len(q) = k
    BY <2>1
  <2> HIDE DEF q, k, R
  <2>3. \A i \in 1..k : q[i] \in R
    BY <2>2
  <2> QED BY <2>3 DEF q, k, R
<1>4. NbSamples(data, p.count) > 0
  <2>1. NbSamples(data, p.count) \in 1..MaxDuration
    BY <1>1, <1>2, SamplesGood
  <2> DEFINE v == NbSamples(data, p.count)
  <2> HIDE DEF v
  <2>2. v \in 1..MaxDuration => v > 0
    BY ByteFacts
  <2> QED BY <2>1, <2>2 DEF v
<1> QED BY <1>2, <1>3, <1>4 DEF GoodParse

(* The state is well formed: packets are bytes, positions are in them, the *)
(* decoders and channels are those of the layout.                          *)
THEOREM TypesHold == Spec => []Types
<1>1. Init => StreamInv
  BY InitInv
<1>2. StreamInv /\ [Next]_vars => StreamInv'
  BY StepInv
<1>3. StreamInv => Types
  BY DEF StreamInv
<1> QED BY <1>1, <1>2, <1>3, PTL DEF Spec

(* Header, frames and padding of a packet that parses lie inside it, for   *)
(* every packet an encoder makes and any bytes that arrive.                *)
THEOREM PacketsKeepWithin == Spec => []WithinPacket
<1>1. Init => StreamInv
  BY InitInv
<1>2. StreamInv /\ [Next]_vars => StreamInv'
  BY StepInv
<1>3. StreamInv => WithinPacket
  BY ParsedWithin
<1> QED BY <1>1, <1>2, <1>3, PTL DEF Spec

(* A decode call the packet can decide moves every stream and every        *)
(* channel, by the same number of samples, or none.                        *)
THEOREM DecodeIsAllOrNothing == Spec => []AllOrNothing
<1>1. Init => StreamInv
  BY InitInv
<1>2. StreamInv /\ [Next]_vars => StreamInv'
  BY StepInv
<1>3. StreamInv => AllOrNothing
  BY DEF StreamInv
<1> QED BY <1>1, <1>2, <1>3, PTL DEF Spec

-----------------------------------------------------------------------------
(* What a packet spells out, and what it means when it is read back.        *)
\* From position a on, d has the bytes of q.
Spells(d, a, q) == \A i \in 1..Len(q) : Value(d[a + i - 1]) = q[i]

LEMMA SpellsBoth ==
    ASSUME NEW d, NEW a \in Int, NEW x \in Seq(Int), NEW y \in Seq(Int)
    PROVE  Spells(d, a, x \o y) <=> Spells(d, a, x) /\ Spells(d, a + Len(x), y)
<1> DEFINE m == Len(x)
           n == Len(y)
           z == x \o y
<1>1. /\ m \in Nat /\ n \in Nat /\ Len(z) = m + n
      /\ \A i \in 1..m : z[i] = x[i]
      /\ \A i \in 1..n : z[m + i] = y[i]
  OBVIOUS
<1> HIDE DEF m, n, z
<1>2. ASSUME Spells(d, a, z) PROVE Spells(d, a, x) /\ Spells(d, a + m, y)
  <2>0. \A i \in 1..Len(z) : Value(d[a + i - 1]) = z[i]
    BY <1>2 DEF Spells
  <2>1. ASSUME NEW i \in 1..m PROVE Value(d[a + i - 1]) = x[i]
    <3>1. i \in 1..Len(z)
      BY <1>1
    <3> QED BY <1>1, <2>0, <3>1
  <2>2. ASSUME NEW i \in 1..n PROVE Value(d[(a + m) + i - 1]) = y[i]
    <3>1. m + i \in 1..Len(z) /\ a + (m + i) - 1 = (a + m) + i - 1
      BY <1>1
    <3>2. Value(d[a + (m + i) - 1]) = z[m + i]
      BY <2>0, <3>1
    <3> QED BY <1>1, <3>1, <3>2
  <2> QED BY <2>1, <2>2 DEF Spells, m, n
<1>3. ASSUME Spells(d, a, x), Spells(d, a + m, y) PROVE Spells(d, a, z)
  <2>1. /\ \A i \in 1..m : Value(d[a + i - 1]) = x[i]
        /\ \A i \in 1..n : Value(d[(a + m) + i - 1]) = y[i]
    BY <1>3 DEF Spells, m, n
  <2>2. ASSUME NEW i \in 1..Len(z) PROVE Value(d[a + i - 1]) = z[i]
    <3>1. CASE i <= m
      <4>1. i \in 1..m
        BY <3>1, <1>1
      <4> QED BY <1>1, <2>1, <4>1
    <3>2. CASE i > m
      <4>1. i - m \in 1..n /\ m + (i - m) = i /\ (a + m) + (i - m) - 1 = a + i - 1
        BY <3>2, <1>1
      <4>2. Value(d[(a + m) + (i - m) - 1]) = y[i - m] /\ z[m + (i - m)] = y[i - m]
        BY Zenon, <1>1, <2>1, <4>1
      <4> QED BY <4>1, <4>2
    <3> QED BY <3>1, <3>2, <1>1
  <2> QED BY <2>2 DEF Spells
<1> QED BY <1>2, <1>3 DEF m, z

LEMMA SpellsHead ==
    ASSUME NEW d, NEW x \in Seq(Int), NEW y \in Seq(Int)
    PROVE  Spells(d, 1, x \o y) <=> Spells(d, 1, x) /\ Spells(d, 1 + Len(x), y)
<1> DEFINE a == 1
<1>1. a \in Int
  OBVIOUS
<1> HIDE DEF a
<1>2. Spells(d, a, x \o y) <=> Spells(d, a, x) /\ Spells(d, a + Len(x), y)
  BY Zenon, <1>1, SpellsBoth
<1> QED BY <1>2 DEF a

\* A size of two bytes: the first tells what the second leaves over.
LEMMA LongSize ==
    ASSUME NEW n \in Nat, n >= Escape
    PROVE  /\ Escape + (n % 4) \in Escape .. Byte - 1
           /\ (n - (Escape + (n % 4))) \div 4 \in Nat
           /\ 4 * ((n - (Escape + (n % 4))) \div 4) + (Escape + (n % 4)) = n
<1>1. PICK q \in Nat : Byte = 4 * q /\ q >= 4
  <2>1. Byte \in Nat /\ Byte >= 16 /\ Byte % 4 = 0
    BY ByteFacts
  <2>2. Byte = 4 * (Byte \div 4) /\ Byte \div 4 \in Nat /\ Byte \div 4 >= 4
    BY <2>1
  <2> QED BY <2>2
<1>2. Escape = 4 * (q - 1)
  BY <1>1 DEF Escape
<1> DEFINE r == n % 4
           m == n \div 4
<1>3. n = 4 * m + r /\ r \in 0..3 /\ m \in Nat
  OBVIOUS
<1> HIDE DEF r, m
<1>4. m >= q - 1
  BY <1>1, <1>2, <1>3
<1>5. n - (Escape + r) = 4 * (m - (q - 1)) /\ m - (q - 1) \in Nat
  BY <1>1, <1>2, <1>3, <1>4
<1>6. (n - (Escape + r)) \div 4 = m - (q - 1)
  BY <1>5
<1>7. Escape + r \in Escape .. Byte - 1
  BY <1>1, <1>2, <1>3
<1>8. 4 * (m - (q - 1)) + (Escape + r) = n
  BY <1>1, <1>2, <1>3
<1> QED BY <1>5, <1>6, <1>7, <1>8 DEF r

\* What EncodeSize writes, ParseSize reads.
LEMMA SizeBack ==
    ASSUME NEW d, NEW a \in Int, NEW left \in Int, NEW n \in Nat,
           Spells(d, a, EncodeSize(n)), left >= Len(EncodeSize(n))
    PROVE  ParseSize(d, a, left) = [bytes |-> Len(EncodeSize(n)), size |-> n]
<1>1. Len(EncodeSize(n)) = IF n < Escape THEN 1 ELSE 2
  BY EncodeSizeType
<1>2. Escape \in Nat
  BY ByteFacts
<1>3. CASE n < Escape
  <2>1. EncodeSize(n) = <<n>>
    BY <1>3 DEF EncodeSize
  <2>2. Value(d[a + 1 - 1]) = n
    BY <2>1 DEF Spells
  <2>3. Value(d[a]) = n
    BY <2>2
  <2>4. left >= 1 /\ ~ (left < 1)
    BY <1>1, <1>3
  <2>5. ParseSize(d, a, left) = [bytes |-> 1, size |-> n]
    BY <1>2, <1>3, <2>3, <2>4 DEF ParseSize
  <2> QED BY <1>1, <1>3, <2>5
<1>4. CASE n >= Escape
  <2> DEFINE first == Escape + (n % 4)
             second == (n - first) \div 4
  <2>1. EncodeSize(n) = <<first, second>>
    BY <1>2, <1>4 DEF EncodeSize
  <2>2. first \in Escape .. Byte - 1 /\ second \in Nat /\ 4 * second + first = n
    BY <1>4, LongSize
  <2> HIDE DEF first, second
  <2>3. Value(d[a + 1 - 1]) = first /\ Value(d[a + 2 - 1]) = second
    BY <2>1 DEF Spells
  <2>4. Value(d[a]) = first /\ Value(d[a + 1]) = second
    BY <2>3
  <2>5. left >= 2
    BY <1>1, <1>2, <1>4
  <2>6. ~ (first < Escape) /\ first >= Escape
    BY <1>2, <2>2, ByteFacts
  <2>7. ParseSize(d, a, left) = [bytes |-> 2, size |-> 4 * second + first]
    BY <2>4, <2>5, <2>6 DEF ParseSize
  <2> QED BY <1>1, <1>2, <1>4, <2>2, <2>7
<1> QED BY <1>2, <1>3, <1>4

Enough(size, k, left) == \A i \in 1..k : size[i] <= left

\* Sizes that are written one behind the other are read one behind the other.
LEMMA SizesBack ==
    ASSUME NEW size \in Seq(Nat), NEW k \in 0..Len(size),
           NEW d, NEW start \in Int, NEW remaining \in Int,
           Spells(d, start, AllSizes(size, k)),
           remaining >= Len(AllSizes(size, k)),
           Enough(size, k, remaining - Len(AllSizes(size, k)))
    PROVE  ParseSizes(d, start, remaining, k) =
             [ok |-> TRUE, at |-> start + Len(AllSizes(size, k)),
              left |-> remaining - Len(AllSizes(size, k)), size |-> SubSeq(size, 1, k)]
<1> DEFINE n(j) == Len(AllSizes(size, j))
           Read(j) == [ok |-> TRUE, at |-> start + n(j), left |-> remaining - n(j),
                       size |-> SubSeq(size, 1, j)]
<1>0. k \in Nat /\ Len(size) \in Nat
  OBVIOUS
<1>1. PICK w : /\ StepsOf(w, "sizes", d, SizesBase(start, remaining), k)
               /\ ParseSizes(d, start, remaining, k) = w[k]
  BY Zenon, <1>0, ParseSizesSteps
<1>2. /\ w[0] = SizesBase(start, remaining)
      /\ \A j \in 1..k : w[j] = OneMore(w[j - 1], ParseSize(d, w[j - 1].at, w[j - 1].left))
  BY <1>1 DEF StepsOf, Step
<1>3. \A j \in 0..Len(size) : AllSizes(size, j) \in Seq(Int) /\ n(j) \in Nat
  BY AllSizesType
<1>4. n(0) = 0
  BY AllSizesNone
<1>5. ASSUME NEW j \in 0..Len(size) - 1
      PROVE  /\ AllSizes(size, j + 1) = AllSizes(size, j) \o EncodeSize(size[j + 1])
             /\ n(j + 1) = n(j) + Len(EncodeSize(size[j + 1]))
             /\ EncodeSize(size[j + 1]) \in Seq(Int) /\ size[j + 1] \in Nat
             /\ Len(EncodeSize(size[j + 1])) \in 1..2
  <2>1. j \in Nat /\ Len(size) >= j /\ Len(size) >= j + 1 /\ j + 1 \in 1..Len(size)
    BY <1>0
  <2>2. AllSizes(size, j + 1) = AllSizes(size, j) \o EncodeSize(size[j + 1])
    BY Zenon, <2>1, AllSizesMore
  <2>3. size[j + 1] \in Nat
    BY <2>1
  <2> DEFINE e == EncodeSize(size[j + 1])
             x == AllSizes(size, j)
  <2>4. e \in Seq(Nat) /\ Len(e) \in 1..2
    <3>1. e \in Seq(Nat) /\ Len(e) = IF size[j + 1] < Escape THEN 1 ELSE 2
      BY Zenon, <2>3, EncodeSizeType
    <3> HIDE DEF e
    <3> QED BY <3>1
  <2>5. e \in Seq(Int)
    BY <2>4, SeqWiden
  <2>6. x \in Seq(Int)
    BY <1>3
  <2> HIDE DEF e, x
  <2>7. Len(x \o e) = Len(x) + Len(e)
    BY <2>5, <2>6
  <2> QED BY Zenon, <2>2, <2>3, <2>4, <2>5, <2>7 DEF e, x
<1> HIDE DEF n
<1> DEFINE S == {j \in Nat : j \in 0..k =>
                   (Spells(d, start, AllSizes(size, j)) /\ n(k) >= n(j) => w[j] = Read(j))}
<1>6. 0 \in S
  <2>1. Read(0) = [ok |-> TRUE, at |-> start, left |-> remaining, size |-> <<>>]
    <3>1. SubSeq(size, 1, 0) = <<>>
      OBVIOUS
    <3>2. start + n(0) = start /\ remaining - n(0) = remaining
      BY <1>4
    <3> QED BY <3>1, <3>2, Zenon
  <2> QED BY <1>2, <2>1 DEF SizesBase
<1>7. ASSUME NEW j \in Nat, j \in S PROVE j + 1 \in S
  <2> SUFFICES ASSUME j + 1 \in 0..k, Spells(d, start, AllSizes(size, j + 1)),
                      n(k) >= n(j + 1)
               PROVE  w[j + 1] = Read(j + 1)
    BY j + 1 \in Nat
  <2>1. /\ j \in 0..k /\ j \in 0..Len(size) - 1 /\ j + 1 \in 1..k /\ (j + 1) - 1 = j
        /\ j \in 0..Len(size) /\ j + 1 \in 0..Len(size)
    BY <1>0
  <2> DEFINE x == size[j + 1]
             e == EncodeSize(x)
             b == Len(e)
  <2>2. /\ AllSizes(size, j + 1) = AllSizes(size, j) \o e
        /\ n(j + 1) = n(j) + b /\ e \in Seq(Int) /\ x \in Nat /\ b \in 1..2
    BY Zenon, <1>5, <2>1
  <2>3. AllSizes(size, j) \in Seq(Int) /\ n(j) \in Nat /\ n(j + 1) \in Nat /\ n(k) \in Nat
    BY <1>3, <1>0, <2>1
  <2>4. Spells(d, start, AllSizes(size, j)) /\ Spells(d, start + n(j), e)
    <3> HIDE DEF e
    <3> QED BY Zenon, <2>2, <2>3, SpellsBoth DEF n
  <2>5. n(k) >= n(j)
    <3> DEFINE nj == n(j)
               nj1 == n(j + 1)
               nk == n(k)
    <3>1. nj1 = nj + b /\ b \in 1..2 /\ nj \in Nat /\ nk \in Nat /\ nk >= nj1
      BY <2>2, <2>3
    <3> HIDE DEF b, nj, nj1, nk
    <3>2. nk >= nj
      BY <3>1
    <3> QED BY <3>2 DEF nk, nj
  <2>6. w[j] = Read(j)
    BY <1>7, <2>1, <2>4, <2>5
  <2>7. w[j].at = start + n(j) /\ w[j].left = remaining - n(j) /\ w[j].ok = TRUE
        /\ w[j].size = SubSeq(size, 1, j)
    <3> HIDE DEF S
    <3> QED BY <2>6
  <2>8. remaining >= n(k) /\ x <= remaining - n(k)
    <3>1. Enough(size, k, remaining - n(k)) /\ remaining >= n(k)
      BY DEF n
    <3> QED BY <2>1, <3>1 DEF Enough
  <2> DEFINE z == ParseSize(d, w[j].at, w[j].left)
  <2>9. z = [bytes |-> b, size |-> x]
    <3> DEFINE a == start + n(j)
               left == remaining - n(j)
    <3>1. a \in Int /\ left \in Int /\ left >= b
      <4> DEFINE nj == n(j)
                 nj1 == n(j + 1)
                 nk == n(k)
      <4>1. nj1 = nj + b /\ b \in 1..2 /\ nj \in Nat /\ nk \in Nat /\ nk >= nj1
            /\ remaining >= nk
        BY <2>2, <2>3, <2>8
      <4> HIDE DEF b, nj, nj1, nk
      <4>2. start + nj \in Int /\ remaining - nj \in Int /\ remaining - nj >= b
        BY <4>1
      <4> QED BY <4>2 DEF nj
    <3>2. z = ParseSize(d, a, left)
      BY <2>7
    <3> HIDE DEF a, left, x
    <3>3. Spells(d, a, EncodeSize(x)) /\ left >= Len(EncodeSize(x)) /\ x \in Nat
      BY <2>2, <2>4, <3>1 DEF a, x
    <3>4. ParseSize(d, a, left) = [bytes |-> Len(EncodeSize(x)), size |-> x]
      BY Zenon, <3>1, <3>3, SizeBack
    <3> QED BY <3>2, <3>4
  <2>10. w[j + 1] = OneMore(w[j], z)
    BY <1>2, <2>1
  <2>11. z.bytes = b /\ z.size = x
    BY <2>9
  <2> DEFINE r == w[j]
  <2>12. r.ok = TRUE /\ r.at = start + n(j) /\ r.left = remaining - n(j)
         /\ r.size = SubSeq(size, 1, j)
    BY <2>7
  <2>13. Append(SubSeq(size, 1, j), x) = SubSeq(size, 1, j + 1)
    <3> HIDE DEF S
    <3> QED BY <2>1
  <2> HIDE DEF z, r, b, x, S
  <2>14. ~ (~r.ok \/ z.size < 0 \/ z.size > r.left - z.bytes)
    <3> DEFINE nj == n(j)
               nj1 == n(j + 1)
               nk == n(k)
    <3>1. /\ nj1 = nj + b /\ b \in 1..2 /\ nj \in Nat /\ nk \in Nat /\ nk >= nj1
          /\ x <= remaining - nk /\ x \in Nat
          /\ r.ok = TRUE /\ z.size = x /\ z.bytes = b /\ r.left = remaining - nj
      BY <2>2, <2>3, <2>8, <2>11, <2>12
    <3> HIDE DEF nj, nj1, nk
    <3>2. x <= (remaining - nj) - b
      BY <3>1
    <3> QED BY <3>1, <3>2
  <2>15. OneMore(r, z) = [ok |-> TRUE, at |-> r.at + z.bytes, left |-> r.left - z.bytes,
                          size |-> Append(r.size, z.size)]
    BY <2>14 DEF OneMore
  <2>16. /\ r.at + z.bytes = start + n(j + 1) /\ r.left - z.bytes = remaining - n(j + 1)
    <3> DEFINE nj == n(j)
               nj1 == n(j + 1)
    <3>1. /\ nj1 = nj + b /\ b \in 1..2 /\ nj \in Nat
          /\ z.bytes = b /\ r.left = remaining - nj /\ r.at = start + nj
      BY <2>2, <2>3, <2>11, <2>12
    <3> HIDE DEF nj, nj1
    <3>2. start + nj + b = start + nj1 /\ (remaining - nj) - b = remaining - nj1
      BY <3>1
    <3> QED BY <3>1, <3>2 DEF nj1
  <2>17. Append(r.size, z.size) = SubSeq(size, 1, j + 1)
    BY Zenon, <2>11, <2>12, <2>13
  <2> QED BY Zenon, <2>10, <2>15, <2>16, <2>17 DEF r
<1>8. k \in S
  <2> HIDE DEF S
  <2>1. \A j \in Nat : j \in S
    BY Zenon, <1>6, <1>7, SetInduction
  <2> QED BY <1>0, <2>1
<1>9. w[k] = Read(k)
  <2>1. k \in 0..k /\ n(k) >= n(k)
    BY <1>0, <1>3
  <2>2. Spells(d, start, AllSizes(size, k)) /\ n(k) >= n(k) => w[k] = Read(k)
    BY <1>8, <2>1
  <2> QED BY <2>1, <2>2
<1> QED BY <1>1, <1>9 DEF n

\* No element is more than the sum.
LEMMA SumCovers ==
    ASSUME NEW q \in Seq(Nat)
    PROVE  /\ SumFunction(q) \in Nat
           /\ \A i \in 1..Len(q) : q[i] \in Nat /\ q[i] <= SumFunction(q)
<1>1. /\ SumOf(q, Len(q)) = SumFunction(q)
      /\ \A i \in 0..Len(q) : SumOf(q, i) \in Nat
      /\ \A i \in 0 .. Len(q) - 1 : SumOf(q, i + 1) = SumOf(q, i) + q[i + 1]
  BY SumPrefix
<1>2. SumFunction(q) \in Nat
  BY SumNat
<1>3. ASSUME NEW i \in 1..Len(q) PROVE q[i] \in Nat /\ q[i] <= SumFunction(q)
  <2>1. q[i] \in Nat /\ Len(q) \in Nat
    OBVIOUS
  <2>2. i - 1 \in 0 .. Len(q) - 1 /\ (i - 1) + 1 = i /\ i \in 0..Len(q) /\ i - 1 \in 0..Len(q)
    BY <2>1
  <2>3. SumOf(q, i) = SumOf(q, i - 1) + q[i]
    BY <1>1, <2>2
  <2>4. Len(q) \in i..Len(q)
    BY <2>1
  <2>5. SumOf(q, i) <= SumOf(q, Len(q))
    BY <2>2, <2>4, SumMono
  <2>6. SumOf(q, i) \in Nat /\ SumOf(q, i - 1) \in Nat
    BY <1>1, <2>2
  <2> DEFINE a == SumOf(q, i)
             b == SumOf(q, i - 1)
             c == SumFunction(q)
             x == q[i]
  <2>7. a = b + x /\ a <= c /\ a \in Nat /\ b \in Nat /\ c \in Nat /\ x \in Nat
    BY <1>1, <1>2, <2>1, <2>3, <2>5, <2>6
  <2> HIDE DEF a, b, c, x
  <2>8. x <= c
    BY <2>7
  <2> QED BY <2>1, <2>8 DEF x, c
<1> QED BY <1>2, <1>3

\* All but the last, and the last.
LEMMA SumLast ==
    ASSUME NEW q \in Seq(Nat), Len(q) >= 1
    PROVE  /\ SumFunction(SubSeq(q, 1, Len(q) - 1)) \in Nat
           /\ SumFunction(q) = SumFunction(SubSeq(q, 1, Len(q) - 1)) + q[Len(q)]
           /\ q[Len(q)] \in Nat
           /\ Append(SubSeq(q, 1, Len(q) - 1), q[Len(q)]) = q
<1> DEFINE n == Len(q)
<1>1. n \in Nat /\ n - 1 \in 0 .. n - 1 /\ (n - 1) + 1 = n /\ n - 1 \in 0..n
  OBVIOUS
<1>2. /\ SumOf(q, n) = SumFunction(q) /\ SumOf(q, n - 1) \in Nat
      /\ SumOf(q, (n - 1) + 1) = SumOf(q, n - 1) + q[(n - 1) + 1]
  BY Zenon, <1>1, SumPrefix
<1>3. q[n] \in Nat /\ Append(SubSeq(q, 1, n - 1), q[n]) = q
  OBVIOUS
<1> QED BY Zenon, <1>1, <1>2, <1>3 DEF SumOf

LEMMA DelimiterIs ==
    ASSUME NEW size \in Seq(Nat), Len(size) >= 1, NEW sd \in BOOLEAN
    PROVE  /\ Delimiter(size, sd) = IF sd THEN EncodeSize(size[Len(size)]) ELSE <<>>
           /\ Delimiter(size, sd) \in Seq(Int)
           /\ ~sd => Len(Delimiter(size, sd)) = 0
           /\ Len(Delimiter(size, sd)) \in Nat
<1>1. size[Len(size)] \in Nat
  OBVIOUS
<1>2. EncodeSize(size[Len(size)]) \in Seq(Nat)
  BY Zenon, <1>1, EncodeSizeType
<1>3. EncodeSize(size[Len(size)]) \in Seq(Int)
  BY <1>2, SeqWiden
<1>4. Delimiter(size, sd) \in Seq(Int)
  BY <1>3 DEF Delimiter
<1> QED BY <1>4 DEF Delimiter

VbrHeader(h, n) == h.count = n /\ ~h.cbr /\ h.at \in Int /\ h.left \in Int
CbrHeader(h, n) == h.count = n /\ h.cbr /\ h.at \in Int /\ h.left \in Int

VbrFits(d, h, size, sd, sizes, tail) ==
    /\ sizes = Len(AllSizes(size, Len(size) - 1))
    /\ tail = Len(Delimiter(size, sd))
    /\ Spells(d, h.at, AllSizes(size, Len(size) - 1))
    /\ Spells(d, h.at + sizes, Delimiter(size, sd))
    /\ h.left >= sizes + tail + SumFunction(size)
    /\ ~sd => h.left = sizes + tail + SumFunction(size)

\* Frames of sizes of their own, behind a header that was read as h.
LEMMA VbrBack ==
    ASSUME NEW size \in Seq(0..MaxFrame), Len(size) >= 1, NEW d, NEW h, NEW sd \in BOOLEAN,
           VbrHeader(h, Len(size)),
           NEW sizes, NEW tail, VbrFits(d, h, size, sd, sizes, tail)
    PROVE  ParseFrames(d, h, sd) = Parsed(h, size, h.at + sizes + tail)
<1> DEFINE n == Len(size)
           q == SumFunction(size)
           most == SubSeq(size, 1, n - 1)
           x == size[n]
           z == ParseSizes(d, h.at, h.left, n - 1)
<1>0. /\ h.count = Len(size) /\ ~h.cbr /\ h.at \in Int /\ h.left \in Int
      /\ sizes = Len(AllSizes(size, Len(size) - 1))
      /\ tail = Len(Delimiter(size, sd))
      /\ Spells(d, h.at, AllSizes(size, Len(size) - 1))
      /\ Spells(d, h.at + sizes, Delimiter(size, sd))
      /\ h.left >= sizes + tail + SumFunction(size)
      /\ ~sd => h.left = sizes + tail + SumFunction(size)
  BY DEF VbrHeader, VbrFits
<1> USE <1>0
<1>1. size \in Seq(Nat) /\ n \in Nat \ {0} /\ n - 1 \in 0..n
  BY SizesAreNat
<1>2. q = SumFunction(most) + x /\ SumFunction(most) \in Nat /\ x \in Nat
      /\ Append(most, x) = size /\ x \in 0..MaxFrame
  <2>1. q = SumFunction(most) + x /\ SumFunction(most) \in Nat /\ x \in Nat
        /\ Append(most, x) = size
    BY Zenon, <1>1, SumLast
  <2>2. x \in 0..MaxFrame
    <3> DEFINE R == 0..MaxFrame
    <3>1. size \in Seq(R) /\ n \in 1..Len(size)
      BY <1>1
    <3> HIDE DEF R, n
    <3>2. size[n] \in R
      BY <3>1
    <3> QED BY <3>2 DEF R
  <2> QED BY Zenon, <2>1, <2>2
<1>3. sizes \in Nat /\ tail \in Nat /\ (~sd => tail = 0)
  <2>1. AllSizes(size, n - 1) \in Seq(Int)
    BY <1>1, AllSizesType
  <2>2. tail \in Nat /\ (~sd => tail = 0)
    BY <1>1, DelimiterIs
  <2> QED BY <2>1, <2>2
<1>4. q \in Nat /\ \A i \in 1..n : size[i] \in Nat /\ size[i] <= q
  BY <1>1, SumCovers
<1>5. z = [ok |-> TRUE, at |-> h.at + sizes, left |-> h.left - sizes, size |-> most]
  <2> DEFINE a == h.at
             left == h.left
  <2>1. a \in Int /\ left \in Int /\ left >= sizes + tail + q
    OBVIOUS
  <2> HIDE DEF a, left, q
  <2>2. left >= sizes /\ q <= left - sizes
    BY <1>3, <1>4, <2>1
  <2>3. Enough(size, n - 1, left - sizes)
    <3> SUFFICES ASSUME NEW i \in 1..n - 1 PROVE size[i] <= left - sizes
      BY DEF Enough
    <3>1. size[i] \in Nat /\ size[i] <= q
      BY <1>1, <1>4
    <3> DEFINE y == size[i]
    <3> HIDE DEF y
    <3>2. y <= left - sizes
      BY <1>3, <1>4, <2>1, <2>2, <3>1 DEF y
    <3> QED BY <3>2 DEF y
  <2>4. ParseSizes(d, a, left, n - 1) =
           [ok |-> TRUE, at |-> a + Len(AllSizes(size, n - 1)),
            left |-> left - Len(AllSizes(size, n - 1)), size |-> SubSeq(size, 1, n - 1)]
    <3>1. Spells(d, a, AllSizes(size, n - 1))
      BY DEF a
    <3> DEFINE k == n - 1
    <3>2. k \in 0..Len(size)
      BY <1>1
    <3>3. left >= Len(AllSizes(size, k)) /\ Enough(size, k, left - Len(AllSizes(size, k)))
      BY <2>2, <2>3
    <3>4. Spells(d, a, AllSizes(size, k))
      BY <3>1
    <3> HIDE DEF k
    <3>5. ParseSizes(d, a, left, k) =
            [ok |-> TRUE, at |-> a + Len(AllSizes(size, k)),
             left |-> left - Len(AllSizes(size, k)), size |-> SubSeq(size, 1, k)]
      BY Zenon, <1>1, <2>1, <3>2, <3>3, <3>4, SizesBack
    <3> QED BY <3>5 DEF k
  <2> QED BY <2>4 DEF a, left
<1>6. z.ok = TRUE /\ z.at = h.at + sizes /\ z.left = h.left - sizes /\ z.size = most
  <2> HIDE DEF z, most
  <2> QED BY <1>5
<1> DEFINE last == ParseSize(d, z.at, z.left)
           rest == z.left - SumFunction(z.size)
<1>7. ParseFrames(d, h, sd) = LastOfVbr(h, z, last, rest, sd)
  <2>1. ~ (h.count < 0) /\ ~ (h.count > 0 /\ h.cbr)
    BY <1>1
  <2>2. ParseFrames(d, h, sd) = ParseVbr(d, h, ParseSizes(d, h.at, h.left, h.count - 1), sd)
    BY <2>1, Zenon DEF ParseFrames
  <2>3. ParseFrames(d, h, sd) = ParseVbr(d, h, z, sd)
    BY <2>2
  <2> HIDE DEF z
  <2>4. ParseVbr(d, h, z, sd) = LastOfVbr(h, z, last, rest, sd)
    BY <1>6, Zenon DEF ParseVbr
  <2> QED BY <2>3, <2>4
<1>8. CASE ~sd
  <2>1. rest = x
    <3> DEFINE a == h.left
               m == SumFunction(most)
    <3>1. a = sizes + tail + q /\ rest = (a - sizes) - m /\ q = m + x /\ tail = 0
          /\ m \in Nat /\ x \in Nat
      BY Zenon, <1>2, <1>3, <1>6, <1>8
    <3> HIDE DEF a, m, q, x, rest
    <3> QED BY <1>3, <3>1
  <2> HIDE DEF z, last, rest, x, most
  <2>2. LastOfVbr(h, z, last, rest, sd) = Parsed(h, Append(z.size, rest), z.at)
    BY <1>2, <1>8, <2>1, Zenon DEF LastOfVbr
  <2>3. z.at = h.at + sizes + tail
    BY <1>3, <1>6, <1>8
  <2>4. Append(z.size, rest) = size
    BY <1>2, <1>6, <2>1
  <2> QED BY <1>7, <2>2, <2>3, <2>4
<1>9. CASE sd
  <2>1. Delimiter(size, sd) = EncodeSize(x) /\ tail = Len(EncodeSize(x))
    BY Zenon, <1>1, <1>9, DelimiterIs
  <2>2. last = [bytes |-> tail, size |-> x]
    <3> DEFINE a == h.at + sizes
               left == h.left - sizes
    <3>1. a \in Int /\ left \in Int
      BY <1>3
    <3>2. left >= tail
      <4> DEFINE b == h.left
      <4>1. b >= sizes + tail + q /\ b \in Int /\ left = b - sizes
        OBVIOUS
      <4> HIDE DEF b, left, q
      <4> QED BY <1>3, <1>4, <4>1
    <3>3. Spells(d, a, EncodeSize(x))
      BY <2>1
    <3>4. last = ParseSize(d, a, left)
      BY <1>6
    <3> HIDE DEF a, left, x
    <3>5. ParseSize(d, a, left) = [bytes |-> Len(EncodeSize(x)), size |-> x]
      BY <1>2, <2>1, <3>1, <3>2, <3>3, SizeBack
    <3> QED BY <2>1, <3>4, <3>5
  <2>3. last.bytes = tail /\ last.size = x
    BY <2>2
  <2>4. last.size >= 0 /\ last.bytes + last.size <= rest
    <3> DEFINE a == h.left
               m == SumFunction(most)
    <3>1. a >= sizes + tail + q /\ rest = (a - sizes) - m /\ q = m + x /\ a \in Int
          /\ m \in Nat /\ x \in Nat
      BY Zenon, <1>2, <1>3, <1>6
    <3> HIDE DEF a, m, q, x, rest, last
    <3>2. tail + x <= rest
      BY <1>3, <3>1
    <3> QED BY <2>3, <3>1, <3>2
  <2> HIDE DEF z, last, rest, x, most
  <2>5. LastOfVbr(h, z, last, rest, sd) = Parsed(h, Append(z.size, last.size), z.at + last.bytes)
    BY <1>9, <2>4, Zenon DEF LastOfVbr
  <2>6. z.at + last.bytes = h.at + sizes + tail /\ Append(z.size, last.size) = size
    BY <1>2, <1>6, <2>3
  <2> QED BY <1>7, <2>5, <2>6
<1> QED BY <1>8, <1>9

LEMMA TimesBack ==
    ASSUME NEW x \in Nat, NEW n \in Nat \ {0}
    PROVE  (x * n) % n = 0 /\ (x * n) \div n = x /\ x * n \in Nat
  BY Z3

LEMMA AllTheSame ==
    ASSUME NEW size \in Seq(Nat), Len(size) >= 1, ~Vbr(size)
    PROVE  /\ size = Same(size[1], Len(size)) /\ size[Len(size)] = size[1]
           /\ SumFunction(size) = size[1] * Len(size) /\ size[1] \in Nat
<1> DEFINE n == Len(size)
           x == size[1]
<1>1. n \in Nat \ {0} /\ x \in Nat /\ DOMAIN size = 1..n
  OBVIOUS
<1>2. \A i \in 1..n : size[i] = x
  BY DEF Vbr
<1>3. size = [i \in 1..n |-> x]
  BY <1>1, <1>2
<1>4. size = Same(x, n)
  BY <1>3, Zenon DEF Same
<1>5. SumFunction(Same(x, n)) = x * n
  BY <1>1, SumSame
<1>6. n \in 1..n
  BY <1>1
<1> HIDE DEF x
<1>7. size[n] = x
  BY <1>2, <1>6
<1> QED BY <1>1, <1>4, <1>5, <1>7 DEF x

\* Frames of one size.
LEMMA CbrBack ==
    ASSUME NEW size \in Seq(0..MaxFrame), Len(size) >= 1, ~Vbr(size),
           NEW d, NEW h, NEW sd \in BOOLEAN,
           CbrHeader(h, Len(size)),
           NEW tail, tail = Len(Delimiter(size, sd)),
           Spells(d, h.at, Delimiter(size, sd)),
           h.left >= tail + SumFunction(size),
           ~sd => h.left = tail + SumFunction(size)
    PROVE  ParseFrames(d, h, sd) = Parsed(h, size, h.at + tail)
<1> DEFINE n == Len(size)
           x == size[1]
           last == ParseSize(d, h.at, h.left)
<1>0. h.count = Len(size) /\ h.cbr /\ h.at \in Int /\ h.left \in Int
  BY DEF CbrHeader
<1> USE <1>0
<1>1. size \in Seq(Nat) /\ n \in Nat \ {0}
  BY SizesAreNat
<1>2. /\ size = Same(x, n) /\ size[n] = x
      /\ SumFunction(size) = x * n /\ x \in Nat
  BY <1>1, AllTheSame
<1>3. x <= MaxFrame
  <2> DEFINE R == 0..MaxFrame
  <2>1. size \in Seq(R) /\ 1 \in 1..Len(size)
    BY <1>1
  <2> HIDE DEF R
  <2>2. size[1] \in R
    BY <2>1
  <2> QED BY <1>2, <2>2, ByteFacts DEF R
<1>4. tail \in Nat /\ (~sd => tail = 0)
  BY <1>1, DelimiterIs
<1>5. ParseFrames(d, h, sd) = ParseCbr(h, last, sd)
  <2>1. ~ (h.count < 0) /\ h.count > 0 /\ h.cbr
    BY <1>1
  <2> QED BY <2>1, Zenon DEF ParseFrames
<1>6. CASE ~sd
  <2> DEFINE left == h.left
             m == h.count
  <2>1. left = x * n /\ m = n
    <3>1. x * n \in Nat
      BY Zenon, <1>1, <1>2, TimesBack
    <3> DEFINE q == x * n
               l == h.left
    <3>2. l = tail + q /\ tail = 0 /\ q \in Nat
      BY <1>2, <1>4, <1>6, <3>1
    <3> HIDE DEF q, l
    <3>3. l = q
      BY <3>2
    <3> QED BY <3>3 DEF l, q
  <2>2. (x * n) % n = 0 /\ (x * n) \div n = x
    BY Zenon, <1>1, <1>2, TimesBack
  <2>3. left % m = 0 /\ left \div m = x
    BY <2>1, <2>2
  <2> HIDE DEF last, x, n
  <2>4. ParseCbr(h, last, sd) = Parsed(h, Same(left \div m, m), h.at)
    BY <1>3, <1>6, <2>3, Zenon DEF ParseCbr
  <2>5. h.at + tail = h.at
    BY <1>4, <1>6
  <2>6. Same(left \div m, m) = size
    BY Zenon, <1>2, <2>1, <2>3
  <2> QED BY <1>5, <2>4, <2>5, <2>6
<1>7. CASE sd
  <2>1. Delimiter(size, sd) = EncodeSize(x) /\ tail = Len(EncodeSize(x))
    BY Zenon, <1>1, <1>2, <1>7, DelimiterIs
  <2> DEFINE left == h.left
             a == h.at
  <2>2. left \in Int /\ left >= tail + x * n /\ x * n \in Nat
    BY Zenon, <1>1, <1>2, TimesBack
  <2>3. left >= tail /\ x * n <= left - tail
    <3> DEFINE q == x * n
    <3> HIDE DEF q, left
    <3>1. left >= tail /\ q <= left - tail
      BY <1>4, <2>2 DEF q
    <3> QED BY <3>1 DEF q
  <2>4. Spells(d, a, EncodeSize(x))
    BY <2>1
  <2>5. last = [bytes |-> tail, size |-> x]
    <3> HIDE DEF left, a, x
    <3>1. left >= Len(EncodeSize(x)) /\ a \in Int
      BY <2>1, <2>3 DEF a
    <3>2. ParseSize(d, a, left) = [bytes |-> Len(EncodeSize(x)), size |-> x]
      BY <1>2, <2>2, <2>4, <3>1, SizeBack
    <3> QED BY <2>1, <3>2 DEF a, left
  <2>6. last.bytes = tail /\ last.size = x
    BY <2>5
  <2>7. last.size >= 0 /\ last.size * h.count <= h.left - last.bytes
    <3>1. last.size >= 0
      BY <1>2, <2>6
    <3>2. last.size * h.count = x * n /\ h.left - last.bytes = left - tail
      BY <2>6
    <3> QED BY <2>3, <3>1, <3>2
  <2> HIDE DEF last, x, n, left, a
  <2>8. ParseCbr(h, last, sd) = Parsed(h, Same(last.size, h.count), h.at + last.bytes)
    BY <1>7, <2>7, Zenon DEF ParseCbr
  <2>9. Same(last.size, h.count) = size
    BY <1>2, <2>6 DEF n
  <2> QED BY <1>5, <2>6, <2>8, <2>9
<1> QED BY <1>6, <1>7

Toc(toc) == toc \in 0 .. Byte - 1 /\ toc % 4 = 0

LEMMA TocCodes ==
    ASSUME NEW toc, Toc(toc), NEW c \in 0..3, NEW b, Value(b) = toc + c
    PROVE  Code(b) = c /\ toc + c \in 0 .. Byte - 1 /\ Config(b) = toc \div 4
           /\ toc \div 4 \in DOMAIN Duration
<1>1. PICK q \in Nat : Byte = 4 * q /\ q >= 4
  <2>1. Byte \in Nat /\ Byte >= 16 /\ Byte % 4 = 0
    BY ByteFacts
  <2>2. Byte = 4 * (Byte \div 4) /\ Byte \div 4 \in Nat /\ Byte \div 4 >= 4
    BY <2>1
  <2> QED BY <2>2
<1> DEFINE m == toc \div 4
<1>2. toc = 4 * m /\ m \in Nat
  <2>1. toc \in Nat /\ toc % 4 = 0
    BY <1>1 DEF Toc
  <2> QED BY <2>1
<1> HIDE DEF m
<1>3. toc < 4 * q
  BY <1>1 DEF Toc
<1>4. m <= q - 1
  BY <1>1, <1>2, <1>3
<1>5. (4 * m + c) % 4 = c /\ (4 * m + c) \div 4 = m
  BY <1>2
<1>6. Code(b) = c /\ Config(b) = m
  BY <1>2, <1>5 DEF Code, Config
<1>7. toc + c \in 0 .. Byte - 1
  BY <1>1, <1>2, <1>4
<1>8. m \in DOMAIN Duration
  <2>1. Byte \div 4 = q
    BY <1>1
  <2>2. DOMAIN Duration = 0 .. q - 1
    BY <2>1, PacketAssumption
  <2> QED BY <1>1, <1>2, <1>4, <2>2
<1> QED BY <1>6, <1>7, <1>8 DEF m

\* A packet with this header in front of frames and fill is read for what
\* it is.
ReadAs(d, sd, size, head, fill) ==
    Parse(d, sd) = [count |-> Len(size), size |-> size, at |-> Len(head) + 1,
                    end |-> Len(head) + SumFunction(size) + fill + 1]

Holds(d, sd, size, head, fill) ==
    /\ d \in Seq(Int) /\ head \in Seq(Int) /\ head # <<>>
    /\ Spells(d, 1, head)
    /\ Len(d) >= Len(head) + SumFunction(size) + fill
    /\ ~sd => Len(d) = Len(head) + SumFunction(size) + fill

LEMMA ReadBack ==
    ASSUME NEW d, NEW sd, NEW size \in Seq(Nat), NEW head, NEW fill \in Nat, NEW h, NEW a,
           d # <<>>, ParseHeader(d) = h, ParseFrames(d, h, sd) = Parsed(h, size, a),
           h.count = Len(size), h.pad = fill, a = Len(head) + 1, Len(head) \in Nat
    PROVE  ReadAs(d, sd, size, head, fill)
<1> DEFINE q == SumFunction(size)
           n == Len(head)
<1>1. q \in Nat
  BY SumNat
<1>2. Parse(d, sd) = Parsed(h, size, a)
  BY Zenon DEF Parse
<1>3. Parsed(h, size, a) = [count |-> Len(size), size |-> size, at |-> n + 1,
                            end |-> (n + 1) + q + fill]
  BY DEF Parsed
<1> HIDE DEF q, n
<1>4. (n + 1) + q + fill = n + q + fill + 1
  BY <1>1 DEF n
<1> QED BY <1>2, <1>3, <1>4, Zenon DEF ReadAs, q, n

LEMMA FirstSize ==
    ASSUME NEW size \in Seq(Nat), Len(size) >= 1
    PROVE  AllSizes(size, 1) = EncodeSize(size[1])
<1>1. /\ AllSizes(size, 0) = <<>>
      /\ AllSizes(size, 0 + 1) = AllSizes(size, 0) \o EncodeSize(size[0 + 1])
  <2>1. AllSizes(size, 0) = <<>>
    BY AllSizesNone
  <2> DEFINE z == 0
  <2>2. z \in Nat /\ Len(size) >= z /\ Len(size) >= z + 1
    OBVIOUS
  <2>3. \A i \in 1..z : size[i] = size[i]
    OBVIOUS
  <2> HIDE DEF z
  <2>4. AllSizes(size, z + 1) = AllSizes(size, z) \o EncodeSize(size[z + 1])
    BY <2>2, <2>3, AllSizesMore
  <2> QED BY <2>1, <2>4 DEF z
<1>2. size[1] \in Nat
  OBVIOUS
<1>3. EncodeSize(size[1]) \in Seq(Nat)
  BY Zenon, <1>2, EncodeSizeType
<1> DEFINE e == EncodeSize(size[1])
<1>4. e \in Seq(Nat) /\ AllSizes(size, 1) = <<>> \o e
  <2>1. 0 + 1 = 1
    OBVIOUS
  <2>2. AllSizes(size, 1) = AllSizes(size, 0) \o EncodeSize(size[1])
    BY <1>1, <2>1, Zenon
  <2> QED BY Zenon, <1>1, <1>3, <2>2
<1> HIDE DEF e
<1>5. <<>> \o e = e
  BY <1>4
<1> QED BY <1>4, <1>5 DEF e

\* What is written behind the header's first bytes and before the frames.
SizesOf(size, sd) ==
    (IF Vbr(size) THEN AllSizes(size, Len(size) - 1) ELSE <<>>) \o Delimiter(size, sd)

LEMMA SizesOfType ==
    ASSUME NEW size \in Seq(Nat), Len(size) >= 1, NEW sd \in BOOLEAN
    PROVE  /\ AllSizes(size, Len(size) - 1) \in Seq(Int)
           /\ Delimiter(size, sd) \in Seq(Int)
           /\ SizesOf(size, sd) \in Seq(Int)
           /\ Len(SizesOf(size, sd)) =
                (IF Vbr(size) THEN Len(AllSizes(size, Len(size) - 1)) ELSE 0)
                + Len(Delimiter(size, sd))
<1>1. AllSizes(size, Len(size) - 1) \in Seq(Int)
  <2>1. Len(size) - 1 \in 0..Len(size)
    OBVIOUS
  <2> QED BY <2>1, AllSizesType
<1>2. Delimiter(size, sd) \in Seq(Int)
  BY DelimiterIs
<1> DEFINE x == AllSizes(size, Len(size) - 1)
           y == Delimiter(size, sd)
<1>3. x \in Seq(Int) /\ y \in Seq(Int)
      /\ SizesOf(size, sd) = (IF Vbr(size) THEN x ELSE <<>>) \o y
  BY <1>1, <1>2, Zenon DEF SizesOf
<1> HIDE DEF x, y
<1>4. CASE Vbr(size)
  BY <1>3, <1>4 DEF x, y
<1>5. CASE ~Vbr(size)
  <2>1. SizesOf(size, sd) = <<>> \o y
    BY <1>3, <1>5, Zenon
  <2>2. <<>> \o y \in Seq(Int) /\ Len(<<>> \o y) = 0 + Len(y)
    BY <1>3
  <2> QED BY <1>1, <1>2, <1>5, <2>1, <2>2 DEF y
<1> QED BY <1>4, <1>5

\* A header that tells one or several sizes.
HeaderFor(h, size, start, left, fill) ==
    /\ \/ VbrHeader(h, Len(size)) /\ (Vbr(size) \/ Len(size) = 1)
       \/ CbrHeader(h, Len(size)) /\ ~Vbr(size)
    /\ h.at = start /\ h.left = left /\ h.pad = fill /\ h.count = Len(size)

VbrRead(n, start, left, fill) == Header(n, FALSE, start, left, fill)
CbrRead(n, start, left, fill) == Header(n, TRUE, start, left, fill)

LEMMA HeaderIsFor ==
    ASSUME NEW size, NEW start \in Int, NEW left \in Int, NEW fill
    PROVE  /\ Vbr(size) \/ Len(size) = 1 =>
                HeaderFor(VbrRead(Len(size), start, left, fill), size, start, left, fill)
           /\ ~Vbr(size) =>
                HeaderFor(CbrRead(Len(size), start, left, fill), size, start, left, fill)
<1> DEFINE n == Len(size)
           f == VbrRead(n, start, left, fill)
           t == CbrRead(n, start, left, fill)
<1>1. f.count = n /\ ~f.cbr /\ f.at = start /\ f.left = left /\ f.pad = fill
  BY DEF Header, VbrRead
<1>2. t.count = n /\ t.cbr /\ t.at = start /\ t.left = left /\ t.pad = fill
  BY DEF Header, CbrRead
<1> HIDE DEF f, t, n
<1>3. VbrHeader(f, n) /\ CbrHeader(t, n)
  BY <1>1, <1>2 DEF VbrHeader, CbrHeader
<1>4. Vbr(size) \/ n = 1 => HeaderFor(f, size, start, left, fill)
  <2> SUFFICES ASSUME Vbr(size) \/ n = 1 PROVE HeaderFor(f, size, start, left, fill)
    OBVIOUS
  <2>1. VbrHeader(f, Len(size)) /\ (Vbr(size) \/ Len(size) = 1)
    BY <1>3 DEF n
  <2>2. f.at = start /\ f.left = left /\ f.pad = fill /\ f.count = Len(size)
    BY <1>1 DEF n
  <2> QED BY <2>1, <2>2, Zenon DEF HeaderFor
<1>5. ~Vbr(size) => HeaderFor(t, size, start, left, fill)
  <2> SUFFICES ASSUME ~Vbr(size) PROVE HeaderFor(t, size, start, left, fill)
    OBVIOUS
  <2>1. CbrHeader(t, Len(size))
    BY <1>3 DEF n
  <2>2. t.at = start /\ t.left = left /\ t.pad = fill /\ t.count = Len(size)
    BY <1>2 DEF n
  <2> QED BY <2>1, <2>2, Zenon DEF HeaderFor
<1> QED BY <1>4, <1>5, Zenon DEF n, f, t

\* Once its header is read the frames of a packet are what they are.
LEMMA FramesBack ==
    ASSUME NEW size \in Seq(0..MaxFrame), Len(size) >= 1, NEW sd \in BOOLEAN,
           NEW d, d # <<>>, NEW start \in Int, NEW left \in Int, NEW fill \in Nat,
           NEW h, ParseHeader(d) = h, HeaderFor(h, size, start, left, fill),
           Spells(d, start, SizesOf(size, sd)),
           NEW n \in Nat, n = Len(SizesOf(size, sd)),
           NEW q \in Nat, q = SumFunction(size),
           left >= n + q, ~sd => left = n + q,
           NEW head, Len(head) \in Nat, Len(head) + 1 = start + n
    PROVE  ReadAs(d, sd, size, head, fill)
<1> DEFINE sizes == AllSizes(size, Len(size) - 1)
           tail == Delimiter(size, sd)
<1>1. size \in Seq(Nat)
  BY SizesAreNat
<1>2. h.at = start /\ h.left = left /\ h.pad = fill /\ h.count = Len(size)
  BY DEF HeaderFor
<1>3. PICK z \in Nat, t \in Nat :
        z = Len(sizes) /\ t = Len(tail) /\ n = (IF Vbr(size) THEN z ELSE 0) + t
  <2>1. sizes \in Seq(Int) /\ tail \in Seq(Int)
        /\ n = (IF Vbr(size) THEN Len(sizes) ELSE 0) + Len(tail)
    BY Zenon, <1>1, SizesOfType
  <2> HIDE DEF sizes, tail
  <2>2. Len(sizes) \in Nat /\ Len(tail) \in Nat
    BY <2>1
  <2> QED BY <2>1, <2>2
<1>4. sizes \in Seq(Int) /\ tail \in Seq(Int)
  BY <1>1, SizesOfType
<1>5. CASE VbrHeader(h, Len(size)) /\ (Vbr(size) \/ Len(size) = 1)
  <2>1. Spells(d, start, sizes) /\ Spells(d, start + z, tail) /\ n = z + t
    <3>1. CASE Vbr(size)
      <4>1. SizesOf(size, sd) = sizes \o tail
        BY Zenon, <3>1 DEF SizesOf
      <4> HIDE DEF sizes, tail
      <4>2. Spells(d, start, sizes) /\ Spells(d, start + z, tail)
        BY Zenon, <1>3, <1>4, <4>1, SpellsBoth
      <4>3. n = z + t
        BY <1>3, <3>1, Zenon
      <4> QED BY <4>2, <4>3
    <3>2. CASE ~Vbr(size)
      <4>1. sizes = <<>>
        <5>1. Len(size) = 1
          BY <1>5, <3>2
        <5>2. Len(size) - 1 = 0
          BY <5>1
        <5> QED BY Zenon, <5>2, AllSizesNone
      <4>2. SizesOf(size, sd) = <<>> \o tail
        BY <3>2 DEF SizesOf
      <4>3. Spells(d, start, <<>>) /\ Len(<<>>) = 0
        BY DEF Spells
      <4> HIDE DEF sizes, tail
      <4>4. <<>> \o tail = tail
        BY <1>4
      <4>5. z = 0 /\ start + z = start
        BY <1>3, <4>1, <4>3
      <4>6. n = z + t
        BY <1>3, <3>2, <4>5
      <4> QED BY <4>1, <4>2, <4>3, <4>4, <4>5, <4>6
    <3> QED BY <3>1, <3>2
  <2>2. Spells(d, h.at, sizes) /\ Spells(d, h.at + z, tail)
    BY <1>2, <2>1
  <2>3. h.left >= z + t + SumFunction(size) /\ (~sd => h.left = z + t + SumFunction(size))
    BY <1>2, <2>1
  <2>4. ParseFrames(d, h, sd) = Parsed(h, size, h.at + z + t)
    <3>1. VbrHeader(h, Len(size))
      BY <1>5
    <3>2. z = Len(sizes) /\ t = Len(tail)
      BY <1>3
    <3>3. VbrFits(d, h, size, sd, z, t)
      BY <2>2, <2>3, <3>2 DEF VbrFits
    <3> QED BY <3>1, <3>3, VbrBack
  <2>5. h.at + z + t = Len(head) + 1
    BY <1>2, <2>1
  <2> HIDE DEF sizes, tail
  <2> QED BY Zenon, <1>1, <1>2, <2>4, <2>5, ReadBack
<1>6. CASE CbrHeader(h, Len(size)) /\ ~Vbr(size)
  <2>1. SizesOf(size, sd) = <<>> \o tail
    BY <1>6 DEF SizesOf
  <2>2. Spells(d, h.at, tail) /\ n = t
    <3> HIDE DEF tail
    <3>1. <<>> \o tail = tail
      BY <1>4
    <3>2. n = t
      BY <1>3, <1>6
    <3> QED BY <1>2, <2>1, <3>1, <3>2
  <2>3. h.left >= t + SumFunction(size) /\ (~sd => h.left = t + SumFunction(size))
    BY <1>2, <2>2
  <2>4. ParseFrames(d, h, sd) = Parsed(h, size, h.at + t)
    BY <1>3, <1>6, <2>2, <2>3, CbrBack
  <2>5. h.at + t = Len(head) + 1
    BY <1>2, <2>2
  <2> HIDE DEF sizes, tail
  <2> QED BY Zenon, <1>1, <1>2, <2>4, <2>5, ReadBack
<1> QED BY <1>5, <1>6 DEF HeaderFor

\* The header is pre and the sizes; what is left behind pre and before the
\* padding are sizes and frames.
LEMMA HeadBack ==
    ASSUME NEW size \in Seq(0..MaxFrame), Len(size) >= 1, NEW sd \in BOOLEAN,
           NEW pre \in Seq(Int), NEW d, NEW fill \in Nat,
           Holds(d, sd, size, pre \o SizesOf(size, sd), fill),
           NEW h, ParseHeader(d) = h,
           HeaderFor(h, size, Len(pre) + 1, Len(d) - Len(pre) - fill, fill)
    PROVE  ReadAs(d, sd, size, pre \o SizesOf(size, sd), fill)
<1> DEFINE sizes == SizesOf(size, sd)
           head == pre \o sizes
<1>1. size \in Seq(Nat)
  BY SizesAreNat
<1>2. sizes \in Seq(Int)
  BY <1>1, SizesOfType
<1>3. /\ d \in Seq(Int) /\ head # <<>> /\ Spells(d, 1, head)
      /\ Len(d) >= Len(head) + SumFunction(size) + fill
      /\ ~sd => Len(d) = Len(head) + SumFunction(size) + fill
  BY DEF Holds
<1> HIDE DEF sizes
<1>4. PICK q \in Nat, n \in Nat, b \in Nat, l \in Nat :
        q = SumFunction(size) /\ n = Len(sizes) /\ b = Len(pre) /\ l = Len(d)
  BY <1>1, <1>2, <1>3, SumNat
<1>5. Len(head) = b + n /\ head \in Seq(Int)
  BY <1>2, <1>4
<1>6. Spells(d, b + 1, sizes)
  <2>1. Spells(d, 1 + Len(pre), sizes)
    BY Zenon, <1>2, <1>3, SpellsHead
  <2>2. 1 + Len(pre) = b + 1
    BY <1>4
  <2> QED BY <2>1, <2>2
<1> DEFINE left == l - b - fill
<1>7. left \in Int /\ left >= n + q /\ (~sd => left = n + q)
  <2>1. l >= (b + n) + q + fill /\ (~sd => l = (b + n) + q + fill)
    BY <1>3, <1>4, <1>5
  <2>0. left = l - b - fill
    OBVIOUS
  <2> HIDE DEF left
  <2>2. left \in Int /\ left >= n + q
    BY <1>4, <2>0, <2>1
  <2>3. ASSUME ~sd PROVE left = n + q
    <3>1. l = (b + n) + q + fill
      BY <2>1, <2>3
    <3> HIDE <2>1
    <3> QED BY ONLY l \in Nat, b \in Nat, n \in Nat, q \in Nat, fill \in Nat, <2>0, <3>1, SMT
  <2> QED BY <2>2, <2>3
<1>8. HeaderFor(h, size, b + 1, left, fill)
  BY <1>4
<1>9. d # <<>>
  <2>1. Len(head) # 0
    BY <1>3, <1>5
  <2>2. l # 0
    BY <1>3, <1>4, <1>5, <2>1
  <2> QED BY <1>4, <2>2
<1>10. Len(head) \in Nat /\ Len(head) + 1 = (b + 1) + n
  BY <1>4, <1>5
<1> HIDE DEF left, head
<1>11. ReadAs(d, sd, size, head, fill)
  <2>1. b + 1 \in Int /\ n = Len(SizesOf(size, sd)) /\ Spells(d, b + 1, SizesOf(size, sd))
    BY <1>4, <1>6 DEF sizes
  <2> DEFINE start == b + 1
  <2>2. start \in Int /\ Spells(d, start, SizesOf(size, sd))
        /\ HeaderFor(h, size, start, left, fill) /\ Len(head) + 1 = start + n
    BY <1>8, <1>10, <2>1
  <2> HIDE DEF start
  <2> QED BY Zenon, <1>4, <1>7, <1>9, <1>10, <2>1, <2>2, FramesBack
<1> QED BY <1>11 DEF head, sizes

LEMMA OneIsSame ==
    ASSUME NEW size \in Seq(Nat), Len(size) = 1
    PROVE  ~Vbr(size)
  BY DEF Vbr

\* The short header is one byte and the sizes.
ShortCode(size) == IF Len(size) = 1 THEN 0 ELSE IF Vbr(size) THEN 2 ELSE 1

LEMMA ShortHeadIs ==
    ASSUME NEW toc \in Int, NEW size \in Seq(Nat), Len(size) \in 1..2, NEW sd \in BOOLEAN
    PROVE  ShortHead(toc, size) \o Delimiter(size, sd)
             = <<toc + ShortCode(size)>> \o SizesOf(size, sd)
<1> DEFINE tail == Delimiter(size, sd)
<1>0. Len(size) >= 1 /\ (Len(size) = 1 \/ Len(size) = 2)
  <2> HIDE DEF tail
  <2> DEFINE n == Len(size)
  <2>1. n \in 1..2
    BY Zenon
  <2> HIDE DEF n
  <2>2. n >= 1 /\ (n = 1 \/ n = 2)
    BY <2>1, SMT
  <2> QED BY <2>2 DEF n
<1>1. tail \in Seq(Int)
  BY <1>0, DelimiterIs
<1>2. CASE Vbr(size)
  <2>1. Len(size) = 2
    BY <1>0, <1>2, OneIsSame
  <2> DEFINE e == EncodeSize(size[1])
  <2>2. e \in Seq(Int)
    <3>1. size[1] \in Nat
      BY <1>0
    <3>2. e \in Seq(Nat)
      BY Zenon, <3>1, EncodeSizeType
    <3> HIDE DEF e
    <3> QED BY <3>2, SeqWiden
  <2>3. ShortHead(toc, size) = <<toc + 2>> \o e
    BY <1>2, <2>1 DEF ShortHead
  <2>4. SizesOf(size, sd) = e \o tail
    <3>1. AllSizes(size, Len(size) - 1) = e
      BY <2>1, FirstSize
    <3> QED BY <1>2, <3>1 DEF SizesOf
  <2>5. ShortCode(size) = 2
    BY <1>2, <2>1 DEF ShortCode
  <2> HIDE DEF e, tail
  <2>6. (<<toc + 2>> \o e) \o tail = <<toc + 2>> \o (e \o tail)
    <3>1. <<toc + 2>> \in Seq(Int)
      OBVIOUS
    <3> DEFINE a == <<toc + 2>>
    <3>2. a \in Seq(Int)
      BY <3>1
    <3> HIDE DEF a
    <3>3. (a \o e) \o tail = a \o (e \o tail)
      BY <1>1, <2>2, <3>2
    <3> QED BY <3>3 DEF a
  <2> QED BY Zenon, <2>3, <2>4, <2>5, <2>6 DEF tail
<1>3. CASE ~Vbr(size)
  <2>1. SizesOf(size, sd) = <<>> \o tail
    BY <1>3 DEF SizesOf
  <2>2. <<>> \o tail = tail
    <3> HIDE DEF tail
    <3> QED BY <1>1
  <2>3. ShortHead(toc, size) = <<toc + ShortCode(size)>>
    <3>1. CASE Len(size) = 1
      <4>1. ShortHead(toc, size) = <<toc>> /\ ShortCode(size) = 0
        BY <3>1 DEF ShortHead, ShortCode
      <4>2. toc + 0 = toc
        OBVIOUS
      <4> QED BY <4>1, <4>2, Zenon
    <3>2. CASE Len(size) = 2
      BY <1>3, <3>2 DEF ShortHead, ShortCode
    <3> QED BY <1>0, <3>1, <3>2
  <2> QED BY <2>1, <2>2, <2>3
<1> QED BY Zenon, <1>2, <1>3

LEMMA VbrIsFor ==
    ASSUME NEW size, NEW n, n = Len(size), Vbr(size) \/ n = 1,
           NEW start \in Int, NEW left \in Int, NEW fill
    PROVE  HeaderFor(VbrRead(n, start, left, fill), size, start, left, fill)
  BY HeaderIsFor, Zenon

LEMMA CbrIsFor ==
    ASSUME NEW size, NEW n, n = Len(size), ~Vbr(size),
           NEW start \in Int, NEW left \in Int, NEW fill
    PROVE  HeaderFor(CbrRead(n, start, left, fill), size, start, left, fill)
  BY HeaderIsFor, Zenon

LEMMA ShortBack ==
    ASSUME NEW toc, Toc(toc), NEW size \in Seq(0..MaxFrame), Len(size) \in 1..2,
           NEW sd \in BOOLEAN, NEW d,
           Holds(d, sd, size, ShortHead(toc, size) \o Delimiter(size, sd), 0)
    PROVE  ReadAs(d, sd, size, ShortHead(toc, size) \o Delimiter(size, sd), 0)
<1> DEFINE c == ShortCode(size)
           pre == <<toc + c>>
           head == pre \o SizesOf(size, sd)
<1>1. size \in Seq(Nat) /\ Len(size) >= 1 /\ toc \in Int /\ c \in 0..2
  <2>1. Len(size) >= 1
    <3> DEFINE n == Len(size)
    <3>1. n \in 1..2
      BY Zenon
    <3> HIDE DEF n
    <3>2. n >= 1
      BY <3>1, SMT
    <3> QED BY <3>2 DEF n
  <2> QED BY <2>1, SizesAreNat DEF Toc, ShortCode
<1>2. ShortHead(toc, size) \o Delimiter(size, sd) = head
  BY Zenon, <1>1, ShortHeadIs
<1>3. Holds(d, sd, size, head, 0)
  BY <1>2
<1>4. pre \in Seq(Int) /\ Len(pre) = 1 /\ d \in Seq(Int) /\ Len(d) \in Nat
  BY <1>1, <1>3 DEF Holds
<1>5. Value(d[1]) = toc + c
  <2>1. SizesOf(size, sd) \in Seq(Int) /\ Spells(d, 1, head)
    BY <1>1, <1>3, SizesOfType DEF Holds
  <2> DEFINE z == SizesOf(size, sd)
  <2>2. z \in Seq(Int) /\ Spells(d, 1, pre \o z)
    BY <2>1
  <2> HIDE DEF z
  <2>3. Spells(d, 1, pre)
    BY Zenon, <1>4, <2>2, SpellsHead
  <2>4. Value(d[1 + 1 - 1]) = toc + c
    BY <1>4, <2>3 DEF Spells
  <2> QED BY <2>4
<1>6. Code(d[1]) = c
  BY <1>1, <1>5, TocCodes
<1> DEFINE left == Len(d) - Len(pre) - 0
<1>7. left = Len(d) - 1 /\ left \in Int /\ Len(pre) + 1 = 2
  BY <1>4
<1> HIDE DEF left
<1> DEFINE start == 2
           fill == 0
<1>8. HeaderFor(ParseHeader(d), size, start, left, fill)
  <2>0. start \in Int
    OBVIOUS
  <2>1. CASE Len(size) = 1
    <3>1. ParseHeader(d) = VbrRead(Len(size), start, left, fill)
      BY <1>6, <1>7, <2>1 DEF ParseHeader, ShortCode, VbrRead
    <3> HIDE DEF start, fill
    <3>2. HeaderFor(VbrRead(Len(size), start, left, fill), size, start, left, fill)
      BY <1>7, <2>0, <2>1, VbrIsFor, Zenon
    <3> QED BY <3>1, <3>2, Zenon
  <2>2. CASE Len(size) = 2 /\ Vbr(size)
    <3>1. ParseHeader(d) = VbrRead(Len(size), start, left, fill)
      BY <1>6, <1>7, <2>2 DEF ParseHeader, ShortCode, VbrRead
    <3> HIDE DEF start, fill
    <3>2. HeaderFor(VbrRead(Len(size), start, left, fill), size, start, left, fill)
      BY <1>7, <2>0, <2>2, VbrIsFor, Zenon
    <3> QED BY <3>1, <3>2, Zenon
  <2>3. CASE Len(size) = 2 /\ ~Vbr(size)
    <3>1. ParseHeader(d) = CbrRead(Len(size), start, left, fill)
      BY <1>6, <1>7, <2>3 DEF ParseHeader, ShortCode, CbrRead
    <3> HIDE DEF start, fill
    <3>2. HeaderFor(CbrRead(Len(size), start, left, fill), size, start, left, fill)
      BY <1>7, <2>0, <2>3, CbrIsFor, Zenon
    <3> QED BY <3>1, <3>2, Zenon
  <2>4. Len(size) = 1 \/ Len(size) = 2
    <3> DEFINE n == Len(size)
    <3>1. n \in 1..2
      BY Zenon
    <3> HIDE DEF n
    <3>2. n = 1 \/ n = 2
      BY <3>1, SMT
    <3> QED BY <3>2 DEF n
  <2> QED BY <2>1, <2>2, <2>3, <2>4
<1>9. HeaderFor(ParseHeader(d), size, Len(pre) + 1, Len(d) - Len(pre) - 0, 0)
  BY <1>7, <1>8 DEF left
<1> HIDE DEF pre
<1>10. ReadAs(d, sd, size, head, 0)
  BY Zenon, <1>1, <1>3, <1>4, <1>9, HeadBack
<1> QED BY <1>2, <1>10

-----------------------------------------------------------------------------
(* A padding count is spelled out as the bytes of its runs.                 *)

LEMMA DivModIs ==
    ASSUME NEW m \in Nat \ {0}, NEW q \in Nat, NEW r \in 0 .. m - 1
    PROVE  (q * m + r) % m = r /\ (q * m + r) \div m = q
  BY Z3

LEMMA Divide ==
    ASSUME NEW m \in Nat \ {0}, NEW a \in Nat
    PROVE  \E q \in Nat, r \in 0 .. m - 1 : a = q * m + r
<1> DEFINE T == {q \in Nat : (q + 1) * m > a}
<1>1. (a + 1) * m > a
  OBVIOUS
<1>2. T \subseteq Nat /\ T # {}
  BY Zenon, <1>1
<1>3. PICK q \in T : \A y \in T : q <= y
  BY Zenon, <1>2, LeastOf
<1>4. q \in Nat /\ (q + 1) * m > a
  BY <1>3
<1>5. q * m <= a
  <2>1. CASE q = 0
    BY <2>1
  <2>2. CASE q # 0
    <3>1. q - 1 \in Nat /\ q - 1 \notin T
      BY <1>3, <1>4, <2>2
    <3>2. ~(((q - 1) + 1) * m > a)
      BY <3>1
    <3>3. (q - 1) + 1 = q
      BY <1>4
    <3>4. q * m \in Nat
      BY <1>4
    <3> QED BY <3>2, <3>3, <3>4
  <2> QED BY <2>1, <2>2
<1>6. q * m \in Nat /\ (q + 1) * m = q * m + m
  BY <1>4
<1>7. a - q * m \in 0 .. m - 1
  BY <1>4, <1>5, <1>6
<1>8. a = q * m + (a - q * m)
  BY <1>6
<1> QED BY <1>4, <1>7, <1>8

\* The byte that counts the frames also says how they are coded.
CountByte(n, vbr, padded) ==
    n + (IF vbr THEN Byte \div 2 ELSE 0) + (IF padded THEN Byte \div 4 ELSE 0)

\* The count byte of a packet with code 3 is read back as it was put together.
LEMMA CountByteBack ==
    ASSUME NEW n \in 1 .. Byte \div 4 - 1, NEW vbr \in BOOLEAN, NEW padded \in BOOLEAN
    PROVE  /\ CountByte(n, vbr, padded) \in 0 .. Byte - 1
           /\ CountOf(CountByte(n, vbr, padded)) = n
           /\ IsPadded(CountByte(n, vbr, padded)) <=> padded
           /\ IsVbr(CountByte(n, vbr, padded)) <=> vbr
<1>1. PICK m \in Nat : Byte = 4 * m /\ m >= 4
  <2>1. Byte \in Nat /\ Byte >= 16 /\ Byte % 4 = 0
    BY ByteFacts
  <2>2. Byte = 4 * (Byte \div 4) /\ Byte \div 4 \in Nat /\ Byte \div 4 >= 4
    BY <2>1
  <2> QED BY <2>2
<1>2. Byte \div 4 = m /\ Byte \div 2 = 2 * m
  BY <1>1
<1>3. PICK q \in 0..3 : q = (IF vbr THEN 2 ELSE 0) + (IF padded THEN 1 ELSE 0)
  OBVIOUS
<1>4. n \in 0 .. m - 1 /\ n >= 1
  BY <1>2
<1> DEFINE ch == CountByte(n, vbr, padded)
<1>5. ch = q * m + n
  BY <1>1, <1>2, <1>3, <1>4 DEF CountByte
<1>6. ch % m = n /\ ch \div m = q
  BY <1>1, <1>4, <1>5, DivModIs
<1>7. ch \in 0 .. Byte - 1
  BY <1>1, <1>4, <1>5
<1> HIDE DEF ch
<1>8. CountOf(ch) = n
  BY <1>2, <1>6 DEF CountOf
<1>9. IsPadded(ch) <=> padded
  BY <1>2, <1>3, <1>6 DEF IsPadded
<1>10. IsVbr(ch) <=> vbr
  <2>1. IsVbr(ch) <=> ch >= 2 * m
    BY <1>2 DEF IsVbr
  <2>2. q >= 2 => ch >= 2 * m
    BY <1>1, <1>4, <1>5
  <2>3. q <= 1 => ch < 2 * m
    BY <1>1, <1>4, <1>5
  <2>4. vbr => q >= 2
    BY <1>3
  <2>5. ~vbr => q <= 1
    BY <1>3
  <2>6. CASE vbr
    BY <2>1, <2>2, <2>4, <2>6
  <2>7. CASE ~vbr
    <3>1. ch < 2 * m
      BY <2>3, <2>5, <2>7
    <3>2. ~(ch >= 2 * m)
      BY <1>1, <1>7, <3>1
    <3> QED BY <2>1, <2>7, <3>2
  <2> QED BY <2>6, <2>7
<1> QED BY <1>7, <1>8, <1>9, <1>10 DEF ch

LEMMA ConcatTwo ==
    ASSUME NEW x \in Seq(Int), NEW y \in Seq(Int)
    PROVE  x \o y \in Seq(Int) /\ Len(x \o y) = Len(x) + Len(y)
  OBVIOUS

\* The padding counts: full ones, and the last, which is none.
Full(amount) == (amount - 1) \div Chunk
LastCount(amount) == amount - Chunk * Full(amount) - 1

\* A padding length is spelled out by full bytes and one that is not.
LEMMA PadCountsAre ==
    ASSUME NEW amount \in Nat \ {0}
    PROVE  /\ Full(amount) \in Nat /\ Full(amount) * Chunk \in Nat
           /\ LastCount(amount) \in 0 .. Chunk - 1
           /\ amount = Full(amount) * Chunk + LastCount(amount) + 1
           /\ PadCounts(amount) \in Seq(Int)
           /\ Len(PadCounts(amount)) = Full(amount) + 1
           /\ \A i \in 1..Full(amount) : PadCounts(amount)[i] = Chunk
           /\ PadCounts(amount)[Full(amount) + 1] = LastCount(amount)
<1>1. PICK c \in Nat \ {0} : c = Chunk
  BY ByteFacts
<1>2. PICK a \in Nat : amount = a + 1
  <2>1. amount - 1 \in Nat /\ amount = (amount - 1) + 1
    OBVIOUS
  <2> QED BY <2>1
<1>3. PICK k \in Nat, r \in Nat : k = a \div c /\ r = a % c /\ r <= c - 1 /\ a = k * c + r
  <2>1. PICK k \in Nat, r \in 0 .. c - 1 : a = k * c + r
    BY Zenon, Divide
  <2>2. a % c = r /\ a \div c = k
    BY <2>1, DivModIs
  <2> QED BY <2>1, <2>2
<1>4. Full(amount) = k
  <2>1. amount - 1 = a
    BY <1>2
  <2> QED BY <1>1, <1>3, <2>1 DEF Full
<1>5. PICK p \in Nat : p = k * c /\ p = c * k
  BY <1>1, <1>3
<1>6. LastCount(amount) = r
  BY <1>1, <1>2, <1>3, <1>4, <1>5 DEF LastCount
<1> DEFINE x == [i \in 1..k |-> c]
           y == <<r>>
<1>7. PadCounts(amount) = x \o y
  BY Zenon, <1>1, <1>4, <1>6 DEF PadCounts, Full, LastCount
<1>8. x \in Seq(Int) /\ Len(x) = k /\ y \in Seq(Int) /\ Len(y) = 1 /\ y[1] = r
      /\ \A i \in 1..k : x[i] = c
  OBVIOUS
<1> HIDE DEF x, y
<1>9. x \o y \in Seq(Int) /\ Len(x \o y) = k + 1
  <2>1. x \in Seq(Int) /\ y \in Seq(Int) /\ Len(x) = k /\ Len(y) = 1
    BY <1>8
  <2> QED BY Zenon, <2>1, ConcatTwo
<1>10. \A i \in 1..k : (x \o y)[i] = c
  <2> TAKE i \in 1..k
  <2>1. i \in 1 .. Len(x) + Len(y) /\ i <= Len(x)
    BY <1>8
  <2>2. (x \o y)[i] = x[i]
    BY <1>8, <2>1
  <2> QED BY <1>8, <2>2
<1>11. (x \o y)[k + 1] = r
  <2>3. k + 1 \in 1 .. k + 1
    OBVIOUS
  <2>0. k + 1 \in 1 .. Len(x) + Len(y) /\ ~(k + 1 <= Len(x)) /\ x \in Seq(Int) /\ y \in Seq(Int)
    BY <1>8
  <2>1. (x \o y)[k + 1] = y[k + 1 - Len(x)]
    BY ONLY <2>0, k \in Nat
  <2>2. k + 1 - Len(x) = 1
    BY <1>8
  <2> QED BY <1>8, <2>1, <2>2
<1> DEFINE z == x \o y
<1>12. PadCounts(amount) = z /\ z \in Seq(Int) /\ Len(z) = k + 1 /\ z[k + 1] = r
       /\ \A i \in 1..k : z[i] = c
  BY <1>7, <1>9, <1>10, <1>11
<1> HIDE DEF z
<1>13. r \in 0 .. c - 1
  BY <1>3
<1>14. amount = k * c + r + 1
  BY <1>2, <1>3
<1> QED BY <1>1, <1>4, <1>5, <1>6, <1>12, <1>13, <1>14, Zenon

LEMMA ConcatAt ==
    ASSUME NEW x \in Seq(Int), NEW y \in Seq(Int)
    PROVE  /\ \A i \in 1..Len(x) : (x \o y)[i] = x[i]
           /\ \A i \in 1..Len(y) : (x \o y)[Len(x) + i] = y[i]
<1>1. ASSUME NEW i \in 1..Len(x) PROVE (x \o y)[i] = x[i]
  <2>1. i \in 1 .. Len(x) + Len(y) /\ i <= Len(x)
    OBVIOUS
  <2> QED BY <2>1
<1>2. ASSUME NEW i \in 1..Len(y) PROVE (x \o y)[Len(x) + i] = y[i]
  <2>1. Len(x) + i \in 1 .. Len(x) + Len(y) /\ ~(Len(x) + i <= Len(x))
        /\ Len(x) + i - Len(x) = i
    OBVIOUS
  <2> QED BY <2>1
<1> QED BY Zenon, <1>1, <1>2

LEMMA ConcatAssoc ==
    ASSUME NEW x \in Seq(Int), NEW y \in Seq(Int), NEW z \in Seq(Int)
    PROVE  (x \o y) \o z = x \o (y \o z)
  OBVIOUS

\* What is in front of the sizes in a long header.
Counts(amount) == IF amount > 0 THEN PadCounts(amount) ELSE <<>>
FillOf(amount) == IF amount = 0 THEN 0 ELSE amount - Len(PadCounts(amount))
LongPre(toc, size, amount) ==
    <<toc + 3, CountByte(Len(size), Vbr(size), amount > 0)>> \o Counts(amount)

LEMMA CountsType ==
    ASSUME NEW amount \in Nat
    PROVE  Counts(amount) \in Seq(Int) /\ FillOf(amount) \in Nat
           /\ Len(Counts(amount)) + FillOf(amount) = amount
<1>1. CASE amount = 0
  BY <1>1 DEF Counts, FillOf
<1>2. CASE amount # 0
  <2>1. amount \in Nat \ {0} /\ amount > 0
    BY <1>2
  <2>2. Counts(amount) = PadCounts(amount)
    BY <2>1 DEF Counts
  <2>3. FillOf(amount) = amount - Len(PadCounts(amount))
    BY <1>2 DEF FillOf
  <2>4. PadCounts(amount) \in Seq(Int) /\ Len(PadCounts(amount)) \in Nat
        /\ amount - Len(PadCounts(amount)) \in Nat
    BY <2>1, PadCountsType
  <2> QED BY <2>1, <2>2, <2>3, <2>4
<1> QED BY <1>1, <1>2

LEMMA CountByteType ==
    ASSUME NEW n \in Nat, NEW vbr, NEW padded
    PROVE  CountByte(n, vbr, padded) \in Int
<1>1. Byte \div 2 \in Int /\ Byte \div 4 \in Int
  BY ByteFacts
<1> QED BY <1>1 DEF CountByte

LEMMA LongPreIs ==
    ASSUME NEW toc \in Int, NEW size \in Seq(Nat), NEW amount \in Nat, NEW ch,
           ch = CountByte(Len(size), Vbr(size), amount > 0)
    PROVE  LET pre == LongPre(toc, size, amount)
           IN  /\ pre \in Seq(Int) /\ Len(pre) = 2 + Len(Counts(amount))
               /\ pre[1] = toc + 3 /\ pre[2] = ch
               /\ \A i \in 1..Len(Counts(amount)) : pre[2 + i] = Counts(amount)[i]
<1>1. ch \in Int
  BY CountByteType
<1> DEFINE x == <<toc + 3, ch>>
           y == Counts(amount)
<1>8. x \in Seq(Int)
  BY <1>1
<1>2. Len(x) = 2
  BY <1>1
<1>9. x[1] = toc + 3 /\ x[2] = ch
  BY <1>1
<1>3. y \in Seq(Int)
  BY CountsType
<1>4. LongPre(toc, size, amount) = x \o y
  BY DEF LongPre
<1> HIDE DEF x, y
<1>5. x \o y \in Seq(Int) /\ Len(x \o y) = 2 + Len(y) /\ Len(y) \in Nat
  <2>1. x \o y \in Seq(Int) /\ Len(x \o y) = Len(x) + Len(y)
    BY <1>3, <1>8, ConcatTwo
  <2>2. Len(y) \in Nat /\ Len(x) = 2
    BY <1>2, <1>3
  <2>3. Len(x \o y) = 2 + Len(y)
    BY <2>1, <2>2, Zenon
  <2> QED BY <2>1, <2>2, <2>3, Zenon
<1>6. (x \o y)[1] = x[1] /\ (x \o y)[2] = x[2]
  <2>1. \A i \in 1..Len(x) : (x \o y)[i] = x[i]
    BY <1>3, <1>8, ConcatAt
  <2>2. 1 \in 1..Len(x) /\ 2 \in 1..Len(x)
    BY <1>2
  <2> QED BY <2>1, <2>2
<1>7. \A i \in 1..Len(y) : (x \o y)[2 + i] = y[i]
  <2> TAKE i \in 1..Len(y)
  <2>1. 2 + i \in 1 .. Len(x) + Len(y) /\ ~(2 + i <= Len(x)) /\ 2 + i - Len(x) = i
    BY <1>2, <1>5
  <2>2. (x \o y)[Len(x) + i] = y[i]
    BY <1>3, <1>8, ConcatAt
  <2> QED BY <1>2, <2>2
<1> QED BY <1>4, <1>5, <1>6, <1>7, <1>9, Zenon DEF y

\* The long header, from its parts.
LEMMA LongHeadIs ==
    ASSUME NEW toc \in Int, NEW size \in Seq(Nat), Len(size) >= 1, NEW amount \in Nat,
           NEW sd \in BOOLEAN
    PROVE  LongHeadOf(toc, size, amount) \o Delimiter(size, sd)
             = LongPre(toc, size, amount) \o SizesOf(size, sd)
<1> DEFINE pre == LongPre(toc, size, amount)
           z == IF Vbr(size) THEN AllSizes(size, Len(size) - 1) ELSE <<>>
           tail == Delimiter(size, sd)
<1>1. pre \in Seq(Int)
  BY LongPreIs
<1>2. z \in Seq(Int) /\ tail \in Seq(Int)
  BY SizesOfType
<1>3. LongHeadOf(toc, size, amount) = pre \o z
  BY Zenon DEF LongHeadOf, LongPre, Counts, CountByte
<1>4. SizesOf(size, sd) = z \o tail
  BY Zenon DEF SizesOf
<1> HIDE DEF pre, z, tail
<1>5. (pre \o z) \o tail = pre \o (z \o tail)
  BY Zenon, <1>1, <1>2, ConcatAssoc
<1> QED BY <1>3, <1>4, <1>5 DEF pre, tail

\* A long header: how many frames, whether of one size, what is left for
\* sizes and frames, and how much is filled.
LongReads(d, n, cbr, amount) ==
    ParseHeader(d) = Header(n, cbr, 3 + Len(Counts(amount)), Len(d) - 2 - amount,
                            FillOf(amount))

LEMMA WithIs ==
    ASSUME NEW d, Len(d) \in Nat, NEW ch, NEW n, CountOf(ch) = n, NEW bytes \in Nat,
           NEW pad \in Nat, NEW amount \in Nat, amount = bytes + pad, Len(d) >= 2 + amount
    PROVE  HeaderWith(d, ch, bytes, pad)
             = Header(n, ~IsVbr(ch), 3 + bytes, Len(d) - 2 - amount, pad)
<1>1. PICK l \in Nat : l = Len(d)
  OBVIOUS
<1>2. LeftAfter(d, bytes, pad) = l - 2 - bytes - pad
  BY <1>1 DEF LeftAfter
<1>3. l - 2 - bytes - pad = l - 2 - amount /\ ~(l - 2 - bytes - pad < 0)
  BY <1>1
<1> QED BY <1>1, <1>2, <1>3, Zenon DEF HeaderWith

LEMMA RunsAre ==
    ASSUME NEW d, Len(d) \in Nat, NEW amount \in Nat \ {0}, Len(d) >= 2 + amount,
           \A i \in 1..Len(Counts(amount)) : Value(d[2 + i]) = Counts(amount)[i]
    PROVE  /\ PaddingRuns(d) = {Full(amount)}
           /\ Value(d[3 + Full(amount)]) = LastCount(amount)
<1> DEFINE k == Full(amount)
<1>1. PICK l \in Nat : l = Len(d)
  OBVIOUS
<1>2. PICK c \in Nat \ {0} : c = Chunk
  BY ByteFacts
<1>3. /\ k \in Nat /\ LastCount(amount) \in 0 .. c - 1
      /\ amount = k * c + LastCount(amount) + 1 /\ k * c \in Nat
      /\ Len(PadCounts(amount)) = k + 1
      /\ \A i \in 1..k : PadCounts(amount)[i] = c
      /\ PadCounts(amount)[k + 1] = LastCount(amount)
  BY Zenon, <1>2, PadCountsAre
<1>4. Counts(amount) = PadCounts(amount)
  BY DEF Counts
<1> HIDE DEF k
<1>5. \A j \in 0 .. k - 1 : Value(d[3 + j]) = c
  <2> TAKE j \in 0 .. k - 1
  <2>1. j + 1 \in 1..k /\ j + 1 \in 1 .. k + 1 /\ 2 + (j + 1) = 3 + j
    BY <1>3
  <2>2. Value(d[2 + (j + 1)]) = PadCounts(amount)[j + 1]
    BY <1>3, <1>4, <2>1, Zenon
  <2>3. PadCounts(amount)[j + 1] = c
    BY <1>3, <2>1, Zenon
  <2> QED BY <2>1, <2>2, <2>3
<1>6. Value(d[3 + k]) = LastCount(amount)
  <2>1. k + 1 \in 1 .. k + 1 /\ 2 + (k + 1) = 3 + k
    BY <1>3
  <2>2. Value(d[2 + (k + 1)]) = PadCounts(amount)[k + 1]
    BY <1>3, <1>4, <2>1, Zenon
  <2> QED BY <1>3, <2>1, <2>2
<1>7. Value(d[3 + k]) # c
  BY <1>2, <1>3, <1>6
<1>8. k * c < l - 2 /\ k <= l - 3
  <2>1. l >= 2 + amount
    BY <1>1
  <2>2. PICK m \in Nat : m = k * c
    BY <1>3
  <2>3. m < l - 2
    BY <1>2, <1>3, <2>1, <2>2
  <2>4. k <= m
    BY <1>2, <1>3, <2>2
  <2>5. m < l - 2 /\ k <= l - 3
    BY <1>1, <1>3, <2>3, <2>4
  <2> QED BY <2>2, <2>5, Zenon
<1>9. k \in PaddingRuns(d)
  <2>1. k \in 0 .. l - 3
    BY <1>1, <1>3, <1>8
  <2> QED BY <1>1, <1>2, <1>5, <1>7, <1>8, <2>1, Zenon DEF PaddingRuns
<1>10. ASSUME NEW x \in PaddingRuns(d) PROVE x = k
  <2>1. /\ x \in 0 .. l - 3 /\ Value(d[3 + x]) # c
        /\ \A j \in 0 .. x - 1 : Value(d[3 + j]) = c
    BY <1>1, <1>2, <1>10, Zenon DEF PaddingRuns
  <2>2. x \in Nat
    BY <1>1, <2>1
  <2>3. ~(x < k)
    <3> SUFFICES ASSUME x < k PROVE FALSE
      OBVIOUS
    <3>1. x \in 0 .. k - 1
      BY <1>3, <2>2
    <3> QED BY <1>5, <2>1, <3>1, Zenon
  <2>4. ~(k < x)
    <3> SUFFICES ASSUME k < x PROVE FALSE
      OBVIOUS
    <3>1. k \in 0 .. x - 1
      BY <1>3, <2>2
    <3> QED BY <1>7, <2>1, <3>1, Zenon
  <2> QED BY <1>3, <2>2, <2>3, <2>4
<1>11. PaddingRuns(d) = {k}
  BY <1>9, <1>10, Zenon
<1> QED BY <1>6, <1>11 DEF k

LEMMA PadSum ==
    ASSUME NEW amount \in Nat \ {0}
    PROVE  /\ Full(amount) * (Chunk - 1) + LastCount(amount) = FillOf(amount)
           /\ Len(Counts(amount)) = Full(amount) + 1
<1>1. PICK c \in Nat \ {0} : c = Chunk
  BY ByteFacts
<1>2. PICK k \in Nat : k = Full(amount)
  BY PadCountsAre
<1>3. PICK r \in Nat : r = LastCount(amount)
  BY <1>1, PadCountsAre
<1>4. amount = k * c + r + 1 /\ Len(PadCounts(amount)) = k + 1
  BY <1>1, <1>2, <1>3, PadCountsAre
<1>5. PICK m \in Nat : m = k * c /\ k * (c - 1) = m - k
  <2>1. k * c \in Nat /\ k * (c - 1) = k * c - k
    BY <1>1, <1>2
  <2> QED BY <2>1
<1>6. FillOf(amount) = amount - Len(PadCounts(amount))
  BY DEF FillOf
<1>7. Counts(amount) = PadCounts(amount)
  BY DEF Counts
<1>8. k * (c - 1) + r = amount - (k + 1)
  BY <1>4, <1>5
<1> QED BY Zenon, <1>1, <1>2, <1>3, <1>4, <1>6, <1>7, <1>8

LongHolds(d, toc, vbr, n, amount) ==
    /\ n * Duration[toc \div 4] <= MaxDuration
    /\ Len(d) \in Nat /\ Len(d) >= 2 + amount
    /\ Value(d[1]) = toc + 3
    /\ Value(d[2]) = CountByte(n, vbr, amount > 0)
    /\ \A i \in 1..Len(Counts(amount)) : Value(d[2 + i]) = Counts(amount)[i]

LEMMA LongRead ==
    ASSUME NEW toc, Toc(toc), NEW n \in 1 .. Byte \div 4 - 1, NEW vbr \in BOOLEAN,
           NEW amount \in Nat, NEW d, LongHolds(d, toc, vbr, n, amount)
    PROVE  \E cbr \in BOOLEAN : (cbr <=> ~vbr) /\ LongReads(d, n, cbr, amount)
<1>0. /\ n * Duration[toc \div 4] <= MaxDuration
      /\ Len(d) \in Nat /\ Len(d) >= 2 + amount
      /\ Value(d[1]) = toc + 3
      /\ Value(d[2]) = CountByte(n, vbr, amount > 0)
      /\ \A i \in 1..Len(Counts(amount)) : Value(d[2 + i]) = Counts(amount)[i]
  BY Zenon DEF LongHolds
<1> USE <1>0
<1> DEFINE ch == CountByte(n, vbr, amount > 0)
           cbr == ~IsVbr(ch)
<1>1. /\ CountOf(ch) = n /\ (IsPadded(ch) <=> amount > 0) /\ (IsVbr(ch) <=> vbr)
  <2> DEFINE padded == amount > 0
  <2>1. padded \in BOOLEAN
    OBVIOUS
  <2> HIDE DEF padded
  <2>2. LET c == CountByte(n, vbr, padded)
        IN  CountOf(c) = n /\ (IsPadded(c) <=> padded) /\ (IsVbr(c) <=> vbr)
    BY <2>1, CountByteBack
  <2> QED BY <2>2 DEF padded
<1>2. Code(d[1]) = 3 /\ Config(d[1]) = toc \div 4 /\ toc \div 4 \in DOMAIN Duration
  <2>1. 3 \in 0..3
    OBVIOUS
  <2> QED BY <2>1, TocCodes
<1>3. PICK dur \in Nat : dur = Duration[toc \div 4] /\ n * dur <= MaxDuration
  <2>1. Duration[toc \div 4] \in Nat
    BY <1>2, PacketAssumption
  <2> QED BY <2>1, Zenon
<1>4. n \in Nat \ {0}
  BY ByteFacts
<1>5. Value(d[2]) = ch
  OBVIOUS
<1> HIDE DEF ch
<1>6. ParseHeader(d) = LongHeader(d, ch)
  <2>1. ~(Len(d) < 2)
    OBVIOUS
  <2>2. Code(d[1]) # 0 /\ Code(d[1]) # 1 /\ Code(d[1]) # 2
    BY <1>2
  <2> QED BY <1>5, <2>1, <2>2, Zenon DEF ParseHeader
<1>7. ~(CountOf(ch) = 0) /\ CountOf(ch) > 0
      /\ Duration[Config(d[1])] * CountOf(ch) <= MaxDuration
  <2>1. dur * n <= MaxDuration
    BY <1>3, <1>4
  <2>2. Duration[Config(d[1])] * CountOf(ch) <= MaxDuration
    BY <1>1, <1>2, <1>3, <2>1, Zenon
  <2> QED BY <1>1, <1>4, <2>2
<1>8. Duration[Config(d[1])] * CountOf(ch) \in Int
  BY <1>1, <1>2, <1>3, <1>4
<1>9. ~(Duration[Config(d[1])] * CountOf(ch) > MaxDuration)
  BY <1>7, <1>8, ByteFacts
<1>10. ParseHeader(d) =
         IF ~IsPadded(ch) THEN HeaderWith(d, ch, 0, 0)
         ELSE IF PaddingRuns(d) = {} THEN Refused
         ELSE CHOOSE h \in {HeaderWith(d, ch, k + 1, k * (Chunk - 1) + Value(d[3 + k])) :
                              k \in PaddingRuns(d)} : TRUE
  BY <1>6, <1>7, <1>9, Zenon DEF LongHeader
<1>11. cbr \in BOOLEAN /\ (cbr <=> ~vbr)
  <2>1. IsVbr(ch) \in BOOLEAN
    BY DEF IsVbr
  <2> QED BY <1>1, <2>1
<1>12. LongReads(d, n, cbr, amount)
  <2>1. CASE amount = 0
    <3>1. ParseHeader(d) = HeaderWith(d, ch, 0, 0)
      BY <1>1, <1>10, <2>1
    <3> DEFINE zero == 0
    <3>2. zero \in Nat /\ amount = zero + zero /\ Len(d) >= 2 + amount /\ Len(d) \in Nat
      BY <2>1
    <3>3. Len(Counts(amount)) = zero /\ FillOf(amount) = zero
      BY <2>1 DEF Counts, FillOf
    <3>4. ParseHeader(d) = HeaderWith(d, ch, zero, zero)
      BY <3>1
    <3> HIDE DEF zero
    <3>5. HeaderWith(d, ch, zero, zero) = Header(n, ~IsVbr(ch), 3 + zero, Len(d) - 2 - amount, zero)
      BY <1>1, <3>2, WithIs
    <3> QED BY <3>3, <3>4, <3>5, Zenon DEF LongReads
  <2>2. CASE amount # 0
    <3>0. amount \in Nat \ {0} /\ amount > 0
      BY <2>2
    <3> DEFINE k == Full(amount)
               x == k * (Chunk - 1) + Value(d[3 + k])
    <3>1. PaddingRuns(d) = {k} /\ Value(d[3 + k]) = LastCount(amount)
      BY <3>0, RunsAre
    <3>2. x = FillOf(amount) /\ Len(Counts(amount)) = k + 1 /\ k \in Nat
      BY <3>0, <3>1, PadSum, PadCountsAre
    <3>3. ParseHeader(d) = CHOOSE h \in {HeaderWith(d, ch, i + 1,
                                i * (Chunk - 1) + Value(d[3 + i])) : i \in {k}} : TRUE
      <4>1. PaddingRuns(d) # {}
        BY <3>1
      <4>2. IsPadded(ch)
        BY <1>1, <3>0
      <4> QED BY <1>10, <3>1, <4>1, <4>2, Zenon
    <3>4. ParseHeader(d) = HeaderWith(d, ch, k + 1, x)
      <4> DEFINE y == HeaderWith(d, ch, k + 1, x)
      <4>1. {HeaderWith(d, ch, i + 1, i * (Chunk - 1) + Value(d[3 + i])) : i \in {k}} = {y}
        BY Zenon
      <4> HIDE DEF y
      <4>2. (CHOOSE h \in {y} : TRUE) = y
        OBVIOUS
      <4>3. ParseHeader(d) = y
        BY <3>3, <4>1, <4>2, Zenon
      <4> QED BY <4>3 DEF y
    <3> HIDE DEF k, x
    <3>5. FillOf(amount) \in Nat /\ Len(Counts(amount)) + FillOf(amount) = amount
      BY CountsType
    <3> DEFINE bytes == k + 1
    <3>6. bytes \in Nat /\ bytes = k + 1
      BY <3>2
    <3> HIDE DEF bytes
    <3>7. amount = bytes + x /\ x \in Nat
      BY <3>2, <3>5, <3>6
    <3>8. HeaderWith(d, ch, bytes, x)
            = Header(n, ~IsVbr(ch), 3 + bytes, Len(d) - 2 - amount, x)
      <4>1. CountOf(ch) = n /\ Len(d) \in Nat /\ Len(d) >= 2 + amount
        BY <1>1
      <4>2. bytes \in Nat /\ x \in Nat /\ amount \in Nat /\ amount = bytes + x
        BY <3>6, <3>7
      <4> QED BY ONLY <4>1, <4>2, WithIs
    <3>9. Len(Counts(amount)) = bytes
      BY <3>2, <3>6
    <3> QED BY <3>2, <3>4, <3>6, <3>8, <3>9, Zenon DEF LongReads
  <2> QED BY <2>1, <2>2
<1> HIDE DEF cbr
<1> QED BY <1>11, <1>12

LEMMA LongIsFor ==
    ASSUME NEW size, NEW n, n = Len(size), NEW cbr \in BOOLEAN, cbr <=> ~Vbr(size),
           NEW start \in Int, NEW left \in Int, NEW fill
    PROVE  HeaderFor(Header(n, cbr, start, left, fill), size, start, left, fill)
<1> DEFINE h == Header(n, cbr, start, left, fill)
<1>1. h.count = n /\ h.at = start /\ h.left = left /\ h.pad = fill
  BY DEF Header
<1>2. h.cbr = cbr
  BY DEF Header
<1> HIDE DEF h
<1>3. CASE cbr
  <2>1. CbrHeader(h, n)
    BY <1>1, <1>2, <1>3 DEF CbrHeader
  <2> QED BY <1>1, <1>3, <2>1, Zenon DEF HeaderFor, h
<1>4. CASE ~cbr
  <2>1. VbrHeader(h, n)
    BY <1>1, <1>2, <1>4 DEF VbrHeader
  <2> QED BY <1>1, <1>4, <2>1, Zenon DEF HeaderFor, h
<1> QED BY <1>3, <1>4

\* What is in front is spelled out first.
LEMMA HoldsFront ==
    ASSUME NEW d, NEW sd, NEW size \in Seq(Nat), NEW pre \in Seq(Int), NEW z \in Seq(Int),
           NEW fill \in Nat, Holds(d, sd, size, pre \o z, fill)
    PROVE  /\ Len(d) \in Nat
           /\ \A i \in 1..Len(pre) : Value(d[i]) = pre[i]
           /\ Len(d) >= Len(pre) + fill
<1>1. /\ d \in Seq(Int) /\ Spells(d, 1, pre \o z)
      /\ Len(d) >= Len(pre \o z) + SumFunction(size) + fill
  BY DEF Holds
<1>2. Spells(d, 1, pre)
  BY <1>1, SpellsHead
<1>3. ASSUME NEW i \in 1..Len(pre) PROVE Value(d[i]) = pre[i]
  <2>1. Value(d[1 + i - 1]) = pre[i]
    BY <1>2, <1>3, Zenon DEF Spells
  <2>2. 1 + i - 1 = i
    OBVIOUS
  <2> QED BY <2>1, <2>2
<1>4. PICK l \in Nat, q \in Nat, b \in Nat, c \in Nat :
        l = Len(d) /\ q = SumFunction(size) /\ b = Len(pre) /\ c = Len(z)
  BY <1>1, SumNat
<1>5. Len(pre \o z) = b + c
  BY <1>4, ConcatTwo
<1>6. l >= b + fill
  BY <1>1, <1>4, <1>5
<1> QED BY <1>3, <1>4, <1>6

\* A packet with a count byte is read back with the sizes and padding it was given.
LEMMA LongBack ==
    ASSUME NEW toc, Toc(toc), NEW size \in Seq(0..MaxFrame),
           Len(size) \in 1 .. Byte \div 4 - 1,
           Len(size) * Duration[toc \div 4] <= MaxDuration,
           NEW amount \in Nat, NEW sd \in BOOLEAN, NEW d,
           Holds(d, sd, size, LongHeadOf(toc, size, amount) \o Delimiter(size, sd),
                 FillOf(amount))
    PROVE  ReadAs(d, sd, size, LongHeadOf(toc, size, amount) \o Delimiter(size, sd),
                  FillOf(amount))
<1> DEFINE pre == LongPre(toc, size, amount)
           z == SizesOf(size, sd)
           head == pre \o z
           fill == FillOf(amount)
<1>1. PICK n \in 1 .. Byte \div 4 - 1 : n = Len(size)
  OBVIOUS
<1>2. size \in Seq(Nat) /\ toc \in Int
  BY SizesAreNat DEF Toc
<1>3. n \in Nat /\ n >= 1
  BY ByteFacts
<1>4. LongHeadOf(toc, size, amount) \o Delimiter(size, sd) = head
  BY Zenon, <1>1, <1>2, <1>3, LongHeadIs
<1>5. Holds(d, sd, size, head, fill)
  BY <1>4
<1> DEFINE ch == CountByte(Len(size), Vbr(size), amount > 0)
           m == Len(Counts(amount))
<1>6. /\ pre \in Seq(Int) /\ Len(pre) = 2 + m
      /\ pre[1] = toc + 3 /\ pre[2] = ch
      /\ \A i \in 1..m : pre[2 + i] = Counts(amount)[i]
  BY Zenon, <1>2, LongPreIs
<1>7. z \in Seq(Int)
  BY <1>1, <1>2, <1>3, SizesOfType
<1>8. fill \in Nat /\ m + fill = amount /\ m \in Nat
  BY CountsType
<1> HIDE DEF pre, z, fill
<1>9. /\ Len(d) \in Nat
      /\ \A i \in 1..Len(pre) : Value(d[i]) = pre[i]
      /\ Len(d) >= Len(pre) + fill
  BY Zenon, <1>2, <1>5, <1>6, <1>7, <1>8, HoldsFront
<1> HIDE DEF m, ch
<1>10. Len(d) >= 2 + amount
  BY <1>6, <1>8, <1>9
<1>11. Value(d[1]) = toc + 3 /\ Value(d[2]) = ch
  <2>1. 1 \in 1..Len(pre) /\ 2 \in 1..Len(pre)
    BY <1>6, <1>8
  <2> QED BY <1>6, <1>9, <2>1, Zenon
<1>12. \A i \in 1..m : Value(d[2 + i]) = Counts(amount)[i]
  <2> TAKE i \in 1..m
  <2>1. 2 + i \in 1..Len(pre)
    BY <1>6, <1>8
  <2> QED BY <1>6, <1>9, <2>1, Zenon
<1>13. PICK cbr \in BOOLEAN : (cbr <=> ~Vbr(size)) /\ LongReads(d, n, cbr, amount)
  <2> DEFINE vbr == Vbr(size)
  <2>1. vbr \in BOOLEAN
    BY DEF Vbr
  <2>2. Value(d[2]) = CountByte(n, vbr, amount > 0)
    BY <1>1, <1>11, Zenon DEF ch
  <2>3. \A i \in 1..Len(Counts(amount)) : Value(d[2 + i]) = Counts(amount)[i]
    BY <1>12 DEF m
  <2>4. n * Duration[toc \div 4] <= MaxDuration
    BY <1>1, Zenon
  <2> HIDE DEF vbr
  <2>5. \E cbr \in BOOLEAN : (cbr <=> ~vbr) /\ LongReads(d, n, cbr, amount)
    <3>1. Value(d[1]) = toc + 3 /\ Len(d) \in Nat /\ Len(d) >= 2 + amount
      BY <1>9, <1>10, <1>11, Zenon
    <3>2. LongHolds(d, toc, vbr, n, amount)
      BY <2>2, <2>3, <2>4, <3>1, Zenon DEF LongHolds
    <3> QED BY <2>1, <3>2, LongRead
  <2> QED BY <2>5 DEF vbr
<1> DEFINE left == Len(d) - 2 - amount
           start == 3 + m
           h == Header(n, cbr, start, left, fill)
<1>14. ParseHeader(d) = h
  BY <1>13, Zenon DEF LongReads, m, fill
<1>15. left \in Int /\ start \in Int /\ start = Len(pre) + 1
       /\ left = Len(d) - Len(pre) - fill
  <2>1. PICK l \in Nat, b \in Nat : l = Len(d) /\ b = Len(pre)
    BY <1>6, <1>9
  <2>2. b = 2 + m
    BY <1>6, <2>1
  <2> QED BY <1>8, <2>1, <2>2
<1> HIDE DEF left, start
<1>16. HeaderFor(h, size, start, left, fill)
  BY <1>1, <1>13, <1>15, LongIsFor, Zenon
<1> HIDE DEF h
<1>17. HeaderFor(h, size, Len(pre) + 1, Len(d) - Len(pre) - fill, fill)
  BY <1>15, <1>16
<1>18. ReadAs(d, sd, size, head, fill)
  <2>1. Len(size) >= 1
    BY <1>1, <1>3
  <2>2. Holds(d, sd, size, pre \o SizesOf(size, sd), fill)
    BY <1>5 DEF z
  <2> QED BY Zenon, <1>6, <1>8, <1>14, <1>17, <2>1, <2>2, HeadBack DEF z
<1> QED BY <1>4, <1>18 DEF fill

\* The room left behind a long header is one byte less than behind a short one.
LEMMA RoomOneLess ==
    ASSUME NEW toc \in Int, NEW size \in Seq(Nat), Len(size) >= 1, Len(size) <= 2,
           NEW payload \in Nat, NEW tail \in Seq(Int), NEW maxlen \in Int,
           NEW roomShort \in Int, NEW roomLong \in Int,
           roomShort = RoomFor(maxlen, ShortHead(toc, size), tail, payload),
           roomLong = RoomFor(maxlen, LongHeadOf(toc, size, 0), tail, payload)
    PROVE  roomLong = roomShort - 1
<1> DEFINE h == ShortHead(toc, size)
           h0 == LongHeadOf(toc, size, 0)
           head == h \o tail
<1>1. h \in Seq(Int) /\ h0 \in Seq(Int) /\ h # <<>>
  <2>1. 0 \in Int
    OBVIOUS
  <2> QED BY <2>1, ShortHeadType, LongHeadType, Zenon
<1>2. /\ head \in Seq(Int) /\ head # <<>> /\ Len(head) \in Nat
      /\ roomShort = maxlen - Len(head) - payload
  <2> HIDE DEF h
  <2>1. head \in Seq(Int) /\ head # <<>> /\ Len(head) \in Nat
    BY <1>1
  <2> QED BY <2>1 DEF RoomFor, h
<1>3. roomLong = roomShort - 1
  <2>1. Len(size) \in {1, 2}
    <3> DEFINE n == Len(size)
    <3>1. n \in Nat /\ n >= 1 /\ n <= 2
      OBVIOUS
    <3> HIDE DEF n
    <3>2. n \in {1, 2}
      BY <3>1
    <3> QED BY <3>2 DEF n
  <2>2. Len(h0) = Len(h) + 1
    BY Zenon, <2>1, LongIsOneMore
  <2> HIDE DEF h, h0
  <2>3. Len(h0 \o tail) = Len(h \o tail) + 1 /\ Len(h \o tail) \in Nat
    <3>1. /\ Len(h0 \o tail) = Len(h0) + Len(tail) /\ Len(h \o tail) = Len(h) + Len(tail)
          /\ Len(h0) \in Nat /\ Len(h) \in Nat /\ Len(tail) \in Nat
      BY <1>1
    <3> DEFINE p == Len(h0 \o tail)
               q == Len(h \o tail)
               x == Len(h0)
               y == Len(h)
               z == Len(tail)
    <3>2. p = x + z /\ q = y + z /\ x \in Nat /\ y \in Nat /\ z \in Nat /\ x = y + 1
      BY <2>2, <3>1
    <3> HIDE DEF p, q, x, y, z
    <3>3. p = q + 1 /\ q \in Nat
      BY <3>2
    <3> QED BY <3>3 DEF p, q
  <2>4. roomLong = maxlen - Len(h0 \o tail) - payload
    BY DEF RoomFor, h0
  <2> DEFINE x == Len(h \o tail)
             y == Len(h0 \o tail)
  <2>5. x \in Nat /\ y = x + 1 /\ roomLong = maxlen - y - payload /\ roomShort = maxlen - x - payload
    BY Zenon, <1>2, <2>3, <2>4
  <2> HIDE DEF x, y
  <2>6. roomLong = maxlen - (x + 1) - payload
    BY Zenon, <2>5
  <2>7. roomShort - 1 = maxlen - (x + 1) - payload
    BY <2>5
  <2> QED BY <2>6, <2>7
<1> QED BY <1>3
\* What was made is a short header without padding, or a long one.
OutForm(o, toc, size, sd) ==
    \/ /\ Len(size) <= 2 /\ o.fill = 0
       /\ o.head = ShortHead(toc, size) \o Delimiter(size, sd)
    \/ \E amount \in Nat : /\ o.fill = FillOf(amount)
                           /\ o.head = LongHeadOf(toc, size, amount) \o Delimiter(size, sd)

LEMMA OutForms ==
    ASSUME NEW toc \in Int, NEW size \in Seq(Nat), Len(size) >= 1, NEW maxlen \in Int,
           NEW sd \in BOOLEAN, NEW pad \in BOOLEAN,
           NEW o, o = Out(toc, size, maxlen, sd, pad), o.ret >= 0
    PROVE  OutForm(o, toc, size, sd)
<1> DEFINE payload == SumFunction(size)
           tail == Delimiter(size, sd)
           roomShort == RoomFor(maxlen, ShortHead(toc, size), tail, payload)
           roomLong == RoomFor(maxlen, LongHeadOf(toc, size, 0), tail, payload)
           amount == IF pad THEN roomLong ELSE 0
           A == Len(size) <= 2 /\ roomShort < 0
           B == Len(size) <= 2 /\ roomShort >= 0 /\ ~(pad /\ roomShort > 0)
           C == Len(size) > 2 /\ roomLong < 0
<1>1. payload \in Nat /\ tail \in Seq(Int)
  BY SumNat, DelimiterIs
<1>2. roomShort \in Int /\ roomLong \in Int
  <2>1. ShortHead(toc, size) \in Seq(Int)
    BY ShortHeadType
  <2>2. 0 \in Int
    OBVIOUS
  <2>3. LongHeadOf(toc, size, 0) \in Seq(Int)
    BY <2>2, LongHeadType, Zenon
  <2> DEFINE h == ShortHead(toc, size)
             h0 == LongHeadOf(toc, size, 0)
  <2>4. h \in Seq(Int) /\ h0 \in Seq(Int)
    BY <2>1, <2>3
  <2> HIDE DEF h, h0, tail, payload
  <2>5. h \o tail \in Seq(Int) /\ h0 \o tail \in Seq(Int)
    BY <1>1, <2>4, ConcatTwo
  <2>6. Len(h \o tail) \in Int /\ Len(h0 \o tail) \in Int
    BY <2>5
  <2>7. maxlen - Len(h \o tail) - payload \in Int /\ maxlen - Len(h0 \o tail) - payload \in Int
    BY <1>1, <2>6
  <2> QED BY <2>7, Zenon DEF RoomFor, h, h0
<1>3. Len(size) <= 2 => roomLong = roomShort - 1
  <2> HIDE DEF tail, payload
  <2> DEFINE x == roomShort
             y == roomLong
  <2>1. x \in Int /\ y \in Int /\ x = RoomFor(maxlen, ShortHead(toc, size), tail, payload)
        /\ y = RoomFor(maxlen, LongHeadOf(toc, size, 0), tail, payload)
    BY <1>2
  <2> HIDE DEF x, y
  <2>2. Len(size) <= 2 => y = x - 1
    BY <1>1, <2>1, RoomOneLess
  <2> QED BY <2>2 DEF x, y
<1>4. o = OutIn(toc, size, payload, tail, pad, roomShort, roomLong)
  BY Zenon DEF Out
<1> HIDE DEF payload, tail, roomShort, roomLong
<1>5. CASE A
  <2>0. ~B /\ ~C
    BY <1>2, <1>5
  <2>1. o = [ret |-> TooSmall]
    BY <1>4, <1>5, <2>0, Zenon DEF OutIn
  <2>2. o.ret = TooSmall
    BY <2>1
  <2> QED BY <2>2 DEF TooSmall
<1>6. CASE B
  <2>1. ~A /\ ~C
    BY <1>2, <1>6
  <2>2. o = Made(ShortHead(toc, size) \o tail, payload, 0)
    BY <1>4, <1>6, <2>1, Zenon DEF OutIn
  <2>3. o.head = ShortHead(toc, size) \o tail /\ o.fill = 0
    BY <2>2 DEF Made
  <2> QED BY <1>6, <2>3, Zenon DEF OutForm, tail
<1>7. CASE C
  <2>1. ~A /\ ~B
    BY <1>2, <1>7
  <2>2. o = [ret |-> TooSmall]
    BY <1>4, <1>7, <2>1, Zenon DEF OutIn
  <2>3. o.ret = TooSmall
    BY <2>2
  <2> QED BY <2>3 DEF TooSmall
<1>8. CASE ~A /\ ~B /\ ~C
  <2>1. o = OutLong(toc, size, payload, tail, amount)
    BY <1>4, <1>8, Zenon DEF OutIn
  <2>2. amount \in Nat
    <3>1. CASE ~pad
      BY <3>1
    <3>2. CASE pad /\ Len(size) <= 2
      <4>1. roomShort > 0
        BY <1>2, <1>8, <3>2
      <4> QED BY <1>2, <1>3, <3>2, <4>1
    <3>3. CASE pad /\ ~(Len(size) <= 2)
      <4>1. Len(size) > 2
        BY <3>3
      <4> QED BY <1>2, <1>8, <3>3, <4>1
    <3> QED BY <3>1, <3>2, <3>3
  <2> HIDE DEF amount
  <2>3. o.head = LongHeadOf(toc, size, amount) \o tail /\ o.fill = FillOf(amount)
    BY <2>1 DEF OutLong, Made, FillOf
  <2> QED BY <2>2, <2>3, Zenon DEF OutForm, tail
<1> QED BY <1>5, <1>6, <1>7, <1>8

\* What Out writes is read for what it is, wherever it stands.
Countable(toc, size) ==
    /\ Toc(toc) /\ size \in Seq(0..MaxFrame)
    /\ Len(size) \in 1 .. Byte \div 4 - 1
    /\ Len(size) * Duration[toc \div 4] <= MaxDuration

\* What the packer puts together the parser reads back: header, sizes, padding.
LEMMA RoundTrip ==
    ASSUME NEW toc, NEW size, Countable(toc, size), NEW sd \in BOOLEAN,
           NEW o, OutForm(o, toc, size, sd),
           NEW d, Holds(d, sd, size, o.head, o.fill)
    PROVE  ReadAs(d, sd, size, o.head, o.fill)
<1>1. /\ Toc(toc) /\ size \in Seq(0..MaxFrame)
      /\ Len(size) \in 1 .. Byte \div 4 - 1
      /\ Len(size) * Duration[toc \div 4] <= MaxDuration
  BY DEF Countable
<1>2. CASE /\ Len(size) <= 2 /\ o.fill = 0
           /\ o.head = ShortHead(toc, size) \o Delimiter(size, sd)
  <2>1. Len(size) \in 1..2
    <3> DEFINE n == Len(size)
    <3>1. n \in 1 .. Byte \div 4 - 1 /\ n <= 2
      BY <1>1, <1>2
    <3> HIDE DEF n
    <3>2. n \in 1..2
      BY <3>1, ByteFacts
    <3> QED BY <3>2 DEF n
  <2>2. Holds(d, sd, size, ShortHead(toc, size) \o Delimiter(size, sd), 0)
    BY <1>2, Zenon
  <2>3. ReadAs(d, sd, size, ShortHead(toc, size) \o Delimiter(size, sd), 0)
    BY <1>1, <2>1, <2>2, ShortBack
  <2> QED BY <1>2, <2>3, Zenon
<1>3. CASE \E amount \in Nat :
             /\ o.fill = FillOf(amount)
             /\ o.head = LongHeadOf(toc, size, amount) \o Delimiter(size, sd)
  <2>1. PICK amount \in Nat :
          /\ o.fill = FillOf(amount)
          /\ o.head = LongHeadOf(toc, size, amount) \o Delimiter(size, sd)
    BY Zenon, <1>3
  <2>2. Holds(d, sd, size, LongHeadOf(toc, size, amount) \o Delimiter(size, sd),
              FillOf(amount))
    BY <2>1, Zenon
  <2>3. ReadAs(d, sd, size, LongHeadOf(toc, size, amount) \o Delimiter(size, sd),
               FillOf(amount))
    BY <1>1, <2>2, LongBack
  <2> QED BY <2>1, <2>3, Zenon
<1> QED BY <1>2, <1>3, Zenon DEF OutForm

-----------------------------------------------------------------------------
(* The frames in a packet.                                                  *)
\* From the byte behind b on, q has the first n frames, one behind the other.
LaysOut(q, b, frames, size, n) ==
    \A i \in 1..n : \A k \in 1..size[i] : q[b + SumOf(size, i - 1) + k] = frames[i][k]

LEMMA FlattenLays ==
    ASSUME NEW frames \in Seq(Seq(Int)), NEW size \in Seq(Nat),
           Len(frames) = Len(size), \A i \in 1..Len(size) : Len(frames[i]) = size[i]
    PROVE  LaysOut(FlattenSeq(frames), 0, frames, size, Len(size))
<1>1. PICK f : Building(f, frames, Int)
  BY FlattenBuilding
<1>2. /\ f[0] = <<>> /\ \A n \in 1..Len(frames) : f[n] = f[n - 1] \o frames[n]
      /\ \A n \in 0..Len(frames) : f[n] \in Seq(Int)
      /\ FlattenSeq(frames) = f[Len(frames)]
  BY Zenon, <1>1 DEF Building
<1> DEFINE S == {n \in Nat : n \in 0..Len(size) =>
                   Len(f[n]) = SumOf(size, n) /\ LaysOut(f[n], 0, frames, size, n)}
<1>3. 0 \in S
  <2>1. Len(f[0]) = 0
    BY <1>2
  <2>2. SumOf(size, 0) = 0
    BY SumPrefix
  <2>3. LaysOut(f[0], 0, frames, size, 0)
    BY DEF LaysOut
  <2> QED BY <2>1, <2>2, <2>3
<1>4. ASSUME NEW n \in Nat, n \in S PROVE n + 1 \in S
  <2> SUFFICES ASSUME n + 1 \in 0..Len(size)
               PROVE  /\ Len(f[n + 1]) = SumOf(size, n + 1)
                      /\ LaysOut(f[n + 1], 0, frames, size, n + 1)
    BY n + 1 \in Nat
  <2>1. /\ n \in 0..Len(size) /\ n \in 0 .. Len(size) - 1
        /\ n + 1 \in 1..Len(frames) /\ (n + 1) - 1 = n /\ n \in 0..Len(frames)
        /\ n + 1 \in 1..Len(size)
    OBVIOUS
  <2>2. Len(f[n]) = SumOf(size, n) /\ SumOf(size, n + 1) = SumOf(size, n) + size[n + 1]
    BY <1>4, <2>1, SumPrefix
  <2>6. f[n + 1] = f[n] \o frames[n + 1] /\ f[n] \in Seq(Int)
    <3>1. f[n + 1] = f[(n + 1) - 1] \o frames[n + 1]
      BY <1>2, <2>1, Zenon
    <3> QED BY <1>2, <2>1, <3>1, Zenon
  <2>7. frames[n + 1] \in Seq(Int)
    BY <2>1
  <2> DEFINE x == f[n]
             y == frames[n + 1]
             z == f[n + 1]
  <2>8. z = x \o y /\ x \in Seq(Int) /\ y \in Seq(Int)
    BY <2>6, <2>7
  <2>9. Len(x) = SumOf(size, n)
    BY <2>2
  <2>10. Len(y) = size[n + 1] /\ size[n + 1] \in Nat
    BY <2>1
  <2>11. LaysOut(x, 0, frames, size, n)
    BY <1>4, <2>1
  <2>17. \A j \in 0..Len(size) : SumOf(size, j) \in Nat
    BY SumPrefix
  <2> HIDE DEF x, y, z
  <2>12. Len(z) = Len(x) + Len(y)
    BY <2>8, ConcatTwo
  <2>13. /\ \A i \in 1..Len(x) : z[i] = x[i]
         /\ \A i \in 1..Len(y) : z[Len(x) + i] = y[i]
    BY <2>8, ConcatAt
  <2>14. LaysOut(z, 0, frames, size, n + 1)
    <3> SUFFICES ASSUME NEW i \in 1 .. n + 1, NEW k \in 1..size[i]
                 PROVE  z[0 + SumOf(size, i - 1) + k] = frames[i][k]
      BY Zenon DEF LaysOut
    <3>1. CASE i = n + 1
      <4>1. i - 1 = n /\ k \in 1..Len(y)
        BY <2>10, <3>1
      <4>2. z[Len(x) + k] = y[k]
        BY <2>13, <4>1
      <4>3. 0 + SumOf(size, i - 1) + k = Len(x) + k
        <5>1. PICK a \in Nat : a = Len(x)
          BY <2>8
        <5>2. SumOf(size, i - 1) = a
          BY <2>9, <4>1, <5>1
        <5>3. 0 + a + k = a + k
          BY <2>10, <4>1
        <5> QED BY <5>1, <5>2, <5>3, Zenon
      <4>4. y = frames[i]
        BY <3>1 DEF y
      <4> QED BY <4>2, <4>3, <4>4, Zenon
    <3>2. CASE i # n + 1
      <4>1. i \in 1..n /\ i \in 0..Len(size) /\ i \in 1..Len(size) /\ i - 1 \in 0 .. Len(size) - 1
            /\ n \in i..Len(size) /\ (i - 1) + 1 = i /\ i - 1 \in 0..Len(size)
        BY <2>1, <3>2
      <4>2. x[0 + SumOf(size, i - 1) + k] = frames[i][k]
        BY <2>11, <4>1, Zenon DEF LaysOut
      <4>3. PICK a \in Nat, b \in Nat, c \in Nat :
              a = SumOf(size, i - 1) /\ b = size[i] /\ c = SumOf(size, n)
        <5>1. size[i] \in Nat
          BY <4>1
        <5> QED BY Zenon, <2>1, <2>17, <4>1, <5>1
      <4>4. a + b <= c
        <5>1. SumOf(size, (i - 1) + 1) = SumOf(size, i - 1) + size[(i - 1) + 1]
          BY Zenon, <4>1, SumPrefix
        <5>2. SumOf(size, i) = a + b
          BY <4>1, <4>3, <5>1, Zenon
        <5>3. SumOf(size, i) <= SumOf(size, n)
          BY <4>1, SumMono
        <5> QED BY <4>3, <5>2, <5>3
      <4>5. 0 + a + k \in 1..Len(x)
        <5>1. Len(x) = c
          BY <2>9, <4>3
        <5>2. k \in 1..b
          BY <4>3
        <5> QED BY <4>4, <5>1, <5>2
      <4>6. z[0 + a + k] = x[0 + a + k]
        BY <2>13, <4>5
      <4> QED BY <4>2, <4>3, <4>6, Zenon
    <3> QED BY <3>1, <3>2
  <2>15. Len(z) = SumOf(size, n + 1)
    BY <2>2, <2>9, <2>10, <2>12, Zenon
  <2> QED BY <2>14, <2>15 DEF z
<1> HIDE DEF S
<1>5. \A n \in Nat : n \in S
  BY <1>3, <1>4, SetInduction
<1>6. Len(size) \in S /\ Len(size) \in 0..Len(size)
  BY <1>5
<1> QED BY <1>2, <1>6 DEF S

\* Every byte of a header is a byte.
AreBytes(q) == q \in Seq(Int) /\ \A i \in 1..Len(q) : q[i] \in 0 .. Byte - 1

LEMMA BytesBoth ==
    ASSUME NEW x, NEW y, AreBytes(x), AreBytes(y)
    PROVE  AreBytes(x \o y)
<1>1. x \in Seq(Int) /\ y \in Seq(Int)
  BY DEF AreBytes
<1> DEFINE z == x \o y
<1>2. z \in Seq(Int) /\ Len(z) = Len(x) + Len(y)
  BY <1>1, ConcatTwo
<1>3. /\ \A i \in 1..Len(x) : z[i] = x[i]
      /\ \A i \in 1..Len(y) : z[Len(x) + i] = y[i]
  BY <1>1, ConcatAt
<1>4. PICK a \in Nat, b \in Nat : a = Len(x) /\ b = Len(y)
  BY <1>1
<1> HIDE DEF z
<1>5. ASSUME NEW i \in 1..Len(z) PROVE z[i] \in 0 .. Byte - 1
  <2>0. i \in 1 .. a + b
    BY <1>2, <1>4
  <2>1. CASE i <= a
    <3>1. i \in 1..Len(x)
      BY <1>4, <2>0, <2>1
    <3> QED BY <1>3, <3>1, Zenon DEF AreBytes
  <2>2. CASE ~(i <= a)
    <3>1. i - a \in 1..Len(y) /\ a + (i - a) = i
      BY <1>4, <2>0, <2>2
    <3>2. z[Len(x) + (i - a)] = y[i - a]
      BY <1>3, <3>1, Zenon
    <3>3. z[i] = y[i - a]
      BY <1>4, <3>1, <3>2, Zenon
    <3> QED BY <3>1, <3>3, Zenon DEF AreBytes
  <2> QED BY <2>1, <2>2
<1>6. AreBytes(z)
  BY <1>2, <1>5 DEF AreBytes
<1> QED BY <1>6 DEF z

LEMMA BytesNone == AreBytes(<<>>)
  BY DEF AreBytes

LEMMA BytesOne ==
    ASSUME NEW b \in 0 .. Byte - 1
    PROVE  AreBytes(<<b>>)
<1>1. b \in Int
  BY ByteFacts
<1> QED BY <1>1 DEF AreBytes

LEMMA SameSeq ==
    ASSUME NEW x \in Seq(Int), NEW y \in Seq(Int), Len(x) = Len(y),
           \A i \in 1..Len(x) : x[i] = y[i]
    PROVE  x = y
  OBVIOUS

LEMMA PairIs ==
    ASSUME NEW a \in Int, NEW c \in Int
    PROVE  <<a, c>> = <<a>> \o <<c>>
<1> DEFINE x == <<a>>
           y == <<c>>
           z == x \o y
<1>1. x \in Seq(Int) /\ y \in Seq(Int)
  OBVIOUS
<1>2. Len(x) = 1 /\ Len(y) = 1
  OBVIOUS
<1>3. x[1] = a /\ y[1] = c
  OBVIOUS
<1> HIDE DEF x, y
<1>4. z \in Seq(Int) /\ Len(z) = Len(x) + Len(y)
  BY <1>1, ConcatTwo
<1>5. /\ \A i \in 1..Len(x) : z[i] = x[i]
      /\ \A i \in 1..Len(y) : z[Len(x) + i] = y[i]
  BY <1>1, ConcatAt
<1> HIDE DEF z
<1>6. 1 \in 1..Len(x) /\ 1 \in 1..Len(y) /\ Len(x) + 1 = 2
  BY <1>2
<1>7. z[1] = a /\ z[2] = c
  BY <1>3, <1>5, <1>6, Zenon
<1>8. Len(z) = 2
  BY <1>2, <1>4
<1> DEFINE w == <<a, c>>
<1>9. w \in Seq(Int) /\ Len(w) = 2 /\ w[1] = a /\ w[2] = c
  OBVIOUS
<1> HIDE DEF w
<1>11. \A i \in 1..Len(w) : w[i] = z[i]
  <2> TAKE i \in 1..Len(w)
  <2>1. i = 1 \/ i = 2
    BY <1>9
  <2> QED BY <1>7, <1>9, <2>1
<1>10. w = z
  BY Zenon, <1>4, <1>8, <1>9, <1>11, SameSeq
<1> QED BY <1>10 DEF w, x, y, z

LEMMA SizeIsBytes ==
    ASSUME NEW n \in 0..MaxFrame
    PROVE  AreBytes(EncodeSize(n))
<1>0. n \in Nat
  BY ByteFacts
<1>1. CASE n < Escape
  <2>1. n \in 0 .. Byte - 1
    BY <1>0, <1>1, ByteFacts DEF Escape
  <2>2. EncodeSize(n) = <<n>>
    BY <1>1 DEF EncodeSize
  <2> QED BY <2>1, <2>2, BytesOne
<1>2. CASE ~(n < Escape)
  <2> DEFINE a == Escape + (n % 4)
             c == (n - a) \div 4
  <2>1. a \in Escape .. Byte - 1 /\ c \in Nat /\ 4 * c + a = n
    BY <1>0, <1>2, LongSize, ByteFacts
  <2>2. EncodeSize(n) = <<a, c>>
    BY <1>2 DEF EncodeSize
  <2> HIDE DEF a, c
  <2>3. a \in 0 .. Byte - 1 /\ c \in 0 .. Byte - 1
    <3>1. PICK b \in Nat : b = Byte /\ b >= 16
      BY ByteFacts
    <3>2. a \in b - 4 .. b - 1 /\ n <= 5 * (b - 1)
      BY <2>1, <3>1 DEF Escape, MaxFrame
    <3> QED BY <2>1, <3>1, <3>2
  <2>4. AreBytes(<<a>>) /\ AreBytes(<<c>>)
    BY <2>3, BytesOne
  <2>5. <<a, c>> = <<a>> \o <<c>>
    <3>1. a \in Int /\ c \in Int
      BY <2>3, ByteFacts
    <3> QED BY <3>1, PairIs
  <2> QED BY Zenon, <2>2, <2>4, <2>5, BytesBoth
<1> QED BY <1>1, <1>2

LEMMA SizeAt ==
    ASSUME NEW size \in Seq(0..MaxFrame), NEW i \in 1..Len(size)
    PROVE  size[i] \in 0..MaxFrame
<1> DEFINE S == 0..MaxFrame
<1>1. size \in Seq(S)
  OBVIOUS
<1> HIDE DEF S
<1>2. size[i] \in S
  BY <1>1
<1> QED BY <1>2 DEF S

LEMMA SizesAreBytes ==
    ASSUME NEW size \in Seq(0..MaxFrame)
    PROVE  \A n \in 0..Len(size) : AreBytes(AllSizes(size, n))
<1> DEFINE S == {n \in Nat : n \in 0..Len(size) => AreBytes(AllSizes(size, n))}
<1>1. 0 \in S
  BY BytesNone, AllSizesNone
<1>2. ASSUME NEW n \in Nat, n \in S PROVE n + 1 \in S
  <2> SUFFICES ASSUME n + 1 \in 0..Len(size) PROVE AreBytes(AllSizes(size, n + 1))
    BY n + 1 \in Nat
  <2>1. n \in 0..Len(size) /\ n + 1 \in 1..Len(size) /\ Len(size) >= n /\ Len(size) >= n + 1
    OBVIOUS
  <2>2. AreBytes(AllSizes(size, n))
    BY <1>2, <2>1
  <2>3. AllSizes(size, n + 1) = AllSizes(size, n) \o EncodeSize(size[n + 1])
    <3>1. size \in Seq(Nat)
      BY SizesAreNat
    <3> QED BY <2>1, <3>1, AllSizesMore
  <2>4. size[n + 1] \in 0..MaxFrame
    BY <2>1, SizeAt
  <2> QED BY Zenon, <2>2, <2>3, <2>4, SizeIsBytes, BytesBoth
<1> HIDE DEF S
<1>3. \A n \in Nat : n \in S
  BY <1>1, <1>2, SetInduction
<1> QED BY <1>3 DEF S

LEMMA CountsAreBytes ==
    ASSUME NEW amount \in Nat
    PROVE  AreBytes(Counts(amount))
<1>1. CASE amount = 0
  BY <1>1, BytesNone DEF Counts
<1>2. CASE amount # 0
  <2>1. amount \in Nat \ {0}
    BY <1>2
  <2> DEFINE q == PadCounts(amount)
             k == Full(amount)
  <2>2. /\ q \in Seq(Int) /\ Len(q) = k + 1 /\ k \in Nat
        /\ \A i \in 1..k : q[i] = Chunk
        /\ q[k + 1] = LastCount(amount) /\ LastCount(amount) \in 0 .. Chunk - 1
    BY <2>1, PadCountsAre
  <2>3. Counts(amount) = q
    BY <2>1 DEF Counts
  <2> HIDE DEF q, k
  <2>4. ASSUME NEW i \in 1..Len(q) PROVE q[i] \in 0 .. Byte - 1
    <3>1. i \in 1..k \/ i = k + 1
      BY <2>2
    <3>2. Chunk \in 0 .. Byte - 1 /\ LastCount(amount) \in 0 .. Byte - 1
      BY <2>2, ByteFacts DEF Chunk
    <3> QED BY <2>2, <3>1, <3>2
  <2> QED BY <2>2, <2>3, <2>4 DEF AreBytes
<1> QED BY <1>1, <1>2

\* So is all of a header, for frames that a packet can have.
LEMMA HeadIsBytes ==
    ASSUME NEW toc, NEW size, Countable(toc, size), NEW sd \in BOOLEAN,
           NEW o, OutForm(o, toc, size, sd)
    PROVE  AreBytes(o.head)
<1>1. /\ Toc(toc) /\ size \in Seq(0..MaxFrame)
      /\ Len(size) \in 1 .. Byte \div 4 - 1
  BY DEF Countable
<1>2. size \in Seq(Nat) /\ Len(size) >= 1 /\ toc \in Int
  <2>1. Len(size) >= 1
    BY <1>1, ByteFacts
  <2> QED BY <1>1, <2>1, SizesAreNat DEF Toc
<1>3. AreBytes(SizesOf(size, sd))
  <2>1. AreBytes(Delimiter(size, sd))
    <3>1. Len(size) \in 1..Len(size)
      BY <1>2
    <3>2. size[Len(size)] \in 0..MaxFrame
      BY <1>1, <3>1, SizeAt
    <3> QED BY <3>2, SizeIsBytes, BytesNone DEF Delimiter
  <2>2. AreBytes(IF Vbr(size) THEN AllSizes(size, Len(size) - 1) ELSE <<>>)
    <3>1. Len(size) - 1 \in 0..Len(size)
      BY <1>2
    <3> QED BY <1>1, <3>1, SizesAreBytes, BytesNone
  <2> QED BY <2>1, <2>2, BytesBoth DEF SizesOf
<1>4. ASSUME NEW c \in 0..3 PROVE AreBytes(<<toc + c>>)
  <2>1. PICK q \in Nat, m \in Nat : Byte = 4 * q /\ toc = 4 * m /\ toc <= Byte - 1
    <3>1. Byte \in Nat /\ Byte % 4 = 0 /\ toc \in 0 .. Byte - 1 /\ toc % 4 = 0
      BY <1>1, ByteFacts DEF Toc
    <3>2. Byte = 4 * (Byte \div 4) /\ Byte \div 4 \in Nat
      BY <3>1
    <3>3. toc = 4 * (toc \div 4) /\ toc \div 4 \in Nat
      BY <3>1
    <3> QED BY <3>1, <3>2, <3>3
  <2>2. toc + c \in 0 .. Byte - 1
    BY <2>1
  <2> QED BY <2>2, BytesOne
<1>5. CASE Len(size) <= 2 /\ o.head = ShortHead(toc, size) \o Delimiter(size, sd)
  <2>1. Len(size) \in 1..2
    <3> DEFINE n == Len(size)
    <3>1. n \in Nat /\ n >= 1 /\ n <= 2
      BY <1>2, <1>5
    <3> HIDE DEF n
    <3>2. n \in 1..2
      BY <3>1
    <3> QED BY <3>2 DEF n
  <2>2. o.head = <<toc + ShortCode(size)>> \o SizesOf(size, sd)
    BY Zenon, <1>2, <1>5, <2>1, ShortHeadIs
  <2>3. ShortCode(size) \in 0..3
    BY DEF ShortCode
  <2> QED BY <1>3, <1>4, <2>2, <2>3, BytesBoth
<1>6. CASE \E amount \in Nat :
             o.head = LongHeadOf(toc, size, amount) \o Delimiter(size, sd)
  <2>1. PICK amount \in Nat : o.head = LongHeadOf(toc, size, amount) \o Delimiter(size, sd)
    BY Zenon, <1>6
  <2>2. o.head = LongPre(toc, size, amount) \o SizesOf(size, sd)
    BY Zenon, <1>2, <2>1, LongHeadIs
  <2> DEFINE ch == CountByte(Len(size), Vbr(size), amount > 0)
  <2>3. ch \in 0 .. Byte - 1
    <3> DEFINE vbr == Vbr(size)
               padded == amount > 0
               n == Len(size)
    <3>1. vbr \in BOOLEAN /\ padded \in BOOLEAN /\ n \in 1 .. Byte \div 4 - 1
      BY <1>1 DEF Vbr
    <3> HIDE DEF vbr, padded, n
    <3>2. CountByte(n, vbr, padded) \in 0 .. Byte - 1
      BY <3>1, CountByteBack
    <3> QED BY <3>2 DEF vbr, padded, n
  <2> HIDE DEF ch
  <2>4. AreBytes(<<toc + 3>>) /\ AreBytes(<<ch>>)
    BY <1>4, <2>3, BytesOne
  <2>5. <<toc + 3, ch>> = <<toc + 3>> \o <<ch>>
    <3>1. toc + 3 \in Int /\ ch \in Int
      BY <1>2, <2>3, ByteFacts
    <3> QED BY <3>1
  <2>6. AreBytes(<<toc + 3, ch>>)
    BY Zenon, <2>4, <2>5, BytesBoth
  <2>7. AreBytes(LongPre(toc, size, amount))
    BY <2>6, CountsAreBytes, BytesBoth DEF LongPre, ch
  <2> QED BY <1>3, <2>2, <2>7, BytesBoth
<1> QED BY <1>5, <1>6, Zenon DEF OutForm

LEMMA SliceAt ==
    ASSUME NEW d \in Seq(Int), NEW a \in Nat \ {0}, NEW n \in Nat, a + n - 1 <= Len(d)
    PROVE  LET q == SubSeq(d, a, a + n - 1)
           IN  q \in Seq(Int) /\ Len(q) = n /\ \A k \in 1..n : q[k] = d[a + k - 1]
<1> DEFINE b == a + n - 1
           q == SubSeq(d, a, b)
<1>1. b \in Int /\ b <= Len(d)
  OBVIOUS
<1>2. q \in Seq(Int)
  <2> HIDE DEF b
  <2> QED BY <1>1, SliceType
<1>3. Len(q) = n
  <2>1. b - a + 1 = n
    OBVIOUS
  <2> HIDE DEF b
  <2> QED BY <1>1, <2>1
<1>4. ASSUME NEW k \in 1..n PROVE q[k] = d[a + k - 1]
  <2>1. b - a + 1 = n
    OBVIOUS
  <2> HIDE DEF b
  <2>2. k \in 1 .. b - a + 1
    BY <2>1
  <2> QED BY <1>1, <2>2
<1> QED BY <1>2, <1>3, <1>4

\* What lies in a packet as frames is taken out of it as frames.
FramesIn(d, b, size, frames) ==
    /\ d \in Seq(Int) /\ b \in Nat /\ size \in Seq(Nat)
    /\ frames \in Seq(Seq(Int)) /\ Len(frames) = Len(size)
    /\ \A i \in 1..Len(size) : Len(frames[i]) = size[i]
    /\ LaysOut(d, b, frames, size, Len(size)) /\ b + SumFunction(size) <= Len(d)

LEMMA FramesOf ==
    ASSUME NEW d, NEW b, NEW size, NEW frames, FramesIn(d, b, size, frames),
           NEW p, p.count = Len(size), p.size = size, p.at = b + 1
    PROVE  Frames(d, p) = frames
<1>0. /\ d \in Seq(Int) /\ b \in Nat /\ size \in Seq(Nat)
      /\ frames \in Seq(Seq(Int)) /\ Len(frames) = Len(size)
      /\ \A i \in 1..Len(size) : Len(frames[i]) = size[i]
      /\ LaysOut(d, b, frames, size, Len(size)) /\ b + SumFunction(size) <= Len(d)
  BY Zenon DEF FramesIn
<1> USE <1>0
<1> DEFINE n == Len(size)
<1>1. n \in Nat
  OBVIOUS
<1>2. ASSUME NEW i \in 1..n
      PROVE  SubSeq(d, FrameAt(p, i), FrameAt(p, i) + p.size[i] - 1) = frames[i]
  <2>1. PICK t \in Nat : t = SumFunction(size)
    BY SumNat

  <2>2. PICK x \in Nat, y \in Nat : x = SumOf(size, i - 1) /\ y = size[i] /\ x + y <= t
    <3>1. i - 1 \in 0 .. n - 1 /\ i \in 0..n /\ n \in i..n /\ (i - 1) + 1 = i
          /\ i - 1 \in 0..n /\ size[i] \in Nat
      OBVIOUS
    <3>2. SumOf(size, (i - 1) + 1) = SumOf(size, i - 1) + size[(i - 1) + 1]
      BY <3>1, SumPrefix
    <3>3. SumOf(size, i - 1) \in Nat /\ SumOf(size, n) = t
      BY Zenon, <2>1, <3>1, SumPrefix
    <3>4. SumOf(size, i) <= t
      BY Zenon, <3>1, <3>3, SumMono
    <3> DEFINE x == SumOf(size, i - 1)
               y == size[i]
    <3>5. x \in Nat /\ y \in Nat /\ SumOf(size, i) = x + y
      BY <3>1, <3>2, <3>3, Zenon
    <3>6. x + y <= t
      BY <3>4, <3>5, Zenon
    <3> HIDE DEF x, y
    <3> QED BY <3>5, <3>6 DEF x, y
  <2> DEFINE a == b + 1 + x
  <2>3. FrameAt(p, i) = a /\ p.size[i] = y
    BY <2>2, Zenon DEF FrameAt, SumOf
  <2>4. PICK l \in Nat : l = Len(d)
    OBVIOUS
  <2>5. b + t <= l
    BY <2>1, <2>4
  <2>6. a \in Nat \ {0} /\ a + y - 1 <= l
    <3>1. b \in Nat /\ x \in Nat /\ y \in Nat /\ t \in Nat /\ l \in Nat /\ x + y <= t /\ b + t <= l
      BY <2>2, <2>5
    <3> QED BY ONLY <3>1
  <2> DEFINE q == SubSeq(d, a, a + y - 1)
  <2> HIDE DEF a
  <2>7. q \in Seq(Int) /\ Len(q) = y /\ \A k \in 1..y : q[k] = d[a + k - 1]
    BY Zenon, <2>4, <2>6, SliceAt
  <2> HIDE DEF q
  <2>8. \A k \in 1..y : q[k] = frames[i][k]
    <3> TAKE k \in 1..y
    <3>1. d[b + x + k] = frames[i][k]
      BY <2>2, Zenon DEF LaysOut
    <3>2. a + k - 1 = b + x + k
      BY <2>2 DEF a
    <3> QED BY <2>7, <3>1, <3>2, Zenon
  <2>9. frames[i] \in Seq(Int) /\ Len(frames[i]) = y
    <3>1. frames[i] \in Seq(Int)
      OBVIOUS
    <3>2. Len(frames[i]) = size[i]
      OBVIOUS
    <3> QED BY <2>2, <3>1, <3>2, Zenon
  <2> DEFINE f == frames[i]
  <2>10. f \in Seq(Int) /\ Len(q) = Len(f) /\ \A k \in 1..Len(q) : q[k] = f[k]
    BY <2>7, <2>8, <2>9, Zenon
  <2> HIDE DEF f
  <2>11. q = f
    BY Zenon, <2>7, <2>10, SameSeq
  <2> QED BY <2>3, <2>11, Zenon DEF q, f
<1>3. Frames(d, p) = [i \in 1..n |-> frames[i]]
  <2>1. Frames(d, p) = [i \in 1..n |-> SubSeq(d, FrameAt(p, i), FrameAt(p, i) + p.size[i] - 1)]
    BY Zenon DEF Frames
  <2> QED BY <1>2, <2>1, Zenon
<1>4. frames = [i \in 1..n |-> frames[i]]
  OBVIOUS
<1> QED BY <1>3, <1>4, Zenon

-----------------------------------------------------------------------------
(* A packet that was put together, and where it lies in a buffer.           *)
PartIs(sd, toc, size, o, frames) ==
    /\ Countable(toc, size) /\ OutForm(o, toc, size, sd)
    /\ o.head \in Seq(Int) /\ o.head # <<>> /\ o.fill \in Nat
    /\ frames \in Seq(Seq(Int)) /\ Len(frames) = Len(size)
    /\ \A i \in 1..Len(size) : Len(frames[i]) = size[i]

Lies(d, a, size, o, frames) ==
    /\ \A i \in 1..Len(o.head) : d[a + i - 1] = o.head[i]
    /\ LaysOut(d, a - 1 + Len(o.head), frames, size, Len(size))

PartLength(size, o) == Len(o.head) + SumFunction(size) + o.fill

LEMMA PartFacts ==
    ASSUME NEW sd, NEW toc, NEW size, NEW o, NEW frames, PartIs(sd, toc, size, o, frames)
    PROVE  /\ size \in Seq(Nat) /\ Len(size) \in Nat \ {0}
           /\ Len(o.head) \in Nat \ {0} /\ SumFunction(size) \in Nat
           /\ PartLength(size, o) \in Nat \ {0}
           /\ \A i \in 0..Len(size) : SumOf(size, i) \in Nat
<1>1. /\ size \in Seq(0..MaxFrame) /\ Len(size) \in 1 .. Byte \div 4 - 1
      /\ o.head \in Seq(Int) /\ o.head # <<>> /\ o.fill \in Nat
  BY DEF PartIs, Countable
<1>2. size \in Seq(Nat) /\ Len(size) \in Nat \ {0}
  <2>1. Len(size) \in Nat \ {0}
    BY <1>1, ByteFacts
  <2> QED BY <1>1, <2>1, SizesAreNat
<1>3. PICK q \in Nat, h \in Nat \ {0} : q = SumFunction(size) /\ h = Len(o.head)
  <2>1. Len(o.head) \in Nat \ {0}
    <3> DEFINE x == o.head
    <3>1. x \in Seq(Int) /\ x # <<>>
      BY <1>1
    <3> HIDE DEF x
    <3>2. Len(x) \in Nat \ {0}
      BY <3>1
    <3> QED BY <3>2 DEF x
  <2> QED BY <1>2, <2>1, SumNat
<1>4. h + q + o.fill \in Nat \ {0}
  BY <1>1
<1>5. PartLength(size, o) \in Nat \ {0}
  BY <1>3, <1>4, Zenon DEF PartLength
<1>6. \A i \in 0..Len(size) : SumOf(size, i) \in Nat
  BY <1>2, SumPrefix
<1> QED BY <1>2, <1>3, <1>5, <1>6

LEMMA ByteValue ==
    ASSUME NEW b \in 0 .. Byte - 1
    PROVE  Value(b) = b
<1>1. PICK m \in Nat \ {0} : m = Byte
  BY ByteFacts
<1>2. b \in 0 .. m - 1
  BY <1>1
<1>3. b % m = b
  <2>1. (0 * m + b) % m = b
    <3> DEFINE z == 0
    <3>1. z \in Nat
      OBVIOUS
    <3> HIDE DEF z
    <3>2. (z * m + b) % m = b
      BY <1>2, <3>1, DivModIs
    <3> QED BY <3>2 DEF z
  <2>2. 0 * m + b = b
    BY <1>2
  <2> QED BY <2>1, <2>2
<1> QED BY <1>1, <1>3 DEF Value

LEMMA HeadFirst ==
    ASSUME NEW toc, NEW size, Countable(toc, size), NEW sd \in BOOLEAN,
           NEW o, OutForm(o, toc, size, sd), o.head \in Seq(Int)
    PROVE  \E c \in 0..3 : o.head[1] = toc + c /\ Len(o.head) >= 1
<1>1. Toc(toc) /\ size \in Seq(0..MaxFrame) /\ Len(size) \in 1 .. Byte \div 4 - 1
  BY DEF Countable
<1>2. size \in Seq(Nat) /\ Len(size) >= 1 /\ toc \in Int
  <2>1. Len(size) >= 1
    BY <1>1, ByteFacts
  <2> QED BY <1>1, <2>1, SizesAreNat DEF Toc
<1>3. SizesOf(size, sd) \in Seq(Int)
  BY <1>2, SizesOfType
<1>4. CASE Len(size) <= 2 /\ o.head = ShortHead(toc, size) \o Delimiter(size, sd)
  <2>1. Len(size) \in 1..2
    <3> DEFINE n == Len(size)
    <3>1. n \in Nat /\ n >= 1 /\ n <= 2
      BY <1>2, <1>4
    <3> HIDE DEF n
    <3>2. n \in 1..2
      BY <3>1
    <3> QED BY <3>2 DEF n
  <2>2. o.head = <<toc + ShortCode(size)>> \o SizesOf(size, sd)
    BY Zenon, <1>2, <1>4, <2>1, ShortHeadIs
  <2> DEFINE c == ShortCode(size)
             x == <<toc + c>>
             y == SizesOf(size, sd)
  <2>3. c \in 0..3
    BY DEF ShortCode
  <2> HIDE DEF c
  <2>4. x \in Seq(Int) /\ Len(x) = 1 /\ x[1] = toc + c
    BY <1>2, <2>3
  <2>9. x \in Seq(Int) /\ Len(x) = 1
    BY <2>4
  <2>10. y \in Seq(Int)
    BY <1>3
  <2> HIDE DEF x, y
  <2>5. \A i \in 1..Len(x) : (x \o y)[i] = x[i]
    BY <2>9, <2>10, ConcatAt
  <2>11. Len(x \o y) = Len(x) + Len(y)
    BY Zenon, <2>9, <2>10, ConcatTwo
  <2>6. Len(x \o y) = Len(x) + Len(y) /\ Len(y) \in Nat
    BY <2>10, <2>11
  <2>7. 1 \in 1..Len(x) /\ Len(x) + Len(y) >= 1
    BY <2>6, <2>9
  <2>8. (x \o y)[1] = toc + c /\ Len(x \o y) >= 1
    BY <2>4, <2>5, <2>6, <2>7, Zenon
  <2>12. o.head = x \o y
    BY <2>2 DEF c, x, y
  <2> QED BY <2>3, <2>8, <2>12
<1>5. CASE \E amount \in Nat :
             o.head = LongHeadOf(toc, size, amount) \o Delimiter(size, sd)
  <2>1. PICK amount \in Nat : o.head = LongHeadOf(toc, size, amount) \o Delimiter(size, sd)
    BY Zenon, <1>5
  <2> DEFINE x == LongPre(toc, size, amount)
             y == SizesOf(size, sd)
  <2>2. o.head = x \o y
    BY Zenon, <1>2, <2>1, LongHeadIs
  <2>3. x \in Seq(Int) /\ Len(x) = 2 + Len(Counts(amount)) /\ x[1] = toc + 3
    BY <1>2, LongPreIs
  <2>4. Len(Counts(amount)) \in Nat
    BY CountsType
  <2> HIDE DEF x, y
  <2>5. \A i \in 1..Len(x) : (x \o y)[i] = x[i]
    BY <1>3, <2>3, ConcatAt DEF y
  <2>6. Len(x \o y) = Len(x) + Len(y) /\ Len(y) \in Nat
    BY <1>3, <2>3, ConcatTwo DEF y
  <2>7. 1 \in 1..Len(x) /\ Len(x) + Len(y) >= 1
    BY <2>3, <2>4, <2>6
  <2>8. (x \o y)[1] = toc + 3 /\ Len(x \o y) >= 1
    BY <2>3, <2>5, <2>6, <2>7, Zenon
  <2> QED BY <2>2, <2>8
<1> QED BY <1>4, <1>5, Zenon DEF OutForm

\* The part at a in d, taken apart.
LiesRead(rest, sd, toc, size, o, frames) ==
    LET p == Parse(rest, sd)
    IN  /\ rest # <<>> /\ p.count = Len(size) /\ p.size = size
        /\ p.end = PartLength(size, o) + 1 /\ p.at = Len(o.head) + 1
        /\ Frames(rest, p) = frames
        /\ NbSamples(rest, p.count) = Len(size) * Duration[toc \div 4]
        /\ Config(rest[1]) = toc \div 4

LEMMA RestIs ==
    ASSUME NEW d \in Seq(Int), NEW a \in 1 .. Len(d) + 1
    PROVE  LET rest == SubSeq(d, a, Len(d))
           IN  /\ rest \in Seq(Int) /\ Len(rest) = Len(d) - a + 1
               /\ \A k \in 1 .. Len(d) - a + 1 : rest[k] = d[a + k - 1]
<1> DEFINE n == Len(d) - a + 1
<1>1. n \in Nat /\ a \in Nat \ {0} /\ a + n - 1 <= Len(d) /\ a + n - 1 = Len(d)
  OBVIOUS
<1> HIDE DEF n
<1>2. LET q == SubSeq(d, a, a + n - 1)
      IN  q \in Seq(Int) /\ Len(q) = n /\ \A k \in 1..n : q[k] = d[a + k - 1]
  BY <1>1, SliceAt
<1>3. SubSeq(d, a, a + n - 1) = SubSeq(d, a, Len(d))
  BY <1>1, Zenon
<1> QED BY <1>2, <1>3, Zenon DEF n

\* A packet put together is read back wherever in a buffer it lies.
LEMMA LiesParses ==
    ASSUME NEW d \in Seq(Int), NEW a \in Nat \ {0}, NEW sd \in BOOLEAN,
           NEW toc, NEW size, NEW o, NEW frames, PartIs(sd, toc, size, o, frames),
           Lies(d, a, size, o, frames),
           a + PartLength(size, o) - 1 <= Len(d),
           ~sd => a + PartLength(size, o) - 1 = Len(d)
    PROVE  LiesRead(SubSeq(d, a, Len(d)), sd, toc, size, o, frames)
<1> DEFINE rest == SubSeq(d, a, Len(d))
           head == o.head
           fill == o.fill
           n == Len(size)
           p == Parse(rest, sd)
<1>1. /\ Countable(toc, size) /\ OutForm(o, toc, size, sd)
      /\ head \in Seq(Int) /\ head # <<>> /\ fill \in Nat
      /\ frames \in Seq(Seq(Int)) /\ Len(frames) = n
      /\ \A i \in 1..n : Len(frames[i]) = size[i]
  BY DEF PartIs
<1>2. size \in Seq(Nat) /\ n \in Nat \ {0}
  BY PartFacts
<1>3. PICK l \in Nat, h \in Nat \ {0}, q \in Nat :
        l = Len(d) /\ h = Len(head) /\ q = SumFunction(size)
  <2>1. Len(head) \in Nat \ {0} /\ SumFunction(size) \in Nat
    BY PartFacts
  <2>2. Len(d) \in Nat
    OBVIOUS
  <2> QED BY <2>1, <2>2, Zenon
<1>4. PartLength(size, o) = h + q + fill
  BY <1>3 DEF PartLength
<1>5. a + (h + q + fill) - 1 <= l /\ (~sd => a + (h + q + fill) - 1 = l)
  BY <1>3, <1>4
<1> HIDE DEF head, fill
<1>6. a \in 1 .. l + 1
  <2>1. fill \in Nat
    BY <1>1
  <2> QED BY <1>3, <1>5, <2>1
<1>7. /\ rest \in Seq(Int) /\ Len(rest) = l - a + 1
      /\ \A k \in 1 .. l - a + 1 : rest[k] = d[a + k - 1]
  BY <1>3, <1>6, RestIs
<1> HIDE DEF rest, p, n
<1>8. \A i \in 1..h : d[a + i - 1] = head[i]
  BY <1>3, Zenon DEF Lies, head
<1>9. h <= l - a + 1 /\ l - a + 1 >= h + q + fill /\ (~sd => l - a + 1 = h + q + fill)
      /\ l - a + 1 \in Nat
  <2>1. fill \in Nat
    BY <1>1
  <2>2. l - a + 1 >= h + q + fill /\ l - a + 1 \in Nat
    BY <1>3, <1>5, <1>6, <2>1
  <2>3. ASSUME ~sd PROVE l - a + 1 = h + q + fill
    <3>1. a + (h + q + fill) - 1 = l
      BY <1>5, <2>3
    <3>2. h \in Nat /\ q \in Nat /\ fill \in Nat /\ a \in Nat /\ l \in Nat
      BY <2>1
    <3> QED BY ONLY <3>1, <3>2
  <2>4. h <= l - a + 1
    BY <1>3, <2>1, <2>2
  <2> QED BY <2>2, <2>3, <2>4
<1>10. \A i \in 1..h : rest[i] = head[i]
  <2> TAKE i \in 1..h
  <2>1. i \in 1 .. l - a + 1
    BY <1>9
  <2> QED BY <1>7, <1>8, <2>1, Zenon
<1>11. AreBytes(head)
  BY <1>1, HeadIsBytes DEF head
<1>12. \A i \in 1..h : Value(rest[i]) = head[i]
  <2> TAKE i \in 1..h
  <2>1. head[i] \in 0 .. Byte - 1
    BY <1>3, <1>11, Zenon DEF AreBytes
  <2> QED BY <1>10, <2>1, ByteValue, Zenon
<1>13. Spells(rest, 1, head)
  <2>1. ASSUME NEW i \in 1..Len(head) PROVE Value(rest[1 + i - 1]) = head[i]
    <3>1. 1 + i - 1 = i /\ i \in 1..h
      BY <1>3
    <3> QED BY <1>12, <3>1, Zenon
  <2> QED BY <2>1 DEF Spells
<1>14. Holds(rest, sd, size, head, fill)
  <2>1. Len(rest) >= Len(head) + SumFunction(size) + fill
        /\ (~sd => Len(rest) = Len(head) + SumFunction(size) + fill)
    BY <1>3, <1>7, <1>9, Zenon
  <2> QED BY <1>1, <1>7, <1>13, <2>1, Zenon DEF Holds
<1>15. ReadAs(rest, sd, size, head, fill)
  BY Zenon, <1>1, <1>14, RoundTrip DEF head, fill
<1>16. /\ p.count = n /\ p.size = size /\ p.at = h + 1 /\ p.end = h + q + fill + 1
  BY <1>3, <1>15 DEF ReadAs, p, n
<1>17. PICK c \in 0..3 : head[1] = toc + c
  BY <1>1, HeadFirst DEF head
<1>18. Value(rest[1]) = toc + c
  <2>1. 1 \in 1..h
    BY <1>3
  <2> QED BY <1>12, <1>17, <2>1, Zenon
<1>19. Config(rest[1]) = toc \div 4 /\ toc \div 4 \in DOMAIN Duration
  BY Zenon, <1>1, <1>18, TocCodes DEF Countable
<1>20. NbSamples(rest, p.count) = n * Duration[toc \div 4]
  <2>1. n * Duration[toc \div 4] <= MaxDuration
    BY <1>1 DEF Countable, n
  <2>2. PICK x \in Nat : x = Duration[toc \div 4]
    BY <1>19, PacketAssumption
  <2>3. n * x \in Nat /\ ~(n * x > MaxDuration)
    BY <1>2, <2>1, <2>2, ByteFacts
  <2> QED BY <1>16, <1>19, <2>2, <2>3 DEF NbSamples
<1>21. LaysOut(rest, h, frames, size, n)
  <2>1. LaysOut(d, a - 1 + h, frames, size, n)
    BY <1>3, Zenon DEF Lies, head, n
  <2> SUFFICES ASSUME NEW i \in 1..n, NEW k \in 1..size[i]
               PROVE  rest[h + SumOf(size, i - 1) + k] = frames[i][k]
    BY Zenon DEF LaysOut
  <2>2. d[(a - 1 + h) + SumOf(size, i - 1) + k] = frames[i][k]
    BY <2>1, Zenon DEF LaysOut
  <2>3. PICK x \in Nat, y \in Nat : x = SumOf(size, i - 1) /\ y = size[i] /\ x + y <= q
    <3>1. i - 1 \in 0 .. n - 1 /\ i \in 0..n /\ n \in i..n /\ (i - 1) + 1 = i
          /\ i - 1 \in 0..n
      BY <1>2
    <3>2. SumOf(size, (i - 1) + 1) = SumOf(size, i - 1) + size[(i - 1) + 1]
      BY Zenon, <1>2, <3>1, SumPrefix DEF n
    <3>3. SumOf(size, i - 1) \in Nat /\ SumOf(size, n) = q
      BY Zenon, <1>2, <1>3, <3>1, SumPrefix DEF n
    <3>4. SumOf(size, i) <= q
      BY Zenon, <1>2, <3>1, <3>3, SumMono DEF n
    <3>5. size[i] \in Nat
      BY <1>2 DEF n
    <3>6. SumOf(size, i) = SumOf(size, i - 1) + size[i]
      BY <3>1, <3>2, Zenon
    <3> QED BY <3>3, <3>4, <3>5, <3>6
  <2>4. k \in 1..y
    BY <2>3
  <2> DEFINE j == h + x + k
  <2>5. j \in 1 .. l - a + 1 /\ a + j - 1 = (a - 1 + h) + x + k
    <3>1. fill \in Nat
      BY <1>1
    <3>2. l - a + 1 >= h + q + fill
      BY <1>9
    <3>3. l - a + 1 >= h + q
      BY <1>3, <1>9, <3>1, <3>2
    <3>4. /\ h \in Nat \ {0} /\ q \in Nat /\ a \in Nat /\ l \in Nat /\ x \in Nat /\ y \in Nat
          /\ x + y <= q /\ k \in 1..y
      BY <2>3, <2>4
    <3> QED BY ONLY <3>3, <3>4
  <2> HIDE DEF j
  <2>6. rest[j] = d[a + j - 1]
    BY <1>7, <2>5
  <2> QED BY <2>2, <2>3, <2>5, <2>6, Zenon DEF j
<1>22. Frames(rest, p) = frames
  <2>1. h + SumFunction(size) <= Len(rest)
    <3>1. fill \in Nat
      BY <1>1
    <3>2. l - a + 1 >= h + q + fill
      BY <1>9
    <3>3. h + q <= l - a + 1
      BY <1>3, <1>9, <3>1, <3>2
    <3> QED BY <1>3, <1>7, <3>3, Zenon
  <2>2. /\ p.count = Len(size) /\ p.size = size /\ p.at = h + 1
        /\ LaysOut(rest, h, frames, size, Len(size)) /\ h \in Nat
    BY <1>16, <1>21 DEF n
  <2>3. /\ frames \in Seq(Seq(Int)) /\ Len(frames) = Len(size)
        /\ \A i \in 1..Len(size) : Len(frames[i]) = size[i]
    BY <1>1 DEF n
  <2>4. size \in Seq(Nat) /\ rest \in Seq(Int)
    BY <1>2, <1>7
  <2>5. FramesIn(rest, h, size, frames)
    BY <2>1, <2>2, <2>3, <2>4, Zenon DEF FramesIn
  <2> QED BY <2>2, <2>5, FramesOf
<1>23. rest # <<>>
  <2>1. Len(rest) # 0
    BY <1>3, <1>7, <1>9
  <2> QED BY <1>7, <2>1
<1>24. h + q + fill + 1 = PartLength(size, o) + 1 /\ h + 1 = Len(o.head) + 1
  BY <1>3, <1>4 DEF head
<1>25. LiesRead(rest, sd, toc, size, o, frames)
  BY <1>16, <1>19, <1>20, <1>22, <1>23, <1>24, Zenon DEF LiesRead, p, n
<1> QED BY <1>25 DEF rest

\* Where byte k of frame i lies among the frames.
LEMMA LayIndex ==
    ASSUME NEW size \in Seq(Nat), NEW i \in 1..Len(size), NEW k \in 1..size[i]
    PROVE  /\ SumOf(size, i - 1) \in Nat
           /\ SumOf(size, i - 1) + k \in 1..SumFunction(size)
<1>1. i - 1 \in 0 .. Len(size) - 1 /\ i \in 0..Len(size) /\ (i - 1) + 1 = i
      /\ i - 1 \in 0..Len(size) /\ Len(size) \in i..Len(size) /\ size[i] \in Nat
  OBVIOUS
<1>2. SumOf(size, (i - 1) + 1) = SumOf(size, i - 1) + size[(i - 1) + 1]
  BY <1>1, SumPrefix
<1>3. SumOf(size, i - 1) \in Nat /\ SumOf(size, Len(size)) = SumFunction(size)
  BY Zenon, <1>1, SumPrefix
<1>4. SumOf(size, i) <= SumFunction(size)
  BY <1>1, <1>3, SumMono
<1>5. SumOf(size, i) = SumOf(size, i - 1) + size[i]
  BY <1>1, <1>2, Zenon
<1>6. SumFunction(size) \in Nat
  BY SumNat
<1> QED BY <1>1, <1>3, <1>4, <1>5, <1>6

\* What lies somewhere lies where the same bytes are.
LEMMA LiesMoved ==
    ASSUME NEW sd, NEW toc, NEW size, NEW o, NEW frames, PartIs(sd, toc, size, o, frames),
           NEW d, NEW b \in Int, Lies(d, b, size, o, frames),
           NEW e, NEW a \in Int,
           \A i \in 0 .. PartLength(size, o) - 1 : e[a + i] = d[b + i]
    PROVE  Lies(e, a, size, o, frames)
<1>1. size \in Seq(Nat)
  BY PartFacts
<1>2. PICK h \in Nat \ {0}, q \in Nat, fill \in Nat :
        h = Len(o.head) /\ q = SumFunction(size) /\ fill = o.fill
  <2>1. Len(o.head) \in Nat \ {0} /\ SumFunction(size) \in Nat
    BY PartFacts
  <2>2. o.fill \in Nat
    BY DEF PartIs
  <2> QED BY <2>1, <2>2, Zenon
<1>3. PartLength(size, o) = h + q + fill
  BY <1>2 DEF PartLength
<1>4. \A i \in 0 .. h + q - 1 : e[a + i] = d[b + i]
  <2> TAKE i \in 0 .. h + q - 1
  <2>1. i \in 0 .. (h + q + fill) - 1
    BY <1>2
  <2> QED BY <1>3, <2>1
<1>5. \A i \in 1..h : e[a + i - 1] = o.head[i]
  <2> TAKE i \in 1..h
  <2>1. i - 1 \in 0 .. h + q - 1
    BY <1>2
  <2>2. e[a + (i - 1)] = d[b + (i - 1)]
    BY <1>4, <2>1
  <2>3. a + (i - 1) = a + i - 1 /\ b + (i - 1) = b + i - 1
    OBVIOUS
  <2>4. d[b + i - 1] = o.head[i]
    BY <1>2, Zenon DEF Lies
  <2> QED BY <2>2, <2>3, <2>4, Zenon
<1>6. LaysOut(e, a - 1 + h, frames, size, Len(size))
  <2> SUFFICES ASSUME NEW i \in 1..Len(size), NEW k \in 1..size[i]
               PROVE  e[(a - 1 + h) + SumOf(size, i - 1) + k] = frames[i][k]
    BY DEF LaysOut
  <2>1. d[(b - 1 + h) + SumOf(size, i - 1) + k] = frames[i][k]
    BY <1>2, Zenon DEF Lies, LaysOut
  <2>2. PICK x \in Nat : x = SumOf(size, i - 1) /\ x + k \in 1..q
    BY Zenon, <1>1, <1>2, LayIndex
  <2> DEFINE j == h + x + k - 1
  <2>3. k \in Int
    BY <1>1
  <2>4. /\ j \in 0 .. h + q - 1
        /\ a + j = (a - 1 + h) + x + k /\ b + j = (b - 1 + h) + x + k
    <3>1. h \in Nat \ {0} /\ q \in Nat /\ x \in Nat /\ x + k \in 1..q /\ k \in Int
          /\ a \in Int /\ b \in Int
      BY <1>2, <2>2, <2>3
    <3> QED BY ONLY <3>1
  <2> HIDE DEF j
  <2>5. e[a + j] = d[b + j]
    BY <1>4, <2>4
  <2> QED BY <2>1, <2>2, <2>4, <2>5, Zenon
<1> QED BY <1>2, <1>5, <1>6, Zenon DEF Lies

\* What was packed lies in the packet.
LEMMA PackedLies ==
    ASSUME NEW sd, NEW toc, NEW size, NEW o, NEW frames, PartIs(sd, toc, size, o, frames)
    PROVE  /\ Packed(o, frames) \in Seq(Int)
           /\ Len(Packed(o, frames)) = PartLength(size, o)
           /\ Lies(Packed(o, frames), 1, size, o, frames)
<1>1. size \in Seq(Nat) /\ o.head \in Seq(Int) /\ o.fill \in Nat
      /\ frames \in Seq(Seq(Int)) /\ Len(frames) = Len(size)
      /\ \A i \in 1..Len(size) : Len(frames[i]) = size[i]
  BY PartFacts DEF PartIs
<1> DEFINE x == o.head
           y == FlattenSeq(frames)
           z == Zeros(o.fill)
           v == x \o y
           w == v \o z
<1>2. Packed(o, frames) = w
  BY DEF Packed
<1>3. y \in Seq(Int) /\ Len(y) = SumFunction(size)
  BY <1>1, FlattenLength
<1>4. z \in Seq(Int) /\ Len(z) = o.fill
  <2> DEFINE n == o.fill
  <2>1. n \in Nat
    BY <1>1
  <2> HIDE DEF n
  <2>2. Zeros(n) \in Seq(Int) /\ Len(Zeros(n)) = n
    BY <2>1 DEF Zeros
  <2> QED BY <2>2 DEF n
<1>5. LaysOut(y, 0, frames, size, Len(size))
  BY <1>1, FlattenLays
<1>6. x \in Seq(Int)
  BY <1>1
<1> HIDE DEF w, v, x, y, z
<1>7. v \in Seq(Int) /\ Len(v) = Len(x) + Len(y)
      /\ (\A i \in 1..Len(x) : v[i] = x[i]) /\ (\A i \in 1..Len(y) : v[Len(x) + i] = y[i])
  BY Zenon, <1>3, <1>6, ConcatTwo, ConcatAt DEF v
<1>8. w \in Seq(Int) /\ Len(w) = Len(v) + Len(z) /\ (\A i \in 1..Len(v) : w[i] = v[i])
  BY Zenon, <1>4, <1>7, ConcatTwo, ConcatAt DEF w
<1>9. PICK h \in Nat, q \in Nat : h = Len(x) /\ q = Len(y) /\ q = SumFunction(size)
  BY <1>3, <1>6
<1>10. \A i \in 1..h : w[1 + i - 1] = x[i]
  <2> TAKE i \in 1..h
  <2>1. i \in 1..Len(v) /\ 1 + i - 1 = i /\ i \in 1..Len(x)
    BY <1>7, <1>9
  <2> QED BY <1>7, <1>8, <2>1, Zenon
<1>11. LaysOut(w, 1 - 1 + h, frames, size, Len(size))
  <2> SUFFICES ASSUME NEW i \in 1..Len(size), NEW k \in 1..size[i]
               PROVE  w[(1 - 1 + h) + SumOf(size, i - 1) + k] = frames[i][k]
    BY DEF LaysOut
  <2>1. y[0 + SumOf(size, i - 1) + k] = frames[i][k]
    BY <1>5, Zenon DEF LaysOut
  <2>2. PICK b \in Nat : b = SumOf(size, i - 1) /\ b + k \in 1..q
    BY Zenon, <1>1, <1>9, LayIndex
  <2>3. k \in Int
    BY <1>1
  <2>4. PICK j \in 1..q : j = b + k
    BY <2>2
  <2>8. Len(v) = h + q
    BY <1>7, <1>9, Zenon
  <2>9. h + j \in 1 .. h + q /\ h + j = (1 - 1 + h) + b + k /\ 0 + b + k = j
    <3>1. h \in Nat /\ q \in Nat /\ b \in Nat /\ j \in 1..q /\ j = b + k /\ k \in Int
      BY <1>9, <2>2, <2>3, <2>4
    <3> QED BY ONLY <3>1
  <2>5. h + j \in 1..Len(v) /\ h + j = (1 - 1 + h) + b + k /\ 0 + b + k = j /\ j \in 1..Len(y)
    BY <1>9, <2>4, <2>8, <2>9, Zenon
  <2>6. v[h + j] = y[j]
    BY <1>7, <1>9, <2>5, Zenon
  <2>7. w[h + j] = v[h + j]
    BY <1>8, <2>5, Zenon
  <2> QED BY <2>1, <2>2, <2>5, <2>6, <2>7, Zenon
<1>12. Len(w) = PartLength(size, o)
  BY <1>4, <1>7, <1>8, <1>9 DEF PartLength, x
<1>13. Lies(w, 1, size, o, frames)
  BY <1>9, <1>10, <1>11, Zenon DEF Lies, x
<1> QED BY <1>2, <1>8, <1>12, <1>13, Zenon

\* What Out makes is the header of a part of the length it says.
LEMMA OutPart ==
    ASSUME NEW toc, NEW size, Countable(toc, size), NEW maxlen \in Int,
           NEW sd \in BOOLEAN, NEW pad \in BOOLEAN,
           NEW frames \in Seq(Seq(Int)), Len(frames) = Len(size),
           \A i \in 1..Len(size) : Len(frames[i]) = size[i],
           NEW o, o = Out(toc, size, maxlen, sd, pad), o.ret >= 0
    PROVE  /\ PartIs(sd, toc, size, o, frames)
           /\ PartLength(size, o) = o.ret /\ o.ret <= maxlen
           /\ (pad => o.ret = maxlen) /\ (~pad => o.fill = 0)
           /\ o.ret \in Nat \ {0}
<1>1. toc \in Int /\ size \in Seq(Nat) /\ Len(size) >= 1
  BY SizesAreNat, ByteFacts DEF Countable, Toc
<1>2. OutForm(o, toc, size, sd)
  BY <1>1, OutForms
<1>3. GoodOut(o, SumFunction(size), maxlen, pad)
  BY <1>1, OutGood
<1>4. o # [ret |-> TooSmall]
  BY DEF TooSmall
<1>5. /\ o.head \in Seq(Int) /\ o.head # <<>> /\ o.fill \in Nat
      /\ o.ret = Len(o.head) + SumFunction(size) + o.fill
      /\ o.ret <= maxlen
      /\ IF pad THEN o.ret = maxlen ELSE o.fill = 0
  BY <1>3, <1>4 DEF GoodOut
<1>6. PartIs(sd, toc, size, o, frames)
  BY <1>2, <1>5, Zenon DEF PartIs
<1>7. PartLength(size, o) = o.ret
  BY <1>5 DEF PartLength
<1>8. PartLength(size, o) \in Nat \ {0}
  BY <1>6, PartFacts
<1> QED BY <1>5, <1>6, <1>7, <1>8

\* Out fails only if the shortest header does not fit, padded or not.
LEMMA OutFits ==
    ASSUME NEW toc \in Int, NEW size \in Seq(Nat), Len(size) >= 1, NEW maxlen \in Int,
           NEW sd \in BOOLEAN, NEW pad \in BOOLEAN,
           HeadLen(size) + Len(Delimiter(size, sd)) + SumFunction(size) <= maxlen
    PROVE  Out(toc, size, maxlen, sd, pad).ret >= 0
<1> DEFINE tail == Delimiter(size, sd)
           payload == SumFunction(size)
           h == ShortHead(toc, size)
           h0 == LongHeadOf(toc, size, 0)
           roomShort == RoomFor(maxlen, h, tail, payload)
           roomLong == RoomFor(maxlen, h0, tail, payload)
           amount == IF pad THEN roomLong ELSE 0
           h1 == LongHeadOf(toc, size, amount)
           o == Out(toc, size, maxlen, sd, pad)
<1>1. payload \in Nat
  BY SumNat
<1>2. tail \in Seq(Int)
  BY DelimiterIs
<1>3. PICK n \in Nat : n = Len(size) /\ n >= 1
  OBVIOUS
<1>4. h \in Seq(Int) /\ h0 \in Seq(Int)
  <2>1. 0 \in Int
    OBVIOUS
  <2> QED BY <2>1, ShortHeadType, LongHeadType, Zenon
<1>5. /\ n <= 2 => Len(h) = HeadLen(size)
      /\ n > 2 => Len(h0) = HeadLen(size)
      /\ HeadLen(size) \in Nat
  BY Zenon, <1>3, BareHeads
<1>6. PICK k \in Nat, t \in Nat : k = HeadLen(size) /\ t = Len(tail) /\ k + t + payload <= maxlen
  BY <1>2, <1>5
<1>7. o = OutIn(toc, size, payload, tail, pad, roomShort, roomLong)
  BY Zenon DEF Out
<1>8. roomShort = maxlen - Len(h \o tail) - payload /\ roomLong = maxlen - Len(h0 \o tail) - payload
  BY DEF RoomFor
<1> HIDE DEF o, tail, payload, h, h0, amount
<1>9. Len(h \o tail) = Len(h) + t /\ Len(h0 \o tail) = Len(h0) + t
      /\ Len(h) \in Nat /\ Len(h0) \in Nat
  BY <1>2, <1>4, <1>6, ConcatTwo
<1> HIDE DEF roomShort, roomLong
<1>16. roomShort \in Int
  <2> DEFINE x == Len(h \o tail)
  <2>1. x \in Nat
    BY <1>9
  <2>2. roomShort = maxlen - x - payload
    BY <1>8
  <2> HIDE DEF x
  <2> QED BY <1>1, <2>1, <2>2
<1>17. roomLong \in Int
  <2> DEFINE x == Len(h0 \o tail)
  <2>1. x \in Nat
    BY <1>9
  <2>2. roomLong = maxlen - x - payload
    BY <1>8
  <2> HIDE DEF x
  <2> QED BY <1>1, <2>1, <2>2
<1>10. PICK r \in Int, rl \in Int : r = roomShort /\ rl = roomLong
  BY <1>16, <1>17, Zenon
<1>11. n <= 2 => r >= 0
  BY <1>1, <1>5, <1>6, <1>8, <1>9, <1>10
<1>12. n > 2 => rl >= 0
  BY <1>1, <1>5, <1>6, <1>8, <1>9, <1>10
<1>13. n <= 2 => rl = r - 1
  <2> SUFFICES ASSUME n <= 2 PROVE rl = r - 1
    OBVIOUS
  <2>1. r = RoomFor(maxlen, ShortHead(toc, size), tail, payload)
    BY <1>10 DEF roomShort, h
  <2>2. rl = RoomFor(maxlen, LongHeadOf(toc, size, 0), tail, payload)
    BY <1>10 DEF roomLong, h0
  <2> QED BY <1>1, <1>2, <1>3, <2>1, <2>2, RoomOneLess
<1>14. CASE n <= 2 /\ ~(pad /\ r > 0)
  <2>1. o = Made(h \o tail, payload, 0)
    BY <1>3, <1>7, <1>10, <1>11, <1>14 DEF OutIn, h
  <2> QED BY <1>1, <1>6, <1>9, <2>1 DEF Made, o
<1>15. CASE ~(n <= 2 /\ ~(pad /\ r > 0))
  <2>1. o = OutLong(toc, size, payload, tail, amount)
    <3>1. ~(n <= 2 /\ r < 0) /\ ~(n <= 2 /\ r >= 0 /\ ~(pad /\ r > 0)) /\ ~(n > 2 /\ rl < 0)
      BY <1>3, <1>10, <1>11, <1>12, <1>15
    <3> QED BY <1>3, <1>7, <1>10, <3>1 DEF OutIn, amount
  <2>2. amount \in Nat
    <3>1. rl \in Nat \/ ~pad
      <4>1. n \in Nat /\ r \in Int /\ rl \in Int
        BY <1>3, <1>10
      <4> QED BY <1>11, <1>12, <1>13, <1>15, <4>1
    <3> QED BY <1>10, <3>1 DEF amount
  <2>3. h1 \in Seq(Int)
    <3>1. amount \in Int
      BY <2>2
    <3> QED BY <3>1, LongHeadType, Zenon
  <2>4. FillOf(amount) \in Nat
    BY Zenon, <2>2, CountsType
  <2> HIDE DEF h1
  <2>5. Len(h1 \o tail) \in Nat
    BY <1>2, <2>3, ConcatTwo
  <2>6. o = Made(h1 \o tail, payload, FillOf(amount))
    BY <2>1, Zenon DEF OutLong, FillOf, h1
  <2>7. o.ret = Len(h1 \o tail) + payload + FillOf(amount)
    BY <2>6 DEF Made
  <2> QED BY <1>1, <2>4, <2>5, <2>7 DEF o
<1> QED BY <1>14, <1>15

-----------------------------------------------------------------------------
(* What an encoder leaves: the sizes it may produce and the streams behind it. *)

LEMMA FloorIs ==
    ASSUME NEW m \in Nat \ {0}, NEW q \in Int, NEW r \in 0 .. m - 1
    PROVE  (q * m + r) \div m = q
  BY Z3

LEMMA DivFloor ==
    ASSUME NEW x \in Int, NEW k \in Nat \ {0}, x \div k >= 1
    PROVE  x \div k \in Nat /\ k * (x \div k) <= x
<1>1. CASE x >= 0
  <2>4. x \in Nat
    BY <1>1
  <2>1. PICK q \in Nat, r \in 0 .. k - 1 : x = q * k + r
    BY Zenon, <2>4, Divide
  <2>2. x \div k = q
    BY <2>1, DivModIs
  <2>3. q * k \in Nat /\ k * q = q * k
    OBVIOUS
  <2> QED BY <2>1, <2>2, <2>3
<1>2. CASE x < 0
  <2>1. -x - 1 \in Nat
    BY <1>2
  <2>2. PICK q \in Nat, r \in 0 .. k - 1 : -x - 1 = q * k + r
    BY <2>1, Divide
  <2> DEFINE qq == -(q + 1)
             rr == k - 1 - r
  <2>3. qq \in Int /\ rr \in 0 .. k - 1 /\ qq < 0
    OBVIOUS
  <2>4. x = qq * k + rr
    <3>1. q * k \in Nat /\ qq * k = -(q * k) - k
      OBVIOUS
    <3> HIDE DEF qq
    <3> QED BY <2>2, <3>1
  <2> HIDE DEF qq, rr
  <2>5. x \div k = qq
    BY <2>3, <2>4, FloorIs
  <2> QED BY <2>3, <2>5
<1> QED BY <1>1, <1>2

\* The sum of k elements of at most b.
LEMMA SumBound ==
    ASSUME NEW q \in Seq(Nat), NEW b \in Nat, \A i \in 1..Len(q) : q[i] <= b
    PROVE  SumFunction(q) <= Len(q) * b
<1> DEFINE S == {n \in Nat : n \in 0..Len(q) => SumOf(q, n) <= n * b}
<1>1. 0 \in S
  BY SumPrefix
<1>2. ASSUME NEW n \in Nat, n \in S PROVE n + 1 \in S
  <2> SUFFICES ASSUME n + 1 \in 0..Len(q) PROVE SumOf(q, n + 1) <= (n + 1) * b
    BY n + 1 \in Nat
  <2>1. n \in 0..Len(q) /\ n \in 0 .. Len(q) - 1 /\ n + 1 \in 1..Len(q) /\ n + 1 \in 0..Len(q)
    OBVIOUS
  <2>2. SumOf(q, n) <= n * b /\ SumOf(q, n) \in Nat
        /\ SumOf(q, n + 1) = SumOf(q, n) + q[n + 1]
    BY <1>2, <2>1, SumPrefix
  <2>3. q[n + 1] \in Nat /\ q[n + 1] <= b
    BY <2>1
  <2>4. n * b \in Nat /\ (n + 1) * b = n * b + b
    OBVIOUS
  <2>5. PICK x \in Nat, y \in Nat, z \in Nat : x = SumOf(q, n) /\ y = q[n + 1] /\ z = n * b
    BY <2>2, <2>3, <2>4
  <2>6. x + y <= z + b
    BY <2>2, <2>3, <2>5
  <2> QED BY <2>2, <2>4, <2>5, <2>6, Zenon
<1> HIDE DEF S
<1>3. \A n \in Nat : n \in S
  BY Zenon, <1>1, <1>2, SetInduction
<1>4. Len(q) \in Nat /\ Len(q) \in 0..Len(q)
  OBVIOUS
<1>5. SumOf(q, Len(q)) <= Len(q) * b
  BY <1>3, <1>4 DEF S
<1> QED BY <1>5, SumPrefix

\* Sizes take at most two bytes each.
LEMMA AllSizesShort ==
    ASSUME NEW size \in Seq(Nat)
    PROVE  \A n \in 0..Len(size) : Len(AllSizes(size, n)) \in 0 .. 2 * n
<1> DEFINE S == {n \in Nat : n \in 0..Len(size) => Len(AllSizes(size, n)) \in 0 .. 2 * n}
<1>1. 0 \in S
  BY AllSizesNone
<1>2. ASSUME NEW n \in Nat, n \in S PROVE n + 1 \in S
  <2> SUFFICES ASSUME n + 1 \in 0..Len(size)
               PROVE  Len(AllSizes(size, n + 1)) \in 0 .. 2 * (n + 1)
    BY n + 1 \in Nat
  <2>1. n \in 0..Len(size) /\ n + 1 \in 1..Len(size) /\ n <= Len(size) /\ n + 1 <= Len(size)
    OBVIOUS
  <2>2. Len(AllSizes(size, n)) \in 0 .. 2 * n
    BY <1>2, <2>1
  <2>3. AllSizes(size, n + 1) = AllSizes(size, n) \o EncodeSize(size[n + 1])
    BY <2>1, AllSizesMore
  <2>4. AllSizes(size, n) \in Seq(Int)
    BY <2>1, AllSizesType
  <2>5. size[n + 1] \in Nat
    BY <2>1
  <2>6. EncodeSize(size[n + 1]) \in Seq(Int) /\ Len(EncodeSize(size[n + 1])) \in 1..2
    <3> DEFINE m == size[n + 1]
    <3>1. m \in Nat
      BY <2>5
    <3> HIDE DEF m
    <3>2. EncodeSize(m) \in Seq(Nat) /\ Len(EncodeSize(m)) = IF m < Escape THEN 1 ELSE 2
      BY Zenon, <3>1, EncodeSizeType
    <3>3. Seq(Nat) \subseteq Seq(Int)
      BY SeqWiden
    <3>4. EncodeSize(m) \in Seq(Int) /\ Len(EncodeSize(m)) \in 1..2
      BY <3>2, <3>3
    <3> QED BY <3>4 DEF m
  <2>7. Len(AllSizes(size, n + 1)) = Len(AllSizes(size, n)) + Len(EncodeSize(size[n + 1]))
    <3> DEFINE x == AllSizes(size, n)
               y == EncodeSize(size[n + 1])
    <3>1. x \in Seq(Int) /\ y \in Seq(Int) /\ AllSizes(size, n + 1) = x \o y
      BY <2>3, <2>4, <2>6, Zenon
    <3> HIDE DEF x, y
    <3>2. Len(AllSizes(size, n + 1)) = Len(x) + Len(y)
      BY <3>1, ConcatTwo
    <3> QED BY <3>2 DEF x, y
  <2>8. PICK x \in 0 .. 2 * n, y \in 1..2 :
          x = Len(AllSizes(size, n)) /\ y = Len(EncodeSize(size[n + 1]))
    BY <2>2, <2>6
  <2>9. x + y \in 0 .. 2 * (n + 1)
    OBVIOUS
  <2> QED BY <2>7, <2>8, <2>9, Zenon
<1> HIDE DEF S
<1>3. \A n \in Nat : n \in S
  BY Zenon, <1>1, <1>2, SetInduction
<1> QED BY <1>3 DEF S

\* A header of k frames is one or two bytes, and two for each size but the last.
LEMMA HeadShort ==
    ASSUME NEW size \in Seq(Nat), NEW k \in Nat, k = Len(size), k >= 1
    PROVE  /\ HeadLen(size) \in Nat /\ HeadLen(size) >= 1
           /\ ~Vbr(size) => HeadLen(size) = IF k > 2 THEN 2 ELSE 1
           /\ HeadLen(size) <= (IF k > 2 THEN 2 ELSE 1) + 2 * (k - 1)
<1>1. k - 1 \in 0..Len(size)
  OBVIOUS
<1>2. Len(AllSizes(size, k - 1)) \in 0 .. 2 * (k - 1)
  BY <1>1, AllSizesShort
<1>3. PICK x \in 0 .. 2 * (k - 1) : x = Len(AllSizes(size, Len(size) - 1))
  BY <1>2
<1>4. HeadLen(size) = (IF k > 2 THEN 2 ELSE 1) + (IF Vbr(size) THEN x ELSE 0)
  BY <1>3 DEF HeadLen
<1> QED BY <1>4

\* The frames an encoder may choose fit its room, with their header.
LEMMA PossibleFits ==
    ASSUME NEW n, NEW room \in Nat, room = CurrMax(n),
           NEW size \in Seq(Nat), NEW k \in Nat \ {0}, k = Len(size),
           \/ \A i \in 1..k : size[i] + 1 <= EachMax(n, k)
           \/ EmptyFits(n, k) /\ \A i \in 1..k : size[i] = 0
    PROVE  HeadLen(size) + SumFunction(size) <= room
<1>1. /\ HeadLen(size) \in Nat
      /\ ~Vbr(size) => HeadLen(size) = IF k > 2 THEN 2 ELSE 1
      /\ HeadLen(size) <= (IF k > 2 THEN 2 ELSE 1) + 2 * (k - 1)
  BY HeadShort
<1>2. PICK h \in Nat, q \in Nat : h = HeadLen(size) /\ q = SumFunction(size)
  BY <1>1, SumNat
<1>3. 1 \in 1..k /\ \A i \in 1..k : size[i] \in Nat
  OBVIOUS
<1>4. CASE EmptyFits(n, k) /\ \A i \in 1..k : size[i] = 0
  <2>1. \A i \in 1..k : size[i] <= 0
    BY <1>4
  <2>2. SumFunction(size) <= k * 0
    BY <2>1, SumBound
  <2>3. q = 0
    BY <1>2, <2>2
  <2>4. ~Vbr(size)
    BY <1>4 DEF Vbr
  <2>5. h = IF k > 2 THEN 2 ELSE 1
    BY <1>1, <1>2, <2>4
  <2>6. room >= IF k <= 2 THEN 1 ELSE 2
    BY <1>4 DEF EmptyFits
  <2>7. h + q <= room
    BY <2>3, <2>5, <2>6
  <2> QED BY <1>2, <2>7
<1>5. CASE \A i \in 1..k : size[i] + 1 <= EachMax(n, k)
  <2>1. CASE k = 1
    <3>1. EachMax(n, k) <= room
      <4>1. Least(room, MaxFrame + 1) <= room
        BY ByteFacts DEF Least
      <4> QED BY <2>1, <4>1 DEF EachMax
    <3>2. size[1] + 1 <= Least(room, MaxFrame + 1)
      BY <1>3, <1>5, <2>1 DEF EachMax
    <3>3. size[1] + 1 <= room
      BY <1>3, <3>2, ByteFacts DEF Least
    <3>4. \A i \in 1..Len(size) : size[i] <= size[1]
      BY <1>3, <2>1
    <3>5. SumFunction(size) <= 1 * size[1]
      BY Zenon, <1>3, <2>1, <3>4, SumBound
    <3>6. ~Vbr(size)
      BY Zenon, <2>1, OneIsSame
    <3>7. h = 1
      BY <1>1, <1>2, <2>1, <3>6
    <3>8. h + q <= room
      BY <1>2, <1>3, <3>3, <3>5, <3>7
    <3> QED BY <1>2, <3>8
  <2>2. CASE k >= 2
    <3> DEFINE x == IF k = 2 THEN room - 1 ELSE room - k
               e == x \div k
    <3>1. EachMax(n, k) = e
      <4>1. k + room - HeaderBytes(k) = x
        <5>1. CASE k = 2
          BY <5>1 DEF HeaderBytes
        <5>2. CASE k # 2
          BY <5>2 DEF HeaderBytes
        <5> QED BY <5>1, <5>2
      <4>2. EachMax(n, k) = (k + room - HeaderBytes(k)) \div k
        BY <2>2 DEF EachMax
      <4> QED BY <4>1, <4>2, Zenon
    <3>2. x \in Int
      OBVIOUS
    <3> HIDE DEF x
    <3>3. e \in Int
      BY <3>2
    <3>4. e >= 1
      BY <1>3, <1>5, <3>1, <3>3
    <3>5. e \in Nat /\ k * e <= x
      BY <3>2, <3>4, DivFloor
    <3> HIDE DEF e
    <3>6. \A i \in 1..k : size[i] <= e - 1
      BY <1>3, <1>5, <3>1, <3>5
    <3>7. e - 1 \in Nat
      BY <3>4, <3>5
    <3>8. SumFunction(size) <= k * (e - 1)
      BY Zenon, <3>6, <3>7, SumBound
    <3>9. k * (e - 1) = k * e - k /\ k * e \in Nat
      BY <3>5
    <3>10. q <= x - k
      BY <1>2, <3>2, <3>5, <3>8, <3>9
    <3>11. h <= (IF k > 2 THEN 2 ELSE 1) + 2 * (k - 1)
      BY <1>1, <1>2
    <3>12. x = IF k = 2 THEN room - 1 ELSE room - k
      BY DEF x
    <3>13. h + q <= room
      <4>1. h \in Nat /\ q \in Nat /\ k \in Nat /\ room \in Nat /\ x \in Int /\ k >= 2
        BY <1>2, <2>2, <3>2
      <4>2. CASE k = 2
        BY ONLY <3>10, <3>11, <3>12, <4>1, <4>2
      <4>3. CASE k # 2
        <5>1. q <= x - k /\ h <= 2 + 2 * (k - 1) /\ x = room - k
          BY <3>10, <3>11, <3>12, <4>1, <4>3
        <5> QED BY ONLY <4>1, <5>1
      <4> QED BY <4>2, <4>3
    <3> QED BY <1>2, <3>13
  <2> QED BY <2>1, <2>2
<1> QED BY <1>4, <1>5

-----------------------------------------------------------------------------
(* The encoder's room.                                                      *)
Reserved(b) == Most(0, 2 * b - 1) + (IF job.units = LongD THEN b ELSE 0)

\* What stream n may use of what is not reserved for those behind it.
LEMMA RoomIs ==
    ASSUME NEW n \in Nat, NEW streams \in Nat, streams = layout.streams, n < streams,
           job.max \in Int, to \in Int,
           job.max - to >= Reserved(streams - n)
    PROVE  \E most \in Nat :
             /\ most <= job.max - to - Reserved(streams - n - 1)
             /\ CurrMax(n) = most - (IF IsLast(n) THEN 0 ELSE IF most > Escape + 1 THEN 2 ELSE 1)
             /\ CurrMax(n) >= IF job.units = LongD THEN 2 ELSE 1
<1> DEFINE behind == streams - n - 1
           long == job.units = LongD
           free == job.max - to - Most(0, 2 * behind - 1) - (IF long THEN behind ELSE 0)
           most == Least(free, 6 * MaxFrame + 12)
<1>1. behind \in Nat /\ streams - n = behind + 1 /\ (IsLast(n) <=> behind = 0)
  BY DEF IsLast, LastStream
<1>2. CurrMax(n) = most - (IF IsLast(n) THEN 0 ELSE IF most > Escape + 1 THEN 2 ELSE 1)
  BY DEF CurrMax
<1>3. PICK j \in Int, t \in Int : j = job.max /\ t = to
  OBVIOUS
<1>4. Reserved(behind) \in Nat /\ free = j - t - Reserved(behind)
  BY <1>1, <1>3 DEF Reserved, Most
<1>5. free >= (IF behind = 0 THEN 1 ELSE 2) + (IF long THEN 1 ELSE 0) /\ free \in Int
  <2>1. j - t >= Reserved(behind + 1)
    BY <1>1, <1>3
  <2> QED BY <1>1, <1>3, <2>1 DEF Reserved, Most
<1> HIDE DEF free, behind
<1>6. most \in Nat /\ most <= free /\ most >= (IF behind = 0 THEN 1 ELSE 2) + (IF long THEN 1 ELSE 0)
  <2>1. 6 * MaxFrame + 12 \in Nat /\ 6 * MaxFrame + 12 >= 12
    BY ByteFacts
  <2> QED BY <1>5, <2>1 DEF Least
<1> HIDE DEF most
<1>7. Escape \in Nat /\ Escape >= 12
  BY ByteFacts DEF Escape
<1>8. CurrMax(n) >= IF long THEN 2 ELSE 1
  BY <1>1, <1>2, <1>6, <1>7
<1>9. most <= job.max - to - Reserved(behind)
  BY <1>3, <1>4, <1>6
<1>10. most <= job.max - to - Reserved(streams - n - 1)
  BY <1>9 DEF behind
<1> QED BY <1>2, <1>6, <1>8, <1>10

\* Of what a stream may use, a byte or two are for the delimiter it may need.
LEMMA DelimiterFits ==
    ASSUME NEW size \in Seq(Nat), Len(size) >= 1, NEW sd \in BOOLEAN, NEW most \in Nat,
           HeadLen(size) + SumFunction(size)
             <= most - (IF ~sd THEN 0 ELSE IF most > Escape + 1 THEN 2 ELSE 1)
    PROVE  HeadLen(size) + Len(Delimiter(size, sd)) + SumFunction(size) <= most
<1>1. PICK h \in Nat, q \in Nat : h = HeadLen(size) /\ q = SumFunction(size)
  BY BareHeads, SumNat, 0 \in Int
<1>2. h >= 1
  <2>1. Len(size) \in Nat
    OBVIOUS
  <2> QED BY <1>1, <2>1, HeadShort
<1>3. Escape \in Nat /\ Escape >= 12
  BY ByteFacts DEF Escape
<1>4. CASE ~sd
  BY <1>1, <1>4, DelimiterIs
<1>5. CASE sd
  <2> DEFINE m == size[Len(size)]
             t == Len(Delimiter(size, sd))
  <2>1. m \in Nat /\ m <= q
    BY <1>1, SumCovers
  <2>2. Delimiter(size, sd) = EncodeSize(m)
    BY Zenon, <1>5, DelimiterIs
  <2> HIDE DEF m
  <2>3. t = IF m < Escape THEN 1 ELSE 2
    BY Zenon, <2>1, <2>2, EncodeSizeType
  <2> HIDE DEF t
  <2>4. h + q <= most - (IF most > Escape + 1 THEN 2 ELSE 1)
    BY <1>1, <1>5
  <2>5. h + t + q <= most
    BY <1>1, <1>2, <1>3, <2>1, <2>3, <2>4
  <2> QED BY <1>1, <2>5 DEF t
<1> QED BY <1>4, <1>5

\* What an encoder may choose is a packet of the duration asked.
LEMMA PossibleCountable ==
    ASSUME StreamInv, NEW f \in Possible(s), job.units \in Units
    PROVE  /\ Countable(4 * f.config, f.size) /\ (4 * f.config) \div 4 = f.config
           /\ Len(f.size) * Duration[f.config] = job.units
           /\ \/ \A i \in 1..Len(f.size) : f.size[i] + 1 <= EachMax(s, Len(f.size))
              \/ EmptyFits(s, Len(f.size)) /\ \A i \in 1..Len(f.size) : f.size[i] = 0
<1> DEFINE U == UNION {[1..k -> FrameSize] : k \in 1 .. Byte \div 4 - 1}
<1>1. /\ f \in [config : DOMAIN Duration, size : U]
      /\ Len(f.size) * Duration[f.config] = job.units
      /\ \/ \A i \in 1..Len(f.size) : f.size[i] + 1 <= EachMax(s, Len(f.size))
         \/ EmptyFits(s, Len(f.size)) /\ \A i \in 1..Len(f.size) : f.size[i] = 0
  BY Zenon DEF Possible
<1> HIDE DEF U
<1>2. f.config \in DOMAIN Duration /\ f.size \in U
  BY <1>1
<1>3. PICK k \in 1 .. Byte \div 4 - 1 : f.size \in [1..k -> FrameSize]
  BY <1>2 DEF U
<1>4. k \in Nat \ {0}
  BY <1>3, ByteFacts
<1>5. f.size \in Seq(0..MaxFrame) /\ Len(f.size) = k
  <2>1. FrameSize \subseteq 0..MaxFrame
    BY EncoderAssumption
  <2> DEFINE q == f.size
             M == 0..MaxFrame
  <2>2. q \in [1..k -> M]
    BY Zenon, <1>3, <2>1
  <2> HIDE DEF q, M
  <2>3. q \in Seq(M) /\ Len(q) = k
    BY <1>4, <2>2
  <2> QED BY <2>3 DEF q, M
<1>6. PICK c \in Nat : c = f.config /\ c <= Byte \div 4 - 1
  BY <1>2, ByteFacts, PacketAssumption
<1>7. (4 * c) % 4 = 0 /\ (4 * c) \div 4 = c
  BY ONLY <1>6
<1>8. 4 * c \in 0 .. Byte - 1
  <2>1. 4 * (Byte \div 4) = Byte
    BY ByteFacts
  <2>2. PICK z \in Nat : z = Byte \div 4
    BY ByteFacts
  <2> QED BY <1>6, <2>1, <2>2
<1>9. Toc(4 * f.config) /\ (4 * f.config) \div 4 = f.config
  BY <1>6, <1>7, <1>8, Zenon DEF Toc
<1>10. job.units <= MaxDuration
  BY EncoderAssumption
<1>11. Len(f.size) * Duration[(4 * f.config) \div 4] <= MaxDuration
  BY <1>1, <1>9, <1>10, Zenon
<1>12. Len(f.size) \in 1 .. Byte \div 4 - 1
  BY <1>3, <1>5
<1> QED BY <1>1, <1>5, <1>9, <1>11, <1>12, Zenon DEF Countable

\* There is always something to choose: frames that are empty.
LEMMA PossibleThere ==
    ASSUME NEW n, job.units \in Units, CurrMax(n) >= IF job.units = LongD THEN 2 ELSE 1,
           CurrMax(n) \in Int
    PROVE  Possible(n) # {}
<1>1. PICK c \in DOMAIN Duration, k \in 1 .. Byte \div 4 - 1 :
        k * Duration[c] = job.units /\ (job.units # LongD => k <= 2)
  BY EncoderAssumption
<1>2. k \in Nat \ {0} /\ 0 \in FrameSize
  BY <1>1, ByteFacts, EncoderAssumption
<1> DEFINE size == [i \in 1..k |-> 0]
           f == [config |-> c, size |-> size]
           U == UNION {[1..j -> FrameSize] : j \in 1 .. Byte \div 4 - 1}
<1>3. size \in [1..k -> FrameSize]
  BY <1>2
<1>4. size \in U
  BY <1>1, <1>3
<1>5. Len(size) = k /\ \A i \in 1..k : size[i] = 0
  BY <1>2
<1>6. EmptyFits(n, k)
  BY <1>1, <1>2 DEF EmptyFits
<1> HIDE DEF size, U
<1>7. f \in [config : DOMAIN Duration, size : U]
  BY <1>1, <1>4
<1>8. f.size = size /\ f.config = c
  OBVIOUS
<1> HIDE DEF f
<1>9. /\ Len(f.size) * Duration[f.config] = job.units
      /\ EmptyFits(n, Len(f.size)) /\ \A i \in 1..Len(f.size) : f.size[i] = 0
  BY <1>1, <1>5, <1>6, <1>8, Zenon
<1>10. f \in Possible(n)
  BY <1>7, <1>9, Zenon DEF Possible, U
<1> QED BY <1>10

\* There is room for the stream at hand and the least of those behind it.
Room == /\ to = Len(data) /\ to >= s
        /\ job.max - to >= Reserved(layout.streams - s)
        /\ (s = layout.streams /\ ~job.vbr => to = job.max)

StreamPacket(f, e) == Packed(e, Payload(s, f.size))
StreamOut(packet, p) ==
    Out(Plain(packet[1]), p.size, job.max - to, ~IsLast(s), ~job.vbr /\ IsLast(s))

\* What becomes of the packet of a stream: taken apart it is what the encoder
\* made, and put together again it fits.
StreamMade(f, e) ==
    LET frames == Payload(s, f.size)
        packet == StreamPacket(f, e)
        p      == Parse(packet, FALSE)
        o      == StreamOut(packet, p)
    IN  /\ p.count \in Nat \ {0} /\ Frames(packet, p) = frames
        /\ PartIs(~IsLast(s), 4 * f.config, f.size, o, frames)
        /\ PartLength(f.size, o) = o.ret /\ o.ret \in Nat \ {0}
        /\ o.ret <= job.max - to - Reserved(layout.streams - s - 1)
        /\ (IsLast(s) /\ ~job.vbr => o.ret = job.max - to)

\* An encoder whose predecessors left the reserve is given a byte at least.
LEMMA EncoderRoom ==
    ASSUME StreamInv, s <= LastStream, Room
    PROVE  \E most \in Nat :
             /\ most <= job.max - to - Reserved(layout.streams - s - 1)
             /\ CurrMax(s) = most - (IF IsLast(s) THEN 0 ELSE IF most > Escape + 1 THEN 2 ELSE 1)
             /\ CurrMax(s) >= IF job.units = LongD THEN 2 ELSE 1
             /\ CurrMax(s) \in Nat
<1>1. s \in Nat /\ layout.streams \in Nat /\ s < layout.streams /\ job.max \in Int /\ to \in Int
  BY EarlyTypes DEF Jobs, LastStream
<1>2. job.max - to >= Reserved(layout.streams - s)
  BY DEF Room
<1>3. PICK most \in Nat :
        /\ most <= job.max - to - Reserved(layout.streams - s - 1)
        /\ CurrMax(s) = most - (IF IsLast(s) THEN 0 ELSE IF most > Escape + 1 THEN 2 ELSE 1)
        /\ CurrMax(s) >= IF job.units = LongD THEN 2 ELSE 1
  BY <1>1, <1>2, RoomIs
<1>4. CurrMax(s) \in Nat
  <2>1. CurrMax(s) \in Int
    BY <1>3, ByteFacts
  <2> QED BY <1>3, <2>1
<1> QED BY <1>3, <1>4, Zenon

LEMMA EncodedGood ==
    ASSUME StreamInv, s <= LastStream, Room, job.units \in Units,
           NEW f \in Possible(s), NEW pad \in BOOLEAN, NEW e, e = EncodedOut(s, f, pad)
    PROVE  e.ret \in Nat \ {0} /\ StreamMade(f, e)
<1> DEFINE frames == Payload(s, f.size)
           packet == StreamPacket(f, e)
           p == Parse(packet, FALSE)
           o == StreamOut(packet, p)
           toc == 4 * f.config
           size == f.size
           room == CurrMax(s)
           sd == ~IsLast(s)
           no == FALSE
<1>1. PICK most \in Nat :
             /\ most <= job.max - to - Reserved(layout.streams - s - 1)
             /\ CurrMax(s) = most - (IF IsLast(s) THEN 0 ELSE IF most > Escape + 1 THEN 2 ELSE 1)
             /\ CurrMax(s) \in Nat
  BY EncoderRoom
<1>2. Countable(toc, size)
      /\ \/ \A i \in 1..Len(size) : size[i] + 1 <= EachMax(s, Len(size))
         \/ EmptyFits(s, Len(size)) /\ \A i \in 1..Len(size) : size[i] = 0
  BY PossibleCountable
<1>3. /\ size \in Seq(Nat) /\ Len(size) >= 1 /\ toc \in Int
      /\ frames \in Seq(Seq(Int)) /\ Len(frames) = Len(size)
      /\ \A i \in 1..Len(size) : Len(frames[i]) = size[i]
  BY PossibleGood
<1> HIDE DEF frames, toc, size, no
<1>22. no \in BOOLEAN /\ ~no
  BY DEF no
<1>4. HeadLen(size) + SumFunction(size) <= CurrMax(s)
  <2>1. PICK k \in Nat \ {0} : k = Len(size)
    BY <1>3
  <2> QED BY Zenon, <1>1, <1>2, <1>3, <2>1, PossibleFits
<1>5. e = Out(toc, size, room, no, pad)
  BY DEF EncodedOut, toc, size, no
<1>23. HeadLen(size) \in Nat /\ SumFunction(size) \in Nat
  BY Zenon, <1>3, BareHeads, SumNat
<1>6. e.ret >= 0
  <2>1. Len(Delimiter(size, no)) = 0
    BY <1>3, <1>22, DelimiterIs
  <2>3. HeadLen(size) + Len(Delimiter(size, no)) + SumFunction(size) <= room
    <3>1. PICK x \in Nat, y \in Nat, z \in Nat :
            x = HeadLen(size) /\ y = SumFunction(size) /\ z = room
      BY <1>1, <1>23
    <3>2. x + y <= z
      BY <1>4, <3>1
    <3>3. x + 0 + y <= z
      BY <3>2
    <3> QED BY <2>1, <3>1, <3>3, Zenon
  <2>4. room \in Int
    BY <1>1
  <2> HIDE DEF room
  <2> QED BY Zenon, <1>3, <1>5, <1>22, <2>3, <2>4, OutFits
<1>7. PartIs(no, toc, size, e, frames) /\ PartLength(size, e) = e.ret /\ e.ret \in Nat \ {0}
  <2>1. room \in Int
    BY <1>1
  <2> HIDE DEF room
  <2> QED BY <1>2, <1>3, <1>5, <1>6, <1>22, <2>1, OutPart
<1>8. /\ packet \in Seq(Int) /\ Len(packet) = PartLength(size, e)
      /\ Lies(packet, 1, size, e, frames)
  <2>1. packet = Packed(e, frames)
    BY DEF StreamPacket, frames, size
  <2>2. PartIs(no, toc, size, e, frames)
    BY <1>7
  <2> HIDE DEF packet
  <2> QED BY <2>1, <2>2, PackedLies
<1> HIDE DEF packet
<1>9. LiesRead(packet, no, toc, size, e, frames)
  <2>1. PICK n \in Nat : n = Len(packet) /\ n = PartLength(size, e)
    BY <1>7, <1>8
  <2>2. 1 + PartLength(size, e) - 1 <= Len(packet) /\ 1 + PartLength(size, e) - 1 = Len(packet)
    BY <2>1
  <2>3. SubSeq(packet, 1, Len(packet)) = packet
    BY <1>8
  <2>4. LiesRead(SubSeq(packet, 1, Len(packet)), no, toc, size, e, frames)
    <3>1. 1 \in Nat \ {0}
      OBVIOUS
    <3> QED BY <1>7, <1>8, <1>22, <2>2, <3>1, LiesParses
  <2> QED BY Zenon, <2>3, <2>4
<1>10. p.count \in Nat \ {0} /\ p.size = size /\ Frames(packet, p) = frames
  <2>1. p.count = Len(size) /\ p.size = size /\ Frames(packet, p) = frames
    BY Zenon, <1>9 DEF LiesRead, no
  <2>2. Len(size) \in Nat \ {0}
    BY <1>3
  <2> QED BY <2>1, <2>2, Zenon
<1>11. Plain(packet[1]) = toc
  <2>1. PICK c \in 0..3 : e.head[1] = toc + c /\ Len(e.head) >= 1
    <3>1. OutForm(e, toc, size, no) /\ e.head \in Seq(Int)
      BY <1>7 DEF PartIs
    <3> QED BY <1>2, <1>22, <3>1, HeadFirst
  <2>2. packet[1 + 1 - 1] = e.head[1]
    <3>1. 1 \in 1..Len(e.head)
      BY <1>7, <2>1 DEF PartIs
    <3> QED BY <1>8, <3>1, Zenon DEF Lies
  <2>3. packet[1] = toc + c
    BY <2>1, <2>2
  <2>4. Toc(toc)
    BY <1>2 DEF Countable
  <2>5. toc + c \in 0 .. Byte - 1
    BY <2>4, ByteFacts DEF Toc
  <2>6. Value(packet[1]) = toc + c
    BY <2>3, <2>5, ByteValue
  <2>7. Code(packet[1]) = c
    BY Zenon, <2>4, <2>6, TocCodes
  <2> QED BY <1>3, <2>6, <2>7 DEF Plain
<1>12. o = Out(toc, size, job.max - to, sd, ~job.vbr /\ IsLast(s))
  BY <1>10, <1>11, Zenon DEF StreamOut
<1> DEFINE maxlen == job.max - to
           pd == ~job.vbr /\ IsLast(s)
           h == HeadLen(size)
           q == SumFunction(size)
           t == Len(Delimiter(size, sd))
           need == h + t + q
<1>13. sd \in BOOLEAN /\ pd \in BOOLEAN /\ maxlen \in Int /\ Reserved(layout.streams - s - 1) \in Nat
  <2>1. job.max \in Int /\ to \in Int /\ job.vbr \in BOOLEAN /\ s \in Int /\ layout.streams \in Int
    BY EarlyTypes DEF Jobs
  <2>2. PICK b \in Nat : b = layout.streams - s - 1
    BY <2>1 DEF LastStream
  <2>3. Reserved(b) \in Nat
    BY DEF Reserved, Most
  <2> QED BY <2>1, <2>2, <2>3 DEF IsLast
<1>14. need <= most
  <2>1. h + q <= most - (IF ~sd THEN 0 ELSE IF most > Escape + 1 THEN 2 ELSE 1)
    BY <1>1, <1>4
  <2> HIDE DEF sd
  <2> QED BY <1>3, <1>13, <2>1, DelimiterFits
<1>15. need \in Nat
  <2>1. t \in Nat
    BY <1>3, <1>13, DelimiterIs
  <2>2. h \in Nat /\ q \in Nat
    BY <1>23
  <2> HIDE DEF h, q, t
  <2> QED BY <2>1, <2>2
<1> HIDE DEF need, maxlen, pd, sd
<1>16. need <= maxlen
  <2>1. most <= maxlen - Reserved(layout.streams - s - 1)
    BY <1>1 DEF maxlen
  <2> QED BY <1>13, <1>14, <1>15, <2>1
<1>17. o.ret >= 0
  <2>1. o = Out(toc, size, maxlen, sd, pd)
    BY Zenon, <1>12 DEF maxlen, sd, pd
  <2>2. HeadLen(size) + Len(Delimiter(size, sd)) + SumFunction(size) <= maxlen
    BY <1>16 DEF need
  <2> HIDE DEF o
  <2> QED BY Zenon, <1>3, <1>13, <2>1, <2>2, OutFits
<1>18. /\ PartIs(sd, toc, size, o, frames) /\ PartLength(size, o) = o.ret
       /\ (pd => o.ret = maxlen) /\ o.ret \in Nat \ {0} /\ o.ret <= maxlen
  <2>1. o = Out(toc, size, maxlen, sd, pd)
    BY Zenon, <1>12 DEF maxlen, sd, pd
  <2> HIDE DEF o
  <2> QED BY <1>2, <1>3, <1>13, <1>17, <2>1, OutPart
<1> HIDE DEF o
<1>19. o.ret <= maxlen - Reserved(layout.streams - s - 1)
  <2>1. CASE pd
    <3>1. layout.streams - s - 1 = 0
      BY <2>1, EarlyTypes DEF pd, IsLast, LastStream
    <3>2. Reserved(layout.streams - s - 1) = 0
      BY <3>1 DEF Reserved, Most
    <3> QED BY <1>13, <1>18, <3>2
  <2>2. CASE ~pd
    <3> USE DEF o
    <3>1. BareOut(o, size, sd)
      <4>1. o = Out(toc, size, maxlen, sd, FALSE)
        BY <1>12, <2>2, Zenon DEF maxlen, sd, pd
      <4>2. HeadLen(size) + Len(Delimiter(size, sd)) + SumFunction(size) <= maxlen
        BY <1>16 DEF need
      <4> HIDE DEF o
      <4> QED BY Zenon, <1>3, <1>13, <4>1, <4>2, OutBare
    <3>2. o.ret = need
      BY Zenon, <3>1 DEF BareOut, need
    <3>3. most <= maxlen - Reserved(layout.streams - s - 1)
      BY <1>1 DEF maxlen
    <3> HIDE DEF o
    <3> QED BY <1>13, <1>14, <1>15, <3>2, <3>3
  <2> QED BY <2>1, <2>2
<1>20. e.ret \in Nat \ {0}
  BY <1>7
<1> USE DEF o
<1>21. StreamMade(f, e)
  <2>1. PartIs(~IsLast(s), 4 * f.config, f.size, o, frames)
    BY Zenon, <1>18 DEF sd, toc, size
  <2>2. PartLength(f.size, o) = o.ret
    BY Zenon, <1>18 DEF size
  <2>3. IsLast(s) /\ ~job.vbr => o.ret = job.max - to
    BY Zenon, <1>18 DEF pd, maxlen
  <2>4. o.ret <= job.max - to - Reserved(layout.streams - s - 1)
    BY Zenon, <1>19 DEF maxlen
  <2> QED BY <1>10, <1>18, <2>1, <2>2, <2>3, <2>4, Zenon DEF StreamMade, packet, frames
<1> QED BY <1>20, <1>21

-----------------------------------------------------------------------------
(* Encoding.  So far every stream has left what those behind it need.       *)
Encoding ==
    /\ phase \in {"encode", "streams"} => job.kind = "encode" /\ job.units \in Units
    /\ phase = "encode" => data = <<>>
    /\ phase = "streams" => Room

EncodeInv == Encoding /\ EncodeFits

LEMMA InitEncode ==
    ASSUME Init PROVE EncodeInv
<1>1. \/ job \in [kind : {"encode"}, units : Units, max : EncodeMax, vbr : BOOLEAN]
      \/ job \in [kind : {"garbage", "lost"}, units : {0}, max : {0}, vbr : {FALSE}]
  BY Zenon DEF Init
<1>2. /\ phase = IF job.kind = "encode" THEN "encode"
                 ELSE IF job.kind = "lost" THEN "decode" ELSE "wire"
      /\ data \in IF job.kind = "garbage" THEN Garbage ELSE {<<>>}
  BY Zenon DEF Init
<1>3. CASE job \in [kind : {"encode"}, units : Units, max : EncodeMax, vbr : BOOLEAN]
  <2>1. job.kind = "encode" /\ job.units \in Units
    BY <1>3
  <2>2. phase = "encode" /\ data = <<>>
    BY <1>2, <2>1
  <2> QED BY <2>1, <2>2 DEF EncodeInv, Encoding, EncodeFits
<1>4. CASE job \in [kind : {"garbage", "lost"}, units : {0}, max : {0}, vbr : {FALSE}]
  <2>1. job.kind \in {"garbage", "lost"}
    BY <1>4
  <2>2. phase \in {"decode", "wire"} /\ job.kind # "encode"
    BY <1>2, <2>1
  <2> QED BY <2>2 DEF EncodeInv, Encoding, EncodeFits
<1> QED BY Zenon, <1>1, <1>3, <1>4

\* Nothing is said of what comes after the packet is on the wire.
LEMMA EncodeOver ==
    ASSUME phase' \notin {"encode", "streams", "unsent", "wire"} PROVE EncodeInv'
  BY DEF EncodeInv, Encoding, EncodeFits

LEMMA EncodeStartEncode ==
    ASSUME StreamInv, EncodeInv, EncodeStart PROVE EncodeInv'
<1>1. phase = "encode" /\ UNCHANGED <<layout, job>>
  BY DEF EncodeStart
<1>2. job.kind = "encode" /\ job.units \in Units /\ data = <<>> /\ s = 0 /\ to = 0
  BY <1>1 DEF EncodeInv, Encoding, StreamInv, Positions
<1>3. CASE job.max < Smallest /\ Stop(TooSmall)
  <2>1. phase' = "unsent" /\ job'.max < Smallest'
    BY <1>1, <1>3 DEF Stop, Smallest
  <2> QED BY <2>1 DEF EncodeInv, Encoding, EncodeFits
<1>4. CASE /\ job.max >= Smallest
           /\ phase' = "streams"
           /\ UNCHANGED <<data, sent, s, to, ret>>
  <2>1. PICK n \in Nat \ {0}, j \in Int : n = layout.streams /\ j = job.max
    BY EarlyTypes DEF Jobs
  <2>2. Len(data) = 0
    BY <1>2
  <2>3. j - 0 >= Reserved(n) /\ n - 0 = n
    BY <1>4, <2>1 DEF Smallest, Reserved, Most
  <2>4. Room
    BY <1>2, <2>1, <2>2, <2>3 DEF Room
  <2>5. Room'
    BY <1>1, <1>4, <2>4 DEF Room, Reserved
  <2> QED BY <1>1, <1>2, <1>4, <2>5 DEF EncodeInv, Encoding, EncodeFits
<1> QED BY <1>3, <1>4 DEF EncodeStart

LEMMA EncodeDoneEncode ==
    ASSUME StreamInv, EncodeInv, EncodeDone PROVE EncodeInv'
<1>1. /\ phase = "streams" /\ s > LastStream /\ phase' = "wire" /\ ret' = to
      /\ UNCHANGED <<layout, job, data>>
  BY DEF EncodeDone
<1>2. Room
  BY <1>1 DEF EncodeInv, Encoding
<1>3. PICK n \in Nat \ {0}, j \in Int, t \in Int : n = layout.streams /\ j = job.max /\ t = to
  BY Zenon, EarlyTypes DEF Jobs
<1>4. s = n
  BY <1>1, <1>3, EarlyTypes DEF LastStream
<1>5. n - n = 0 /\ Reserved(0) = 0
  BY DEF Reserved, Most
<1>6. /\ t = Len(data) /\ t >= n /\ j - t >= 0 /\ (~job.vbr => t = j)
  <2>1. /\ to = Len(data) /\ to >= s /\ job.max - to >= Reserved(layout.streams - s)
        /\ (s = layout.streams /\ ~job.vbr => to = job.max)
    BY <1>2 DEF Room
  <2> QED BY <1>3, <1>4, <1>5, <2>1
<1>7. ret' = Len(data') /\ ret' > 0 /\ IF job'.vbr THEN ret' <= job'.max ELSE ret' = job'.max
  BY <1>1, <1>3, <1>6
<1> QED BY <1>1, <1>7 DEF EncodeInv, Encoding, EncodeFits

\* What is done with a stream's packet.
StreamDone(f, e) ==
    LET packet == StreamPacket(f, e)
        p      == Parse(packet, FALSE)
        o      == StreamOut(packet, p)
    IN  /\ StreamMade(f, e)
        /\ data' = data \o Packed(o, Frames(packet, p))
        /\ to' = to + o.ret
        /\ sent' = Append(sent, Payload(s, f.size))

\* A stream is never refused.
LEMMA StreamStep ==
    ASSUME StreamInv, EncodeInv, EncodeStream
    PROVE  /\ phase = "streams" /\ s <= LastStream /\ Room /\ job.units \in Units
           /\ UNCHANGED <<layout, job, phase, at, dec, child, pcm, ret>>
           /\ s' = s + 1
           /\ \E f \in Possible(s) : \E e : StreamDone(f, e)
<1>1. phase = "streams" /\ s <= LastStream /\ UNCHANGED <<layout, job, at, dec, child, pcm>>
  BY DEF EncodeStream
<1>2. Room /\ job.units \in Units
  BY <1>1 DEF EncodeInv, Encoding
<1>3. Possible(s) # {}
  <2>1. CurrMax(s) \in Nat /\ CurrMax(s) >= IF job.units = LongD THEN 2 ELSE 1
    BY <1>1, <1>2, EncoderRoom
  <2>2. CurrMax(s) \in Int
    BY <2>1
  <2> QED BY <1>2, <2>1, <2>2, PossibleThere
<1>4. PICK f \in Possible(s), pad \in {FALSE, ~job.vbr} :
        \E e \in {EncodedOut(s, f, pad)} :
            \/ e.ret < 0 /\ Stop(Internal)
            \/ e.ret > 0 /\ Repacketize(Packed(e, Payload(s, f.size)), Payload(s, f.size))
  BY <1>3, Zenon DEF EncodeStream
<1>5. pad \in BOOLEAN
  BY Zenon, <1>4
<1> DEFINE e == EncodedOut(s, f, pad)
           packet == StreamPacket(f, e)
           p == Parse(packet, FALSE)
           o == StreamOut(packet, p)
<1> HIDE DEF e
<1>6. e.ret \in Nat \ {0} /\ StreamMade(f, e)
  BY <1>1, <1>2, <1>5, EncodedGood DEF e
<1>7. ~(e.ret < 0)
  <2>1. e.ret \in Nat \ {0}
    BY <1>6
  <2> QED BY <2>1
<1>8. Repacketize(packet, Payload(s, f.size))
  BY <1>4, <1>7, Zenon DEF e, StreamPacket
<1>9. p.count \in Nat \ {0} /\ ~(p.count < 0)
  <2>1. p.count \in Nat \ {0}
    BY <1>6, Zenon DEF StreamMade
  <2> HIDE DEF p
  <2> QED BY <2>1
<1>10. o.ret \in Nat \ {0}
  BY <1>6, Zenon DEF StreamMade
<1>11. /\ data' = IF o.ret < 0 THEN data ELSE data \o Packed(o, Frames(packet, p))
       /\ to' = to + o.ret
       /\ sent' = Append(sent, Payload(s, f.size)) /\ s' = s + 1 /\ UNCHANGED <<phase, ret>>
  BY <1>8, <1>9, Zenon DEF Repacketize, StreamOut
<1>12. data' = data \o Packed(o, Frames(packet, p))
  <2>1. ~(o.ret < 0)
    <3> HIDE DEF o
    <3> QED BY <1>10
  <2> QED BY <1>11, <2>1, Zenon
<1>13. StreamDone(f, e)
  BY <1>6, <1>11, <1>12, Zenon DEF StreamDone
<1> QED BY <1>1, <1>2, <1>11, <1>13

LEMMA EncodeStreamEncode ==
    ASSUME StreamInv, EncodeInv, EncodeStream PROVE EncodeInv'
<1>1. /\ phase = "streams" /\ s <= LastStream /\ Room /\ job.units \in Units
      /\ UNCHANGED <<layout, job, phase>> /\ s' = s + 1
  BY StreamStep
<1>0. PICK f \in Possible(s) : \E e : StreamDone(f, e)
  BY StreamStep
<1>2. PICK e : StreamDone(f, e)
  BY <1>0
<1> DEFINE frames == Payload(s, f.size)
           packet == StreamPacket(f, e)
           p == Parse(packet, FALSE)
           o == StreamOut(packet, p)
           more == Packed(o, frames)
<1>3. /\ Frames(packet, p) = frames
      /\ PartIs(~IsLast(s), 4 * f.config, f.size, o, frames)
      /\ PartLength(f.size, o) = o.ret /\ o.ret \in Nat \ {0}
      /\ o.ret <= job.max - to - Reserved(layout.streams - s - 1)
      /\ (IsLast(s) /\ ~job.vbr => o.ret = job.max - to)
  BY <1>2, Zenon DEF StreamMade, StreamDone
<1>4. more \in Seq(Int) /\ Len(more) = o.ret
  <2> DEFINE sd == ~IsLast(s)
             toc == 4 * f.config
             size == f.size
  <2>1. PartIs(sd, toc, size, o, frames) /\ PartLength(size, o) = o.ret
    BY Zenon, <1>3
  <2> HIDE DEF sd, toc, size, o, frames
  <2> QED BY <2>1, PackedLies
<1>5. data' = data \o more /\ to' = to + o.ret
  BY <1>2, <1>3, Zenon DEF StreamDone
<1> HIDE DEF o, more
<1>6. PICK n \in Nat \ {0}, j \in Int, t \in Int, r \in Nat \ {0}, i \in Nat :
        /\ n = layout.streams /\ j = job.max /\ t = to /\ r = o.ret /\ i = s /\ i < n
  <2>1. layout.streams \in Nat \ {0} /\ job.max \in Int /\ to \in Int /\ s \in Nat
        /\ s < layout.streams
    BY <1>1, EarlyTypes DEF Jobs, LastStream
  <2>2. o.ret \in Nat \ {0}
    BY <1>3
  <2> QED BY <2>1, <2>2, Zenon
<1>7. data \in Seq(Int)
  BY EarlyTypes
<1>8. t = Len(data) /\ t >= i
  BY <1>1, <1>6 DEF Room
<1>9. Len(data') = t + r /\ to' = t + r /\ s' = i + 1
  <2>1. Len(data \o more) = Len(data) + Len(more)
    BY <1>4, <1>7, ConcatTwo
  <2> QED BY <1>1, <1>4, <1>5, <1>6, <1>8, <2>1, Zenon
<1>10. j - (t + r) >= Reserved(n - (i + 1))
  <2>1. PICK b \in Nat : b = Reserved(n - (i + 1))
    <3>1. PICK c \in Nat : c = n - (i + 1)
      BY <1>6
    <3>2. Reserved(c) \in Nat
      BY DEF Reserved, Most
    <3> QED BY <3>1, <3>2
  <2>2. n - i - 1 = n - (i + 1)
    BY <1>6
  <2>3. r <= j - t - b
    BY <1>3, <1>6, <2>1, <2>2
  <2> QED BY <1>6, <2>1, <2>3
<1>11. i + 1 = n /\ ~job.vbr => t + r = j
  <2> SUFFICES ASSUME i + 1 = n, ~job.vbr PROVE t + r = j
    OBVIOUS
  <2>1. IsLast(s)
    BY <1>6 DEF IsLast, LastStream
  <2>2. r = j - t
    BY <1>3, <1>6, <2>1
  <2> QED BY <1>6, <2>2
<1>12. Reserved(n - (i + 1))' = Reserved(n - (i + 1))
  BY <1>1 DEF Reserved
<1>13. Room'
  <2>1. to' = Len(data') /\ to' >= s'
    BY <1>6, <1>8, <1>9
  <2>2. job'.max = j /\ layout'.streams = n /\ job'.vbr = job.vbr
    BY <1>1, <1>6
  <2>3. job'.max - to' >= Reserved(layout.streams - s)'
    <3>1. Reserved(layout.streams - s)' = Reserved(n - (i + 1))
      BY <1>1, <1>6, <1>9 DEF Reserved
    <3>2. job'.max - to' = j - (t + r)
      BY <1>9, <2>2
    <3> QED BY <1>10, <3>1, <3>2, Zenon
  <2>4. s' = layout'.streams /\ ~job'.vbr => to' = job'.max
    BY <1>9, <1>11, <2>2
  <2> QED BY <2>1, <2>3, <2>4 DEF Room
<1>14. job'.kind = "encode" /\ job'.units \in Units /\ phase' = "streams"
  BY <1>1 DEF EncodeInv, Encoding
<1> QED BY <1>13, <1>14 DEF EncodeInv, Encoding, EncodeFits

LEMMA NextEncode ==
    ASSUME StreamInv, EncodeInv, [Next]_vars PROVE EncodeInv'
<1> DEFINE later == {"decode", "torn", "pad", "unpad", "children", "done"}
<1>1. CASE EncodeStart
  BY <1>1, EncodeStartEncode
<1>2. CASE EncodeStream
  BY <1>2, EncodeStreamEncode
<1>3. CASE EncodeDone
  BY <1>3, EncodeDoneEncode
<1>4. ASSUME phase' \in later PROVE EncodeInv'
  BY <1>4, EncodeOver
<1>5. CASE AsIs
  BY <1>4, <1>5 DEF AsIs
<1>6. CASE UnpadStart
  BY <1>4, <1>6 DEF UnpadStart, Refuse
<1>7. CASE UnpadStream
  BY Zenon, <1>4, <1>7 DEF UnpadStream, Refuse
<1>8. CASE UnpadDone
  BY <1>4, <1>8 DEF UnpadDone
<1>9. ASSUME NEW n \in Growth, PadStart(Len(data) + n) PROVE EncodeInv'
  BY <1>4, <1>9 DEF PadStart, Refuse
<1>10. CASE PadSkip
  BY Zenon, <1>4, <1>10 DEF PadSkip, Refuse
<1>11. CASE PadLast
  BY <1>4, <1>11 DEF PadLast, Refuse
<1>12. ASSUME NEW size \in DecodeSize, NEW fec \in BOOLEAN, DecodeStart(size, fec)
       PROVE  EncodeInv'
  BY <1>4, <1>12 DEF DecodeStart, Return
<1>13. CASE DecodeChild
  BY <1>4, <1>13 DEF DecodeChild, Return
<1>14. CASE Mute
  BY <1>4, <1>14 DEF Mute, Return
<1>15. CASE UNCHANGED vars
  BY <1>15 DEF vars, EncodeInv, Encoding, EncodeFits, Room, Reserved, Smallest
<1> QED BY <1>1, <1>2, <1>3, <1>5, <1>6, <1>7, <1>8, <1>9, <1>10, <1>11, <1>12, <1>13, <1>14,
           <1>15 DEF Next

\* Of every layout, frame duration and limit the caller may give, the encoders never
\* fail for want of room: a limit that is enough for the smallest packet yields a
\* packet within it, and without VBR the packet has just the length asked for.
THEOREM EncodeFitsHolds == Spec => []EncodeFits
<1>1. Init => StreamInv /\ EncodeInv
  BY InitInv, InitEncode
<1>2. StreamInv /\ EncodeInv /\ [Next]_vars => StreamInv' /\ EncodeInv'
  BY StepInv, NextEncode
<1>3. EncodeInv => EncodeFits
  BY DEF EncodeInv
<1> QED BY <1>1, <1>2, <1>3, PTL DEF Spec
=============================================================================
