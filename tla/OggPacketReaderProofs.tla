----------------------- MODULE OggPacketReaderProofs -----------------------
(***************************************************************************)
(* TLAPS proofs about OggPacketReader and OggSeek: what the packets of a   *)
(* page are, for any page; what the reader returns from any file whose     *)
(* pages, as far as they can be read, are the muxer's and in its order;    *)
(* and where a seek in a stream ends, whichever pages it probed.           *)
(***************************************************************************)
EXTENDS OggSeek, FiniteSetTheorems, WellFoundedInduction, TLAPS

-----------------------------------------------------------------------------
(* Induction over the natural numbers, from the library's theorem that     *)
(* they are well founded.  A property P(n) of numbers is the set           *)
(* {n \in Nat : P(n)}.                                                     *)
Less == OpToRel(<, Nat)

LEMMA LessMeans ==
    ASSUME NEW x \in Nat, NEW y \in Nat
    PROVE  <<x, y>> \in Less <=> x < y
  BY DEF Less, OpToRel

LEMMA LessWellFounded == IsWellFoundedOn(Less, Nat)
  BY NatLessThanWellFounded, Zenon DEF Less

LEMMA LeastOf ==
    ASSUME NEW T, T \subseteq Nat, T # {}
    PROVE  \E x \in T : \A y \in T : x <= y
<1>1. PICK x \in T : \A y \in T : ~ (<<y, x>> \in Less)
  BY LessWellFounded, WFMin, Zenon
<1>2. \A y \in T : y \in Nat /\ x \in Nat /\ ~ (y < x)
  BY <1>1, LessMeans
<1> QED BY <1>2

LEMMA SetInduction ==
    ASSUME NEW S, 0 \in S, \A n \in Nat : n \in S => n + 1 \in S
    PROVE  \A n \in Nat : n \in S
<1> SUFFICES ASSUME Nat \ S # {} PROVE FALSE
  OBVIOUS
<1>1. PICK x \in Nat \ S : \A y \in Nat \ S : x <= y
  <2>1. Nat \ S \subseteq Nat
    OBVIOUS
  <2> QED BY <2>1, LeastOf, Zenon
<1>2. x - 1 \in Nat /\ x - 1 \notin Nat \ S
  BY <1>1
<1> QED BY <1>1, <1>2

-----------------------------------------------------------------------------
(* What Ends is of the lacing values x.                                    *)
EndsOf(e, x) ==
    /\ Len(e) \in Nat /\ DOMAIN e = 1..Len(e)
    /\ \A j \in DOMAIN e : e[j] \in DOMAIN x /\ x[e[j]].end
    /\ \A i, j \in DOMAIN e : i < j => e[i] < e[j]
    /\ \A i \in DOMAIN x : x[i].end => \E j \in DOMAIN e : e[j] = i

LEMMA EndsCounted ==
    ASSUME NEW pg
    PROVE  /\ EndsUpTo(pg, 0) = 0
           /\ \A k \in Nat : /\ EndsUpTo(pg, k) \in Nat
                             /\ EndsUpTo(pg, k + 1) =
                                  IF pg.segs[k + 1].end THEN EndsUpTo(pg, k) + 1
                                  ELSE EndsUpTo(pg, k)
<1> DEFINE E(k) == {i \in 1..k : pg.segs[i].end}
<1>1. \A k \in Nat : IsFiniteSet(E(k)) /\ Cardinality(E(k)) \in Nat
  <2> SUFFICES ASSUME NEW k \in Nat PROVE IsFiniteSet(E(k)) /\ Cardinality(E(k)) \in Nat
    OBVIOUS
  <2>1. IsFiniteSet(1..k)
    BY FS_Interval
  <2>2. E(k) \in SUBSET (1..k)
    OBVIOUS
  <2>3. IsFiniteSet(E(k))
    BY <2>1, <2>2, FS_Subset
  <2> QED BY <2>3, FS_CardinalityType
<1>2. E(0) = {}
  OBVIOUS
<1>3. ASSUME NEW k \in Nat
      PROVE  Cardinality(E(k + 1)) =
               IF pg.segs[k + 1].end THEN Cardinality(E(k)) + 1 ELSE Cardinality(E(k))
  <2>1. 1..(k + 1) = 1..k \cup {k + 1} /\ k + 1 \notin 1..k
    OBVIOUS
  <2>2. CASE pg.segs[k + 1].end
    <3>1. E(k + 1) = E(k) \cup {k + 1} /\ k + 1 \notin E(k)
      BY <2>1, <2>2
    <3> QED BY <1>1, <2>2, <3>1, FS_AddElement
  <2>3. CASE ~pg.segs[k + 1].end
    <3>1. E(k + 1) = E(k)
      BY <2>1, <2>3
    <3> QED BY <2>3, <3>1
  <2> QED BY <2>2, <2>3
<1>4. \A k \in Nat : EndsUpTo(pg, k) = Cardinality(E(k))
  BY DEF EndsUpTo
<1>5. EndsUpTo(pg, 0) = 0
  BY <1>2, FS_EmptySet DEF EndsUpTo
<1> HIDE DEF E
<1> QED BY <1>1, <1>3, <1>4, <1>5

(* The count grows exactly at the ends.                                    *)
LEMMA EndsGrow ==
    ASSUME NEW pg, NEW i \in Nat
    PROVE  \A k \in Nat : i <= k =>
             /\ EndsUpTo(pg, i) <= EndsUpTo(pg, k)
             /\ i < k /\ pg.segs[k].end => EndsUpTo(pg, i) < EndsUpTo(pg, k)
<1> DEFINE T == {d \in Nat : /\ EndsUpTo(pg, i) <= EndsUpTo(pg, i + d)
                             /\ d > 0 /\ pg.segs[i + d].end =>
                                  EndsUpTo(pg, i) < EndsUpTo(pg, i + d)}
<1>1. 0 \in T
  <2>1. EndsUpTo(pg, i) \in Nat
    BY EndsCounted
  <2>2. i + 0 = i
    OBVIOUS
  <2> QED BY <2>1, <2>2
<1>2. ASSUME NEW d \in Nat, d \in T PROVE d + 1 \in T
  <2>1. i + (d + 1) = (i + d) + 1 /\ i + d \in Nat
    OBVIOUS
  <2>2. /\ EndsUpTo(pg, i + d) \in Nat /\ EndsUpTo(pg, i) \in Nat
        /\ EndsUpTo(pg, (i + d) + 1) = IF pg.segs[(i + d) + 1].end THEN EndsUpTo(pg, i + d) + 1
                                       ELSE EndsUpTo(pg, i + d)
    BY <2>1, EndsCounted
  <2>3. EndsUpTo(pg, i) <= EndsUpTo(pg, i + d)
    BY <1>2
  <2> QED BY <2>1, <2>2, <2>3
<1> HIDE DEF T
<1>3. \A d \in Nat : d \in T
  BY <1>1, <1>2, SetInduction
<1>4. ASSUME NEW k \in Nat, i <= k
      PROVE  /\ EndsUpTo(pg, i) <= EndsUpTo(pg, k)
             /\ i < k /\ pg.segs[k].end => EndsUpTo(pg, i) < EndsUpTo(pg, k)
  <2>1. k - i \in Nat /\ i + (k - i) = k /\ (i < k => k - i > 0)
    BY <1>4
  <2> QED BY <1>3, <2>1 DEF T
<1> QED BY <1>4

LEMMA EndsAre ==
    ASSUME NEW pg, Len(pg.segs) \in Nat, DOMAIN pg.segs = 1..Len(pg.segs)
    PROVE  EndsOf(Ends(pg), pg.segs)
<1> DEFINE x == pg.segs
           n == Len(pg.segs)
           C(k) == EndsUpTo(pg, k)
           e == Ends(pg)
<1>1. /\ C(0) = 0
      /\ \A k \in Nat : C(k) \in Nat /\ C(k + 1) = IF x[k + 1].end THEN C(k) + 1 ELSE C(k)
  BY EndsCounted
<1>2. \A i, k \in Nat : i <= k => C(i) <= C(k) /\ (i < k /\ x[k].end => C(i) < C(k))
  BY EndsGrow
<1>3. /\ C(n) \in Nat
      /\ e = [j \in 1..C(n) |-> CHOOSE k \in DOMAIN x : x[k].end /\ C(k) = j]
  BY <1>1 DEF Ends
<1> HIDE DEF C, e, x, n
<1>0. n \in Nat /\ DOMAIN x = 1..n
  BY DEF n, x
<1>4. Len(e) = C(n) /\ DOMAIN e = 1..C(n)
  BY <1>3
<1>5. ASSUME NEW j \in 1..C(n)
      PROVE  \E k \in DOMAIN x : x[k].end /\ C(k) = j
  <2> DEFINE T == {k \in Nat : C(k) >= j}
  <2>1. T \subseteq Nat /\ T # {}
    <3>1. n \in T
      BY <1>0, <1>3
    <3> QED BY <3>1
  <2>2. PICK k \in T : \A i \in T : k <= i
    BY <2>1, LeastOf
  <2>3. k \in Nat /\ C(k) >= j /\ k # 0
    BY <1>1, <2>2
  <2>4. k - 1 \in Nat /\ (k - 1) + 1 = k
    BY <2>3
  <2>5. ~(C(k - 1) >= j)
    <3>1. k - 1 \notin T
      BY <2>2, <2>3, <2>4
    <3> QED BY <2>4, <3>1
  <2>6. x[k].end /\ C(k) = j
    <3>1. C(k - 1) \in Nat /\ C(k) = IF x[k].end THEN C(k - 1) + 1 ELSE C(k - 1)
      BY <1>1, <2>4
    <3> QED BY <2>3, <2>5, <3>1
  <2>7. k \in DOMAIN x
    <3>1. n \in T
      BY <1>0, <1>3
    <3> QED BY <1>0, <2>2, <2>3, <3>1
  <2> QED BY <2>6, <2>7
<1>6. \A j \in 1..C(n) : e[j] \in DOMAIN x /\ x[e[j]].end /\ C(e[j]) = j
  <2> SUFFICES ASSUME NEW j \in 1..C(n)
               PROVE  e[j] \in DOMAIN x /\ x[e[j]].end /\ C(e[j]) = j
    OBVIOUS
  <2>1. e[j] = CHOOSE k \in DOMAIN x : x[k].end /\ C(k) = j
    BY <1>3
  <2> QED BY <1>5, <2>1, Zenon
<1>7. \A i, k \in DOMAIN x : x[i].end /\ x[k].end /\ C(i) < C(k) => i < k
  <2> SUFFICES ASSUME NEW i \in DOMAIN x, NEW k \in DOMAIN x, C(i) < C(k) PROVE i < k
    OBVIOUS
  <2>1. i \in Nat /\ k \in Nat
    BY <1>0
  <2>2. k <= i => C(k) <= C(i)
    BY <1>2, <2>1
  <2>3. C(i) \in Nat /\ C(k) \in Nat
    BY <1>1, <2>1
  <2> QED BY <2>1, <2>2, <2>3
<1>8. \A i, j \in DOMAIN e : i < j => e[i] < e[j]
  BY <1>4, <1>6, <1>7
<1>9. ASSUME NEW i \in DOMAIN x, x[i].end PROVE \E j \in DOMAIN e : e[j] = i
  <2>1. i \in Nat /\ i <= n /\ 0 < i
    BY <1>0
  <2>2. C(i) \in 1..C(n)
    <3>1. 0 \in Nat /\ 0 <= i
      BY <2>1
    <3>2. C(0) < C(i) /\ C(i) <= C(n)
      BY <1>0, <1>2, <1>9, <2>1, <3>1
    <3>3. C(i) \in Nat
      BY <1>1, <2>1
    <3> QED BY <1>1, <1>3, <3>2, <3>3
  <2>3. e[C(i)] \in DOMAIN x /\ x[e[C(i)]].end /\ C(e[C(i)]) = C(i)
    BY <1>6, <2>2
  <2>4. e[C(i)] = i
    <3>1. ~(C(i) < C(i))
      BY <2>2
    <3>2. ~(e[C(i)] < i) /\ ~(i < e[C(i)])
      <4>1. e[C(i)] \in Nat
        BY <1>0, <2>3
      <4> QED BY <1>2, <1>9, <2>1, <2>3, <3>1, <4>1
    <3> QED BY <1>0, <2>1, <2>3, <3>2
  <2> QED BY <1>4, <2>2, <2>4
<1>10. EndsOf(e, x)
  BY <1>3, <1>4, <1>6, <1>8, <1>9 DEF EndsOf
<1> QED BY <1>10 DEF e, x

-----------------------------------------------------------------------------
(* The lacing values there are, and their order on the wire.               *)
Values == {t \in Seg : /\ t.k \in 1..Sent[t.pkt].laces
                       /\ t.end <=> t.k = Sent[t.pkt].laces}
UpTo(s, t) == s = t \/ Before(s, t)

LEMMA ValuesOrdered ==
    /\ \A s, t, u \in Values : Before(s, t) /\ Before(t, u) => Before(s, u)
    /\ \A s, t \in Values : ~ (Before(s, t) /\ UpTo(t, s))
    /\ \A s, t \in Values : Before(s, t) /\ s.end /\ t.end => s.pkt < t.pkt
<1>1. \A t \in Values : /\ t.pkt \in Nat /\ t.k \in Nat
                        /\ t.end => t.k = Sent[t.pkt].laces
  BY ReaderConstants DEF Values, Seg
<1>2. \A s, t, u \in Values : Before(s, t) /\ Before(t, u) => Before(s, u)
  BY <1>1 DEF Before
<1>3. \A s, t \in Values : ~ (Before(s, t) /\ UpTo(t, s))
  BY <1>1 DEF Before, UpTo
<1>4. \A s, t \in Values : Before(s, t) /\ s.end /\ t.end => s.pkt < t.pkt
  BY <1>1 DEF Before
<1> QED BY <1>2, <1>3, <1>4

(* A stretch of the stream as far as S of it was seen: from the start of a *)
(* packet, in order, and with all of S that lies between its ends.         *)
Ordered(x) == \A j \in DOMAIN x : \A i \in 1..(j - 1) : Before(x[i], x[j])
Divided(x) == \A j \in DOMAIN x : j > 1 => (x[j].k = 1 <=> x[j - 1].end)
Stretch(x, S) ==
    /\ x \in Seq(S) /\ Ordered(x) /\ Divided(x)
    /\ x # <<>> => /\ x[1].k = 1
                   /\ \A t \in S : UpTo(x[1], t) /\ UpTo(t, x[Len(x)]) => t \in Range(x)
AtEnd(x, S) == x # <<>> => \A t \in S : UpTo(t, x[Len(x)])
Unended(x) == \A j \in DOMAIN x : ~ x[j].end

(* A packet as it was put together.                                        *)
Whole(x, S) ==
    /\ Stretch(x, S) /\ x # <<>> /\ x[Len(x)].end
    /\ \A j \in DOMAIN x : x[j].end => j = Len(x)

LEMMA StretchStays ==
    ASSUME NEW S, NEW S2, S \subseteq S2, S2 \subseteq Values,
           \A u \in S : \A t \in S2 \ S : Before(u, t),
           NEW x, Stretch(x, S)
    PROVE  Stretch(x, S2)
<1>1. x \in Seq(S) /\ x \in Seq(S2) /\ (x # <<>> => Len(x) \in DOMAIN x)
  BY DEF Stretch
<1>2. ASSUME x # <<>>, NEW t \in S2, UpTo(x[1], t), UpTo(t, x[Len(x)])
      PROVE  t \in S
  <2>1. x[Len(x)] \in S
    BY <1>1, <1>2
  <2>2. t \notin S => Before(x[Len(x)], t)
    BY <2>1
  <2> QED BY <1>2, <2>1, <2>2, ValuesOrdered
<1>3. x # <<>> => \A t \in S : UpTo(x[1], t) /\ UpTo(t, x[Len(x)]) => t \in Range(x)
  BY DEF Stretch
<1>4. x # <<>> => \A t \in S2 : UpTo(x[1], t) /\ UpTo(t, x[Len(x)]) => t \in Range(x)
  BY <1>2, <1>3
<1> QED BY <1>1, <1>4 DEF Stretch

LEMMA WholeStays ==
    ASSUME NEW S, NEW S2, S \subseteq S2, S2 \subseteq Values,
           \A u \in S : \A t \in S2 \ S : Before(u, t),
           NEW x, Whole(x, S)
    PROVE  Whole(x, S2)
  BY StretchStays DEF Whole

(* A piece that starts where a packet does is a stretch too.               *)
LEMMA PieceOf ==
    ASSUME NEW S, S \subseteq Values, NEW z, Stretch(z, S),
           NEW a \in Nat, NEW b \in Nat, a <= b, b <= Len(z), a > 0 => z[a].end
    PROVE  LET x == SubSeq(z, a + 1, b)
           IN  /\ Stretch(x, S) /\ Len(x) = b - a
               /\ \A j \in 1..(b - a) : x[j] = z[a + j]
<1> DEFINE x == SubSeq(z, a + 1, b)
<1>1. z \in Seq(S) /\ Len(z) \in Nat /\ DOMAIN z = 1..Len(z)
  BY DEF Stretch
<1>2. Len(x) = b - a /\ \A j \in 1..(b - a) : x[j] = z[a + j]
  <2>1. Len(x) = b - a
    BY <1>1
  <2>2. \A j \in 1..(b - a) : x[j] = z[a + 1 + j - 1] /\ a + 1 + j - 1 = a + j
    BY <1>1
  <2> QED BY <2>1, <2>2
<1>3. x \in Seq(S)
  BY <1>1
<1> HIDE DEF x
<1>4. DOMAIN x = 1..(b - a)
  BY <1>2, <1>3
<1>5. Ordered(x)
  <2> SUFFICES ASSUME NEW j \in 1..(b - a), NEW i \in 1..(j - 1)
               PROVE  Before(x[i], x[j])
    BY <1>4 DEF Ordered
  <2>1. a + j \in DOMAIN z /\ a + i \in 1..((a + j) - 1) /\ i \in 1..(b - a)
    BY <1>1
  <2>2. Before(z[a + i], z[a + j])
    BY <2>1 DEF Stretch, Ordered
  <2> QED BY <1>2, <2>1, <2>2
<1>6. Divided(x)
  <2> SUFFICES ASSUME NEW j \in 1..(b - a), j > 1
               PROVE  x[j].k = 1 <=> x[j - 1].end
    BY <1>4 DEF Divided
  <2>1. a + j \in DOMAIN z /\ a + j > 1 /\ (a + j) - 1 = a + (j - 1) /\ j - 1 \in 1..(b - a)
    BY <1>1
  <2>2. z[a + j].k = 1 <=> z[(a + j) - 1].end
    BY <2>1 DEF Stretch, Divided
  <2>3. x[j] = z[a + j] /\ x[j - 1] = z[a + (j - 1)]
    BY <1>2, <2>1
  <2> QED BY <2>1, <2>2, <2>3
<1>7. ASSUME x # <<>>
      PROVE  /\ x[1].k = 1
             /\ \A t \in S : UpTo(x[1], t) /\ UpTo(t, x[Len(x)]) => t \in Range(x)
  <2>1. /\ b - a \in Nat /\ b - a >= 1 /\ 1 \in 1..(b - a) /\ b - a \in 1..(b - a)
        /\ a + (b - a) = b /\ a + 1 \in DOMAIN z /\ b \in DOMAIN z
        /\ 1 \in DOMAIN z /\ Len(z) \in DOMAIN z
    <3>1. b - a # 0
      BY <1>2, <1>3, <1>7
    <3> QED BY <1>1, <3>1
  <2>2. x[1] = z[a + 1] /\ x[Len(x)] = z[b]
    <3>1. x[b - a] = z[a + (b - a)] /\ x[1] = z[a + 1]
      BY <1>2, <2>1
    <3> QED BY <1>2, <2>1, <3>1
  <2>3. x[1].k = 1
    <3>1. CASE a = 0
      BY <2>1, <2>2, <3>1 DEF Stretch
    <3>2. CASE a > 0
      <4>1. z[a].end /\ (a + 1) - 1 = a /\ a + 1 > 1
        BY <3>2
      <4>2. z[a + 1].k = 1 <=> z[(a + 1) - 1].end
        BY <2>1, <4>1 DEF Stretch, Divided
      <4> QED BY <2>2, <4>1, <4>2
    <3> QED BY <3>1, <3>2
  <2>4. \A i \in DOMAIN z : z[i] \in Values /\ z[i] \in S
    BY <1>1
  <2>5. \A i, j \in DOMAIN z : i < j => Before(z[i], z[j])
    BY <1>1 DEF Stretch, Ordered
  <2>6. \A i, j \in DOMAIN z : UpTo(z[i], z[j]) => i <= j
    <3> SUFFICES ASSUME NEW i \in DOMAIN z, NEW j \in DOMAIN z, UpTo(z[i], z[j]) PROVE i <= j
      OBVIOUS
    <3>1. j < i => Before(z[j], z[i])
      BY <2>5
    <3>2. ~ (j < i)
      BY <2>4, <3>1, ValuesOrdered
    <3> QED BY <1>1, <3>2
  <2>7. ASSUME NEW t \in S, UpTo(x[1], t), UpTo(t, x[Len(x)])
        PROVE  t \in Range(x)
    <3>1. UpTo(z[1], t) /\ UpTo(t, z[Len(z)])
      <4>1. UpTo(z[1], z[a + 1]) /\ UpTo(z[b], z[Len(z)])
        <5>1. (1 < a + 1 \/ 1 = a + 1) /\ (b < Len(z) \/ b = Len(z))
          <6>1. Len(z) \in Nat /\ b <= Len(z)
            BY <1>1
          <6> QED BY <6>1
        <5>2. 1 < a + 1 => Before(z[1], z[a + 1])
          BY <2>1, <2>5
        <5>3. b < Len(z) => Before(z[b], z[Len(z)])
          BY <2>1, <2>5
        <5> QED BY <5>1, <5>2, <5>3 DEF UpTo
      <4>2. t \in Values
        OBVIOUS
      <4> QED BY <2>1, <2>2, <2>4, <2>7, <4>1, <4>2, ValuesOrdered DEF UpTo
    <3>2. t \in Range(z)
      <4>1. z # <<>>
        BY <1>1, <2>1
      <4> QED BY <3>1, <4>1 DEF Stretch
    <3>3. PICK i \in DOMAIN z : z[i] = t
      BY <3>2 DEF Range
    <3>4. a + 1 <= i /\ i <= b
      BY <2>1, <2>2, <2>6, <2>7, <3>3
    <3>5. i - a \in 1..(b - a) /\ a + (i - a) = i
      BY <1>1, <3>4
    <3>6. x[i - a] = t
      BY <1>2, <3>3, <3>5
    <3> QED BY <1>4, <3>5, <3>6 DEF Range
  <2> QED BY <2>3, <2>7
<1> QED BY <1>2, <1>3, <1>5, <1>6, <1>7 DEF Stretch, x

(* What was unfinished, and the page that goes on with it.                 *)
LEMMA JoinedStretch ==
    ASSUME NEW S, S \subseteq Values, NEW c, Stretch(c, S), AtEnd(c, S), Unended(c),
           NEW y \in Seq(Values), Ordered(y), Divided(y),
           \A t \in S : \A u \in Range(y) : Before(t, u),
           y # <<>> => (y[1].k = 1 <=> c = <<>>)
    PROVE  /\ Stretch(c \o y, S \cup Range(y)) /\ AtEnd(c \o y, S \cup Range(y))
           /\ S \cup Range(y) \subseteq Values
<1> DEFINE S2 == S \cup Range(y)
           m == Len(c)
           n == Len(y)
           z == c \o y
<1>1. /\ c \in Seq(S) /\ m \in Nat /\ DOMAIN c = 1..m /\ n \in Nat /\ DOMAIN y = 1..n
      /\ (m = 0 <=> c = <<>>) /\ (n = 0 <=> y = <<>>)
  BY DEF Stretch
<1>2. \A j \in 1..n : y[j] \in Values /\ y[j] \in Range(y)
  BY <1>1 DEF Range
<1>3. S2 \subseteq Values /\ Range(y) \subseteq Values
  BY <1>1, <1>2 DEF Range
<1>4. c \in Seq(S2) /\ y \in Seq(S2)
  <2>1. y \in Seq(Range(y))
    BY <1>1, <1>2
  <2> QED BY <1>1, <2>1
<1>5. /\ z \in Seq(S2) /\ Len(z) = m + n
      /\ \A j \in 1..m : z[j] = c[j]
      /\ \A j \in 1..n : z[m + j] = y[j]
  BY <1>1, <1>4
<1> HIDE DEF z
<1>6. DOMAIN z = 1..(m + n)
  BY <1>1, <1>5
<1>7. \A j \in 1..m : c[j] \in S /\ c[j] \in Values
  BY <1>1
<1>8. \A i \in 1..m, j \in 1..n : Before(c[i], y[j])
  BY <1>2, <1>7
<1>9. Ordered(z)
  <2> SUFFICES ASSUME NEW j \in 1..(m + n), NEW i \in 1..(j - 1)
               PROVE  Before(z[i], z[j])
    BY <1>6 DEF Ordered
  <2>1. CASE j <= m
    <3>1. j \in DOMAIN c /\ i \in 1..m
      BY <1>1, <2>1
    <3>2. Before(c[i], c[j])
      BY <3>1 DEF Stretch, Ordered
    <3> QED BY <1>1, <1>5, <3>1, <3>2
  <2>2. CASE ~ (j <= m) /\ i <= m
    <3>1. i \in 1..m /\ j - m \in 1..n /\ m + (j - m) = j
      BY <1>1, <2>2
    <3>2. Before(c[i], y[j - m])
      BY <1>8, <3>1
    <3>3. z[m + (j - m)] = y[j - m]
      BY <1>5, <3>1
    <3> QED BY <1>5, <3>1, <3>2, <3>3
  <2>3. CASE ~ (i <= m)
    <3>1. /\ j - m \in 1..n /\ m + (j - m) = j /\ i - m \in 1..n /\ m + (i - m) = i
          /\ i - m \in 1..((j - m) - 1)
      BY <1>1, <2>3
    <3>2. Before(y[i - m], y[j - m])
      BY <1>1, <3>1 DEF Ordered
    <3>3. z[m + (j - m)] = y[j - m] /\ z[m + (i - m)] = y[i - m]
      BY <1>5, <3>1
    <3> QED BY <3>1, <3>2, <3>3
  <2> QED BY <2>1, <2>2, <2>3
<1>10. Divided(z)
  <2> SUFFICES ASSUME NEW j \in 1..(m + n), j > 1
               PROVE  z[j].k = 1 <=> z[j - 1].end
    BY <1>6 DEF Divided
  <2>1. CASE j <= m
    <3>1. j \in DOMAIN c /\ j - 1 \in 1..m /\ j \in 1..m
      BY <1>1, <2>1
    <3>2. c[j].k = 1 <=> c[j - 1].end
      BY <3>1 DEF Stretch, Divided
    <3> QED BY <1>5, <3>1, <3>2
  <2>2. CASE j = m + 1
    <3>1. m \in 1..m /\ 1 \in 1..n /\ c # <<>> /\ y # <<>> /\ m \in DOMAIN c
      BY <1>1, <2>2
    <3>2. z[m + 1] = y[1] /\ z[m] = c[m]
      BY <1>5, <3>1
    <3>3. ~ c[m].end /\ ~ (y[1].k = 1)
      BY <3>1 DEF Unended
    <3>4. j - 1 = m
      BY <1>1, <2>2
    <3> QED BY <2>2, <3>2, <3>3, <3>4
  <2>3. CASE j > m + 1
    <3>1. /\ j - m \in 1..n /\ m + (j - m) = j /\ j - m > 1 /\ (j - m) - 1 \in 1..n
          /\ m + ((j - m) - 1) = j - 1
      BY <1>1, <2>3
    <3>2. y[j - m].k = 1 <=> y[(j - m) - 1].end
      BY <1>1, <3>1 DEF Divided
    <3>3. z[m + (j - m)] = y[j - m] /\ z[m + ((j - m) - 1)] = y[(j - m) - 1]
      BY <1>5, <3>1
    <3> QED BY <3>1, <3>2, <3>3
  <2> QED BY <1>1, <2>1, <2>2, <2>3
<1>11. ASSUME z # <<>> PROVE z[1].k = 1
  <2>1. CASE m = 0
    <3>1. 1 \in 1..n /\ y # <<>> /\ c = <<>> /\ m + 1 = 1
      BY <1>1, <1>5, <1>11, <2>1
    <3>2. z[m + 1] = y[1]
      BY <1>5, <3>1
    <3> QED BY <3>1, <3>2
  <2>2. CASE m # 0
    <3>1. 1 \in 1..m /\ c # <<>>
      BY <1>1, <2>2
    <3> QED BY <1>5, <3>1 DEF Stretch
  <2> QED BY <2>1, <2>2
<1>12. Range(y) \subseteq Range(z) /\ Range(c) \subseteq Range(z)
  <2>1. \A j \in 1..n : m + j \in 1..(m + n)
    BY <1>1
  <2>2. \A j \in 1..m : j \in 1..(m + n)
    BY <1>1
  <2>3. \A t \in Range(y) : t \in Range(z)
    <3> SUFFICES ASSUME NEW j \in 1..n PROVE y[j] \in Range(z)
      BY <1>1 DEF Range
    <3> QED BY <1>5, <1>6, <2>1 DEF Range
  <2>4. \A t \in Range(c) : t \in Range(z)
    <3> SUFFICES ASSUME NEW j \in 1..m PROVE c[j] \in Range(z)
      BY <1>1 DEF Range
    <3> QED BY <1>5, <1>6, <2>2 DEF Range
  <2> QED BY <2>3, <2>4
<1>13. ASSUME z # <<>>, NEW t \in S2, UpTo(z[1], t)
       PROVE  t \in Range(z)
  <2> SUFFICES ASSUME t \in S, t \notin Range(y) PROVE t \in Range(z)
    BY <1>12
  <2>1. CASE m = 0
    <3>1. 1 \in 1..n /\ m + 1 = 1
      BY <1>1, <1>5, <1>13, <2>1
    <3>2. z[1] = y[1] /\ y[1] \in Range(y) /\ y[1] \in Values
      BY <1>2, <1>5, <3>1
    <3>3. Before(t, y[1]) /\ t \in Values
      BY <3>2
    <3> QED BY <1>13, <3>2, <3>3, ValuesOrdered
  <2>2. CASE m # 0
    <3>1. 1 \in 1..m /\ c # <<>>
      BY <1>1, <2>2
    <3>2. UpTo(c[1], t) /\ UpTo(t, c[Len(c)])
      BY <1>5, <1>13, <3>1 DEF AtEnd
    <3>3. t \in Range(c)
      BY <3>1, <3>2 DEF Stretch
    <3> QED BY <1>12, <3>3
  <2> QED BY <2>1, <2>2
<1>14. AtEnd(z, S2)
  <2> SUFFICES ASSUME z # <<>>, NEW t \in S2 PROVE UpTo(t, z[Len(z)])
    BY DEF AtEnd
  <2>1. CASE n = 0
    <3>1. m \in 1..m /\ c # <<>> /\ Len(z) = m
      BY <1>1, <1>5, <2>1
    <3>2. t \in S
      <4>1. Range(y) = {}
        BY <1>1, <2>1 DEF Range
      <4> QED BY <4>1
    <3>3. UpTo(t, c[Len(c)])
      BY <3>1, <3>2 DEF AtEnd
    <3> QED BY <1>5, <3>1, <3>3
  <2>2. CASE n # 0
    <3>1. n \in 1..n
      BY <1>1, <2>2
    <3>2. z[Len(z)] = y[n] /\ y[n] \in Range(y)
      BY <1>2, <1>5, <3>1
    <3>3. t \in S => Before(t, y[n])
      BY <3>2
    <3>4. t \in Range(y) => UpTo(t, y[n])
      <4> SUFFICES ASSUME NEW j \in 1..n PROVE UpTo(y[j], y[n])
        BY <1>1 DEF Range
      <4>1. j = n \/ j \in 1..(n - 1)
        <5>1. n \in Nat
          BY <1>1
        <5> HIDE DEF n
        <5> QED BY <5>1
      <4>2. n \in DOMAIN y
        BY <1>1, <3>1
      <4> QED BY <4>1, <4>2 DEF Ordered, UpTo
    <3> QED BY <3>2, <3>3, <3>4 DEF UpTo
  <2> QED BY <2>1, <2>2
<1> QED BY <1>3, <1>5, <1>9, <1>10, <1>11, <1>13, <1>14 DEF Stretch, z

(* Numbers that increase and leave none out are the numbers themselves.    *)
Counts(f, n, m) ==
    /\ \A j \in 1..n : f[j] \in 1..m
    /\ \A i, j \in 1..n : i < j => f[i] < f[j]
    /\ \A k \in 1..m : \E j \in 1..n : f[j] = k

LEMMA IncreasingOnto ==
    ASSUME NEW n \in Nat, NEW m \in Nat, NEW f, Counts(f, n, m)
    PROVE  n = m /\ \A j \in 1..n : f[j] = j
<1>0. /\ \A j \in 1..n : f[j] \in 1..m
      /\ \A i, j \in 1..n : i < j => f[i] < f[j]
      /\ \A k \in 1..m : \E j \in 1..n : f[j] = k
  BY DEF Counts
<1> DEFINE T == {j \in Nat : j \in 1..n => f[j] = j}
<1>1. 0 \in T
  OBVIOUS
<1>2. ASSUME NEW j \in Nat, j \in T PROVE j + 1 \in T
  <2> SUFFICES ASSUME j + 1 \in 1..n PROVE f[j + 1] = j + 1
    OBVIOUS
  <2>1. f[j + 1] \in 1..m
    BY <1>0
  <2>2. j # 0 => f[j] = j /\ f[j] < f[j + 1]
    BY <1>0, <1>2
  <2>3. f[j + 1] >= j + 1
    BY <2>1, <2>2
  <2>4. j + 1 \in 1..m
    BY <2>1, <2>3
  <2>5. PICK i \in 1..n : f[i] = j + 1
    BY <1>0, <2>4
  <2>6. ~ (i < j + 1)
    <3> SUFFICES ASSUME i < j + 1 PROVE FALSE
      OBVIOUS
    <3>1. j # 0 /\ (i < j \/ i = j) /\ j \in 1..n
      OBVIOUS
    <3>2. i < j => f[i] < f[j]
      BY <1>0, <3>1
    <3>3. f[i] \in 1..m
      BY <1>0
    <3> QED BY <2>2, <2>5, <3>1, <3>2, <3>3
  <2>7. j + 1 < i => f[j + 1] < f[i]
    BY <1>0
  <2> QED BY <2>1, <2>3, <2>5, <2>6, <2>7
<1> HIDE DEF T
<1>3. \A j \in Nat : j \in T
  BY <1>1, <1>2, SetInduction
<1>4. \A j \in 1..n : f[j] = j
  BY <1>3 DEF T
<1>5. n = m
  <2>1. n # 0 => n <= m
    <3>1. n # 0 => n \in 1..n
      OBVIOUS
    <3> QED BY <1>0, <1>4, <3>1
  <2>2. m # 0 => m <= n
    <3>1. m # 0 => m \in 1..m
      OBVIOUS
    <3> QED BY <1>0, <1>4, <3>1
  <2> QED BY <2>1, <2>2
<1> QED BY <1>4, <1>5

LEMMA LacingValues ==
    ASSUME NEW p \in DOMAIN Sent
    PROVE  LET m == Sent[p].laces
           IN  /\ p \in Nat /\ m \in Nat \ {0} /\ DOMAIN Lacing(p) = 1..m
               /\ Lacing(p) \in Seq(Values) /\ Len(Lacing(p)) = m
               /\ \A k \in 1..m : LET v == Lacing(p)[k]
                                  IN  /\ v.pkt = p /\ v.k = k /\ (v.end <=> k = m)
                                      /\ \A u \in Values : u.pkt = p /\ u.k = k => u = v
<1> DEFINE m == Sent[p].laces
<1>1. p \in Nat /\ m \in Nat \ {0}
  <2>1. Sent \in Seq([laces: Nat \ {0}, granule: Nat])
    BY ReaderConstants
  <2> DEFINE R == [laces: Nat \ {0}, granule: Nat]
  <2>2. \A r \in R : r.laces \in Nat \ {0}
    OBVIOUS
  <2>3. Sent \in Seq(R)
    BY <2>1
  <2> HIDE DEF R
  <2>4. Sent[p] \in R /\ p \in Nat
    BY <2>3
  <2> QED BY <2>2, <2>4
<1> HIDE DEF m
<1>2. \A k \in 1..m : Lacing(p)[k] = [pkt |-> p, k |-> k, end |-> k = m]
  BY DEF Lacing, m
<1>3. \A k \in 1..m : /\ [pkt |-> p, k |-> k, end |-> k = m] \in Seg
                      /\ [pkt |-> p, k |-> k, end |-> k = m].pkt = p
                      /\ [pkt |-> p, k |-> k, end |-> k = m].k = k
                      /\ [pkt |-> p, k |-> k, end |-> k = m].end <=> k = m
  <2> SUFFICES ASSUME NEW k \in 1..m
               PROVE  /\ [pkt |-> p, k |-> k, end |-> k = m] \in Seg
                      /\ [pkt |-> p, k |-> k, end |-> k = m].pkt = p
                      /\ [pkt |-> p, k |-> k, end |-> k = m].k = k
                      /\ [pkt |-> p, k |-> k, end |-> k = m].end <=> k = m
    OBVIOUS
  <2>1. PICK b \in BOOLEAN : b = (k = m)
    OBVIOUS
  <2>2. [pkt |-> p, k |-> k, end |-> b] \in Seg
    BY <1>1 DEF Seg
  <2> QED BY <2>1, <2>2
<1>4. \A k \in 1..m : LET v == Lacing(p)[k]
                      IN  v \in Seg /\ v.pkt = p /\ v.k = k /\ (v.end <=> k = m)
  <2> SUFFICES ASSUME NEW k \in 1..m
               PROVE  LET v == Lacing(p)[k]
                      IN  v \in Seg /\ v.pkt = p /\ v.k = k /\ (v.end <=> k = m)
    OBVIOUS
  <2>1. PICK v : v = [pkt |-> p, k |-> k, end |-> k = m]
    OBVIOUS
  <2>2. v \in Seg /\ v.pkt = p /\ v.k = k /\ (v.end <=> k = m)
    BY <1>3, <2>1, Zenon
  <2>3. Lacing(p)[k] = v
    BY <1>2, <2>1, Zenon
  <2> QED BY <2>2, <2>3
<1>5. \A k \in 1..m : Lacing(p)[k] \in Values
  BY <1>1, <1>4 DEF Values, m
<1>6. \A k \in 1..m : \A u \in Values : u.pkt = p /\ u.k = k => u = Lacing(p)[k]
  <2> SUFFICES ASSUME NEW k \in 1..m, NEW u \in Values, u.pkt = p, u.k = k
               PROVE  u = Lacing(p)[k]
    OBVIOUS
  <2> DEFINE v == Lacing(p)[k]
  <2>1. u \in Seg /\ v \in Seg
    BY <1>4 DEF Values
  <2>2. u.end <=> k = m
    BY DEF Values, m
  <2>3. v.pkt = p /\ v.k = k /\ (v.end <=> k = m)
    BY <1>4
  <2> HIDE DEF v
  <2>4. u.end = v.end
    BY <2>1, <2>2, <2>3 DEF Seg
  <2> QED BY <2>1, <2>3, <2>4 DEF Seg, v
<1>7. DOMAIN Lacing(p) = 1..m /\ Len(Lacing(p)) = m
  BY <1>1 DEF Lacing, m
<1>8. Lacing(p) \in Seq(Values)
  <2>1. Lacing(p) = [k \in 1..m |-> Lacing(p)[k]]
    BY DEF Lacing, m
  <2> QED BY <1>1, <1>5, <2>1
<1> QED BY <1>1, <1>4, <1>6, <1>7, <1>8 DEF m

(* A packet all of which was seen is returned as it was sent.              *)
LEMMA WholePacket ==
    ASSUME NEW S, S \subseteq Values, NEW x, Whole(x, S),
           \A k \in 1..Sent[x[Len(x)].pkt].laces : Lacing(x[Len(x)].pkt)[k] \in S
    PROVE  x = Lacing(x[Len(x)].pkt)
<1> DEFINE n == Len(x)
           p == x[n].pkt
           m == Sent[p].laces
           w == Lacing(p)
<1>1. /\ x \in Seq(S) /\ n \in Nat /\ n # 0 /\ DOMAIN x = 1..n /\ n \in 1..n /\ 1 \in 1..n
      /\ x[n].end /\ x[1].k = 1 /\ x # <<>>
  <2>1. x \in Seq(S) /\ x # <<>> /\ x[n].end /\ x[1].k = 1
    BY DEF Whole, Stretch
  <2>2. n \in Nat /\ n # 0 /\ DOMAIN x = 1..n
    BY <2>1
  <2> QED BY <2>1, <2>2
<1>2. \A j \in 1..n : x[j] \in Values /\ x[j] \in S
  BY <1>1
<1>3. p \in DOMAIN Sent /\ x[n].k = m /\ \A j \in 1..n : x[j].pkt \in Nat /\ x[j].k \in Nat
  <2>1. DOMAIN Sent \subseteq Nat
    BY ReaderConstants
  <2>2. \A j \in 1..n : x[j].pkt \in DOMAIN Sent /\ x[j].k \in Nat
    BY <1>2 DEF Values, Seg
  <2> QED BY <1>1, <1>2, <2>1, <2>2 DEF Values
<1>4. /\ p \in Nat /\ m \in Nat \ {0} /\ DOMAIN w = 1..m /\ w \in Seq(Values)
      /\ \A k \in 1..m : w[k].pkt = p /\ w[k].k = k /\ (w[k].end <=> k = m)
      /\ \A k \in 1..m : \A u \in Values : u.pkt = p /\ u.k = k => u = w[k]
  BY <1>3, LacingValues
<1>5. \A k \in 1..m : w[k] \in S /\ w[k] \in Values
  OBVIOUS
<1>6. \A i, j \in 1..n : i < j => Before(x[i], x[j])
  BY <1>1 DEF Whole, Stretch, Ordered
<1>7. \A j \in 1..n : x[j].k = 1 => j = 1
  <2> SUFFICES ASSUME NEW j \in 1..n, x[j].k = 1, j > 1 PROVE FALSE
    BY <1>1
  <2>1. j - 1 \in 1..n /\ j - 1 # n
    BY <1>1
  <2>2. x[j - 1].end
    BY <1>1 DEF Whole, Stretch, Divided
  <2> QED BY <1>1, <2>1, <2>2 DEF Whole
<1>8. \A t \in S : UpTo(x[1], t) /\ UpTo(t, x[n]) => \E j \in 1..n : x[j] = t
  <2>1. \A t \in S : UpTo(x[1], t) /\ UpTo(t, x[n]) => t \in Range(x)
    BY <1>1 DEF Whole, Stretch
  <2> QED BY <1>1, <2>1 DEF Range
<1> HIDE DEF n, p, m, w
<1>9. \A k \in 1..m : UpTo(w[k], x[n])
  <2> SUFFICES ASSUME NEW k \in 1..m PROVE UpTo(w[k], x[n])
    OBVIOUS
  <2>1. CASE k = m
    <3>1. x[n] = w[k]
      BY <1>1, <1>2, <1>3, <1>4, <2>1 DEF p
    <3> QED BY <3>1 DEF UpTo
  <2>2. CASE k # m
    <3>1. w[k].pkt = x[n].pkt /\ w[k].k < x[n].k
      BY <1>3, <1>4, <2>2 DEF p
    <3> QED BY <3>1 DEF Before, UpTo
  <2> QED BY <2>1, <2>2
<1>10. x[1].pkt = p
  <2>1. x[1].pkt <= p
    <3>1. CASE n = 1
      BY <1>3, <1>4, <3>1 DEF p
    <3>2. CASE n # 1
      <4>1. Before(x[1], x[n])
        BY <1>1, <1>6, <3>2
      <4> QED BY <1>1, <1>3, <1>4, <4>1 DEF Before, p
    <3> QED BY <3>1, <3>2
  <2>2. ~ (x[1].pkt < p)
    <3> SUFFICES ASSUME x[1].pkt < p PROVE FALSE
      OBVIOUS
    <3>1. 1 \in 1..m /\ w[1].pkt = p /\ w[1].k = 1
      BY <1>4
    <3>2. UpTo(x[1], w[1])
      BY <3>1 DEF Before, UpTo
    <3>3. PICK j \in 1..n : x[j] = w[1]
      BY <1>5, <1>8, <1>9, <3>1, <3>2
    <3>4. j = 1
      BY <1>7, <3>1, <3>3
    <3> QED BY <1>1, <1>3, <3>1, <3>3, <3>4
  <2> QED BY <1>1, <1>3, <1>4, <2>1, <2>2
<1>11. \A j \in 1..n : x[j].pkt = p
  <2> SUFFICES ASSUME NEW j \in 1..n PROVE x[j].pkt = p
    OBVIOUS
  <2>1. j # 1 => Before(x[1], x[j])
    BY <1>1, <1>6
  <2>2. j # n => Before(x[j], x[n])
    BY <1>1, <1>6
  <2> QED BY <1>1, <1>3, <1>4, <1>10, <2>1, <2>2 DEF Before, p
<1>12. \A j \in 1..n : x[j].k \in 1..m /\ x[j] = w[x[j].k]
  <2> SUFFICES ASSUME NEW j \in 1..n PROVE x[j].k \in 1..m /\ x[j] = w[x[j].k]
    OBVIOUS
  <2>1. x[j].k \in 1..Sent[x[j].pkt].laces
    BY <1>2 DEF Values
  <2>2. x[j].k \in 1..m
    BY <1>11, <2>1 DEF m
  <2> QED BY <1>2, <1>4, <1>11, <2>2
<1> DEFINE f == [j \in 1..n |-> x[j].k]
<1>13. \A j \in 1..n : f[j] \in 1..m
  BY <1>12
<1>14. \A i, j \in 1..n : i < j => f[i] < f[j]
  BY <1>3, <1>4, <1>6, <1>11 DEF Before
<1>15. \A k \in 1..m : \E j \in 1..n : f[j] = k
  <2> SUFFICES ASSUME NEW k \in 1..m PROVE \E j \in 1..n : f[j] = k
    OBVIOUS
  <2>1. UpTo(x[1], w[k])
    <3>1. CASE k = 1
      BY <1>1, <1>2, <1>4, <1>10, <3>1 DEF UpTo
    <3>2. CASE k # 1
      <4>1. x[1].pkt = w[k].pkt /\ x[1].k < w[k].k
        BY <1>1, <1>4, <1>10, <3>2
      <4> QED BY <4>1 DEF Before, UpTo
    <3> QED BY <3>1, <3>2
  <2>2. PICK j \in 1..n : x[j] = w[k]
    BY <1>5, <1>8, <1>9, <2>1
  <2> QED BY <1>4, <2>2
<1>16. \A j \in 1..n : f[j] = x[j].k
  OBVIOUS
<1> HIDE DEF f
<1>17. n = m /\ \A j \in 1..n : f[j] = j
  <2>1. n \in Nat /\ m \in Nat
    BY <1>1, <1>4
  <2>2. Counts(f, n, m)
    BY <1>13, <1>14, <1>15 DEF Counts
  <2> QED BY <2>1, <2>2, IncreasingOnto
<1>18. \A j \in 1..n : x[j] = w[j]
  BY <1>12, <1>16, <1>17
<1>19. x = w
  <2>1. x \in Seq(Values)
    BY <1>1, <1>2
  <2>2. Len(w) = m
    BY <1>4
  <2> QED BY <1>1, <1>4, <1>17, <1>18, <2>1, <2>2 DEF n
<1> QED BY <1>19 DEF w, p, n

-----------------------------------------------------------------------------
(* One page, and what was unfinished before it.                            *)
LEMMA PageValues ==
    ASSUME NEW pg, MuxedPage(pg)
    PROVE  /\ pg.segs \in Seq(Values) /\ Len(pg.segs) \in Nat
           /\ DOMAIN pg.segs = 1..Len(pg.segs)
           /\ Ordered(pg.segs) /\ Divided(pg.segs) /\ EndsOf(Ends(pg), pg.segs)
           /\ pg.cont <=> pg.segs # <<>> /\ pg.segs[1].k # 1
<1> DEFINE x == pg.segs
<1>1. x \in Seq(Seg) /\ Len(x) \in Nat /\ DOMAIN x = 1..Len(x)
  BY DEF MuxedPage
<1>2. \A j \in 1..Len(x) : /\ x[j] \in Seg /\ x[j].k \in 1..Sent[x[j].pkt].laces
                           /\ x[j].end <=> x[j].k = Sent[x[j].pkt].laces
                           /\ \A i \in 1..(j - 1) : Before(x[i], x[j])
                           /\ j > 1 => (x[j].k = 1 <=> x[j - 1].end)
  BY <1>1, SMTT(30) DEF MuxedPage
<1>3. \A j \in 1..Len(x) : x[j] \in Values
  BY <1>2 DEF Values
<1>4. x \in Seq(Values)
  BY <1>1, <1>3
<1>5. Ordered(x) /\ Divided(x)
  BY <1>1, <1>2 DEF Ordered, Divided
<1>6. EndsOf(Ends(pg), x)
  BY <1>1, EndsAre
<1>7. x # <<>> => (x[1].k > 1 <=> x[1].k # 1)
  <2> SUFFICES ASSUME x # <<>> PROVE x[1].k > 1 <=> x[1].k # 1
    OBVIOUS
  <2>1. 1 \in 1..Len(x)
    BY <1>1
  <2>2. \A t \in Seg : t.k \in Nat
    BY DEF Seg
  <2>3. x[1].k \in Nat /\ x[1].k >= 1
    BY <1>2, <2>1, <2>2
  <2> QED BY <2>3
<1>8. pg.cont <=> x # <<>> /\ x[1].k # 1
  BY <1>7 DEF MuxedPage
<1> QED BY <1>1, <1>4, <1>5, <1>6, <1>8

LEMMA SubSeqAt ==
    ASSUME NEW V, NEW s \in Seq(V), NEW lo \in Nat, NEW hi \in Nat,
           1 <= lo, lo <= hi + 1, hi <= Len(s)
    PROVE  /\ SubSeq(s, lo, hi) \in Seq(V) /\ Len(SubSeq(s, lo, hi)) = hi - lo + 1
           /\ \A i \in 1..(hi - lo + 1) : SubSeq(s, lo, hi)[i] = s[lo + i - 1]
  OBVIOUS

(* Where the j-th packet of a page starts and ends, counted from the first *)
(* lacing value of what is carried over to it.                             *)
From(pg, c, j) == IF j = 1 THEN 0 ELSE Len(c) + Ends(pg)[j - 1]
Upto(pg, c, j) == Len(c) + Ends(pg)[j]

LEMMA CutAt ==
    ASSUME NEW V, NEW pg, pg.segs \in Seq(V), EndsOf(Ends(pg), pg.segs),
           NEW c \in Seq(V), NEW j \in DOMAIN Ends(pg)
    PROVE  LET a == From(pg, c, j)
               b == Upto(pg, c, j)
           IN  /\ PagePackets(pg, c)[j].segs = SubSeq(c \o pg.segs, a + 1, b)
               /\ a \in Nat /\ b \in Nat /\ a < b /\ b <= Len(c \o pg.segs)
<1> DEFINE x == pg.segs
           e == Ends(pg)
           m == Len(c)
           n == Len(x)
           a == From(pg, c, j)
           b == Upto(pg, c, j)
           z == c \o x
           q == PagePackets(pg, c)[j].segs
<1>1. x \in Seq(V) /\ n \in Nat /\ m \in Nat /\ DOMAIN x = 1..n /\ EndsOf(e, x)
  OBVIOUS
<1>2. /\ Len(e) \in Nat /\ j \in 1..Len(e) /\ e[j] \in 1..n
      /\ j # 1 => j - 1 \in 1..Len(e) /\ e[j - 1] \in 1..n /\ e[j - 1] < e[j]
  <2>1. Len(e) \in Nat /\ DOMAIN e = 1..Len(e)
    BY <1>1 DEF EndsOf
  <2>2. j \in 1..Len(e) /\ (j # 1 => j - 1 \in 1..Len(e) /\ j - 1 < j)
    BY <2>1
  <2>3. \A i \in DOMAIN e : e[i] \in 1..n
    BY <1>1 DEF EndsOf
  <2>4. \A i, l \in DOMAIN e : i < l => e[i] < e[l]
    BY <1>1 DEF EndsOf
  <2> QED BY <2>1, <2>2, <2>3, <2>4
<1>3. z \in Seq(V) /\ Len(z) = m + n
      /\ (\A i \in 1..m : z[i] = c[i]) /\ \A i \in 1..n : z[m + i] = x[i]
  BY <1>1
<1>4. a = (IF j = 1 THEN 0 ELSE m + e[j - 1]) /\ b = m + e[j]
  BY DEF From, Upto
<1>5. q = IF j = 1 THEN c \o SubSeq(x, 1, e[1]) ELSE SubSeq(x, e[j - 1] + 1, e[j])
  BY <1>2 DEF PagePackets
<1> HIDE DEF e, m, n, a, b, z, q, x
<1>6. a \in Nat /\ b \in Nat /\ a < b /\ b <= m + n
  <2>0. m \in Nat /\ n \in Nat /\ e[j] \in 1..n
    BY <1>1, <1>2
  <2>1. CASE j = 1
    <3>1. a = 0 /\ b = m + e[j]
      BY <1>4, <2>1
    <3> QED BY <2>0, <3>1
  <2>2. CASE j # 1
    <3>1. a = m + e[j - 1] /\ b = m + e[j] /\ e[j - 1] \in 1..n /\ e[j - 1] < e[j]
      BY <1>2, <1>4, <2>2
    <3> QED BY <2>0, <3>1, SMTT(30)
  <2> QED BY <2>1, <2>2
<1>7. q = SubSeq(z, a + 1, b)
  <2> DEFINE y == SubSeq(z, a + 1, b)
  <2>1. Len(y) = b - a /\ y \in Seq(V)
    BY <1>3, <1>6
  <2>2. \A i \in 1..(b - a) : y[i] = z[a + i]
    <3>1. \A i \in 1..(b - a) : y[i] = z[a + 1 + i - 1] /\ a + 1 + i - 1 = a + i
      BY <1>3, <1>6, SMTT(30)
    <3> QED BY <3>1
  <2> HIDE DEF y
  <2>3. CASE j = 1
    <3> DEFINE w == SubSeq(x, 1, e[1])
    <3>1. Len(w) = e[1] /\ w \in Seq(V) /\ e[1] \in 1..n /\ DOMAIN w = 1..e[1]
      BY <1>1, <1>2, <2>3 DEF n
    <3>2. \A i \in 1..e[1] : w[i] = x[i]
      <4>1. \A i \in 1..e[1] : w[i] = x[1 + i - 1] /\ 1 + i - 1 = i
        BY <1>1, <1>2, <2>3 DEF n
      <4> QED BY <4>1
    <3> HIDE DEF w
    <3>3. q = c \o w
      BY <1>5, <2>3 DEF w
    <3>4. a = 0 /\ b = m + e[1]
      BY <1>4, <2>3
    <3>5. /\ Len(c \o w) = m + e[1] /\ c \o w \in Seq(V)
          /\ \A i \in 1..m : (c \o w)[i] = c[i]
          /\ \A i \in 1..e[1] : (c \o w)[m + i] = w[i]
      BY SMTT(40), <3>1 DEF m
    <3>6. \A i \in 1..(b - a) : q[i] = z[a + i]
      <4> SUFFICES ASSUME NEW i \in 1..(m + e[1]) PROVE q[i] = z[i]
        BY <1>1, <3>1, <3>4
      <4>1. CASE i <= m
        <5>1. i \in 1..m
          BY <1>1, <4>1
        <5> QED BY <1>3, <3>3, <3>5, <5>1
      <4>2. CASE ~ (i <= m)
        <5>1. i - m \in 1..e[1] /\ i - m \in 1..n /\ m + (i - m) = i
          BY <1>1, <3>1, <4>2
        <5>2. (c \o w)[m + (i - m)] = w[i - m] /\ z[m + (i - m)] = x[i - m]
          BY <1>3, <3>5, <5>1
        <5> QED BY <3>2, <3>3, <5>1, <5>2
      <4> QED BY <4>1, <4>2
    <3>7. q \in Seq(V) /\ Len(q) = b - a
      BY <1>1, <3>1, <3>3, <3>4, <3>5
    <3>8. Len(q) = Len(y) /\ \A i \in 1..Len(q) : q[i] = y[i]
      BY <2>1, <2>2, <3>6, <3>7
    <3>9. q = y
      BY <2>1, <3>7, <3>8
    <3> QED BY <3>9 DEF y
  <2>4. CASE j # 1
    <3> DEFINE w == SubSeq(x, e[j - 1] + 1, e[j])
    <3>0. a = m + e[j - 1] /\ b = m + e[j] /\ b - a = e[j] - e[j - 1] /\ e[j - 1] \in Nat
      BY SMTT(40), <1>1, <1>2, <1>4, <2>4
    <3>1. Len(w) = e[j] - e[j - 1] /\ w \in Seq(V)
      BY <1>1, <1>2, <2>4 DEF n
    <3>2. \A i \in 1..(e[j] - e[j - 1]) : w[i] = x[e[j - 1] + i]
      <4>0. /\ e[j - 1] + 1 \in Nat /\ e[j] \in Nat /\ 1 <= e[j - 1] + 1
            /\ e[j - 1] + 1 <= e[j] + 1 /\ e[j] <= Len(x)
            /\ (e[j] - (e[j - 1] + 1)) + 1 = e[j] - e[j - 1]
        BY <1>1, <1>2, <2>4 DEF n
      <4>1. \A i \in 1..(e[j] - (e[j - 1] + 1) + 1) : w[i] = x[e[j - 1] + 1 + i - 1]
        BY <1>1, <3>0, <4>0, SubSeqAt, ZenonT(120)
      <4>2. \A i \in 1..(e[j] - e[j - 1]) : e[j - 1] + 1 + i - 1 = e[j - 1] + i
        BY <3>0
      <4> QED BY <4>0, <4>1, <4>2
    <3> HIDE DEF w
    <3>3. q = w
      BY <1>5, <2>4 DEF w
    <3>4. \A i \in 1..(b - a) : q[i] = z[a + i]
      <4> SUFFICES ASSUME NEW i \in 1..(e[j] - e[j - 1]) PROVE w[i] = z[a + i]
        BY <3>0, <3>3
      <4>1. e[j - 1] + i \in 1..n /\ a + i = m + (e[j - 1] + i)
        <5>1. PICK u \in 1..n, v \in 1..n : u = e[j - 1] /\ v = e[j]
          BY <1>2, <2>4
        <5>2. i \in 1..(v - u) /\ a = m + u
          BY <3>0, <5>1
        <5>3. u + i \in 1..n /\ a + i = m + (u + i)
          BY <1>1, <5>2
        <5> QED BY <5>1, <5>3
      <4> QED BY <1>3, <3>2, <4>1
    <3>5. Len(q) = Len(y) /\ \A i \in 1..Len(q) : q[i] = y[i]
      BY <2>1, <2>2, <3>0, <3>1, <3>3, <3>4, SMTT(30)
    <3>6. q = y
      BY <2>1, <3>1, <3>3, <3>5
    <3> QED BY <3>6 DEF y
  <2> QED BY <2>3, <2>4
<1> QED BY <1>3, <1>6, <1>7 DEF a, b, z, q, x

LEMMA PageCut ==
    ASSUME NEW pg, MuxedPage(pg), NEW c \in Seq(Values), NEW j \in DOMAIN Ends(pg)
    PROVE  LET a == From(pg, c, j)
               b == Upto(pg, c, j)
           IN  /\ PagePackets(pg, c)[j].segs = SubSeq(c \o pg.segs, a + 1, b)
               /\ a \in Nat /\ b \in Nat /\ a < b /\ b <= Len(c \o pg.segs)
  BY PageValues, CutAt

LEMMA SubSeqRight ==
    ASSUME NEW V, NEW c \in Seq(V), NEW x \in Seq(V), NEW a \in Nat, NEW b \in Nat,
           a <= b, b <= Len(x)
    PROVE  SubSeq(x, a + 1, b) = SubSeq(c \o x, Len(c) + a + 1, Len(c) + b)
<1> DEFINE m == Len(c)
           z == c \o x
           w == SubSeq(x, a + 1, b)
           y == SubSeq(z, m + a + 1, m + b)
<1>1. m \in Nat /\ z \in Seq(V) /\ Len(z) = m + Len(x) /\ Len(x) \in Nat
      /\ \A i \in 1..Len(x) : z[m + i] = x[i]
  OBVIOUS
<1>2. Len(w) = b - a /\ w \in Seq(V)
  OBVIOUS
<1>3. \A i \in 1..(b - a) : w[i] = x[a + i]
  <2>1. \A i \in 1..(b - a) : w[i] = x[a + 1 + i - 1] /\ a + 1 + i - 1 = a + i
    OBVIOUS
  <2> QED BY <2>1
<1> HIDE DEF z, m
<1>4. /\ Len(y) = b - a /\ y \in Seq(V)
      /\ \A i \in 1..(b - a) : y[i] = z[m + (a + i)]
  <2> DEFINE lo == m + a + 1
             hi == m + b
  <2>1. /\ lo \in Nat /\ hi \in Nat /\ 1 <= lo /\ hi <= Len(z) /\ lo <= hi + 1
        /\ hi - lo + 1 = b - a /\ \A i \in 1..(b - a) : lo + i - 1 = m + (a + i)
    BY <1>1
  <2> HIDE DEF lo, hi
  <2>2. /\ SubSeq(z, lo, hi) \in Seq(V) /\ Len(SubSeq(z, lo, hi)) = hi - lo + 1
        /\ \A i \in 1..(hi - lo + 1) : SubSeq(z, lo, hi)[i] = z[lo + i - 1]
    BY <1>1, <2>1, SubSeqAt
  <2>3. y = SubSeq(z, lo, hi)
    BY DEF lo, hi
  <2> HIDE DEF y
  <2> QED BY <2>1, <2>2, <2>3
<1> HIDE DEF w, y
<1>6. \A i \in 1..(b - a) : y[i] = w[i]
  <2>1. \A i \in 1..(b - a) : a + i \in 1..Len(x)
    BY <1>1
  <2> QED BY <1>1, <1>3, <1>4, <2>1
<1>7. w = y
  BY <1>2, <1>4, <1>6
<1> QED BY <1>7 DEF w, y, z, m

(* Every packet a page completes is whole, and ends where Ends says.       *)
LEMMA PacketWhole ==
    ASSUME NEW pg, MuxedPage(pg), NEW c \in Seq(Values), Unended(c),
           NEW S, S \subseteq Values, Stretch(c \o pg.segs, S), NEW j \in DOMAIN Ends(pg)
    PROVE  LET d == PagePackets(pg, c)[j]
           IN  Whole(d.segs, S) /\ d.segs[Len(d.segs)] = pg.segs[Ends(pg)[j]]
<1> DEFINE x == pg.segs
           e == Ends(pg)
           m == Len(c)
           n == Len(x)
           a == From(pg, c, j)
           b == Upto(pg, c, j)
           z == c \o x
           y == PagePackets(pg, c)[j].segs
<1>1. x \in Seq(Values) /\ n \in Nat /\ m \in Nat /\ DOMAIN x = 1..n /\ EndsOf(e, x)
      /\ DOMAIN c = 1..m
  BY PageValues
<1>2. y = SubSeq(z, a + 1, b) /\ a \in Nat /\ b \in Nat /\ a < b /\ b <= Len(z)
  BY PageCut
<1>3. /\ Len(z) = m + n
      /\ (\A i \in 1..m : z[i] = c[i]) /\ \A i \in 1..n : z[m + i] = x[i]
  BY <1>1
<1>4. a = (IF j = 1 THEN 0 ELSE m + e[j - 1]) /\ b = m + e[j]
  BY DEF From, Upto
<1> HIDE DEF e, m, n, a, b, z, y, x
<1>5. /\ Len(e) \in Nat /\ DOMAIN e = 1..Len(e) /\ j \in 1..Len(e)
      /\ \A i \in 1..Len(e) : e[i] \in 1..n /\ x[e[i]].end
      /\ \A i, l \in 1..Len(e) : i < l => e[i] < e[l]
      /\ \A i \in 1..n : x[i].end => \E l \in 1..Len(e) : e[l] = i
  <2>1. DOMAIN e = 1..Len(e)
    BY <1>1 DEF EndsOf
  <2> QED BY <1>1, <2>1 DEF EndsOf, e
<1>6. j # 1 => j - 1 \in 1..Len(e) /\ j - 1 < j
  BY <1>5
<1>7. a > 0 => z[a].end
  <2> SUFFICES ASSUME j # 1 PROVE z[a].end
    BY <1>4
  <2>1. a = m + e[j - 1] /\ e[j - 1] \in 1..n /\ x[e[j - 1]].end
    BY <1>4, <1>5, <1>6
  <2> QED BY <1>3, <2>1
<1>8. /\ Stretch(y, S) /\ Len(y) = b - a
      /\ \A i \in 1..(b - a) : y[i] = z[a + i]
  <2>1. Stretch(z, S) /\ a <= b
    BY <1>2 DEF z, x
  <2> QED BY <1>2, <1>7, <2>1, PieceOf
<1>9. b - a \in 1..(b - a) /\ a + (b - a) = b
  BY <1>2
<1>10. y[Len(y)] = x[e[j]] /\ x[e[j]].end
  <2>1. y[Len(y)] = z[b]
    BY <1>8, <1>9
  <2> QED BY <1>3, <1>4, <1>5, <2>1
<1>11. DOMAIN y = 1..(b - a) /\ y # <<>>
  <2>1. y \in Seq(S)
    BY <1>8 DEF Stretch
  <2>2. DOMAIN y = 1..Len(y) /\ (y = <<>> => Len(y) = 0)
    BY <2>1
  <2> QED BY <1>8, <1>9, <2>2
<1>12. ASSUME NEW i \in 1..(b - a), y[i].end PROVE i = b - a
  <2>1. y[i] = z[a + i] /\ a + i \in Nat /\ a + i >= 1 /\ a + i <= b
    BY <1>2, <1>8
  <2>2. ~ (a + i <= m)
    <3> SUFFICES ASSUME a + i <= m PROVE FALSE
      OBVIOUS
    <3>1. a + i \in 1..m
      BY <1>1, <2>1
    <3>2. ~ c[a + i].end
      BY <1>1, <3>1 DEF Unended
    <3> QED BY <1>3, <1>12, <2>1, <3>1, <3>2
  <2>3. (a + i) - m \in 1..n /\ m + ((a + i) - m) = a + i /\ (a + i) - m <= e[j]
    <3>1. PICK u \in Nat : u = e[j] /\ u <= n
      BY <1>5
    <3>2. PICK v \in Nat : v = a + i /\ v <= b
      BY <2>1
    <3>3. ~ (v <= m) /\ b = m + u
      BY <1>4, <2>2, <3>1, <3>2
    <3>4. v - m \in 1..n /\ m + (v - m) = v /\ v - m <= u
      BY <1>1, <3>1, <3>2, <3>3
    <3> QED BY <3>1, <3>2, <3>4
  <2>4. x[(a + i) - m].end
    BY <1>3, <1>12, <2>1, <2>3
  <2>5. PICK l \in 1..Len(e) : e[l] = (a + i) - m
    BY <1>5, <2>3, <2>4
  <2>6. ~ (j < l)
    <3>1. j < l => e[j] < e[l]
      BY <1>5
    <3>2. e[j] \in 1..n /\ e[l] \in 1..n
      BY <1>5
    <3> QED BY <2>3, <2>5, <3>1, <3>2
  <2>7. ~ (l < j)
    <3> SUFFICES ASSUME l < j PROVE FALSE
      OBVIOUS
    <3>1. j # 1 /\ (l < j - 1 \/ l = j - 1)
      BY <1>5
    <3>2. l < j - 1 => e[l] < e[j - 1]
      BY <1>5, <1>6, <3>1
    <3>3. e[l] \in 1..n /\ e[j - 1] \in 1..n /\ a = m + e[j - 1]
      BY <1>4, <1>5, <1>6, <3>1
    <3>4. e[l] <= e[j - 1]
      BY <3>1, <3>2, <3>3
    <3>5. i >= 1 /\ i \in Nat
      BY <1>2
    <3> QED BY <1>1, <2>5, <3>3, <3>4, <3>5
  <2>8. l = j
    BY <1>5, <2>6, <2>7
  <2>9. a + i = b
    BY <1>1, <1>4, <2>3, <2>5, <2>8
  <2> QED BY <1>2, <2>9
<1>13. Whole(y, S)
  BY <1>8, <1>10, <1>11, <1>12 DEF Whole
<1> QED BY <1>10, <1>13 DEF y, x, e

(* What a reader may hold unfinished.                                      *)
Kept(x, S) == Stretch(x, S) /\ AtEnd(x, S) /\ Unended(x)

Left(pg, c) == IF Ends(pg) = <<>> THEN c \o pg.segs ELSE Rest(pg)

LEMMA Leftover ==
    ASSUME NEW pg, MuxedPage(pg), NEW c \in Seq(Values), Unended(c),
           NEW S, S \subseteq Values, Stretch(c \o pg.segs, S), AtEnd(c \o pg.segs, S)
    PROVE  /\ Kept(Left(pg, c), S)
           /\ pg.segs # <<>> => (Left(pg, c) # <<>> <=> ~ Last(pg.segs).end)
<1> DEFINE x == pg.segs
           e == Ends(pg)
           m == Len(c)
           n == Len(x)
           z == c \o x
           y == Left(pg, c)
<1>1. x \in Seq(Values) /\ n \in Nat /\ m \in Nat /\ DOMAIN x = 1..n /\ EndsOf(e, x)
      /\ DOMAIN c = 1..m
  BY PageValues
<1>2. /\ Len(z) = m + n /\ z \in Seq(Values) /\ DOMAIN z = 1..(m + n)
      /\ (\A i \in 1..m : z[i] = c[i]) /\ \A i \in 1..n : z[m + i] = x[i]
  BY <1>1
<1>3. y = IF e = <<>> THEN z ELSE SubSeq(x, e[Len(e)] + 1, n)
  BY DEF Left, Rest, Last
<1>4. /\ Len(e) \in Nat /\ DOMAIN e = 1..Len(e) /\ (e = <<>> <=> Len(e) = 0)
      /\ \A i \in 1..Len(e) : e[i] \in 1..n /\ x[e[i]].end
      /\ \A i, l \in 1..Len(e) : i < l => e[i] < e[l]
      /\ \A i \in 1..n : x[i].end => \E l \in 1..Len(e) : e[l] = i
  <2>1. DOMAIN e = 1..Len(e) /\ Len(e) \in Nat
    BY <1>1 DEF EndsOf
  <2>2. e = <<>> <=> Len(e) = 0
    <3>1. e = [i \in 1..EndsUpTo(pg, Len(x)) |-> e[i]]
      BY DEF Ends
    <3>2. EndsUpTo(pg, Len(x)) \in Nat
      BY <1>1, EndsCounted
    <3> HIDE DEF e
    <3>3. e \in Seq({e[i] : i \in 1..EndsUpTo(pg, Len(x))})
      BY <3>1, <3>2
    <3> QED BY <3>3
  <2> QED BY <1>1, <2>1, <2>2 DEF EndsOf
<1>5. Stretch(z, S) /\ AtEnd(z, S)
  OBVIOUS
<1>6. x # <<>> => Last(x) = x[n] /\ n \in 1..n /\ z # <<>>
  BY <1>1, <1>2 DEF Last
<1> HIDE DEF e, m, n, z, y, x
<1>7. CASE e = <<>>
  <2>1. \A i \in 1..n : ~ x[i].end
    BY <1>4, <1>7
  <2>2. Unended(z)
    <3> SUFFICES ASSUME NEW i \in 1..(m + n) PROVE ~ z[i].end
      BY <1>2 DEF Unended
    <3>1. CASE i <= m
      <4>1. i \in 1..m
        BY <1>1, <3>1
      <4> QED BY <1>1, <1>2, <4>1 DEF Unended
    <3>2. CASE ~ (i <= m)
      <4>1. i - m \in 1..n /\ m + (i - m) = i
        BY <1>1, <3>2
      <4>2. z[m + (i - m)] = x[i - m]
        BY <1>2, <4>1
      <4> QED BY <2>1, <4>1, <4>2
    <3> QED BY <3>1, <3>2
  <2>3. y = z
    BY <1>3, <1>7
  <2>4. x # <<>> => (y # <<>> <=> ~ Last(x).end)
    BY <1>6, <2>1, <2>3
  <2>5. Kept(y, S)
    BY <1>5, <2>2, <2>3 DEF Kept
  <2> QED BY <2>4, <2>5 DEF y, x
<1>8. CASE e # <<>>
  <2>1. Len(e) \in 1..Len(e)
    BY <1>4, <1>8
  <2>2. PICK v \in 1..n : v = e[Len(e)] /\ x[v].end
    BY <1>4, <2>1
  <2>3. /\ v \in Nat /\ v <= n /\ m + v \in Nat /\ m + n \in Nat /\ m + v <= m + n
        /\ m + n <= Len(z) /\ (m + n) - (m + v) = n - v
    BY <1>1, <1>2, <2>2
  <2>4. y = SubSeq(z, m + v + 1, m + n)
    <3>1. y = SubSeq(x, v + 1, n)
      BY <1>3, <1>8, <2>2
    <3>2. SubSeq(x, v + 1, n) = SubSeq(c \o x, Len(c) + v + 1, Len(c) + n)
      <4>1. n <= Len(x)
        BY <1>1 DEF n
      <4> QED BY <1>1, <2>3, <4>1, SubSeqRight
    <3> QED BY <3>1, <3>2 DEF z, m
  <2>5. z[m + v].end
    BY <1>2, <2>2
  <2>6. /\ Stretch(y, S) /\ Len(y) = n - v
        /\ \A i \in 1..(n - v) : y[i] = z[m + v + i]
    <3>1. /\ Stretch(SubSeq(z, (m + v) + 1, m + n), S)
          /\ Len(SubSeq(z, (m + v) + 1, m + n)) = (m + n) - (m + v)
          /\ \A i \in 1..((m + n) - (m + v)) : SubSeq(z, (m + v) + 1, m + n)[i] = z[(m + v) + i]
      <4> DEFINE a == m + v
                 b == m + n
      <4>1. a \in Nat /\ b \in Nat /\ a <= b /\ b <= Len(z) /\ z[a].end
        BY <2>3, <2>5
      <4> HIDE DEF a, b
      <4>2. /\ Stretch(SubSeq(z, a + 1, b), S)
            /\ Len(SubSeq(z, a + 1, b)) = b - a
            /\ \A i \in 1..(b - a) : SubSeq(z, a + 1, b)[i] = z[a + i]
        BY <1>5, <4>1, PieceOf
      <4> QED BY <4>2 DEF a, b
    <3> QED BY <2>3, <2>4, <3>1
  <2>7. y \in Seq(S) /\ DOMAIN y = 1..(n - v) /\ (y # <<>> <=> v < n)
    <3>1. y \in Seq(S)
      BY <2>6 DEF Stretch
    <3>2. DOMAIN y = 1..Len(y) /\ (y = <<>> <=> Len(y) = 0)
      BY <3>1
    <3>3. n - v = 0 <=> ~ (v < n)
      BY <1>1, <2>3
    <3> QED BY <2>6, <3>1, <3>2, <3>3
  <2>8. \A i \in 1..n : x[i].end => i <= v
    <3> SUFFICES ASSUME NEW i \in 1..n, x[i].end PROVE i <= v
      OBVIOUS
    <3>1. PICK l \in 1..Len(e) : e[l] = i
      BY <1>4
    <3>2. l = Len(e) \/ l < Len(e)
      <4>1. Len(e) \in Nat
        BY <1>4
      <4> QED BY <4>1
    <3>3. l < Len(e) => e[l] < e[Len(e)]
      BY <1>4, <2>1
    <3>4. i \in Nat /\ v \in Nat
      OBVIOUS
    <3> QED BY <2>2, <3>1, <3>2, <3>3, <3>4
  <2>9. Unended(y)
    <3> SUFFICES ASSUME NEW i \in 1..(n - v), y[i].end PROVE FALSE
      BY <2>7 DEF Unended
    <3>1. v + i \in 1..n /\ m + (v + i) = m + v + i /\ ~ (v + i <= v)
      BY <1>1, <2>3
    <3>2. x[v + i].end
      BY <1>2, <2>6, <3>1
    <3> QED BY <2>8, <3>1, <3>2
  <2>10. AtEnd(y, S)
    <3> SUFFICES ASSUME v < n, NEW t \in S PROVE UpTo(t, y[Len(y)])
      BY <2>7 DEF AtEnd
    <3>1. n - v \in 1..(n - v) /\ m + v + (n - v) = m + n
      BY <1>1, <2>3
    <3>2. y[Len(y)] = z[Len(z)] /\ z # <<>>
      <4>1. y[n - v] = z[m + v + (n - v)]
        BY <2>6, <3>1
      <4>2. Len(z) # 0
        BY <1>1, <1>2, <2>3
      <4>3. z # <<>>
        BY <1>2, <4>2
      <4> QED BY <1>2, <2>6, <3>1, <4>1, <4>3
    <3> QED BY <1>5, <3>2 DEF AtEnd
  <2>11. x # <<>> => (y # <<>> <=> ~ Last(x).end)
    <3> SUFFICES ASSUME x # <<>> PROVE v < n <=> ~ x[n].end
      BY <1>6, <2>7
    <3>1. v = n \/ v < n
      BY <1>1, <2>3
    <3>2. x[n].end => n <= v
      BY <1>6, <2>8
    <3> QED BY <1>1, <2>2, <2>3, <3>1, <3>2, SMTT(30)
  <2>12. Kept(y, S)
    BY <2>6, <2>9, <2>10 DEF Kept
  <2> QED BY <2>11, <2>12 DEF y, x
<1> QED BY <1>7, <1>8

(* What a reader has given out: whole packets, each after the last, with   *)
(* their own positions.                                                    *)
Got(d, S) ==
    /\ Whole(d.segs, S)
    /\ d.valid => d.granule = Sent[Owner(d)].granule
    /\ d.eos => Owner(d) = Len(Sent)
Given(D, S) ==
    /\ D \in Seq(Packet)
    /\ \A i \in DOMAIN D : Got(D[i], S)
    /\ \A i, j \in DOMAIN D : i < j => Owner(D[i]) < Owner(D[j])

LEMMA GotEnd ==
    ASSUME NEW S, S \subseteq Values, NEW d, Whole(d.segs, S)
    PROVE  LET t == d.segs[Len(d.segs)]
           IN  /\ t \in S /\ t \in Values /\ t.end /\ Owner(d) = t.pkt
               /\ Owner(d) \in DOMAIN Sent /\ Owner(d) \in Nat
<1> DEFINE t == d.segs[Len(d.segs)]
<1>1. t \in S /\ t.end
  <2>1. d.segs \in Seq(S) /\ d.segs # <<>> /\ t.end
    BY DEF Whole, Stretch
  <2> QED BY <2>1
<1>2. t \in Values /\ t.pkt \in DOMAIN Sent
  BY <1>1 DEF Values, Seg
<1>3. Owner(d) = t.pkt
  BY DEF Owner, Last
<1>4. DOMAIN Sent \subseteq Nat
  BY ReaderConstants
<1> QED BY <1>1, <1>2, <1>3, <1>4

LEMMA PagePacketFields ==
    ASSUME NEW pg, NEW c, NEW j \in 1..Len(Ends(pg))
    PROVE  LET d == PagePackets(pg, c)[j]
           IN  /\ d.seq = pg.seq /\ d.granule = pg.granule
               /\ d.valid <=> j = Len(Ends(pg)) /\ pg.granule # NoGranule
               /\ d.bos <=> pg.bos /\ j = 1
               /\ d.eos <=> pg.eos /\ j = Len(Ends(pg))
               /\ d.valid \in BOOLEAN
               /\ {pg.bos, pg.eos} \subseteq BOOLEAN => d.bos \in BOOLEAN /\ d.eos \in BOOLEAN
<1> DEFINE e == Ends(pg)
           x(i) == IF i = 1 THEN c \o SubSeq(pg.segs, 1, e[1])
                            ELSE SubSeq(pg.segs, e[i - 1] + 1, e[i])
           valid(i) == i = Len(e) /\ pg.granule # NoGranule
           bos(i) == pg.bos /\ i = 1
           eos(i) == pg.eos /\ i = Len(e)
<1>1. PagePackets(pg, c) =
        [i \in 1..Len(e) |-> [segs |-> x(i), seq |-> pg.seq, granule |-> pg.granule,
                              valid |-> valid(i), bos |-> bos(i), eos |-> eos(i)]]
  BY DEF PagePackets
<1>2. /\ valid(j) <=> j = Len(e) /\ pg.granule # NoGranule
      /\ bos(j) <=> pg.bos /\ j = 1
      /\ eos(j) <=> pg.eos /\ j = Len(e)
      /\ valid(j) \in BOOLEAN
      /\ {pg.bos, pg.eos} \subseteq BOOLEAN => bos(j) \in BOOLEAN /\ eos(j) \in BOOLEAN
  OBVIOUS
<1>3. j \in 1..Len(e)
  OBVIOUS
<1> HIDE DEF e, x, valid, bos, eos
<1>4. PagePackets(pg, c)[j] = [segs |-> x(j), seq |-> pg.seq, granule |-> pg.granule,
                               valid |-> valid(j), bos |-> bos(j), eos |-> eos(j)]
  BY <1>1, <1>3
<1> QED BY <1>2, <1>4 DEF e

LEMMA PagePacketsTyped ==
    ASSUME NEW pg, MuxedPage(pg), NEW c \in Seq(Values), Unended(c),
           NEW S, S \subseteq Values, Stretch(c \o pg.segs, S)
    PROVE  /\ PagePackets(pg, c) \in Seq(Packet)
           /\ DOMAIN PagePackets(pg, c) = DOMAIN Ends(pg)
           /\ Len(PagePackets(pg, c)) = Len(Ends(pg))
<1> DEFINE e == Ends(pg)
           ps == PagePackets(pg, c)
<1>1. Len(e) \in Nat /\ DOMAIN e = 1..Len(e)
  BY PageValues DEF EndsOf
<1>2. ps = [j \in 1..Len(e) |-> ps[j]]
  BY DEF PagePackets
<1>3. ASSUME NEW j \in 1..Len(e) PROVE ps[j] \in Packet
  <2>1. Whole(ps[j].segs, S)
    BY <1>1, <1>3, PacketWhole
  <2>2. ps[j].segs \in Seq(S) /\ S \subseteq Seg
    BY <2>1 DEF Whole, Stretch, Values
  <2>3. ps[j].segs \in Seq(Seg)
    BY <2>2
  <2>4. pg.seq \in Nat /\ pg.granule \in Nat /\ {pg.bos, pg.eos} \subseteq BOOLEAN
    BY DEF MuxedPage
  <2>5. /\ ps[j].seq \in Nat /\ ps[j].granule \in Nat /\ ps[j].valid \in BOOLEAN
        /\ ps[j].bos \in BOOLEAN /\ ps[j].eos \in BOOLEAN
    BY <1>3, <2>4, PagePacketFields, ZenonT(40)
  <2>6. ps[j] = [segs |-> ps[j].segs, seq |-> ps[j].seq, granule |-> ps[j].granule,
                 valid |-> ps[j].valid, bos |-> ps[j].bos, eos |-> ps[j].eos]
    BY <1>3 DEF PagePackets
  <2> HIDE DEF ps
  <2> QED BY <2>3, <2>5, <2>6 DEF Packet
<1> HIDE DEF ps, e
<1>4. ps \in Seq(Packet) /\ DOMAIN ps = 1..Len(e) /\ Len(ps) = Len(e)
  BY <1>1, <1>2, <1>3
<1> QED BY <1>1, <1>4 DEF ps, e

LEMMA PageGives ==
    ASSUME NEW pg, MuxedPage(pg), NEW c \in Seq(Values), Unended(c),
           NEW S, S \subseteq Values, Stretch(c \o pg.segs, S)
    PROVE  /\ Given(PagePackets(pg, c), S)
           /\ \A j \in DOMAIN PagePackets(pg, c) :
                LET x == PagePackets(pg, c)[j].segs IN x[Len(x)] \in Range(pg.segs)
           /\ \A t \in Range(pg.segs) : t.end =>
                \E j \in DOMAIN PagePackets(pg, c) : Owner(PagePackets(pg, c)[j]) = t.pkt
<1> DEFINE x == pg.segs
           e == Ends(pg)
           ps == PagePackets(pg, c)
           n == Len(x)
           l == Len(e)
<1>1. x \in Seq(Values) /\ n \in Nat /\ DOMAIN x = 1..n /\ EndsOf(e, x) /\ Ordered(x)
  BY PageValues
<1>2. ps \in Seq(Packet) /\ DOMAIN ps = DOMAIN e
  BY PagePacketsTyped
<1>3. \A j \in DOMAIN e : Whole(ps[j].segs, S) /\ ps[j].segs[Len(ps[j].segs)] = x[e[j]]
  BY PacketWhole
<1>4. \A j \in DOMAIN e : Owner(ps[j]) = x[e[j]].pkt
  BY <1>3, GotEnd
<1>5. \A j \in 1..l : /\ ps[j].granule = pg.granule
                      /\ ps[j].valid => j = l /\ pg.granule # NoGranule
                      /\ ps[j].eos => pg.eos /\ j = l
  <2> SUFFICES ASSUME NEW j \in 1..l
               PROVE  /\ ps[j].granule = pg.granule
                      /\ ps[j].valid => j = l /\ pg.granule # NoGranule
                      /\ ps[j].eos => pg.eos /\ j = l
    OBVIOUS
  <2>1. /\ PagePackets(pg, c)[j].granule = pg.granule
        /\ PagePackets(pg, c)[j].valid <=> j = Len(Ends(pg)) /\ pg.granule # NoGranule
        /\ PagePackets(pg, c)[j].eos <=> pg.eos /\ j = Len(Ends(pg))
    BY PagePacketFields
  <2> QED BY <2>1, Zenon
<1>6. \A j \in DOMAIN x : x[j].end /\ (\A i \in (j + 1)..n : ~ x[i].end) =>
        /\ pg.granule \in {NoGranule, Sent[x[j].pkt].granule}
        /\ pg.eos => x[j].pkt = Len(Sent)
  BY DEF MuxedPage
<1> HIDE DEF x, e, ps, n, l
<1>7. /\ l \in Nat /\ DOMAIN e = 1..l
      /\ \A i \in 1..l : e[i] \in 1..n /\ x[e[i]].end
      /\ \A i, k \in 1..l : i < k => e[i] < e[k]
      /\ \A i \in 1..n : x[i].end => \E k \in 1..l : e[k] = i
  <2>1. DOMAIN e = 1..l
    BY <1>1 DEF EndsOf, l
  <2> QED BY <1>1, <2>1 DEF EndsOf, l
<1>8. \A j \in 1..l : j = l => \A i \in (e[j] + 1)..n : ~ x[i].end
  <2> SUFFICES ASSUME l \in 1..l, NEW i \in (e[l] + 1)..n, x[i].end PROVE FALSE
    OBVIOUS
  <2>1. e[l] \in 1..n
    BY <1>7
  <2>2. i \in 1..n /\ e[l] < i
    BY <1>1, <2>1
  <2>3. PICK k \in 1..l : e[k] = i
    BY <1>7, <2>2
  <2>4. k < l \/ k = l
    <3>1. l \in Nat
      BY <1>7
    <3> QED BY <3>1
  <2>5. k < l => e[k] < e[l]
    BY <1>7
  <2> QED BY <2>1, <2>2, <2>3, <2>4, <2>5
<1>9. \A j \in 1..l : Got(ps[j], S)
  <2> SUFFICES ASSUME NEW j \in 1..l PROVE Got(ps[j], S)
    OBVIOUS
  <2>1. Whole(ps[j].segs, S) /\ Owner(ps[j]) = x[e[j]].pkt
    BY <1>3, <1>4, <1>7
  <2>2. j = l => /\ pg.granule \in {NoGranule, Sent[x[e[j]].pkt].granule}
                 /\ pg.eos => x[e[j]].pkt = Len(Sent)
    <3>1. e[j] \in DOMAIN x /\ x[e[j]].end
      BY <1>1, <1>7
    <3> QED BY <1>6, <1>8, <3>1
  <2> QED BY <1>5, <2>1, <2>2 DEF Got
<1>10. \A i, j \in 1..l : i < j => Owner(ps[i]) < Owner(ps[j])
  <2> SUFFICES ASSUME NEW i \in 1..l, NEW j \in 1..l, i < j
               PROVE  x[e[i]].pkt < x[e[j]].pkt
    BY <1>4, <1>7
  <2>1. e[i] \in 1..n /\ e[j] \in 1..n /\ e[i] < e[j] /\ x[e[i]].end /\ x[e[j]].end
    BY <1>7
  <2>2. e[i] \in 1..(e[j] - 1)
    BY <2>1
  <2>3. Before(x[e[i]], x[e[j]])
    BY <1>1, <2>1, <2>2 DEF Ordered
  <2>4. x[e[i]] \in Values /\ x[e[j]] \in Values
    BY <1>1, <2>1
  <2> QED BY <2>1, <2>3, <2>4, ValuesOrdered
<1>11. Given(ps, S)
  BY <1>2, <1>7, <1>9, <1>10 DEF Given
<1>12. \A j \in DOMAIN ps : ps[j].segs[Len(ps[j].segs)] \in Range(x)
  BY <1>1, <1>2, <1>3, <1>7 DEF Range
<1>13. \A t \in Range(x) : t.end => \E j \in DOMAIN ps : Owner(ps[j]) = t.pkt
  BY <1>1, <1>2, <1>4, <1>7 DEF Range
<1> QED BY <1>11, <1>12, <1>13 DEF ps, x

LEMMA GivenStays ==
    ASSUME NEW S, NEW S2, S \subseteq S2, S2 \subseteq Values,
           \A u \in S : \A t \in S2 \ S : Before(u, t),
           NEW D, Given(D, S)
    PROVE  Given(D, S2)
  BY WholeStays DEF Given, Got

(* Packets of a later page come after all given out so far.                *)
Beyond(S, R) == \A u \in S : \A t \in R : Before(u, t)
EndIn(P, R) == \A j \in DOMAIN P : P[j].segs[Len(P[j].segs)] \in R
Holds(E, D) == \A j \in DOMAIN D : \E i \in DOMAIN E : E[i] = D[j]

LEMMA GivenConcat ==
    ASSUME NEW S, NEW R, S \subseteq Values, R \subseteq Values, Beyond(S, R),
           NEW D, Given(D, S), NEW P, Given(P, S \cup R), EndIn(P, R)
    PROVE  Given(D \o P, S \cup R) /\ Holds(D \o P, D) /\ Holds(D \o P, P)
<1> DEFINE E == D \o P
           m == Len(D)
           n == Len(P)
           S2 == S \cup R
<1>1. D \in Seq(Packet) /\ P \in Seq(Packet)
  BY DEF Given
<1>2. /\ m \in Nat /\ n \in Nat /\ DOMAIN D = 1..m /\ DOMAIN P = 1..n
      /\ E \in Seq(Packet) /\ Len(E) = m + n /\ DOMAIN E = 1..(m + n)
      /\ (\A i \in 1..m : E[i] = D[i]) /\ \A i \in 1..n : E[m + i] = P[i]
  BY <1>1
<1>3. S2 \subseteq Values /\ \A u \in S : \A t \in S2 \ S : Before(u, t)
  BY DEF Beyond
<1>4. Given(D, S2)
  BY <1>3, GivenStays
<1>5. \A i \in 1..m : Got(D[i], S) /\ Got(D[i], S2)
  BY <1>2, <1>4 DEF Given
<1>6. \A i \in 1..n : Got(P[i], S2)
  BY <1>2 DEF Given
<1> HIDE DEF E, m, n, S2
<1>7. \A i \in 1..(m + n) : i \in 1..m \/ (i - m \in 1..n /\ m + (i - m) = i)
  BY <1>2
<1>8. \A i \in 1..(m + n) : Got(E[i], S2)
  BY <1>2, <1>5, <1>6, <1>7
<1>9. \A i \in 1..m, j \in 1..n : Owner(D[i]) < Owner(P[j])
  <2> SUFFICES ASSUME NEW i \in 1..m, NEW j \in 1..n PROVE Owner(D[i]) < Owner(P[j])
    OBVIOUS
  <2> DEFINE s == D[i].segs[Len(D[i].segs)]
             t == P[j].segs[Len(P[j].segs)]
  <2>1. Whole(D[i].segs, S) /\ Whole(P[j].segs, S2)
    BY <1>5, <1>6 DEF Got
  <2>2. s \in S /\ s.end /\ Owner(D[i]) = s.pkt
    BY <2>1, GotEnd
  <2>3. t \in Values /\ t.end /\ Owner(P[j]) = t.pkt
    BY <1>3, <2>1, GotEnd DEF S2
  <2>4. t \in R
    BY <1>2 DEF EndIn
  <2> HIDE DEF s, t
  <2>5. Before(s, t) /\ s \in Values
    BY <2>2, <2>4 DEF Beyond
  <2> QED BY <2>2, <2>3, <2>5, ValuesOrdered
<1>10. \A i, j \in 1..(m + n) : i < j => Owner(E[i]) < Owner(E[j])
  <2> SUFFICES ASSUME NEW i \in 1..(m + n), NEW j \in 1..(m + n), i < j
               PROVE  Owner(E[i]) < Owner(E[j])
    OBVIOUS
  <2>1. CASE j \in 1..m
    <3>1. i \in 1..m /\ E[i] = D[i] /\ E[j] = D[j]
      BY <1>2, <2>1
    <3> QED BY <1>2, <2>1, <3>1 DEF Given
  <2>2. CASE i \in 1..m /\ j \notin 1..m
    <3>1. j - m \in 1..n /\ m + (j - m) = j
      BY <1>7, <2>2
    <3>2. E[j] = P[j - m] /\ E[i] = D[i]
      BY <1>2, <2>2, <3>1
    <3> QED BY <1>9, <2>2, <3>1, <3>2
  <2>3. CASE i \notin 1..m /\ j \notin 1..m
    <3>1. j - m \in 1..n /\ m + (j - m) = j /\ i - m \in 1..n /\ m + (i - m) = i
          /\ i - m < j - m
      BY <1>2, <1>7, <2>3
    <3>2. E[j] = P[j - m] /\ E[i] = P[i - m]
      BY <1>2, <3>1
    <3>3. Owner(P[i - m]) < Owner(P[j - m])
      BY <1>2, <3>1 DEF Given
    <3> QED BY <3>2, <3>3
  <2>4. i \in 1..m \/ j \notin 1..m
    BY <1>2
  <2> QED BY <2>1, <2>2, <2>3
<1>11. Given(E, S2)
  BY <1>2, <1>8, <1>10 DEF Given
<1>12. \A j \in 1..m : j \in 1..(m + n)
  BY <1>2
<1>13. \A j \in 1..n : m + j \in 1..(m + n)
  BY <1>2
<1> QED BY <1>2, <1>11, <1>12, <1>13 DEF E, S2, Holds

-----------------------------------------------------------------------------
(* The pages of one stream in a file.                                      *)
Usable(f, s, i) == f[i].crc /\ f[i].serial = s
Seen(f, s, n) == {t \in Values : \E i \in 1..n : Usable(f, s, i) /\ t \in Range(f[i].segs)}

LEMMA FilePages ==
    ASSUME NEW f, MuxedFile(f), NEW s
    PROVE  /\ f \in Seq(Range(f)) /\ Len(f) \in Nat /\ DOMAIN f = 1..Len(f)
           /\ \A i \in 1..Len(f) : Usable(f, s, i) => MuxedPage(f[i])
           /\ \A i, j \in 1..Len(f) : i < j /\ Usable(f, s, i) /\ Usable(f, s, j) =>
                /\ f[i].segs = <<>> <=> f[j].segs = <<>>
                /\ \A t \in Range(f[i].segs), u \in Range(f[j].segs) : Before(t, u)
                /\ f[i].segs # <<>> =>
                     /\ f[i].seq < f[j].seq
                     /\ f[j].seq = f[i].seq + 1 => (f[j].cont <=> ~ Last(f[i].segs).end)
<1>1. f \in Seq(Range(f))
  BY DEF MuxedFile
<1>2. Len(f) \in Nat /\ DOMAIN f = 1..Len(f)
  BY <1>1
<1>3. \A i \in 1..Len(f) : f[i].crc => MuxedPage(f[i])
  <2>1. \A i \in DOMAIN f : f[i].crc => MuxedPage(f[i])
    BY Zenon DEF MuxedFile
  <2> QED BY <1>2, <2>1
<1>4. ASSUME NEW i \in 1..Len(f), NEW j \in 1..Len(f), i < j, Usable(f, s, i), Usable(f, s, j)
      PROVE  /\ f[i].segs = <<>> <=> f[j].segs = <<>>
             /\ \A t \in Range(f[i].segs), u \in Range(f[j].segs) : Before(t, u)
             /\ f[i].segs # <<>> =>
                  /\ f[i].seq < f[j].seq
                  /\ f[j].seq = f[i].seq + 1 => (f[j].cont <=> ~ Last(f[i].segs).end)
  <2>1. i \in 1..(j - 1) /\ j \in DOMAIN f
    BY <1>2, <1>4
  <2>2. f[i].crc /\ f[j].crc /\ f[i].serial = f[j].serial
    BY <1>4 DEF Usable
  <2> QED BY <2>1, <2>2 DEF MuxedFile
<1> QED BY <1>1, <1>2, <1>3, <1>4 DEF Usable

LEMMA SeenNext ==
    ASSUME NEW f, MuxedFile(f), NEW s, NEW n \in Nat, n + 1 <= Len(f)
    PROVE  /\ Seen(f, s, n) \subseteq Values
           /\ ~ Usable(f, s, n + 1) => Seen(f, s, n + 1) = Seen(f, s, n)
           /\ Usable(f, s, n + 1) =>
                /\ Seen(f, s, n + 1) = Seen(f, s, n) \cup Range(f[n + 1].segs)
                /\ Range(f[n + 1].segs) \subseteq Values
                /\ \A t \in Seen(f, s, n) : \A u \in Range(f[n + 1].segs) : Before(t, u)
<1>1. Len(f) \in Nat /\ n + 1 \in 1..Len(f)
  BY FilePages
<1>2. \A i : i \in 1..(n + 1) <=> i \in 1..n \/ i = n + 1
  OBVIOUS
<1>3. ASSUME Usable(f, s, n + 1) PROVE Range(f[n + 1].segs) \subseteq Values
  <2>1. f[n + 1].segs \in Seq(Values)
    BY <1>1, <1>3, FilePages, PageValues
  <2> QED BY <2>1 DEF Range
<1>4. ASSUME Usable(f, s, n + 1), NEW t \in Seen(f, s, n), NEW u \in Range(f[n + 1].segs)
      PROVE  Before(t, u)
  <2>1. PICK i \in 1..n : Usable(f, s, i) /\ t \in Range(f[i].segs)
    BY DEF Seen
  <2>2. i \in 1..Len(f) /\ i < n + 1
    BY <1>1
  <2> QED BY <1>1, <1>4, <2>1, <2>2, FilePages
<1>5. ~ Usable(f, s, n + 1) => Seen(f, s, n + 1) = Seen(f, s, n)
  BY <1>2 DEF Seen
<1>6. Usable(f, s, n + 1) => Seen(f, s, n + 1) = Seen(f, s, n) \cup Range(f[n + 1].segs)
  BY <1>2, <1>3 DEF Seen
<1> QED BY <1>3, <1>4, <1>5, <1>6 DEF Seen

(* Pages i to m with nothing missing between them, i starting a packet.    *)
Seqs(f, s) == {f[j].seq : j \in {j \in 1..Len(f) : Usable(f, s, j)}}
Chain(f, s, i, m) ==
    /\ i \in 1..Len(f) /\ m \in i..Len(f) /\ Usable(f, s, i) /\ Usable(f, s, m)
    /\ f[i].segs # <<>> /\ ~ f[i].cont
    /\ f[i].seq..f[m].seq \subseteq Seqs(f, s)

(* The page before the last of a chain ends one too.                       *)
LEMMA ChainBack ==
    ASSUME NEW f, MuxedFile(f), NEW s, NEW i, NEW m, Chain(f, s, i, m), i # m
    PROVE  \E l \in i..(m - 1) :
             /\ Chain(f, s, i, l) /\ (f[m].cont <=> ~ Last(f[l].segs).end)
             /\ \A j \in (l + 1)..(m - 1) : ~ Usable(f, s, j)
<1>1. /\ Len(f) \in Nat /\ i \in 1..Len(f) /\ m \in 1..Len(f) /\ i < m
      /\ Usable(f, s, i) /\ Usable(f, s, m) /\ f[i].segs # <<>>
  BY FilePages DEF Chain
<1>2. \A a \in 1..Len(f) : Usable(f, s, a) => f[a].seq \in Nat
  BY FilePages DEF MuxedPage
<1>3. \A a, b \in 1..Len(f) : a < b /\ Usable(f, s, a) /\ Usable(f, s, b) =>
        /\ f[a].segs = <<>> <=> f[b].segs = <<>>
        /\ f[a].segs # <<>> =>
             /\ f[a].seq < f[b].seq
             /\ f[b].seq = f[a].seq + 1 => (f[b].cont <=> ~ Last(f[a].segs).end)
  BY FilePages, ZenonT(40)
<1>4. \A a \in 1..Len(f) : Usable(f, s, a) => f[a].segs # <<>>
  <2> SUFFICES ASSUME NEW a \in 1..Len(f), Usable(f, s, a) PROVE f[a].segs # <<>>
    OBVIOUS
  <2>1. a < i \/ a = i \/ i < a
    BY <1>1
  <2> QED BY <1>1, <1>3, <2>1
<1>5. \A a, b \in 1..Len(f) : a < b /\ Usable(f, s, a) /\ Usable(f, s, b) => f[a].seq < f[b].seq
  BY <1>3, <1>4
<1>6. f[m].seq - 1 \in f[i].seq..f[m].seq
  <2>1. f[i].seq \in Nat /\ f[m].seq \in Nat /\ f[i].seq < f[m].seq
    BY <1>1, <1>2, <1>5
  <2> QED BY <2>1
<1>7. PICK l \in 1..Len(f) : Usable(f, s, l) /\ f[l].seq = f[m].seq - 1
  BY <1>6 DEF Chain, Seqs
<1>8. f[l].seq \in Nat /\ f[m].seq \in Nat /\ f[i].seq \in Nat
      /\ f[i].seq <= f[l].seq /\ f[l].seq < f[m].seq /\ f[m].seq = f[l].seq + 1
  BY <1>1, <1>2, <1>6, <1>7
<1>9. l < m
  <2>1. m < l => f[m].seq < f[l].seq
    BY <1>1, <1>5, <1>7
  <2>2. l # m /\ ~ (m < l)
    BY <1>8, <2>1
  <2> QED BY <1>1, <2>2
<1>10. i <= l
  <2>1. l < i => f[l].seq < f[i].seq
    BY <1>1, <1>5, <1>7
  <2> QED BY <1>1, <1>8, <2>1
<1>11. \A j \in (l + 1)..(m - 1) : ~ Usable(f, s, j)
  <2> SUFFICES ASSUME NEW j \in (l + 1)..(m - 1), Usable(f, s, j) PROVE FALSE
    OBVIOUS
  <2>1. j \in 1..Len(f) /\ l < j /\ j < m
    BY <1>1
  <2>2. f[l].seq < f[j].seq /\ f[j].seq < f[m].seq /\ f[j].seq \in Nat
    BY <1>1, <1>2, <1>5, <1>7, <2>1
  <2> QED BY <1>8, <2>2
<1>12. Chain(f, s, i, l)
  <2>1. l \in i..Len(f)
    BY <1>1, <1>10
  <2>2. f[i].seq..f[l].seq \subseteq f[i].seq..f[m].seq
    BY <1>8
  <2> QED BY <1>7, <2>1, <2>2 DEF Chain
<1>13. f[m].cont <=> ~ Last(f[l].segs).end
  BY <1>1, <1>3, <1>4, <1>7, <1>8, <1>9
<1>14. l \in i..(m - 1)
  BY <1>1, <1>9, <1>10
<1> QED BY <1>11, <1>12, <1>13, <1>14

(* Behind the last page of a chain the reader has everything that ended on *)
(* it, and the unfinished packet if there is one.                          *)
Synced(f, s, n, x, D) ==
    \A m \in 1..n : \A i \in 1..m : Chain(f, s, i, m) =>
      /\ \A t \in Range(f[m].segs) : t.end => \E d \in DOMAIN D : Owner(D[d]) = t.pkt
      /\ (\A j \in (m + 1)..n : ~ Usable(f, s, j)) => (x # <<>> <=> ~ Last(f[m].segs).end)

(* A reader after n pages of f, of stream s: x unfinished, D given out.     *)
Held(f, s, n, x, D) ==
    /\ Kept(x, Seen(f, s, n)) /\ Given(D, Seen(f, s, n)) /\ Synced(f, s, n, x, D)

LEMMA HeldSkips ==
    ASSUME NEW f, MuxedFile(f), NEW s, NEW n \in Nat, n + 1 <= Len(f),
           NEW x, NEW D, Held(f, s, n, x, D), ~ Usable(f, s, n + 1)
    PROVE  Held(f, s, n + 1, x, D)
<1>1. Seen(f, s, n + 1) = Seen(f, s, n)
  BY SeenNext
<1>2. Synced(f, s, n + 1, x, D)
  <2> SUFFICES ASSUME NEW m \in 1..(n + 1), NEW i \in 1..m, Chain(f, s, i, m)
               PROVE  /\ \A t \in Range(f[m].segs) : t.end =>
                           \E d \in DOMAIN D : Owner(D[d]) = t.pkt
                      /\ (\A j \in (m + 1)..(n + 1) : ~ Usable(f, s, j)) =>
                           (x # <<>> <=> ~ Last(f[m].segs).end)
    BY DEF Synced
  <2>1. m \in 1..n
    <3>1. m # n + 1
      BY DEF Chain
    <3> QED BY <3>1
  <2>2. (m + 1)..n \subseteq (m + 1)..(n + 1)
    BY <2>1
  <2> QED BY <2>1, <2>2 DEF Held, Synced
<1> QED BY <1>1, <1>2 DEF Held

(* A page the reader cannot use because it has lost the packet it goes on  *)
(* with is in no chain.                                                    *)
LEMMA HeldRejects ==
    ASSUME NEW f, MuxedFile(f), NEW s, NEW n \in Nat, n + 1 <= Len(f),
           NEW D, Held(f, s, n, <<>>, D), Usable(f, s, n + 1), f[n + 1].cont
    PROVE  Held(f, s, n + 1, <<>>, D)
<1> DEFINE S == Seen(f, s, n)
           S2 == Seen(f, s, n + 1)
<1>1. S \subseteq S2 /\ S2 \subseteq Values /\ \A u \in S : \A t \in S2 \ S : Before(u, t)
  BY SeenNext
<1>2. Kept(<<>>, S) /\ Given(D, S) /\ Synced(f, s, n, <<>>, D)
  BY DEF Held
<1> HIDE DEF S, S2
<1>3. Kept(<<>>, S2)
  <2>1. Stretch(<<>>, S2)
    BY <1>1, <1>2, StretchStays DEF Kept
  <2> QED BY <1>2, <2>1 DEF Kept, AtEnd
<1>4. Given(D, S2)
  BY <1>1, <1>2, GivenStays
<1>5. Synced(f, s, n + 1, <<>>, D)
  <2> SUFFICES ASSUME NEW m \in 1..(n + 1), NEW i \in 1..m, Chain(f, s, i, m)
               PROVE  /\ \A t \in Range(f[m].segs) : t.end =>
                           \E d \in DOMAIN D : Owner(D[d]) = t.pkt
                      /\ ~ (\A j \in (m + 1)..(n + 1) : ~ Usable(f, s, j))
    BY DEF Synced
  <2>1. m # n + 1
    <3> SUFFICES ASSUME m = n + 1 PROVE FALSE
      OBVIOUS
    <3>1. i # m
      BY DEF Chain
    <3>2. PICK l \in i..(m - 1) : /\ Chain(f, s, i, l) /\ (f[m].cont <=> ~ Last(f[l].segs).end)
                                 /\ \A j \in (l + 1)..(m - 1) : ~ Usable(f, s, j)
      BY <3>1, ChainBack
    <3>3. l \in 1..n /\ i \in 1..l /\ m - 1 = n
      OBVIOUS
    <3>4. ~ (<<>> # <<>> <=> ~ Last(f[l].segs).end)
      BY <3>2
    <3> QED BY <1>2, <3>2, <3>3, <3>4 DEF Synced
  <2>2. m \in 1..n /\ n + 1 \in (m + 1)..(n + 1)
    BY <2>1
  <2> QED BY <1>2, <2>2 DEF Synced
<1> QED BY <1>3, <1>4, <1>5 DEF Held, S2

(* A page it can use.                                                      *)
LEMMA HeldTakes ==
    ASSUME NEW f, MuxedFile(f), NEW s, NEW n \in Nat, n + 1 <= Len(f),
           NEW x, NEW D, Held(f, s, n, x, D), Usable(f, s, n + 1),
           f[n + 1].cont => x # <<>>
    PROVE  LET pg == f[n + 1]
               c  == IF pg.cont THEN x ELSE <<>>
           IN  /\ Held(f, s, n + 1, Left(pg, c), D \o PagePackets(pg, c))
               /\ PagePackets(pg, c) \in Seq(Packet)
               /\ Len(PagePackets(pg, c)) = Len(Ends(pg))
               /\ DOMAIN Ends(pg) = 1..Len(Ends(pg)) /\ Len(Ends(pg)) \in Nat
<1> DEFINE pg == f[n + 1]
           c == IF pg.cont THEN x ELSE <<>>
           S == Seen(f, s, n)
           R == Range(pg.segs)
           P == PagePackets(pg, c)
           y == Left(pg, c)
<1>1. MuxedPage(pg) /\ n + 1 \in 1..Len(f) /\ Len(f) \in Nat
  <2>1. Len(f) \in Nat /\ \A i \in 1..Len(f) : Usable(f, s, i) => MuxedPage(f[i])
    BY FilePages
  <2>2. n + 1 \in 1..Len(f)
    BY <2>1
  <2> QED BY <2>1, <2>2
<1>2. /\ Seen(f, s, n + 1) = S \cup R /\ S \subseteq Values /\ R \subseteq Values
      /\ \A t \in S : \A u \in R : Before(t, u)
  BY SeenNext
<1>3. /\ pg.segs \in Seq(Values) /\ Ordered(pg.segs) /\ Divided(pg.segs)
      /\ pg.cont <=> pg.segs # <<>> /\ pg.segs[1].k # 1
      /\ EndsOf(Ends(pg), pg.segs)
  BY <1>1, PageValues
<1>4. Kept(x, S) /\ Given(D, S) /\ Synced(f, s, n, x, D)
  BY DEF Held
<1>5. Stretch(c, S) /\ AtEnd(c, S) /\ Unended(c) /\ (c = <<>> <=> ~ pg.cont)
  <2>1. CASE pg.cont
    BY <1>4, <2>1 DEF Kept
  <2>2. CASE ~ pg.cont
    BY <2>2 DEF Stretch, AtEnd, Unended, Ordered, Divided
  <2> QED BY <2>1, <2>2
<1>6. c \in Seq(Values)
  BY <1>2, <1>5 DEF Stretch
<1> HIDE DEF pg, c, S, R, P, y
<1>7. Stretch(c \o pg.segs, S \cup R) /\ AtEnd(c \o pg.segs, S \cup R) /\ S \cup R \subseteq Values
  BY <1>2, <1>3, <1>5, JoinedStretch DEF R
<1>8. /\ Given(P, S \cup R)
      /\ \A j \in DOMAIN P : P[j].segs[Len(P[j].segs)] \in R
      /\ \A t \in R : t.end => \E j \in DOMAIN P : Owner(P[j]) = t.pkt
  BY <1>1, <1>5, <1>6, <1>7, PageGives DEF P, R
<1>9. Kept(y, S \cup R) /\ (pg.segs # <<>> => (y # <<>> <=> ~ Last(pg.segs).end))
  BY <1>1, <1>5, <1>6, <1>7, Leftover DEF y
<1>10. Given(D \o P, S \cup R) /\ Holds(D \o P, D) /\ Holds(D \o P, P)
  <2>1. Beyond(S, R) /\ EndIn(P, R) /\ S \subseteq Values /\ R \subseteq Values
        /\ Given(D, S) /\ Given(P, S \cup R)
    BY <1>2, <1>4, <1>8 DEF Beyond, EndIn
  <2> QED BY <2>1, GivenConcat
<1>11. Synced(f, s, n + 1, y, D \o P)
  <2> SUFFICES ASSUME NEW m \in 1..(n + 1), NEW i \in 1..m, Chain(f, s, i, m)
               PROVE  /\ \A t \in Range(f[m].segs) : t.end =>
                           \E d \in DOMAIN (D \o P) : Owner((D \o P)[d]) = t.pkt
                      /\ (\A j \in (m + 1)..(n + 1) : ~ Usable(f, s, j)) =>
                           (y # <<>> <=> ~ Last(f[m].segs).end)
    BY DEF Synced
  <2>1. CASE m = n + 1
    <3>1. f[m] = pg
      BY <2>1 DEF pg
    <3>2. pg.segs # <<>>
      <4>1. f[i].segs # <<>> /\ Usable(f, s, i) /\ i \in 1..Len(f)
        BY DEF Chain
      <4>2. i = m \/ i < m
        OBVIOUS
      <4>3. m \in 1..Len(f) /\ Usable(f, s, m)
        BY <1>1, <2>1
      <4> QED BY <3>1, <4>1, <4>2, <4>3, FilePages
    <3> QED BY <1>8, <1>9, <1>10, <3>1, <3>2 DEF R, Holds
  <2>2. CASE m # n + 1
    <3>1. m \in 1..n /\ n + 1 \in (m + 1)..(n + 1)
      BY <2>2
    <3>2. \A t \in Range(f[m].segs) : t.end => \E d \in DOMAIN D : Owner(D[d]) = t.pkt
      BY <1>4, <3>1 DEF Synced
    <3> QED BY <1>10, <3>1, <3>2 DEF Holds
  <2> QED BY <2>1, <2>2
<1>12. Held(f, s, n + 1, y, D \o P)
  BY <1>2, <1>9, <1>10, <1>11 DEF Held
<1>13. P \in Seq(Packet) /\ Len(P) = Len(Ends(pg))
  BY <1>1, <1>5, <1>6, <1>7, PagePacketsTyped DEF P
<1> QED BY <1>3, <1>12, <1>13 DEF pg, c, P, y, EndsOf

LEMMA HeldAnew ==
    ASSUME NEW f, MuxedFile(f), NEW s, NEW n \in Nat, n <= Len(f),
           \A i \in 1..n : ~ f[i].crc
    PROVE  Held(f, s, n, <<>>, <<>>)
<1>1. Seen(f, s, n) = {}
  BY DEF Seen, Usable
<1>2. Kept(<<>>, {})
  BY DEF Kept, Stretch, AtEnd, Unended, Ordered, Divided
<1>3. Given(<<>>, {})
  BY DEF Given
<1>4. Synced(f, s, n, <<>>, <<>>)
  BY DEF Synced, Chain, Usable
<1> QED BY <1>1, <1>2, <1>3, <1>4 DEF Held

(* Pages that can no longer be used, those from n + 1 up to m among them.  *)
LEMMA HeldMisses ==
    ASSUME NEW f, NEW g, NEW s, NEW n \in Nat, NEW m \in Nat, n <= m,
           Len(g) = Len(f), NEW x, NEW D, Held(f, s, n, x, D),
           \A i \in 1..n : g[i] = f[i],
           \A i \in (n + 1)..m : ~ g[i].crc,
           \A i \in 1..Len(f) : g[i].crc => g[i] = f[i]
    PROVE  Held(g, s, m, x, D)
<1>1. \A i \in 1..m : i \in 1..n \/ i \in (n + 1)..m
  OBVIOUS
<1>2. \A i \in 1..n : i \in 1..m /\ (Usable(g, s, i) <=> Usable(f, s, i)) /\ g[i] = f[i]
  BY DEF Usable
<1>3. \A i \in (n + 1)..m : ~ Usable(g, s, i)
  BY DEF Usable
<1>4. Seen(g, s, m) = Seen(f, s, n)
  BY <1>1, <1>2, <1>3 DEF Seen
<1>5. \A i \in 1..Len(f) : Usable(g, s, i) => Usable(f, s, i) /\ g[i] = f[i]
  BY DEF Usable
<1>6. Seqs(g, s) \subseteq Seqs(f, s)
  BY <1>5 DEF Seqs
<1>7. Synced(g, s, m, x, D)
  <2> SUFFICES ASSUME NEW k \in 1..m, NEW i \in 1..k, Chain(g, s, i, k)
               PROVE  /\ \A t \in Range(g[k].segs) : t.end =>
                           \E d \in DOMAIN D : Owner(D[d]) = t.pkt
                      /\ (\A j \in (k + 1)..m : ~ Usable(g, s, j)) =>
                           (x # <<>> <=> ~ Last(g[k].segs).end)
    BY DEF Synced
  <2>1. k \in 1..n
    BY <1>1, <1>3 DEF Chain
  <2>2. i \in 1..n /\ g[i] = f[i] /\ g[k] = f[k]
    BY <1>2, <2>1
  <2>3. Chain(f, s, i, k)
    <3>1. /\ i \in 1..Len(f) /\ k \in i..Len(f) /\ Usable(f, s, i) /\ Usable(f, s, k)
          /\ f[i].segs # <<>> /\ ~ f[i].cont
          /\ g[i].seq..g[k].seq \subseteq Seqs(g, s)
      BY <1>2, <2>1, <2>2 DEF Chain
    <3> QED BY <1>6, <2>2, <3>1 DEF Chain
  <2>4. (\A j \in (k + 1)..m : ~ Usable(g, s, j)) => \A j \in (k + 1)..n : ~ Usable(f, s, j)
    <3>1. \A j \in (k + 1)..n : j \in 1..n /\ j \in (k + 1)..m
      BY <2>1
    <3> QED BY <1>2, <3>1
  <2> QED BY <2>1, <2>2, <2>3, <2>4 DEF Held, Synced
<1> QED BY <1>4, <1>7 DEF Held

-----------------------------------------------------------------------------
(* The reader's state, after next - 1 pages: what it has returned and what  *)
(* waits in the queue are what it was given out, as if the pages it missed  *)
(* could not be used.                                                       *)
Readers(f) == [next: 1..(Len(f) + 1), astray: BOOLEAN,
               serial: {NoSerial} \cup {f[i].serial : i \in DOMAIN f},
               pending: Seq(Seg), queue: Seq(Packet)]
Fields(rd) == rd = [next |-> rd.next, astray |-> rd.astray, serial |-> rd.serial,
                    pending |-> rd.pending, queue |-> rd.queue]
Reached == [i \in DOMAIN file |->
              IF i \in missed THEN [crc |-> FALSE, serial |-> file[i].serial] ELSE file[i]]
Fresh(f, rd, D) ==
    rd.serial = NoSerial =>
        /\ \A i \in 1..(rd.next - 1) : ~ f[i].crc
        /\ rd.pending = <<>> /\ rd.queue = <<>> /\ D = <<>>

RInv ==
    /\ file \in Files /\ reader \in Readers(file) /\ delivered \in Seq(Packet)
    /\ missed \subseteq 1..(reader.next - 1) /\ \A i \in missed : BehindTorn(i)
    /\ reader.astray => BehindTorn(reader.next)
    /\ Fresh(Reached, reader, delivered)
    /\ Held(Reached, reader.serial, reader.next - 1, reader.pending,
            delivered \o reader.queue)
    /\ lastErr = "eof" => reader.next > Len(file) /\ reader.queue = <<>>

LEMMA ReachedPages ==
    ASSUME file \in Files
    PROVE  /\ MuxedFile(file) /\ Len(file) \in Nat /\ DOMAIN file = 1..Len(file)
           /\ Len(Reached) = Len(file) /\ DOMAIN Reached = 1..Len(file)
           /\ \A i \in 1..Len(file) : /\ i \in missed => ~ Reached[i].crc
                                      /\ i \notin missed => Reached[i] = file[i]
                                      /\ Reached[i].serial = file[i].serial
<1>1. MuxedFile(file)
  BY ReaderConstants
<1>2. Len(file) \in Nat /\ DOMAIN file = 1..Len(file)
  BY <1>1, FilePages
<1>3. DOMAIN Reached = 1..Len(file) /\ Len(Reached) = Len(file)
  BY <1>2 DEF Reached
<1> QED BY <1>1, <1>2, <1>3 DEF Reached

LEMMA ReachedMuxed == ASSUME file \in Files PROVE MuxedFile(Reached)
<1> DEFINE g == Reached
<1>1. /\ MuxedFile(file) /\ Len(file) \in Nat /\ DOMAIN file = 1..Len(file)
      /\ DOMAIN g = 1..Len(file)
      /\ \A i \in 1..Len(file) : /\ i \in missed => ~ g[i].crc
                                 /\ i \notin missed => g[i] = file[i]
                                 /\ g[i].serial = file[i].serial
  BY ReachedPages
<1>2. g \in Seq(Range(g))
  <2>1. g = [i \in 1..Len(file) |-> g[i]]
    BY <1>1 DEF Reached
  <2>2. \A i \in 1..Len(file) : g[i] \in Range(g)
    BY <1>1 DEF Range
  <2> HIDE DEF g
  <2> QED BY <1>1, <2>1, <2>2
<1>3. \A i \in 1..Len(file) : g[i].crc \in BOOLEAN
  <2>1. \A i \in DOMAIN file : file[i].crc \in BOOLEAN
    BY <1>1, Zenon DEF MuxedFile
  <2>2. \A i \in missed \cap DOMAIN file : g[i].crc = FALSE
    BY DEF Reached
  <2> QED BY <1>1, <2>1, <2>2
<1> HIDE DEF g
<1>4. \A i \in 1..Len(file) : g[i].crc => g[i] = file[i] /\ file[i].crc
  BY <1>1
<1>5. \A i \in 1..Len(file) : g[i].serial # NoSerial /\ (g[i].crc => MuxedPage(g[i]))
  <2>1. \A i \in DOMAIN file : file[i].serial # NoSerial /\ (file[i].crc => MuxedPage(file[i]))
    BY <1>1, Zenon DEF MuxedFile
  <2> QED BY <1>1, <1>4, <2>1
<1>6. ASSUME NEW j \in 1..Len(file), NEW i \in 1..(j - 1), g[i].crc, g[j].crc,
             g[i].serial = g[j].serial
      PROVE  /\ g[i].segs = <<>> <=> g[j].segs = <<>>
             /\ \A t \in Range(g[i].segs), u \in Range(g[j].segs) : Before(t, u)
             /\ g[i].segs # <<>> =>
                  /\ g[i].seq < g[j].seq
                  /\ g[j].seq = g[i].seq + 1 => (g[j].cont <=> ~ Last(g[i].segs).end)
  <2>1. i \in 1..Len(file) /\ j \in DOMAIN file
    BY <1>1
  <2>2. /\ g[i] = file[i] /\ g[j] = file[j]
        /\ file[i].crc /\ file[j].crc /\ file[i].serial = file[j].serial
    BY <1>4, <1>6, <2>1
  <2> QED BY <1>1, <2>1, <2>2 DEF MuxedFile
<1>7. MuxedFile(g)
  BY <1>1, <1>2, <1>3, <1>5, <1>6 DEF MuxedFile
<1> QED BY <1>7 DEF g

LEMMA RInvFile ==
    ASSUME RInv
    PROVE  /\ MuxedFile(file) /\ Len(file) \in Nat /\ DOMAIN file = 1..Len(file)
           /\ MuxedFile(Reached) /\ Len(Reached) = Len(file)
           /\ reader.next \in 1..(Len(file) + 1) /\ reader.next - 1 \in Nat
           /\ reader.pending \in Seq(Seg) /\ reader.queue \in Seq(Packet)
           /\ reader.next <= Len(file) => reader.next \in DOMAIN file
<1>1. /\ MuxedFile(file) /\ Len(file) \in Nat /\ DOMAIN file = 1..Len(file)
      /\ MuxedFile(Reached) /\ Len(Reached) = Len(file)
  BY ReachedPages, ReachedMuxed DEF RInv
<1>2. reader.next \in 1..(Len(file) + 1) /\ reader.pending \in Seq(Seg)
      /\ reader.queue \in Seq(Packet)
  BY DEF RInv, Readers
<1> QED BY <1>1, <1>2

(* The page the reader is at was not missed.                               *)
LEMMA PageReached ==
    ASSUME RInv, Reading
    PROVE  /\ reader.next \in 1..Len(file) /\ Reached[reader.next] = page
           /\ page = file[reader.next] /\ ~ reader.astray
<1>1. reader.next \in 1..Len(file)
  BY RInvFile DEF Reading
<1>2. reader.next \notin missed
  <2>1. missed \subseteq 1..(reader.next - 1)
    BY DEF RInv
  <2> QED BY <1>1, <2>1
<1> QED BY <1>1, <1>2, ReachedPages DEF RInv, page, Reading

(* The page the reader is at decides the stream it belongs to.             *)
LEMMA Adopts ==
    ASSUME RInv, Reading, page.crc
    PROVE  LET s == Owned(reader, page)
           IN  /\ Held(Reached, s, reader.next - 1, reader.pending, delivered)
               /\ s \in {file[i].serial : i \in DOMAIN file} \cup {NoSerial} /\ s # NoSerial
               /\ delivered \o <<>> = delivered
<1> DEFINE s == Owned(reader, page)
<1>1. /\ MuxedFile(file) /\ Len(file) \in Nat /\ reader.next - 1 \in Nat
      /\ reader.next - 1 <= Len(Reached) /\ reader.next \in DOMAIN file
      /\ MuxedFile(Reached)
  BY RInvFile DEF Reading
<1>2. delivered \o <<>> = delivered /\ reader.queue = <<>>
  BY DEF RInv, Reading
<1>3. page.serial # NoSerial /\ page.serial \in {file[i].serial : i \in DOMAIN file}
  <2>1. \A i \in DOMAIN file : file[i].serial # NoSerial
    BY <1>1, Zenon DEF MuxedFile
  <2> QED BY <1>1, <2>1 DEF page
<1>4. CASE reader.serial = NoSerial
  <2>1. /\ \A i \in 1..(reader.next - 1) : ~ Reached[i].crc
        /\ reader.pending = <<>> /\ delivered = <<>> /\ s = page.serial
    BY <1>4 DEF RInv, Fresh, Owned
  <2>2. Held(Reached, s, reader.next - 1, <<>>, <<>>)
    BY <1>1, <2>1, HeldAnew
  <2> QED BY <1>2, <1>3, <2>1, <2>2
<1>5. CASE reader.serial # NoSerial
  <2>1. s = reader.serial
    BY <1>5 DEF Owned
  <2>2. Held(Reached, s, reader.next - 1, reader.pending, delivered)
    BY <1>2, <2>1 DEF RInv
  <2>3. s \in {file[i].serial : i \in DOMAIN file} \cup {NoSerial}
    BY <2>1 DEF RInv, Readers
  <2> QED BY <1>2, <1>5, <2>1, <2>2, <2>3
<1> QED BY <1>4, <1>5

LEMMA ConcatAt ==
    ASSUME NEW V, NEW a \in Seq(V), NEW b \in Seq(V)
    PROVE  /\ a \o b \in Seq(V) /\ Len(a \o b) = Len(a) + Len(b)
           /\ Len(a) \in Nat /\ Len(b) \in Nat
           /\ (\A i \in 1..Len(a) : (a \o b)[i] = a[i])
           /\ \A i \in 1..Len(b) : (a \o b)[Len(a) + i] = b[i]
  OBVIOUS

LEMMA MovesOne ==
    ASSUME NEW V, NEW d \in Seq(V), NEW q \in Seq(V), q # <<>>
    PROVE  /\ Append(d, Head(q)) \in Seq(V) /\ Tail(q) \in Seq(V)
           /\ Append(d, Head(q)) \o Tail(q) = d \o q
<1> DEFINE m == Len(d)
           n == Len(q)
           h == Append(d, Head(q))
           t == Tail(q)
<1>1. m \in Nat /\ n \in Nat /\ n # 0 /\ 1 \in 1..n
  <2>1. n # 0 /\ n \in Nat
    OBVIOUS
  <2> QED BY <2>1
<1>2. /\ h \in Seq(V) /\ Len(h) = m + 1 /\ h[m + 1] = q[1] /\ \A i \in 1..m : h[i] = d[i]
  BY <1>1
<1>3. /\ t \in Seq(V) /\ Len(t) = n - 1 /\ \A i \in 1..(n - 1) : t[i] = q[i + 1]
  BY <1>1
<1>4. /\ d \o q \in Seq(V) /\ Len(d \o q) = m + n
      /\ (\A i \in 1..m : (d \o q)[i] = d[i]) /\ \A i \in 1..n : (d \o q)[m + i] = q[i]
  OBVIOUS
<1> HIDE DEF m, n, h, t
<1>5. /\ h \o t \in Seq(V) /\ Len(h \o t) = (m + 1) + (n - 1)
      /\ (\A i \in 1..(m + 1) : (h \o t)[i] = h[i])
      /\ \A i \in 1..(n - 1) : (h \o t)[(m + 1) + i] = t[i]
  <2>1. /\ h \o t \in Seq(V) /\ Len(h \o t) = Len(h) + Len(t)
        /\ (\A i \in 1..Len(h) : (h \o t)[i] = h[i])
        /\ \A i \in 1..Len(t) : (h \o t)[Len(h) + i] = t[i]
    <3>1. h \in Seq(V) /\ t \in Seq(V)
      BY <1>2, <1>3
    <3> QED BY <3>1, ConcatAt
  <2>2. Len(h) = m + 1 /\ Len(t) = n - 1
    BY <1>2, <1>3
  <2> QED BY <2>1, <2>2
<1>6. \A i \in 1..(m + n) : (h \o t)[i] = (d \o q)[i]
  <2> SUFFICES ASSUME NEW i \in 1..(m + n) PROVE (h \o t)[i] = (d \o q)[i]
    OBVIOUS
  <2>1. CASE i \in 1..m
    <3>1. i \in 1..(m + 1)
      BY <1>1, <2>1
    <3>2. (h \o t)[i] = h[i]
      BY <1>5, <3>1
    <3>3. h[i] = d[i] /\ (d \o q)[i] = d[i]
      BY <1>2, <1>4, <2>1
    <3> QED BY <3>2, <3>3
  <2>2. CASE i = m + 1
    <3>1. m + 1 \in 1..(m + 1)
      BY <1>1
    <3>2. (d \o q)[m + 1] = q[1]
      BY <1>1, <1>4
    <3>3. (h \o t)[m + 1] = h[m + 1]
      BY <1>5, <3>1
    <3> QED BY <1>2, <2>2, <3>2, <3>3
  <2>3. CASE i > m + 1
    <3>1. i - (m + 1) \in 1..(n - 1) /\ (m + 1) + (i - (m + 1)) = i
          /\ i - m \in 1..n /\ m + (i - m) = i /\ (i - (m + 1)) + 1 = i - m
      BY <1>1, <2>3
    <3>2. (h \o t)[(m + 1) + (i - (m + 1))] = t[i - (m + 1)]
      BY <1>5, <3>1
    <3>3. t[i - (m + 1)] = q[i - m]
      BY <1>3, <3>1
    <3>4. (d \o q)[m + (i - m)] = q[i - m]
      BY <1>4, <3>1
    <3> QED BY <3>1, <3>2, <3>3, <3>4
  <2>4. i \in 1..m \/ i = m + 1 \/ i > m + 1
    BY <1>1
  <2> QED BY <2>1, <2>2, <2>3, <2>4
<1>7. Len(h \o t) = Len(d \o q) /\ Len(d \o q) = m + n
  BY <1>1, <1>4, <1>5
<1>8. h \o t = d \o q
  BY <1>4, <1>5, <1>6, <1>7
<1> QED BY <1>2, <1>3, <1>8 DEF h, t

LEMMA EndsEmpty ==
    ASSUME NEW pg, Len(pg.segs) \in Nat
    PROVE  Ends(pg) = <<>> <=> Len(Ends(pg)) = 0
<1> DEFINE e == Ends(pg)
           n == EndsUpTo(pg, Len(pg.segs))
<1>1. e = [i \in 1..n |-> e[i]] /\ n \in Nat
  <2>1. e = [i \in 1..n |-> e[i]]
    BY DEF Ends
  <2>2. n \in Nat
    BY EndsCounted
  <2> QED BY <2>1, <2>2
<1> HIDE DEF e, n
<1>2. e \in Seq({e[i] : i \in 1..n})
  BY <1>1
<1> QED BY <1>2 DEF e

LEMMA AcceptedHeld ==
    ASSUME RInv, Reading, Accepted(reader, page)
    PROVE  LET P == Completed(reader, page)
               s == Owned(reader, page)
           IN  /\ Held(Reached, s, reader.next, Absorbed(reader, page).pending, delivered \o P)
               /\ s \in {file[i].serial : i \in DOMAIN file} \cup {NoSerial} /\ s # NoSerial
               /\ P \in Seq(Packet) /\ (Ends(page) = <<>> <=> P = <<>>)
<1> DEFINE s == Owned(reader, page)
           n == reader.next - 1
           c == Carried(reader, page)
<1>1. /\ MuxedFile(Reached) /\ Len(Reached) = Len(file) /\ Len(file) \in Nat /\ n \in Nat
      /\ n + 1 = reader.next /\ n + 1 <= Len(file) /\ page = Reached[n + 1]
      /\ n + 1 \in 1..Len(file)
  BY RInvFile, PageReached DEF Reading
<1>2. page.crc /\ page.serial = s /\ (page.cont => reader.pending # <<>>)
  BY DEF Accepted
<1>3. /\ Held(Reached, s, n, reader.pending, delivered)
      /\ s \in {file[i].serial : i \in DOMAIN file} \cup {NoSerial} /\ s # NoSerial
  BY <1>2, Adopts
<1>4. Usable(Reached, s, n + 1)
  BY <1>1, <1>2 DEF Usable
<1>5. c = IF page.cont THEN reader.pending ELSE <<>>
  BY DEF Carried
<1> HIDE DEF s, n, c
<1>6. /\ Held(Reached, s, n + 1, Left(page, c), delivered \o PagePackets(page, c))
      /\ PagePackets(page, c) \in Seq(Packet)
      /\ Len(PagePackets(page, c)) = Len(Ends(page))
  BY <1>1, <1>2, <1>3, <1>4, <1>5, HeldTakes
<1>7. Absorbed(reader, page).pending = Left(page, c) /\ Completed(reader, page) = PagePackets(page, c)
  BY DEF Absorbed, Left, Completed, c
<1>8. Ends(page) = <<>> <=> PagePackets(page, c) = <<>>
  <2>1. MuxedPage(page)
    BY <1>1, <1>4, FilePages
  <2>2. Ends(page) = <<>> <=> Len(Ends(page)) = 0
    BY <2>1, PageValues, EndsEmpty
  <2> QED BY <1>6, <2>2
<1> QED BY <1>1, <1>3, <1>6, <1>7, <1>8 DEF s

(* A state of the reader behind n more pages, and behind those it ran past. *)
LEMMA RInvOn ==
    ASSUME RInv, UNCHANGED file, delivered' \in Seq(Packet),
           NEW n \in Nat, reader.next - 1 <= n,
           reader'.next \in 1..(Len(file) + 1), n <= reader'.next - 1,
           reader'.astray \in BOOLEAN,
           reader'.serial \in {file[i].serial : i \in DOMAIN file} \cup {NoSerial},
           reader'.queue \in Seq(Packet), Fields(reader'),
           missed' = missed \cup ((n + 1)..(reader'.next - 1)),
           Held(Reached, reader'.serial, n, reader'.pending, delivered' \o reader'.queue),
           reader'.serial = NoSerial =>
               /\ \A i \in 1..n : ~ Reached[i].crc
               /\ reader'.pending = <<>> /\ reader'.queue = <<>> /\ delivered' = <<>>,
           (reader'.astray \/ n < reader'.next - 1) =>
               \A i \in (n + 1)..reader'.next : BehindTorn(i),
           lastErr' = "eof" => reader'.next > Len(file) /\ reader'.queue = <<>>
    PROVE  RInv'
<1> DEFINE m == reader'.next - 1
           G == Reached'
<1>1. /\ file \in Files /\ file' = file /\ Len(file) \in Nat /\ m \in Nat /\ m <= Len(file)
      /\ n <= m /\ m + 1 = reader'.next /\ DOMAIN file = 1..Len(file)
      /\ missed \subseteq 1..(reader.next - 1)
  <2>1. /\ file' = file /\ Len(file) \in Nat /\ DOMAIN file = 1..Len(file)
        /\ reader'.next \in 1..(Len(file) + 1) /\ n <= reader'.next - 1
    BY Zenon, RInvFile
  <2>2. file \in Files /\ missed \subseteq 1..(reader.next - 1)
    BY Zenon DEF RInv
  <2>3. m \in Nat /\ m <= Len(file) /\ n <= m /\ m + 1 = reader'.next
    <3> DEFINE x == reader'.next
               y == Len(file)
    <3>1. x \in 1..(y + 1) /\ y \in Nat /\ n <= x - 1
      BY <2>1
    <3> HIDE DEF x, y
    <3>2. x - 1 \in Nat /\ x - 1 <= y /\ n <= x - 1 /\ (x - 1) + 1 = x
      BY <3>1
    <3> QED BY Zenon, <3>2 DEF x, y
  <2> HIDE DEF m
  <2> QED BY Zenon, <2>1, <2>2, <2>3
<1>2. missed' \subseteq 1..m /\ \A i \in 1..n : i \in missed' <=> i \in missed
  <2>1. reader.next - 1 <= n /\ reader.next - 1 \in Nat
    BY RInvFile
  <2>2. missed' = missed \cup ((n + 1)..m)
    BY DEF m
  <2> HIDE DEF m
  <2>3. missed \subseteq 1..n
    BY <1>1, <2>1
  <2>4. 1..n \subseteq 1..m /\ (n + 1)..m \subseteq 1..m
    BY <1>1
  <2>5. \A i \in 1..n : i \notin (n + 1)..m
    BY <1>1
  <2> QED BY <2>2, <2>3, <2>4, <2>5
<1>3. /\ Len(G) = Len(file)
      /\ \A i \in 1..Len(file) : /\ i \in missed' => ~ G[i].crc
                                 /\ i \notin missed' => G[i] = file[i]
  <2>1. G = [i \in 1..Len(file) |->
               IF i \in missed' THEN [crc |-> FALSE, serial |-> file[i].serial] ELSE file[i]]
    BY <1>1 DEF Reached
  <2> HIDE DEF G
  <2> QED BY <1>1, <2>1
<1>4. /\ Len(Reached) = Len(file)
      /\ \A i \in 1..Len(file) : /\ i \in missed => ~ Reached[i].crc
                                 /\ i \notin missed => Reached[i] = file[i]
  BY <1>1, ReachedPages
<1>5. \A i \in 1..n : G[i] = Reached[i]
  <2> SUFFICES ASSUME NEW i \in 1..n PROVE G[i] = Reached[i]
    OBVIOUS
  <2>1. i \in 1..Len(file) /\ (i \in missed' <=> i \in missed)
    BY <1>1, <1>2
  <2>2. G[i] = IF i \in missed' THEN [crc |-> FALSE, serial |-> file[i].serial] ELSE file[i]
    BY <1>1, <2>1 DEF Reached
  <2>3. Reached[i] = IF i \in missed THEN [crc |-> FALSE, serial |-> file[i].serial] ELSE file[i]
    BY <1>1, <2>1 DEF Reached
  <2> QED BY <2>1, <2>2, <2>3
<1> HIDE DEF m, G
<1>6. \A i \in (n + 1)..m : ~ G[i].crc
  <2>1. \A i \in (n + 1)..m : i \in 1..Len(file) /\ i \in missed'
    BY <1>1 DEF m
  <2> QED BY <1>3, <2>1
<1>7. \A i \in 1..Len(file) : G[i].crc => G[i] = Reached[i]
  <2>1. \A i \in 1..Len(file) : i \notin missed' => i \notin missed
    OBVIOUS
  <2> QED BY <1>3, <1>4, <2>1
<1>8. Held(G, reader'.serial, m, reader'.pending, delivered' \o reader'.queue)
  BY SMTT(40), <1>1, <1>3, <1>4, <1>5, <1>6, <1>7, HeldMisses
<1>9. Fresh(G, reader', delivered')
  <2> SUFFICES ASSUME reader'.serial = NoSerial
               PROVE  /\ \A i \in 1..m : ~ G[i].crc
                      /\ reader'.pending = <<>> /\ reader'.queue = <<>> /\ delivered' = <<>>
    BY DEF Fresh, m
  <2>1. \A i \in 1..m : i \in 1..n \/ i \in (n + 1)..m
    BY <1>1
  <2> QED BY <1>5, <1>6, <2>1
<1>10. reader'.pending \in Seq(Seg)
  <2>1. reader'.pending \in Seq(Seen(G, reader'.serial, m))
    BY <1>8 DEF Held, Kept, Stretch
  <2>2. Seen(G, reader'.serial, m) \subseteq Seg
    BY DEF Seen, Values
  <2> QED BY <2>1, <2>2
<1>11. reader' \in Readers(file)
  BY <1>10 DEF Readers, Fields
<1>12. (\A i \in missed' : BehindTorn(i)) /\ (reader'.astray => BehindTorn(reader'.next))
  <2>1. \A i \in missed : BehindTorn(i)
    BY DEF RInv
  <2>2. \A i \in (n + 1)..m : BehindTorn(i) /\ n < m
    <3>1. \A i \in (n + 1)..m : n < m /\ i \in (n + 1)..reader'.next
      BY <1>1
    <3> QED BY <3>1 DEF m
  <2>3. reader'.next \in (n + 1)..reader'.next
    BY <1>1
  <2> QED BY <2>1, <2>2, <2>3 DEF m
<1>13. \A i : BehindTorn(i)' <=> BehindTorn(i)
  BY <1>1 DEF BehindTorn
<1> QED BY <1>1, <1>2, <1>8, <1>9, <1>11, <1>12, <1>13 DEF RInv, m, G

(* A state of the reader behind one more page, taken whole.                *)
LEMMA RInvNext ==
    ASSUME RInv, Reading, UNCHANGED <<file, missed>>, delivered' \in Seq(Packet),
           reader'.next = reader.next + 1, reader'.astray = FALSE,
           reader'.serial \in {file[i].serial : i \in DOMAIN file} \cup {NoSerial},
           reader'.serial # NoSerial,
           reader'.queue \in Seq(Packet), Fields(reader'),
           Held(Reached, reader'.serial, reader.next, reader'.pending,
                delivered' \o reader'.queue),
           lastErr' # "eof"
    PROVE  RInv'
<1> DEFINE n == reader.next
<1>1. /\ n \in Nat /\ n - 1 <= n /\ reader'.next \in 1..(Len(file) + 1)
      /\ n = reader'.next - 1 /\ (n + 1)..(reader'.next - 1) = {}
  BY SMTT(40), RInvFile DEF Reading
<1>2. missed' = missed \cup ((n + 1)..(reader'.next - 1)) /\ ~ (n < reader'.next - 1)
  BY <1>1
<1>3. UNCHANGED file
  OBVIOUS
<1>5. reader'.astray \in BOOLEAN
  OBVIOUS
<1>6. reader.next - 1 <= n /\ n <= reader'.next - 1
  BY <1>1
<1>7. Held(Reached, reader'.serial, n, reader'.pending, delivered' \o reader'.queue)
  OBVIOUS
<1>4. ~ (reader'.astray \/ n < reader'.next - 1)
  BY <1>2
<1> HIDE DEF n
<1> QED BY <1>1, <1>2, <1>3, <1>4, <1>5, <1>6, <1>7, RInvOn

LEMMA RInvInit == Init => RInv
<1> SUFFICES ASSUME Init PROVE RInv
  OBVIOUS
<1>1. /\ file \in Files /\ reader = NewReader(1) /\ delivered = <<>> /\ lastErr # "eof"
      /\ missed = {}
  BY DEF Init
<1>2. /\ Len(file) \in Nat /\ MuxedFile(Reached) /\ Len(Reached) = Len(file)
  BY <1>1, ReachedPages, ReachedMuxed
<1>3. /\ reader.next = 1 /\ reader.serial = NoSerial /\ reader.astray = FALSE
      /\ reader.pending = <<>> /\ reader.queue = <<>>
  BY <1>1 DEF NewReader
<1>4. reader \in Readers(file)
  BY <1>1, <1>2 DEF NewReader, Readers
<1>5. Held(Reached, reader.serial, 0, <<>>, <<>>)
  BY <1>2, HeldAnew
<1>6. delivered \o reader.queue = <<>> /\ delivered \in Seq(Packet)
  BY <1>1, <1>3
<1>7. Fresh(Reached, reader, delivered)
  BY <1>1, <1>3 DEF Fresh
<1> QED BY <1>1, <1>3, <1>4, <1>5, <1>6, <1>7 DEF RInv

LEMMA RServeQueue == ASSUME RInv, ServeQueue PROVE RInv'
<1>1. /\ reader.queue # <<>> /\ delivered' = Append(delivered, Head(reader.queue))
      /\ reader' = [reader EXCEPT !.queue = Tail(reader.queue)]
      /\ lastErr' # "eof" /\ UNCHANGED <<file, missed>>
  BY DEF ServeQueue, Pop
<1>2. reader \in Readers(file) /\ reader.queue \in Seq(Packet) /\ delivered \in Seq(Packet)
  BY DEF RInv, Readers
<1>3. /\ delivered' \in Seq(Packet) /\ Tail(reader.queue) \in Seq(Packet)
      /\ delivered' \o Tail(reader.queue) = delivered \o reader.queue
  BY <1>1, <1>2, MovesOne, ZenonT(40)
<1>4. /\ reader' \in Readers(file) /\ reader'.next = reader.next /\ reader'.serial = reader.serial
      /\ reader'.pending = reader.pending /\ reader'.queue = Tail(reader.queue)
      /\ reader'.astray = reader.astray
  BY <1>1, <1>2, <1>3 DEF Readers
<1>5. Fresh(Reached, reader', delivered')
  BY <1>1, <1>4 DEF RInv, Fresh
<1>6. Reached' = Reached /\ \A i : BehindTorn(i)' <=> BehindTorn(i)
  BY <1>1 DEF Reached, BehindTorn
<1>7. /\ missed' \subseteq 1..(reader'.next - 1) /\ (\A i \in missed' : BehindTorn(i))
      /\ reader'.astray => BehindTorn(reader'.next)
  BY <1>1, <1>4 DEF RInv
<1>8. Held(Reached, reader'.serial, reader'.next - 1, reader'.pending,
           delivered' \o reader'.queue)
  BY <1>3, <1>4 DEF RInv
<1> QED BY <1>1, <1>3, <1>4, <1>5, <1>6, <1>7, <1>8 DEF RInv

LEMMA RReadOn == ASSUME RInv, ReadOn PROVE RInv'
<1>1. /\ Reading /\ Accepted(reader, page) /\ Ends(page) = <<>>
      /\ reader' = Absorbed(reader, page) /\ UNCHANGED <<file, delivered, lastErr, missed>>
  BY DEF ReadOn
<1> DEFINE s == Owned(reader, page)
           P == Completed(reader, page)
<1>2. /\ reader'.next = reader.next + 1 /\ reader'.serial = s
      /\ reader'.pending = Absorbed(reader, page).pending /\ reader'.queue = <<>>
      /\ reader'.astray = FALSE /\ Fields(reader')
  BY <1>1 DEF Fields, Absorbed
<1>3. /\ Held(Reached, s, reader.next, Absorbed(reader, page).pending, delivered \o P)
      /\ s \in {file[i].serial : i \in DOMAIN file} \cup {NoSerial} /\ s # NoSerial
      /\ (Ends(page) = <<>> <=> P = <<>>)
  BY <1>1, AcceptedHeld
<1> HIDE DEF s, P
<1>4. delivered' \o reader'.queue = delivered \o P /\ reader'.queue \in Seq(Packet)
  <2>1. delivered' = delivered /\ reader'.queue = <<>> /\ P = <<>>
    BY <1>1, <1>2, <1>3
  <2> QED BY <2>1
<1>5. reader'.serial # NoSerial
  BY <1>2, <1>3
<1>6. lastErr' # "eof"
  BY <1>1, RInvFile DEF RInv, Reading
<1>7. delivered' \in Seq(Packet)
  BY <1>1 DEF RInv
<1> QED BY <1>1, <1>2, <1>3, <1>4, <1>5, <1>6, <1>7, RInvNext

LEMMA RDeliver == ASSUME RInv, Deliver PROVE RInv'
<1>1. /\ Reading /\ Accepted(reader, page) /\ Ends(page) # <<>>
      /\ reader' = Absorbed(reader, page) /\ UNCHANGED <<file, missed>>
      /\ delivered' = Append(delivered, Completed(reader, page)[1]) /\ lastErr' # "eof"
  BY DEF Deliver
<1> DEFINE s == Owned(reader, page)
           P == Completed(reader, page)
<1>2. /\ reader'.next = reader.next + 1 /\ reader'.serial = s
      /\ reader'.pending = Absorbed(reader, page).pending /\ reader'.queue = Tail(P)
      /\ reader'.astray = FALSE /\ Fields(reader')
  BY <1>1 DEF Fields, Absorbed, Pop
<1>3. /\ Held(Reached, s, reader.next, Absorbed(reader, page).pending, delivered \o P)
      /\ s \in {file[i].serial : i \in DOMAIN file} \cup {NoSerial} /\ s # NoSerial
      /\ P \in Seq(Packet) /\ P # <<>>
  BY <1>1, AcceptedHeld
<1>4. delivered' = Append(delivered, P[1])
  BY <1>1
<1> HIDE DEF s, P
<1>5. delivered' = Append(delivered, Head(P)) /\ delivered \in Seq(Packet)
  BY <1>3, <1>4 DEF RInv
<1>6. /\ delivered' \in Seq(Packet) /\ reader'.queue \in Seq(Packet)
      /\ delivered' \o reader'.queue = delivered \o P
  BY <1>2, <1>3, <1>5, MovesOne
<1>7. reader'.serial # NoSerial
  BY <1>2, <1>3
<1> QED BY <1>1, <1>2, <1>3, <1>6, <1>7, RInvNext

(* What a change of some of a reader's fields leaves.                      *)
LEMMA Strayed ==
    ASSUME NEW rd, Fields(rd), NEW a
    PROVE  [rd EXCEPT !.astray = a] =
             [next |-> rd.next, astray |-> a, serial |-> rd.serial,
              pending |-> rd.pending, queue |-> rd.queue]
  BY DEF Fields

LEMMA Moved ==
    ASSUME NEW rd, Fields(rd), NEW i, NEW a
    PROVE  [rd EXCEPT !.next = i, !.astray = a] =
             [next |-> i, astray |-> a, serial |-> rd.serial,
              pending |-> rd.pending, queue |-> rd.queue]
<1> DEFINE x == rd.next
           v == rd.astray
           y == rd.serial
           z == rd.pending
           w == rd.queue
<1> HIDE DEF x, v, y, z, w
<1> DEFINE r == [next |-> x, astray |-> v, serial |-> y, pending |-> z, queue |-> w]
           r1 == [next |-> i, astray |-> v, serial |-> y, pending |-> z, queue |-> w]
           r2 == [next |-> i, astray |-> a, serial |-> y, pending |-> z, queue |-> w]
<1>1. [r EXCEPT !.next = i] = r1 /\ [r1 EXCEPT !.astray = a] = r2
  OBVIOUS
<1>2. [rd EXCEPT !.next = i, !.astray = a] = [[rd EXCEPT !.next = i] EXCEPT !.astray = a]
  BY Zenon
<1>3. rd = r
  BY Zenon DEF Fields, r, x, v, y, z, w
<1> HIDE DEF r, r1, r2
<1>4. [rd EXCEPT !.next = i, !.astray = a] = r2
  BY <1>1, <1>2, <1>3, Zenon
<1> QED BY <1>4, Zenon DEF r2, x, v, y, z, w

LEMMA Served ==
    ASSUME NEW rd, Fields(rd), NEW i, NEW t
    PROVE  [rd EXCEPT !.next = i, !.serial = t] =
             [next |-> i, astray |-> rd.astray, serial |-> t,
              pending |-> rd.pending, queue |-> rd.queue]
<1> DEFINE x == rd.next
           v == rd.astray
           y == rd.serial
           z == rd.pending
           w == rd.queue
<1> HIDE DEF x, v, y, z, w
<1> DEFINE r == [next |-> x, astray |-> v, serial |-> y, pending |-> z, queue |-> w]
           r1 == [next |-> i, astray |-> v, serial |-> y, pending |-> z, queue |-> w]
           r2 == [next |-> i, astray |-> v, serial |-> t, pending |-> z, queue |-> w]
<1>1. [r EXCEPT !.next = i] = r1 /\ [r1 EXCEPT !.serial = t] = r2
  OBVIOUS
<1>2. [rd EXCEPT !.next = i, !.serial = t] = [[rd EXCEPT !.next = i] EXCEPT !.serial = t]
  BY Zenon
<1>3. rd = r
  BY Zenon DEF Fields, r, x, v, y, z, w
<1> HIDE DEF r, r1, r2
<1>4. [rd EXCEPT !.next = i, !.serial = t] = r2
  BY <1>1, <1>2, <1>3, Zenon
<1> QED BY <1>4, Zenon DEF r2, x, v, y, z, w

LEMMA Replaced ==
    ASSUME NEW rd, Fields(rd), NEW i, NEW a, NEW p, NEW q
    PROVE  [rd EXCEPT !.next = i, !.astray = a, !.pending = p, !.queue = q] =
             [next |-> i, astray |-> a, serial |-> rd.serial, pending |-> p, queue |-> q]
<1> DEFINE y == rd.serial
           z == rd.pending
           w == rd.queue
<1> HIDE DEF y, z, w
<1> DEFINE r2 == [next |-> i, astray |-> a, serial |-> y, pending |-> z, queue |-> w]
           r3 == [next |-> i, astray |-> a, serial |-> y, pending |-> p, queue |-> w]
           r4 == [next |-> i, astray |-> a, serial |-> y, pending |-> p, queue |-> q]
<1>1. [r2 EXCEPT !.pending = p] = r3 /\ [r3 EXCEPT !.queue = q] = r4
  OBVIOUS
<1>2. [rd EXCEPT !.next = i, !.astray = a, !.pending = p, !.queue = q] =
        [[[rd EXCEPT !.next = i, !.astray = a] EXCEPT !.pending = p] EXCEPT !.queue = q]
  BY Zenon
<1>3. [rd EXCEPT !.next = i, !.astray = a] = r2
  BY Moved, Zenon DEF r2, y, z, w
<1> HIDE DEF r2, r3, r4
<1>4. [rd EXCEPT !.next = i, !.astray = a, !.pending = p, !.queue = q] = r4
  BY <1>1, <1>2, <1>3, Zenon
<1> QED BY <1>4, Zenon DEF r4, y

(* Where a read leaves the reader that found no page it could take.        *)
LEMMA OnwardLeaves ==
    ASSUME NEW rd, Fields(rd), NEW after \in Onward(rd)
    PROVE  /\ after.next \in rd.next..(Len(file) + 1) /\ after.astray \in BOOLEAN
           /\ after.serial = rd.serial /\ after.pending = rd.pending
           /\ after.queue = rd.queue /\ Fields(after)
<1>1. PICK at \in (rd.next..(Len(file) + 1)) \X BOOLEAN :
         after = [rd EXCEPT !.next = at[1], !.astray = at[2]]
  BY Zenon DEF Onward
<1>2. after = [next |-> at[1], astray |-> at[2], serial |-> rd.serial,
               pending |-> rd.pending, queue |-> rd.queue]
  BY <1>1, Moved
<1>3. at[1] \in rd.next..(Len(file) + 1) /\ at[2] \in BOOLEAN
  OBVIOUS
<1> QED BY <1>2, <1>3 DEF Fields

LEMMA RejectedLeaves ==
    ASSUME NEW rd, Fields(rd), rd.astray = FALSE, rd.next \in Nat, Len(file) \in Nat,
           rd.next <= Len(file), NEW pg, NEW after \in Rejected(rd, pg)
    PROVE  /\ after.next \in (rd.next + 1)..(Len(file) + 1) /\ after.astray \in BOOLEAN
           /\ after.serial = IF pg.crc THEN Owned(rd, pg) ELSE rd.serial
           /\ after.pending = rd.pending /\ after.queue = rd.queue /\ Fields(after)
           /\ pg.crc \/ pg.damage = "body" =>
                 after.next = rd.next + 1 /\ after.astray = FALSE
<1> DEFINE s == IF pg.crc THEN Owned(rd, pg) ELSE rd.serial
           one == [rd EXCEPT !.next = rd.next + 1, !.serial = s]
<1>0. one = [rd EXCEPT !.next = @ + 1,
                       !.serial = IF pg.crc THEN Owned(rd, pg) ELSE @]
  OBVIOUS
<1> HIDE DEF s
<1>1. one = [next |-> rd.next + 1, astray |-> FALSE, serial |-> s,
             pending |-> rd.pending, queue |-> rd.queue]
  <2>1. one = [next |-> rd.next + 1, astray |-> rd.astray, serial |-> s,
               pending |-> rd.pending, queue |-> rd.queue]
    BY Served, Zenon
  <2> QED BY <2>1
<1>2. rd.next + 1 \in (rd.next + 1)..(Len(file) + 1)
  OBVIOUS
<1>3. after \in IF pg.crc \/ pg.damage = "body" THEN {one}
                ELSE IF pg.damage = "capture" THEN {one, [one EXCEPT !.astray = TRUE]}
                ELSE Onward(one)
  BY <1>0 DEF Rejected
<1> HIDE DEF one
<1>4. Fields(one) /\ one.next = rd.next + 1 /\ one.astray = FALSE /\ one.serial = s
      /\ one.pending = rd.pending /\ one.queue = rd.queue
  BY <1>1 DEF Fields
<1>5. CASE after = one
  BY <1>2, <1>4, <1>5 DEF s
<1>6. CASE ~ (pg.crc \/ pg.damage = "body") /\ after = [one EXCEPT !.astray = TRUE]
  <2>1. after = [next |-> rd.next + 1, astray |-> TRUE, serial |-> s,
                 pending |-> rd.pending, queue |-> rd.queue]
    BY <1>4, <1>6, Strayed
  <2>2. Fields(after) /\ after.next = rd.next + 1 /\ after.astray = TRUE
        /\ after.serial = s /\ after.pending = rd.pending /\ after.queue = rd.queue
    BY <2>1 DEF Fields
  <2> QED BY <1>2, <1>6, <2>2 DEF s
<1>7. CASE ~ (pg.crc \/ pg.damage = "body") /\ after \in Onward(one)
  BY <1>4, <1>7, OnwardLeaves DEF s
<1> QED BY <1>3, <1>5, <1>6, <1>7

LEMMA RReturnError == ASSUME RInv, ReturnError PROVE RInv'
<1>1. /\ Reading /\ ~ Accepted(reader, page) /\ reader' \in Rejected(reader, page)
      /\ UNCHANGED <<file, delivered>> /\ lastErr' \in PageErrors(reader, page, reader')
      /\ missed' = missed \cup RunPast(reader')
  BY DEF ReturnError
<1>2. lastErr' = "eof" => AllRead(reader')
  BY <1>1 DEF PageErrors, CutShort
<1> DEFINE s == IF page.crc THEN Owned(reader, page) ELSE reader.serial
           n == reader.next - 1
<1>3. reader \in Readers(file) /\ delivered \in Seq(Packet) /\ reader.queue = <<>>
      /\ delivered \o <<>> = delivered
  BY <1>1 DEF RInv, Reading
<1>5. /\ MuxedFile(Reached) /\ Len(Reached) = Len(file) /\ Len(file) \in Nat /\ n \in Nat
      /\ n + 1 = reader.next /\ n + 1 <= Len(file) /\ page = Reached[n + 1]
      /\ page = file[n + 1] /\ reader.next \in 1..Len(file) /\ reader.astray = FALSE
  BY <1>1, <1>3, RInvFile, PageReached DEF Reading, Readers
<1>4. /\ reader'.next \in (reader.next + 1)..(Len(file) + 1) /\ reader'.astray \in BOOLEAN
      /\ reader'.serial = s /\ Fields(reader')
      /\ reader'.pending = reader.pending /\ reader'.queue = <<>>
      /\ page.crc \/ page.damage = "body" =>
           reader'.next = reader.next + 1 /\ reader'.astray = FALSE
  <2>1. Fields(reader)
    BY <1>3 DEF Fields, Readers
  <2>2. reader.next \in Nat /\ reader.next <= Len(file)
    BY <1>5
  <2> QED BY <1>1, <1>3, <1>5, <2>1, <2>2, RejectedLeaves
<1>6. Held(Reached, s, n, reader.pending, delivered)
  <2>1. CASE page.crc
    BY <1>1, <2>1, Adopts
  <2>2. CASE ~ page.crc
    BY <1>3, <2>2 DEF RInv
  <2> QED BY <2>1, <2>2
<1>7. s \in {file[i].serial : i \in DOMAIN file} \cup {NoSerial} /\ (page.crc => s # NoSerial)
  <2>1. CASE page.crc
    BY <1>1, <2>1, Adopts
  <2>2. CASE ~ page.crc
    BY <1>3, <2>2 DEF Readers
  <2> QED BY <2>1, <2>2
<1>8. Usable(Reached, s, n + 1) => page.cont /\ reader.pending = <<>>
  BY <1>1, <1>5 DEF Usable, Accepted
<1>9. s = NoSerial => /\ \A i \in 1..n + 1 : ~ Reached[i].crc
                      /\ reader.pending = <<>> /\ delivered = <<>>
  <2> SUFFICES ASSUME s = NoSerial
               PROVE  /\ \A i \in 1..n + 1 : ~ Reached[i].crc
                      /\ reader.pending = <<>> /\ delivered = <<>>
    OBVIOUS
  <2>1. ~ page.crc /\ reader.serial = NoSerial
    BY <1>7
  <2>2. /\ \A i \in 1..n : ~ Reached[i].crc
        /\ reader.pending = <<>> /\ delivered = <<>>
    BY <2>1 DEF RInv, Fresh
  <2>3. \A i \in 1..n + 1 : i \in 1..n \/ i = n + 1
    BY <1>5
  <2> QED BY <1>5, <2>1, <2>2, <2>3
<1>12. missed' = missed \cup ((n + 2)..(reader'.next - 1)) /\ n + 2 = (n + 1) + 1
  BY <1>1, <1>5 DEF RunPast
<1>13. ASSUME reader'.astray \/ n + 1 < reader'.next - 1
       PROVE  \A i \in (n + 2)..reader'.next : BehindTorn(i)
  <2>1. ~ page.crc /\ page.damage # "body"
    BY <1>4, <1>5, <1>13
  <2>2. \A i \in (n + 2)..reader'.next : n + 1 \in 1..(i - 1)
    BY <1>4, <1>5
  <2> QED BY <1>5, <2>1, <2>2 DEF BehindTorn
<1> HIDE DEF s, n
<1>10. Held(Reached, s, n + 1, reader.pending, delivered)
  <2>1. CASE Usable(Reached, s, n + 1)
    <3>1. Reached[n + 1].cont /\ reader.pending = <<>>
      BY <1>5, <1>8, <2>1
    <3> QED BY <1>5, <1>6, <2>1, <3>1, HeldRejects
  <2>2. CASE ~ Usable(Reached, s, n + 1)
    BY <1>5, <1>6, <2>2, HeldSkips
  <2> QED BY <2>1, <2>2
<1>11. delivered' \in Seq(Packet) /\ reader'.queue \in Seq(Packet)
       /\ delivered' \o reader'.queue = delivered
  BY <1>1, <1>3, <1>4
<1>14. /\ n + 1 \in Nat /\ reader.next - 1 <= n + 1 /\ n + 1 <= reader'.next - 1
       /\ reader'.next \in 1..(Len(file) + 1)
  BY <1>4, <1>5
<1>15. lastErr' = "eof" => reader'.next > Len(file) /\ reader'.queue = <<>>
  BY <1>2, <1>4 DEF AllRead
<1> QED BY <1>1, <1>4, <1>7, <1>9, <1>10, <1>11, <1>12, <1>13, <1>14, <1>15, RInvOn

LEMMA RReadAstray == ASSUME RInv, ReadAstray PROVE RInv'
<1>1. /\ reader.queue = <<>> /\ reader.astray /\ reader' \in Onward(reader)
      /\ UNCHANGED <<file, delivered>>
      /\ lastErr' \in {"capture", "crc"} \cup CutShort(reader')
      /\ missed' = missed \cup RunPast(reader')
  BY DEF ReadAstray, Astray
<1>2. lastErr' = "eof" => AllRead(reader')
  BY <1>1 DEF CutShort
<1> DEFINE n == reader.next - 1
<1>3. /\ reader \in Readers(file) /\ Fields(reader) /\ delivered \in Seq(Packet)
      /\ n \in Nat /\ reader.next \in Nat /\ n + 1 = reader.next
  BY RInvFile DEF RInv, Readers, Fields
<1>4. /\ reader'.next \in reader.next..(Len(file) + 1) /\ reader'.astray \in BOOLEAN
      /\ reader'.serial = reader.serial /\ reader'.pending = reader.pending
      /\ reader'.queue = <<>> /\ Fields(reader')
  BY <1>1, <1>3, OnwardLeaves
<1>5. missed' = missed \cup ((n + 1)..(reader'.next - 1))
  BY <1>1, <1>3 DEF RunPast
<1>6. \A i \in (n + 1)..reader'.next : BehindTorn(i)
  <2>1. PICK j \in 1..(reader.next - 1) : ~ file[j].crc /\ file[j].damage # "body"
    BY <1>1 DEF RInv, BehindTorn
  <2>2. \A i \in (n + 1)..reader'.next : j \in 1..(i - 1)
    BY <1>3, <1>4
  <2> QED BY <2>1, <2>2 DEF BehindTorn
<1>7. /\ reader'.serial \in {file[i].serial : i \in DOMAIN file} \cup {NoSerial}
      /\ reader'.queue \in Seq(Packet) /\ delivered' \in Seq(Packet)
      /\ delivered' \o reader'.queue = delivered \o reader.queue
  BY <1>1, <1>3, <1>4 DEF Readers
<1>8. Held(Reached, reader'.serial, n, reader'.pending, delivered' \o reader'.queue)
  BY <1>4, <1>7 DEF RInv
<1>9. reader'.serial = NoSerial =>
        /\ \A i \in 1..n : ~ Reached[i].crc
        /\ reader'.pending = <<>> /\ reader'.queue = <<>> /\ delivered' = <<>>
  BY <1>1, <1>4 DEF RInv, Fresh
<1>10. /\ reader.next - 1 <= n /\ n <= reader'.next - 1
       /\ reader'.next \in 1..(Len(file) + 1)
  BY <1>3, <1>4, RInvFile
<1>11. lastErr' = "eof" => reader'.next > Len(file) /\ reader'.queue = <<>>
  BY <1>2, <1>4 DEF AllRead
<1> HIDE DEF n
<1> QED BY <1>1, <1>3, <1>4, <1>5, <1>6, <1>7, <1>8, <1>9, <1>10, <1>11, RInvOn

(* What a step that leaves the reader and the file alone does to RInv.     *)
LEMMA RInvKept ==
    ASSUME RInv, UNCHANGED <<file, reader, delivered, missed>>,
           lastErr' = "eof" => reader.next > Len(file) /\ reader.queue = <<>>
    PROVE  RInv'
<1>1. Reached' = Reached /\ \A i : BehindTorn(i)' <=> BehindTorn(i)
  BY DEF Reached, BehindTorn
<1> QED BY <1>1 DEF RInv

LEMMA REndOfFile == ASSUME RInv, EndOfFile PROVE RInv'
  BY RInvKept DEF EndOfFile, AllRead

LEMMA RInvStep == RInv /\ [Next]_readerVars => RInv'
<1> SUFFICES ASSUME RInv, [Next]_readerVars PROVE RInv'
  OBVIOUS
<1>1. CASE Next
  BY <1>1, RServeQueue, RReadOn, RDeliver, RReturnError, RReadAstray, REndOfFile DEF Next
<1>2. CASE UNCHANGED readerVars
  BY <1>2, RInvKept DEF readerVars, RInv
<1> QED BY <1>1, <1>2

LEMMA RInvAlways == Spec => []RInv
<1>1. Init => RInv
  BY RInvInit
<1>2. RInv /\ [Next]_readerVars => RInv'
  BY RInvStep
<1> QED BY <1>1, <1>2, PTL DEF Spec

-----------------------------------------------------------------------------
(* What was returned is part of what was given out.                        *)
LEMMA ReturnedWhole ==
    ASSUME RInv
    PROVE  LET S == Seen(Reached, reader.serial, reader.next - 1)
           IN  /\ DOMAIN delivered = 1..Len(delivered) /\ Len(delivered) \in Nat
               /\ \A i \in DOMAIN delivered : Got(delivered[i], S) /\ Whole(delivered[i].segs, S)
               /\ \A i, j \in DOMAIN delivered :
                    i < j => Owner(delivered[i]) < Owner(delivered[j])
               /\ S \subseteq Values
<1> DEFINE S == Seen(Reached, reader.serial, reader.next - 1)
           D == delivered \o reader.queue
           n == Len(delivered)
<1>1. Given(D, S) /\ delivered \in Seq(Packet) /\ reader.queue \in Seq(Packet)
  BY DEF RInv, Held, Readers
<1>2. /\ n \in Nat /\ DOMAIN delivered = 1..n /\ DOMAIN D = 1..Len(D) /\ n <= Len(D)
      /\ \A i \in 1..n : D[i] = delivered[i]
  <2>1. /\ D \in Seq(Packet) /\ Len(D) = Len(delivered) + Len(reader.queue)
        /\ Len(delivered) \in Nat /\ Len(reader.queue) \in Nat
        /\ \A i \in 1..Len(delivered) : D[i] = delivered[i]
    BY <1>1, ConcatAt
  <2>2. DOMAIN D = 1..Len(D) /\ DOMAIN delivered = 1..n
    BY <1>1, <2>1
  <2> QED BY <2>1, <2>2
<1> HIDE DEF S, D, n
<1>3. \A i \in 1..n : i \in 1..Len(D)
  BY <1>2
<1>4. \A i \in 1..n : Got(delivered[i], S)
  BY <1>1, <1>2, <1>3 DEF Given
<1>5. \A i, j \in 1..n : i < j => Owner(delivered[i]) < Owner(delivered[j])
  BY <1>1, <1>2, <1>3 DEF Given
<1>6. S \subseteq Values
  BY DEF S, Seen
<1> QED BY <1>2, <1>4, <1>5, <1>6 DEF S, n, Got

(* No damage makes the reader return a packet twice or out of order.       *)
THEOREM ReaderInOrder == Spec => []InOrder
<1>1. RInv => InOrder
  BY ReturnedWhole DEF InOrder
<1> QED BY <1>1, RInvAlways, PTL

(* The granule position marked valid is the packet's own, and so is the    *)
(* end of the stream.                                                      *)
THEOREM ReaderGranuleIsOwn == Spec => []GranuleIsOwn
<1>1. RInv => GranuleIsOwn
  BY ReturnedWhole DEF GranuleIsOwn, Got
<1> QED BY <1>1, RInvAlways, PTL

LEMMA GoodReached ==
    ASSUME RInv
    PROVE  /\ \A i \in 1..Len(file) : i \in Good <=> Usable(Reached, reader.serial, i)
           /\ \A i \in Good : i \in 1..Len(file) /\ Reached[i] = file[i]
<1>1. /\ DOMAIN file = 1..Len(file)
      /\ \A i \in 1..Len(file) : /\ i \in missed => ~ Reached[i].crc
                                 /\ i \notin missed => Reached[i] = file[i]
  BY ReachedPages DEF RInv
<1> QED BY <1>1 DEF Good, Usable

LEMMA ArrivedOn ==
    ASSUME RInv, NEW p \in DOMAIN Sent, Arrived(p), NEW k \in 1..Sent[p].laces
    PROVE  \E i \in 1..Len(file) : /\ Usable(Reached, reader.serial, i)
                                   /\ Lacing(p)[k] \in Range(Reached[i].segs)
<1>1. Lacing(p)[k] \in ToSet(Lacing(p))
  BY LacingValues DEF ToSet
<1>2. Lacing(p)[k] \in UNION {ToSet(file[i].segs) : i \in Good}
  BY <1>1 DEF Arrived
<1>3. PICK i \in Good : Lacing(p)[k] \in ToSet(file[i].segs)
  BY <1>2
<1>4. i \in 1..Len(file) /\ Usable(Reached, reader.serial, i) /\ Reached[i] = file[i]
  BY GoodReached
<1> QED BY <1>3, <1>4 DEF ToSet, Range

(* A returned packet all of which is in the file is as it was sent.        *)
LEMMA ArrivedWhole ==
    ASSUME RInv, NEW d \in DOMAIN delivered, Arrived(Owner(delivered[d]))
    PROVE  delivered[d].segs = Lacing(Owner(delivered[d]))
<1> DEFINE s == reader.serial
           n == reader.next - 1
           S == Seen(Reached, s, n)
           x == delivered[d].segs
           p == Owner(delivered[d])
           final == x[Len(x)]
<1>1. /\ S \subseteq Values /\ Whole(x, S) /\ n \in Nat /\ Len(file) \in Nat
      /\ MuxedFile(Reached) /\ Len(Reached) = Len(file) /\ n <= Len(file)
  BY ReturnedWhole, RInvFile
<1>2. /\ final \in S /\ final \in Values /\ final.end /\ p = final.pkt
      /\ p \in DOMAIN Sent /\ p \in Nat
  BY <1>1, GotEnd
<1> HIDE DEF S, p, final
<1>3. \A k \in 1..Sent[p].laces : Lacing(p)[k] \in S
  <2> SUFFICES ASSUME NEW k \in 1..Sent[p].laces PROVE Lacing(p)[k] \in S
    OBVIOUS
  <2> DEFINE v == Lacing(p)[k]
  <2>1. PICK i \in 1..Len(file) : Usable(Reached, s, i) /\ v \in Range(Reached[i].segs)
    BY <1>2, ArrivedOn DEF p
  <2>2. v \in Values /\ v.pkt = p /\ v.k = k /\ Sent[p].laces \in Nat
    BY <1>2, LacingValues
  <2> HIDE DEF v
  <2>3. i <= n
    <3> SUFFICES ASSUME ~ (i <= n) PROVE FALSE
      OBVIOUS
    <3>1. PICK j \in 1..n : Usable(Reached, s, j) /\ final \in Range(Reached[j].segs)
      BY <1>2 DEF S, Seen
    <3>2. j \in 1..Len(file) /\ j < i
      BY <1>1
    <3>3. Before(final, v)
      BY <1>1, <2>1, <3>1, <3>2, FilePages
    <3>4. final.k = Sent[p].laces
      BY <1>2 DEF Values
    <3> QED BY <1>2, <2>2, <3>3, <3>4 DEF Before
  <2>4. i \in 1..n
    BY <1>1, <2>3
  <2> QED BY <2>1, <2>2, <2>4 DEF S, Seen, v
<1>4. x = Lacing(final.pkt)
  BY <1>1, <1>2, <1>3, WholePacket DEF final
<1> QED BY <1>2, <1>4 DEF p

(* At the end of the file everything it leads up to has been returned.     *)
LEMMA ArrivedReturned ==
    ASSUME RInv, lastErr = "eof", NEW p \in DOMAIN Sent, Arrived(p),
           NEW i \in Good, ~ file[i].cont,
           \A q \in SeqsOf(p) : file[i].seq <= q,
           \A q \in SeqsOf(p) : file[i].seq..q \subseteq GoodSeqs
    PROVE  \E d \in DOMAIN delivered : Owner(delivered[d]) = p
<1> DEFINE s == reader.serial
           n == reader.next - 1
           m == Sent[p].laces
           v == Lacing(p)[m]
<1>1. /\ n = Len(file) /\ n \in Nat /\ reader.queue = <<>> /\ MuxedFile(Reached)
      /\ Len(Reached) = Len(file) /\ DOMAIN file = 1..Len(file)
  <2>1. reader.next > Len(file) /\ reader.queue = <<>>
    BY DEF RInv
  <2> QED BY <2>1, RInvFile
<1>2. m \in 1..m /\ v.pkt = p /\ v.end
  BY LacingValues
<1>3. PICK j \in 1..Len(file) : Usable(Reached, s, j) /\ v \in Range(Reached[j].segs)
  BY <1>2, ArrivedOn
<1> HIDE DEF m, v
<1>4. /\ i \in 1..Len(file) /\ Usable(Reached, s, i) /\ Reached[i] = file[i]
      /\ j \in Good /\ Reached[j] = file[j]
  BY <1>3, GoodReached
<1>5. file[j].seq \in SeqsOf(p)
  <2>1. j \in Good
    BY <1>4
  <2>2. p \in {t.pkt : t \in ToSet(file[j].segs)}
    BY <1>2, <1>3, <1>4 DEF ToSet, Range
  <2> QED BY <2>1, <2>2 DEF SeqsOf
<1>6. file[i].seq <= file[j].seq /\ file[i].seq..file[j].seq \subseteq GoodSeqs
  BY <1>5
<1>7. GoodSeqs = Seqs(Reached, s)
  <2>1. \A k \in 1..Len(file) : Usable(Reached, s, k) <=> k \in Good
    BY GoodReached
  <2>2. \A k \in Good : k \in 1..Len(file) /\ Reached[k] = file[k]
    BY GoodReached
  <2> QED BY <1>1, <2>1, <2>2 DEF GoodSeqs, Seqs
<1>8. file[j].segs # <<>>
  <2>1. Range(file[j].segs) # {}
    BY <1>3, <1>4
  <2> QED BY <2>1 DEF Range
<1>9. \A a \in {i, j} : file[a].seq \in Nat
  <2>1. MuxedPage(file[i]) /\ MuxedPage(file[j])
    BY <1>1, <1>3, <1>4, FilePages
  <2> QED BY <2>1 DEF MuxedPage
<1>10. i <= j
  <2>1. j < i => file[j].seq < file[i].seq
    BY <1>1, <1>3, <1>4, <1>8, FilePages
  <2> QED BY <1>4, <1>6, <1>9, <2>1
<1>11. file[i].segs # <<>>
  <2>1. i < j => (Reached[i].segs = <<>> <=> Reached[j].segs = <<>>)
    BY <1>1, <1>3, <1>4, FilePages
  <2> QED BY <1>1, <1>3, <1>4, <1>8, <1>10, <2>1
<1>12. Chain(Reached, s, i, j)
  <2>1. j \in i..Len(file)
    BY <1>1, <1>4, <1>10
  <2> QED BY <1>1, <1>3, <1>4, <1>6, <1>7, <1>11, <2>1 DEF Chain
<1>13. Synced(Reached, s, n, reader.pending, delivered)
  <2>1. delivered \o reader.queue = delivered
    BY <1>1 DEF RInv
  <2> QED BY <2>1 DEF RInv, Held
<1>14. j \in 1..n /\ i \in 1..j
  BY <1>1, <1>4, <1>10
<1> QED BY <1>2, <1>3, <1>12, <1>13, <1>14 DEF Synced

(* The damage is contained: a packet all of whose pages the reader met     *)
(* comes out as it was sent, and it does come out when the pages that lead *)
(* up to it were met; and a page is only missed behind one whose framing   *)
(* is damaged.                                                             *)
THEOREM ReaderDamageContained == Spec => []DamageContained
<1>1. RInv => DamageContained
  <2> SUFFICES ASSUME RInv PROVE DamageContained
    OBVIOUS
  <2>1. \A i \in DOMAIN delivered :
          Arrived(Owner(delivered[i])) => delivered[i].segs = Lacing(Owner(delivered[i]))
    BY ArrivedWhole
  <2>2. ASSUME lastErr = "eof", NEW p \in DOMAIN Sent, Arrived(p),
               \E i \in Good : /\ ~ file[i].cont
                               /\ \A q \in SeqsOf(p) : file[i].seq <= q
                               /\ \A q \in SeqsOf(p) : file[i].seq..q \subseteq GoodSeqs
        PROVE  \E i \in DOMAIN delivered : delivered[i].segs = Lacing(p)
    <3>1. PICK d \in DOMAIN delivered : Owner(delivered[d]) = p
      BY <2>2, ArrivedReturned
    <3> QED BY <2>1, <2>2, <3>1
  <2>3. \A i \in missed : BehindTorn(i)
    BY DEF RInv
  <2> QED BY <2>1, <2>2, <2>3 DEF DamageContained
<1> QED BY <1>1, RInvAlways, PTL

(* A reader's state stays typed, and what it holds unfinished ends no      *)
(* packet, so that havePending is pending # <<>>.                          *)
THEOREM ReaderTypeOK == Spec => []TypeOK
<1>1. RInv => TypeOK
  BY RInvFile DEF RInv, Readers, Held, Kept, Unended, TypeOK
<1> QED BY <1>1, RInvAlways, PTL

-----------------------------------------------------------------------------
(***************************************************************************)
(* Seeking.  What a file to seek in is; what one turn of ReadPacket takes  *)
(* from it; and the invariant of SpecSeek, one part for each place in a    *)
(* call: which pages the search knows, that the range it still looks at    *)
(* holds the last page, what the scan has passed.                          *)
(***************************************************************************)
LEMMA SeekFile ==
    ASSUME file \in Files
    PROVE  /\ MuxedFile(file) /\ SeekableFile(file)
           /\ Len(file) \in Nat /\ Len(file) > 2 /\ DOMAIN file = 1..Len(file)
           /\ Last(file) = file[Len(file)]
<1>1. MuxedFile(file) /\ SeekableFile(file)
  BY ReaderConstants, SeekConstants
<1>2. Len(file) \in Nat /\ DOMAIN file = 1..Len(file)
  BY <1>1, FilePages
<1>3. Len(file) > 2
  BY <1>1 DEF SeekableFile
<1> QED BY <1>1, <1>2, <1>3 DEF Last

LEMMA SeekPages ==
    ASSUME file \in Files
    PROVE  /\ Ending(1) /\ Ending(2) /\ Ending(Len(file))
           /\ file[1].granule = 0 /\ file[2].granule = 0
           /\ \A i \in 1..2 : file[i].crc => Len(Ends(file[i])) = 1
           /\ \A i \in 1..Len(file) :
                 /\ file[i].serial = file[1].serial /\ file[i].segs # <<>>
                 /\ file[i].serial # NoSerial /\ file[i].granule \in Nat
                 /\ file[i].seq = i - 1 /\ (file[i].eos => i = Len(file))
                 /\ Offset(i) \in Nat /\ file[i].size \in Nat \ {0}
                 /\ file[i].size <= Window
                 /\ Offset(i) = IF i = 1 THEN 0 ELSE Offset(i - 1) + file[i - 1].size
                 /\ file[i].crc \in BOOLEAN /\ (file[i].crc => MuxedPage(file[i]))
                 /\ Ending(i) => file[i].granule # NoGranule
           /\ \A i, j \in 1..Len(file) :
                 i < j => /\ Offset(i) < Offset(j)
                          /\ Ending(i) /\ Ending(j) => file[i].granule <= file[j].granule
<1> DEFINE n == Len(file)
           ending == {i \in DOMAIN file : Ends(file[i]) # <<>>}
<1>1. /\ MuxedFile(file) /\ SeekableFile(file) /\ n \in Nat /\ n > 2
      /\ DOMAIN file = 1..n
  BY SeekFile
<1>2. {1, 2, n} \subseteq ending /\ \A i \in 1..n : i \in ending <=> Ending(i)
  BY <1>1 DEF SeekableFile, Ending
<1>3. \A i \in 1..2 : file[i].granule = 0 /\ (file[i].crc => Len(Ends(file[i])) = 1)
  BY <1>1 DEF SeekableFile
<1>4. \A i \in 1..n :
         /\ file[i].serial = file[1].serial /\ file[i].seq = i - 1 /\ file[i].segs # <<>>
         /\ file[i].granule \in Nat /\ (file[i].eos => i = n)
         /\ Offset(i) \in Nat /\ file[i].size \in 1..Window
         /\ Offset(i) = IF i = 1 THEN 0 ELSE Offset(i - 1) + file[i - 1].size
  <2>1. \A i \in DOMAIN file :
          /\ file[i].serial = file[1].serial /\ file[i].seq = i - 1 /\ file[i].segs # <<>>
          /\ file[i].granule \in Nat /\ (file[i].eos => i = Len(file))
          /\ file[i].at \in Nat /\ file[i].size \in 1..Window
          /\ file[i].at = IF i = 1 THEN 0 ELSE file[i - 1].at + file[i - 1].size
    BY <1>1, Zenon DEF SeekableFile
  <2> QED BY <1>1, <2>1 DEF Offset
<1>13. \A i \in 1..n : file[i].size \in Nat \ {0} /\ file[i].size <= Window
  BY <1>4, SeekConstants
<1>5. \A i \in 1..n : /\ file[i].crc \in BOOLEAN /\ file[i].serial # NoSerial
                      /\ file[i].crc => MuxedPage(file[i])
  BY <1>1, Zenon DEF MuxedFile
<1>6. ASSUME NEW i \in 1..n
      PROVE  \A k \in Nat : i + 1 + k <= n => Offset(i) < Offset(i + 1 + k)
  <2> DEFINE T == {k \in Nat : i + 1 + k <= n => Offset(i) < Offset(i + 1 + k)}
  <2>1. ASSUME NEW j \in 1..n, j > 1
        PROVE  Offset(j) > Offset(j - 1) /\ Offset(j) \in Nat /\ Offset(j - 1) \in Nat
    <3>1. j - 1 \in 1..n
      BY <1>1, <2>1
    <3>2. file[j - 1].size \in Nat /\ file[j - 1].size > 0
      BY <1>13, <3>1
    <3> QED BY <1>4, <2>1, <3>1, <3>2
  <2>2. 0 \in T
    <3>1. i + 1 + 0 <= n => /\ i + 1 \in 1..n /\ i + 1 > 1 /\ (i + 1) - 1 = i
                            /\ i + 1 + 0 = i + 1
      BY <1>1
    <3> QED BY <2>1, <3>1
  <2>3. ASSUME NEW k \in Nat, k \in T PROVE k + 1 \in T
    <3> SUFFICES ASSUME i + 1 + (k + 1) <= n
                 PROVE  Offset(i) < Offset(i + 1 + (k + 1))
      OBVIOUS
    <3> DEFINE j == i + 1 + (k + 1)
    <3>1. /\ j \in 1..n /\ j > 1 /\ j - 1 = i + 1 + k /\ j - 1 <= n
      BY <1>1
    <3>2. Offset(i) < Offset(i + 1 + k)
      BY <2>3, <3>1
    <3>3. Offset(j) > Offset(j - 1) /\ Offset(j) \in Nat /\ Offset(j - 1) \in Nat
      BY <2>1, <3>1
    <3>4. Offset(i) \in Nat
      BY <1>4
    <3> HIDE DEF j
    <3>5. Offset(i) < Offset(j)
      BY <3>1, <3>2, <3>3, <3>4
    <3> QED BY <3>5 DEF j
  <2> HIDE DEF T
  <2>4. \A k \in Nat : k \in T
    BY <2>2, <2>3, SetInduction
  <2> QED BY <2>4 DEF T
<1>7. \A j \in ending : /\ file[j].granule # NoGranule
                        /\ \A i \in ending : i < j => file[i].granule <= file[j].granule
  BY <1>1 DEF SeekableFile
<1>8. ASSUME NEW i \in 1..n, NEW j \in 1..n, i < j
      PROVE  Offset(i) < Offset(j)
  <2>1. j - i - 1 \in Nat /\ i + 1 + (j - i - 1) = j /\ j <= n
    BY <1>1, <1>8
  <2> QED BY <1>6, <2>1
<1>9. Ending(1) /\ Ending(2) /\ Ending(n)
  <2>1. 1 \in 1..n /\ 2 \in 1..n /\ n \in 1..n
    BY <1>1
  <2> QED BY <1>2, <2>1
<1>10. 1 \in 1..2 /\ 2 \in 1..2
  OBVIOUS
<1> HIDE DEF n, ending
<1>11. \A i, j \in 1..n : i < j /\ Ending(i) /\ Ending(j) => file[i].granule <= file[j].granule
  BY <1>2, <1>7
<1>12. \A i \in 1..n : Ending(i) => file[i].granule # NoGranule
  BY <1>2, <1>7
<1>14. \A i, j \in 1..n :
          i < j => /\ Offset(i) < Offset(j)
                   /\ Ending(i) /\ Ending(j) => file[i].granule <= file[j].granule
  BY <1>8, <1>11
<1>15. \A i \in 1..n :
          /\ file[i].serial = file[1].serial /\ file[i].segs # <<>>
          /\ file[i].serial # NoSerial /\ file[i].granule \in Nat
          /\ file[i].seq = i - 1 /\ (file[i].eos => i = n)
          /\ Offset(i) \in Nat /\ file[i].size \in Nat \ {0}
          /\ file[i].size <= Window
          /\ Offset(i) = IF i = 1 THEN 0 ELSE Offset(i - 1) + file[i - 1].size
          /\ file[i].crc \in BOOLEAN /\ (file[i].crc => MuxedPage(file[i]))
          /\ Ending(i) => file[i].granule # NoGranule
  BY <1>4, <1>5, <1>12, <1>13
<1>16. /\ file[1].granule = 0 /\ file[2].granule = 0
       /\ \A i \in 1..2 : file[i].crc => Len(Ends(file[i])) = 1
  BY <1>3, <1>10
<1> QED BY <1>9, <1>14, <1>15, <1>16, Zenon DEF n

(* What is left of the packets of page i, in order: all but the last are   *)
(* neither valid nor the stream's end.                                     *)
Waiting(q, i) ==
    /\ \E T : q \in Seq(T)
    /\ Len(Ends(file[i])) \in Nat /\ Len(q) <= Len(Ends(file[i]))
    /\ \A k \in 1..Len(q) :
          /\ q[k].granule = file[i].granule
          /\ q[k].valid <=> k = Len(q) /\ file[i].granule # NoGranule
          /\ q[k].eos <=> file[i].eos /\ k = Len(q)

(* A reader of this file, with packets of the page it read last.           *)
ReaderRight(rd) ==
    /\ Fields(rd) /\ rd.serial = file[1].serial
    /\ rd.next \in 1..(Len(file) + 1)
    /\ rd.astray \in BOOLEAN /\ (rd.astray => ~ Readable)
    /\ rd.pending \in Seq(Values) /\ \E T : rd.queue \in Seq(T)
    /\ rd.queue # <<>> => /\ rd.next - 1 \in DOMAIN file /\ Ending(rd.next - 1)
                          /\ Waiting(rd.queue, rd.next - 1)

LEMMA QueueParts ==
    ASSUME NEW T, NEW q \in Seq(T)
    PROVE  /\ Len(q) \in Nat /\ (q = <<>> <=> Len(q) = 0)
           /\ q # <<>> => /\ Head(q) = q[1] /\ Tail(q) \in Seq(T)
                          /\ Len(Tail(q)) = Len(q) - 1
                          /\ \A k \in 1..(Len(q) - 1) : Tail(q)[k] = q[k + 1]
                          /\ <<Head(q)>> \o Tail(q) = q
<1>1. Len(q) \in Nat /\ (q = <<>> <=> Len(q) = 0)
  OBVIOUS
<1>2. ASSUME q # <<>>
      PROVE  /\ Head(q) = q[1] /\ Tail(q) \in Seq(T) /\ Len(Tail(q)) = Len(q) - 1
             /\ \A k \in 1..(Len(q) - 1) : Tail(q)[k] = q[k + 1]
  BY <1>1, <1>2
<1>3. ASSUME q # <<>> PROVE <<Head(q)>> \o Tail(q) = q
  <2>1. Append(<<>>, Head(q)) \o Tail(q) = <<>> \o q
    <3>1. <<>> \in Seq(T)
      OBVIOUS
    <3> QED BY <1>3, <3>1, MovesOne, Zenon
  <2>2. Append(<<>>, Head(q)) = <<Head(q)>> /\ <<>> \o q = q
    OBVIOUS
  <2> QED BY <2>1, <2>2
<1> QED BY <1>1, <1>2, <1>3

LEMMA WaitingTail ==
    ASSUME NEW i, NEW q, Waiting(q, i), q # <<>>
    PROVE  /\ Waiting(Tail(q), i)
           /\ Head(q).granule = file[i].granule
           /\ IsLast(Head(q)) <=> /\ Tail(q) = <<>> /\ file[i].eos
                                  /\ file[i].granule # NoGranule
           /\ <<Head(q)>> \o Tail(q) = q /\ (Len(q) = 1 => Tail(q) = <<>>)
<1> DEFINE n == Len(q)
           t == Tail(q)
<1>1. PICK T : q \in Seq(T)
  BY DEF Waiting
<1>2. /\ n \in Nat /\ n # 0 /\ Head(q) = q[1] /\ t \in Seq(T) /\ Len(t) = n - 1
      /\ \A k \in 1..(n - 1) : t[k] = q[k + 1]
      /\ <<Head(q)>> \o t = q
  BY <1>1, QueueParts
<1>3. t = <<>> <=> Len(t) = 0
  BY <1>2, QueueParts
<1>4. /\ n <= Len(Ends(file[i])) /\ Len(Ends(file[i])) \in Nat
      /\ \A k \in 1..n : /\ q[k].granule = file[i].granule
                         /\ q[k].valid <=> k = n /\ file[i].granule # NoGranule
                         /\ q[k].eos <=> file[i].eos /\ k = n
  BY DEF Waiting
<1> HIDE DEF n, t
<1>5. 1 \in 1..n /\ \A k \in 1..(n - 1) : k + 1 \in 1..n /\ (k + 1 = n <=> k = n - 1)
  BY <1>2
<1>6. /\ Head(q).granule = file[i].granule
      /\ IsLast(Head(q)) <=> t = <<>> /\ file[i].eos /\ file[i].granule # NoGranule
  <2>1. t = <<>> <=> 1 = n
    BY <1>2, <1>3
  <2> QED BY <1>2, <1>4, <1>5, <2>1 DEF IsLast
<1>7. Waiting(t, i)
  <2>1. n - 1 <= Len(Ends(file[i]))
    BY <1>2, <1>4
  <2>2. \A k \in 1..(n - 1) :
           /\ t[k].granule = file[i].granule
           /\ t[k].valid <=> k = n - 1 /\ file[i].granule # NoGranule
           /\ t[k].eos <=> file[i].eos /\ k = n - 1
    BY <1>2, <1>4, <1>5
  <2> QED BY <1>2, <1>4, <2>1, <2>2 DEF Waiting
<1>8. n = 1 => t = <<>>
  BY <1>2, <1>3
<1> QED BY <1>2, <1>6, <1>7, <1>8 DEF n, t

(* All the packets of a page.                                              *)
LEMMA WaitingPage ==
    ASSUME NEW i, Len(Ends(file[i])) \in Nat, NEW c
    PROVE  Waiting(PagePackets(file[i], c), i)
           /\ Len(PagePackets(file[i], c)) = Len(Ends(file[i]))
<1> DEFINE ps == PagePackets(file[i], c)
           n == Len(Ends(file[i]))
<1>1. ps = [j \in 1..n |-> ps[j]]
  BY DEF PagePackets
<1>2. \A k \in 1..n : /\ ps[k].granule = file[i].granule
                      /\ ps[k].valid <=> k = n /\ file[i].granule # NoGranule
                      /\ ps[k].eos <=> file[i].eos /\ k = n
  <2> SUFFICES ASSUME NEW k \in 1..n
               PROVE  /\ ps[k].granule = file[i].granule
                      /\ ps[k].valid <=> k = n /\ file[i].granule # NoGranule
                      /\ ps[k].eos <=> file[i].eos /\ k = n
    OBVIOUS
  <2>1. /\ PagePackets(file[i], c)[k].granule = file[i].granule
        /\ PagePackets(file[i], c)[k].valid <=>
             k = Len(Ends(file[i])) /\ file[i].granule # NoGranule
        /\ PagePackets(file[i], c)[k].eos <=> file[i].eos /\ k = Len(Ends(file[i]))
    BY PagePacketFields
  <2> QED BY <2>1, Zenon
<1> HIDE DEF ps, n
<1>3. ps \in Seq({ps[j] : j \in 1..n}) /\ Len(ps) = n
  <2>1. n \in Nat
    BY DEF n
  <2> QED BY <1>1, <2>1
<1>4. n <= n
  BY <1>3
<1>5. Len(Ends(file[i])) \in Nat
  OBVIOUS
<1> QED BY <1>2, <1>3, <1>4, <1>5 DEF Waiting, ps, n

(* A turn that has a packet: pkt is of the page before rd.next.            *)
Took(pkt, rd) ==
    LET i == rd.next - 1
    IN  /\ ReaderRight(rd) /\ i \in DOMAIN file /\ Ending(i)
        /\ rd.next = IF reader.queue = <<>> THEN reader.next + 1 ELSE reader.next
        /\ pkt.granule = file[i].granule
        /\ IsLast(pkt) <=> /\ rd.queue = <<>> /\ file[i].eos
                           /\ file[i].granule # NoGranule
        /\ reader.queue = <<>> =>
             /\ Waiting(<<pkt>> \o rd.queue, i)
             /\ Len(<<pkt>> \o rd.queue) = Len(Ends(file[i]))
             /\ i \in 1..2 => rd.queue = <<>>

LEMMA PageAhead ==
    ASSUME file \in Files, ReaderRight(reader), Reading, page.crc
    PROVE  /\ reader.next \in 1..Len(file) /\ reader.next \in Nat
           /\ page = file[reader.next] /\ MuxedPage(page)
           /\ Owned(reader, page) = file[1].serial /\ page.serial = file[1].serial
           /\ Len(Ends(page)) \in Nat /\ (Ends(page) = <<>> <=> Len(Ends(page)) = 0)
           /\ page.segs # <<>> /\ EndsOf(Ends(page), page.segs)
           /\ page.segs \in Seq(Values)
<1>1. reader.next \in 1..(Len(file) + 1) /\ reader.next <= Len(file)
  BY DEF ReaderRight, Reading
<1>2. reader.next \in 1..Len(file) /\ reader.next \in Nat
  BY <1>1, SeekFile
<1>3. page = file[reader.next]
  BY DEF page
<1>4. MuxedPage(page) /\ page.serial = file[1].serial /\ page.segs # <<>>
  BY <1>2, <1>3, SeekPages
<1>5. Owned(reader, page) = file[1].serial
  BY <1>4 DEF Owned, ReaderRight
<1>6. /\ page.segs \in Seq(Values) /\ Len(page.segs) \in Nat
      /\ EndsOf(Ends(page), page.segs)
  BY <1>4, PageValues
<1>7. Ends(page) = <<>> <=> Len(Ends(page)) = 0
  BY <1>6, EndsEmpty
<1>8. Len(Ends(page)) \in Nat
  BY <1>6 DEF EndsOf
<1> QED BY <1>2, <1>3, <1>4, <1>5, <1>6, <1>7, <1>8

LEMMA RestOf ==
    ASSUME NEW pg, pg.segs \in Seq(Values), EndsOf(Ends(pg), pg.segs), Len(Ends(pg)) # 0
    PROVE  Rest(pg) \in Seq(Values)
<1> DEFINE x == pg.segs
           e == Ends(pg)
           l == e[Len(e)]
<1>1. l \in DOMAIN x /\ Len(x) \in Nat /\ DOMAIN x = 1..Len(x)
  <2>1. Len(e) \in Nat /\ DOMAIN e = 1..Len(e)
    BY DEF EndsOf
  <2>2. Len(e) \in DOMAIN e
    BY <2>1
  <2> QED BY <2>2 DEF EndsOf
<1>2. Rest(pg) = SubSeq(x, l + 1, Len(x))
  BY DEF Rest, Last
<1>3. x \in Seq(Values)
  OBVIOUS
<1> HIDE DEF x, e, l
<1>4. l + 1 >= 1 /\ l + 1 \in Nat
  BY <1>1
<1>5. SubSeq(x, l + 1, Len(x)) \in Seq(Values)
  <2>1. \A j \in (l + 1)..Len(x) : x[j] \in Values
    BY <1>1, <1>3, <1>4
  <2> QED BY <1>1, <1>3, <1>4, <2>1
<1> QED BY <1>2, <1>5

LEMMA TurnTakes ==
    ASSUME file \in Files, ReaderRight(reader), HasPacket
    PROVE  Took(TurnPacket, AfterPacket)
<1>1. CASE reader.queue # <<>>
  <2> DEFINE i == reader.next - 1
             q == reader.queue
             rd == AfterPacket
  <2>1. i \in DOMAIN file /\ Ending(i) /\ Waiting(q, i)
    BY <1>1 DEF ReaderRight
  <2>2. TurnPacket = Head(q) /\ rd = [reader EXCEPT !.queue = Tail(q)]
    BY <1>1 DEF TurnPacket, AfterPacket, Pop
  <2>3. rd = [next |-> reader.next, astray |-> reader.astray, serial |-> reader.serial,
              pending |-> reader.pending, queue |-> Tail(q)]
    BY <2>2 DEF ReaderRight, Fields
  <2>5. /\ Waiting(Tail(q), i) /\ Head(q).granule = file[i].granule
        /\ IsLast(Head(q)) <=> Tail(q) = <<>> /\ file[i].eos /\ file[i].granule # NoGranule
    BY <1>1, <2>1, WaitingTail
  <2> HIDE DEF i, q, rd
  <2>6. rd.next = reader.next /\ rd.queue = Tail(q) /\ rd.next - 1 = i /\ Fields(rd)
        /\ rd.serial = reader.serial /\ rd.pending = reader.pending
        /\ rd.astray = reader.astray
    BY <2>3 DEF i, Fields
  <2>7. ReaderRight(rd)
    BY <2>1, <2>5, <2>6, SMTT(30) DEF ReaderRight, Waiting
  <2> QED BY <1>1, <2>1, <2>2, <2>5, <2>6, <2>7 DEF Took, rd, q
<1>2. CASE reader.queue = <<>>
  <2> DEFINE i == reader.next
             ps == Completed(reader, page)
             rd == AfterPacket
  <2>1. Reading /\ Accepted(reader, page) /\ Ends(page) # <<>>
    BY <1>2 DEF HasPacket
  <2>2. page.crc
    BY <2>1 DEF Accepted
  <2>3. /\ i \in 1..Len(file) /\ i \in Nat /\ page = file[i] /\ MuxedPage(page)
        /\ Owned(reader, page) = file[1].serial
        /\ Len(Ends(page)) \in Nat /\ Len(Ends(page)) # 0
    BY <2>1, <2>2, PageAhead
  <2>4. Waiting(ps, i) /\ Len(ps) = Len(Ends(page)) /\ ps # <<>>
    <3>1. Waiting(ps, i) /\ Len(ps) = Len(Ends(page))
      BY <2>3, WaitingPage DEF Completed
    <3> QED BY <2>3, <3>1
  <2>5. /\ Waiting(Tail(ps), i) /\ Head(ps).granule = file[i].granule
        /\ IsLast(Head(ps)) <=> Tail(ps) = <<>> /\ file[i].eos /\ file[i].granule # NoGranule
        /\ <<Head(ps)>> \o Tail(ps) = ps /\ (Len(ps) = 1 => Tail(ps) = <<>>)
    BY <2>3, <2>4, WaitingTail
  <2>6. TurnPacket = Head(ps)
    BY <1>2 DEF TurnPacket
  <2>7. rd = [next |-> i + 1, astray |-> FALSE, serial |-> file[1].serial,
              pending |-> Rest(page), queue |-> Tail(ps)]
    BY <1>2, <2>1, <2>3 DEF AfterPacket, Absorbed, Pop
  <2>8. Ending(i)
    BY <2>1, <2>3 DEF Ending
  <2>9. i \in 1..2 => Len(Ends(page)) = 1
    BY <2>2, <2>3, SeekPages
  <2>10. (i + 1) - 1 = i /\ i + 1 \in 1..(Len(file) + 1) /\ i \in DOMAIN file
    BY <2>3, SeekFile
  <2> HIDE DEF i, ps, rd
  <2>11. rd.next = i + 1 /\ rd.queue = Tail(ps) /\ Fields(rd) /\ rd.serial = file[1].serial
         /\ rd.pending = Rest(page) /\ rd.astray = FALSE
    BY <2>7 DEF Fields
  <2>16. Rest(page) \in Seq(Values)
    BY <2>1, <2>2, PageAhead, RestOf
  <2>12. ReaderRight(rd)
    BY <2>5, <2>8, <2>10, <2>11, <2>16, ZenonT(40) DEF ReaderRight, Waiting
  <2>13. rd.next - 1 = i
    BY <2>10, <2>11
  <2>14. i \in 1..2 => rd.queue = <<>>
    BY <2>4, <2>5, <2>9, <2>11
  <2>15. Took(Head(ps), rd)
    <3>1. rd.next = IF reader.queue = <<>> THEN reader.next + 1 ELSE reader.next
      BY <1>2, <2>11 DEF i
    <3>2. /\ Waiting(<<Head(ps)>> \o rd.queue, i)
          /\ Len(<<Head(ps)>> \o rd.queue) = Len(Ends(file[i]))
      BY <2>3, <2>4, <2>5, <2>11
    <3> QED BY <2>5, <2>8, <2>10, <2>11, <2>12, <2>13, <2>14, <3>1, <3>2 DEF Took
  <2> QED BY <2>6, <2>15 DEF rd
<1> QED BY <1>1, <1>2

(* The pages follow one another, so that nothing is continued that the     *)
(* reader has not the beginning of.                                        *)
InStep(rd) == rd.next <= Len(file) /\ file[rd.next].cont => rd.pending # <<>>

(* A page that ends a packet and does not end with one leaves a rest.      *)
LEMMA RestLeft ==
    ASSUME NEW pg, pg.segs \in Seq(Values), pg.segs # <<>>, EndsOf(Ends(pg), pg.segs),
           Ends(pg) # <<>>, Len(Ends(pg)) # 0, ~ Last(pg.segs).end
    PROVE  Rest(pg) # <<>>
<1> DEFINE x == pg.segs
           e == Ends(pg)
           n == Len(x)
           l == e[Len(e)]
<1>1. n \in Nat /\ n # 0 /\ DOMAIN x = 1..n /\ Last(x) = x[n]
  BY DEF Last
<1>2. l \in DOMAIN x /\ x[l].end
  <2>1. Len(e) \in Nat /\ DOMAIN e = 1..Len(e)
    BY DEF EndsOf
  <2>2. Len(e) \in DOMAIN e
    BY <2>1
  <2> QED BY <2>2 DEF EndsOf
<1>3. l # n
  BY <1>1, <1>2
<1>4. Rest(pg) = SubSeq(x, l + 1, n)
  BY DEF Rest, Last
<1>5. x \in Seq(Values)
  OBVIOUS
<1> HIDE DEF x, e, n, l
<1>6. l \in 1..n /\ l + 1 \in 1..n
  BY <1>1, <1>2, <1>3
<1>7. Len(SubSeq(x, l + 1, n)) = n - l
  BY <1>1, <1>5, <1>6 DEF n
<1>8. n - l # 0 /\ Len(<<>>) = 0
  BY <1>1, <1>6
<1> QED BY <1>4, <1>7, <1>8, Zenon

LEMMA ConcatLonger ==
    ASSUME NEW V, NEW a \in Seq(V), NEW b \in Seq(V), b # <<>>
    PROVE  a \o b # <<>>
<1>1. Len(a \o b) = Len(a) + Len(b) /\ Len(a) \in Nat /\ Len(b) \in Nat /\ Len(b) # 0
  OBVIOUS
<1>2. Len(a) + Len(b) # 0
  BY <1>1
<1> QED BY <1>1, <1>2

(* A page without an end leaves something unfinished, and so does one the  *)
(* next page continues.                                                    *)
LEMMA StaysInStep ==
    ASSUME file \in Files, ReaderRight(reader), Reading, Accepted(reader, page),
           Ends(page) # <<>> => Readable
    PROVE  InStep(Absorbed(reader, page))
<1> DEFINE i == reader.next
           rd == Absorbed(reader, page)
<1>1. /\ i \in 1..Len(file) /\ i \in Nat /\ page = file[i] /\ page.segs # <<>>
      /\ page.segs \in Seq(Values) /\ EndsOf(Ends(page), page.segs) /\ page.crc
      /\ Ends(page) = <<>> <=> Len(Ends(page)) = 0
  BY PageAhead DEF Accepted
<1>2. rd.next = i + 1
  BY DEF Absorbed
<1>3. CASE Ends(page) = <<>>
  <2>1. rd.pending = Carried(reader, page) \o page.segs
    BY <1>3 DEF Absorbed
  <2>2. rd.pending # <<>>
    <3>1. Carried(reader, page) \in Seq(Values)
      BY DEF Carried, ReaderRight
    <3> QED BY <1>1, <2>1, <3>1, ConcatLonger
  <2> QED BY <2>2 DEF InStep
<1>4. CASE Ends(page) # <<>>
  <2>1. rd.pending = Rest(page)
    BY <1>4 DEF Absorbed
  <2>2. ASSUME i + 1 <= Len(file), file[i + 1].cont
        PROVE  ~ Last(page.segs).end
    <3>1. i + 1 \in 1..Len(file) /\ i \in DOMAIN file /\ i + 1 \in DOMAIN file /\ i < i + 1
      BY <1>1, <2>2, SeekFile
    <3>2. file[i + 1].crc
      BY <1>4, <3>1 DEF Readable
    <3>3. Usable(file, file[1].serial, i) /\ Usable(file, file[1].serial, i + 1)
      BY <1>1, <3>1, <3>2, SeekPages DEF Usable
    <3>4. file[i].seq = i - 1 /\ file[i + 1].seq = (i + 1) - 1
      BY <1>1, <3>1, SeekPages
    <3>5. file[i + 1].seq = file[i].seq + 1
      BY <1>1, <3>4
    <3> QED BY <1>1, <2>2, <3>1, <3>3, <3>5, SeekFile, FilePages, SMTT(30)
  <2>3. i + 1 <= Len(file) /\ file[i + 1].cont => Rest(page) # <<>>
    BY <1>1, <1>4, <2>2, RestLeft
  <2> QED BY <1>2, <2>1, <2>3 DEF InStep
<1> QED BY <1>3, <1>4

LEMMA MoreTakes ==
    ASSUME file \in Files, ReaderRight(reader), Reading, Accepted(reader, page),
           Ends(page) = <<>>
    PROVE  LET rd == Absorbed(reader, page)
           IN  /\ ReaderRight(rd) /\ rd.next = reader.next + 1 /\ rd.queue = <<>>
               /\ reader.queue = <<>> /\ reader.next \in 1..Len(file)
               /\ ~ Ending(reader.next)
<1> DEFINE i == reader.next
           rd == Absorbed(reader, page)
<1>1. /\ i \in 1..Len(file) /\ i \in Nat /\ page = file[i]
      /\ Owned(reader, page) = file[1].serial /\ page.crc
  BY PageAhead DEF Accepted
<1>2. rd = [next |-> i + 1, astray |-> FALSE, serial |-> file[1].serial,
            pending |-> Carried(reader, page) \o page.segs, queue |-> <<>>]
  BY <1>1 DEF Absorbed
<1>3. i + 1 \in 1..(Len(file) + 1)
  BY <1>1, SeekFile
<1>4. \E T : <<>> \in Seq(T)
  <2>1. <<>> \in Seq({})
    OBVIOUS
  <2> QED BY <2>1
<1>5. ~ Ending(i)
  BY <1>1 DEF Ending
<1> HIDE DEF i, rd
<1>6. /\ rd.next = i + 1 /\ rd.queue = <<>> /\ Fields(rd) /\ rd.serial = file[1].serial
      /\ rd.astray = FALSE
  BY <1>2 DEF Fields
<1>9. rd.pending \in Seq(Values)
  <2>1. Carried(reader, page) \in Seq(Values) /\ page.segs \in Seq(Values)
    BY PageAhead DEF Carried, ReaderRight, Accepted
  <2> QED BY <1>2, <2>1
<1>7. ReaderRight(rd)
  BY <1>3, <1>4, <1>6, <1>9 DEF ReaderRight
<1>8. reader.queue = <<>>
  BY DEF Reading
<1> QED BY <1>1, <1>5, <1>6, <1>7, <1>8 DEF i, rd

LEMMA ErrorTakes ==
    ASSUME file \in Files, ReaderRight(reader), HasError, NEW rd \in AfterError
    PROVE  ReaderRight(rd)
<1>1. reader.queue = <<>> /\ Fields(reader) /\ reader.serial = file[1].serial
  BY DEF HasError, ReaderRight
<1>2. Len(file) \in Nat /\ reader.next \in 1..(Len(file) + 1)
  BY SeekFile DEF ReaderRight
<1>3. CASE Reading
  <2>1. reader.next \in 1..Len(file) /\ reader.astray = FALSE /\ reader.next \in DOMAIN file
    BY <1>2, <1>3, SeekFile DEF Reading, ReaderRight
  <2>2. rd \in Rejected(reader, page)
    <3>1. AfterError = Rejected(reader, page)
      BY <1>3 DEF AfterError, Astray, Reading
    <3> QED BY <3>1
  <2>3. /\ rd.next \in (reader.next + 1)..(Len(file) + 1) /\ rd.astray \in BOOLEAN
        /\ rd.serial = IF page.crc THEN Owned(reader, page) ELSE reader.serial
        /\ rd.pending = reader.pending /\ rd.queue = reader.queue /\ Fields(rd)
        /\ page.crc => rd.astray = FALSE
    <3>1. reader.next \in Nat /\ reader.next <= Len(file)
      BY <1>2, <2>1
    <3> QED BY <1>1, <1>2, <2>1, <2>2, <3>1, RejectedLeaves
  <2>4. rd.serial = file[1].serial
    <3>1. page.crc => Owned(reader, page) = file[1].serial
      BY <1>3, PageAhead
    <3> QED BY <1>1, <2>3, <3>1
  <2>5. rd.astray => ~ Readable
    <3>1. Readable => page.crc
      BY <2>1 DEF Readable, page
    <3> QED BY <2>3, <3>1
  <2>6. rd.next \in 1..(Len(file) + 1)
    BY <2>1, <2>3
  <2> QED BY <1>1, <2>3, <2>4, <2>5, <2>6 DEF ReaderRight
<1>4. CASE ~ Reading /\ Astray
  <2>1. rd \in Onward(reader) /\ reader.astray
    BY <1>4 DEF AfterError, Astray
  <2>2. /\ rd.next \in reader.next..(Len(file) + 1) /\ rd.astray \in BOOLEAN
        /\ rd.serial = reader.serial /\ rd.pending = reader.pending
        /\ rd.queue = reader.queue /\ Fields(rd)
    BY <1>1, <2>1, OnwardLeaves
  <2>3. ~ Readable
    BY <2>1 DEF ReaderRight
  <2>4. rd.next \in 1..(Len(file) + 1)
    BY <1>2, <2>2
  <2> QED BY <1>1, <2>2, <2>3, <2>4 DEF ReaderRight
<1>5. CASE ~ Reading /\ ~ Astray
  BY <1>5 DEF AfterError
<1> QED BY <1>3, <1>4, <1>5

LEMMA RepositionTakes ==
    ASSUME file \in Files, ReaderRight(reader), NEW i \in DOMAIN file
    PROVE  LET rd == Reposition(reader, i)
           IN  /\ ReaderRight(rd) /\ rd.next = i
               /\ rd.queue = <<>> /\ rd.pending = <<>>
<1> DEFINE rd == Reposition(reader, i)
<1>1. rd = [next |-> i, astray |-> FALSE, serial |-> reader.serial,
            pending |-> <<>>, queue |-> <<>>]
  <2>1. Fields(reader)
    BY DEF ReaderRight
  <2>2. rd = [reader EXCEPT !.next = i, !.astray = FALSE, !.pending = <<>>, !.queue = <<>>]
    BY Zenon DEF Reposition
  <2> HIDE DEF rd
  <2> QED BY <2>1, <2>2, Replaced, ZenonT(60)
<1>2. i \in 1..(Len(file) + 1)
  BY SeekFile
<1>3. \E T : <<>> \in Seq(T)
  <2>1. <<>> \in Seq({})
    OBVIOUS
  <2> QED BY <2>1
<1> HIDE DEF rd
<1>4. /\ rd.next = i /\ rd.queue = <<>> /\ rd.pending = <<>> /\ Fields(rd)
      /\ rd.serial = reader.serial /\ rd.astray = FALSE
  BY <1>1 DEF Fields
<1>5. rd.pending \in Seq(Values)
  BY <1>4
<1>6. ReaderRight(rd)
  BY <1>2, <1>3, <1>4, <1>5 DEF ReaderRight
<1> QED BY <1>4, <1>6 DEF rd

-----------------------------------------------------------------------------
(* e is the first page at or behind s that a packet ends on.               *)
FirstFrom(s, e) == s <= e /\ Ending(e) /\ \A k \in s..(e - 1) : ~ Ending(k)

(* What the search knows: pages it has probed, by the position of the      *)
(* first packet that is read from them.                                    *)
Known ==
    /\ target > 0 /\ result.call = "seek" /\ lowest < target
    /\ \A g \in DOMAIN granulePositions :
          \E s, e \in DOMAIN file : /\ FirstFrom(s, e) /\ file[e].granule = g
                                    /\ Offset(s) = granulePositions[g]

(* A target inside the stream, as SeekFindsBetween has it.                 *)
Inside ==
    /\ Readable /\ target < Last(file).granule
    /\ \A i \in DOMAIN file : /\ file[i].granule # target \/ target = 0
                             /\ ~ file[i].cont

(* While nothing above the target was seen the last page is in range, and  *)
(* every page probed is below the range.                                   *)
Wide ==
    Inside /\ highest = 0 =>
        /\ start <= Offset(Len(file)) /\ Offset(Len(file)) < total
        /\ \A g \in DOMAIN granulePositions : granulePositions[g] < start

AtPage ==
    /\ reader.queue = <<>> /\ start <= position /\ position <= pagePosition
    /\ \E s \in DOMAIN file : /\ Offset(s) = pagePosition /\ s <= reader.next
                              /\ \A k \in s..(reader.next - 1) : ~ Ending(k)

(* The scan from page s has passed pages below the target only, and last   *)
(* is the position of the last of them.                                    *)
Passed(s) ==
    /\ s <= reader.next
    /\ \A k \in s..(reader.next - 1) : Ending(k) => file[k].granule < target
    /\ \E e \in DOMAIN file : FirstFrom(s, e) /\ file[e].granule < target
    /\ \/ /\ reader.queue = <<>>
          /\ \A k \in s..(reader.next - 1) : ~ Ending(k)
       \/ \E k \in s..(reader.next - 1) :
             /\ Ending(k) /\ last = file[k].granule
             /\ \A j \in (k + 1)..(reader.next - 1) : ~ Ending(j)

Scanning == target > 0 /\ result.call = "seek" /\ \E s \in DOMAIN file : Passed(s)

Skipping ==
    /\ target = 0 /\ result.call = "seek" /\ reader.queue = <<>>
    /\ \/ last = 2 /\ reader.next = 1
       \/ last = 1 /\ reader.next = 2

(* The end of the stream within reach, as LengthRight has it.              *)
WithinReach ==
    /\ Readable /\ Last(file).eos
    /\ \E i \in PageFrom(Tail64K) : ~ file[i].cont /\ i = NextPage(Tail64K)

Tailing ==
    /\ result.call = "length"
    /\ WithinReach => /\ reader.next <= Len(file) \/ reader.queue # <<>>
                      /\ InStep(reader)

SeekTypes ==
    /\ file \in Files /\ ReaderRight(reader)
    /\ size = Last(file).at + Last(file).size
    /\ target \in Nat /\ total \in Nat /\ start \in Nat /\ position \in Nat
    /\ pagePosition \in Nat /\ lowest \in Nat /\ highest \in Nat /\ last \in Nat
    /\ result = [ok |-> result.ok, value |-> result.value, call |-> result.call]

Places ==
    /\ pc \in {"idle", "skip", "probe", "read", "pick", "scan", "tail"}
    /\ pc = "skip" => Skipping
    /\ pc \in {"probe", "read"} => Known /\ Wide
    /\ pc = "read" => AtPage
    /\ pc = "pick" => Known /\ (Inside => highest # 0)
    /\ pc = "scan" => Scanning
    /\ pc = "tail" => Tailing

SeekInv == SeekTypes /\ Places /\ SeekLands /\ SeekFindsBetween /\ LengthRight

LEMMA NotReturned ==
    ASSUME pc' # "idle"
    PROVE  SeekLands' /\ SeekFindsBetween' /\ LengthRight'
  BY DEF SeekLands, LandsInStream, RewindLands, SeekFindsBetween, LengthRight, Returned

(* What a step does to the types: the file stays, the reader is right.     *)
LEMMA TypesKept ==
    ASSUME SeekTypes, file' = file, size' = size, ReaderRight(reader'),
           target' \in Nat, total' \in Nat, start' \in Nat, position' \in Nat,
           pagePosition' \in Nat, lowest' \in Nat, highest' \in Nat, last' \in Nat,
           result' = [ok |-> result'.ok, value |-> result'.value, call |-> result'.call]
    PROVE  SeekTypes'
<1>1. ReaderRight(reader)'
  BY DEF ReaderRight, Waiting, Fields, Ending, Readable
<1> QED BY <1>1 DEF SeekTypes

LEMMA SeekInvInit == InitSeek => SeekInv
<1> SUFFICES ASSUME InitSeek PROVE SeekInv
  OBVIOUS
<1>1. file \in Files /\ pc = "idle" /\ result = [ok |-> TRUE, value |-> 0, call |-> "none"]
  BY DEF InitSeek
<1>2. ReaderRight(reader)
  <2>1. reader = [NewReader(3) EXCEPT !.serial = file[1].serial]
    BY DEF InitSeek
  <2>2. reader = [next |-> 3, astray |-> FALSE, serial |-> file[1].serial,
                  pending |-> <<>>, queue |-> <<>>]
    BY <2>1 DEF NewReader
  <2>3. 3 \in 1..(Len(file) + 1)
    BY <1>1, SeekFile
  <2>4. <<>> \in Seq(Values) /\ \E T : <<>> \in Seq(T)
    <3>1. <<>> \in Seq(Values)
      OBVIOUS
    <3> QED BY <3>1, Zenon
  <2>5. /\ reader.next = 3 /\ reader.serial = file[1].serial
        /\ reader.pending = <<>> /\ reader.queue = <<>> /\ Fields(reader)
        /\ reader.astray = FALSE
    BY <2>2 DEF Fields
  <2> QED BY <2>3, <2>4, <2>5 DEF ReaderRight
<1>3. SeekTypes
  BY <1>1, <1>2 DEF InitSeek, SeekTypes
<1>4. Places
  BY <1>1 DEF Places
<1>5. SeekLands /\ SeekFindsBetween /\ LengthRight
  BY <1>1 DEF SeekLands, LandsInStream, RewindLands, SeekFindsBetween, LengthRight, Returned
<1> QED BY <1>3, <1>4, <1>5 DEF SeekInv

LEMMA NextPageIs ==
    ASSUME file \in Files, NEW p, PageFrom(p) # {}
    PROVE  /\ NextPage(p) \in DOMAIN file /\ Offset(NextPage(p)) >= p
           /\ NextPage(p) \in PageFrom(p)
<1>1. PageFrom(p) \subseteq Nat
  BY SeekFile DEF PageFrom
<1>2. \E i \in PageFrom(p) : \A j \in PageFrom(p) : i <= j
  BY <1>1, LeastOf, Zenon
<1>3. NextPage(p) \in PageFrom(p)
  BY <1>2, Zenon DEF NextPage
<1> QED BY <1>3 DEF PageFrom

LEMMA PageAtIs ==
    ASSUME file \in Files, NEW s \in DOMAIN file
    PROVE  PageAt(Offset(s)) = s
<1> DEFINE t == PageAt(Offset(s))
<1>1. t \in DOMAIN file /\ Offset(t) = Offset(s)
  BY Zenon DEF PageAt
<1> HIDE DEF t
<1>2. /\ s \in 1..Len(file) /\ t \in 1..Len(file) /\ Len(file) \in Nat
      /\ Offset(s) \in Nat /\ Offset(t) \in Nat
  BY <1>1, SeekFile, SeekPages
<1>3. s < t => Offset(s) < Offset(t)
  BY <1>2, SeekPages
<1>4. t < s => Offset(t) < Offset(s)
  BY <1>2, SeekPages
<1>5. ~ (s < t) /\ ~ (t < s)
  BY <1>1, <1>2, <1>3, <1>4
<1>6. s = t
  BY <1>2, <1>5
<1> QED BY <1>6 DEF t

(* In a file without damage and without continued pages a packet ends on   *)
(* every page, and every page can be used.                                 *)
LEMMA AllUsable ==
    ASSUME file \in Files, ReaderRight(reader), Inside
    PROVE  /\ \A i \in 1..Len(file) : Ending(i)
           /\ Reading => Accepted(reader, page)
<1>1. /\ Len(file) \in Nat /\ DOMAIN file = 1..Len(file)
      /\ \A i \in 1..Len(file) : file[i].crc /\ ~ file[i].cont
  BY SeekFile DEF Inside, Readable
<1>2. ASSUME NEW i \in 1..Len(file), i # Len(file)
      PROVE  Ending(i)
  <2>a. Len(file) \in Nat
    BY <1>1
  <2>1. i + 1 \in 1..Len(file) /\ i < i + 1 /\ i \in Nat
    BY <1>2, <2>a
  <2>2. Usable(file, file[1].serial, i) /\ Usable(file, file[1].serial, i + 1)
    BY <1>1, <2>1, SeekPages DEF Usable
  <2>3. file[i].seq = i - 1 /\ file[i + 1].seq = (i + 1) - 1
        /\ file[i].segs # <<>> /\ MuxedPage(file[i])
    BY <1>1, <2>1, SeekPages
  <2>4. file[i + 1].seq = file[i].seq + 1
    BY <2>1, <2>3
  <2>5. file[i + 1].cont <=> ~ Last(file[i].segs).end
    BY <2>1, <2>2, <2>3, <2>4, SeekFile, FilePages
  <2>6. Last(file[i].segs).end
    BY <1>1, <2>1, <2>5
  <2>7. /\ file[i].segs \in Seq(Values) /\ Len(file[i].segs) \in Nat
        /\ DOMAIN file[i].segs = 1..Len(file[i].segs)
        /\ EndsOf(Ends(file[i]), file[i].segs)
    BY <2>3, PageValues
  <2>8. Len(file[i].segs) \in DOMAIN file[i].segs
    BY <2>3, <2>7
  <2>9. file[i].segs[Len(file[i].segs)].end
    BY <2>6 DEF Last
  <2>10. DOMAIN Ends(file[i]) # {}
    BY <2>7, <2>8, <2>9 DEF EndsOf
  <2>11. Ends(file[i]) # <<>>
    <3>1. DOMAIN <<>> = {}
      OBVIOUS
    <3> QED BY <2>10, <3>1
  <2> QED BY <2>11 DEF Ending
<1>3. Ending(Len(file))
  BY SeekPages
<1>4. \A i \in 1..Len(file) : Ending(i)
  BY <1>2, <1>3
<1>5. ASSUME Reading PROVE Accepted(reader, page)
  <2>1. reader.next \in 1..Len(file)
    <3>1. reader.next \in 1..(Len(file) + 1) /\ reader.next <= Len(file)
      BY <1>5 DEF ReaderRight, Reading
    <3> QED BY <1>1, <3>1
  <2>2. page.crc /\ ~ page.cont
    BY <1>1, <2>1 DEF page
  <2>3. page.serial = Owned(reader, page)
    BY <1>5, <2>2, PageAhead
  <2> QED BY <2>2, <2>3 DEF Accepted
<1> QED BY <1>4, <1>5

-----------------------------------------------------------------------------
(* Each step keeps the invariant.  First what steps that leave the search  *)
(* alone keep of it.                                                       *)
LEMMA SameInside ==
    ASSUME file' = file, target' = target
    PROVE  Inside' <=> Inside
  BY DEF Inside, Readable

LEMMA KnownKept ==
    ASSUME Known, file' = file, target' = target, lowest' = lowest,
           granulePositions' = granulePositions, result'.call = result.call
    PROVE  Known'
  BY DEF Known, FirstFrom, Ending, Offset

LEMMA WideKept ==
    ASSUME Wide, file' = file, target' = target, highest' = highest,
           start' = start, total' = total, granulePositions' = granulePositions
    PROVE  Wide'
<1>1. Inside' <=> Inside
  BY SameInside
<1> QED BY <1>1 DEF Wide, Offset

LEMMA SeekTurnMore == ASSUME SeekInv, TurnMore PROVE SeekInv'
<1> DEFINE i == reader.next
<1>1. file \in Files /\ ReaderRight(reader)
  BY DEF SeekInv, SeekTypes
<1>2. /\ pc \in {"skip", "read", "scan", "tail"} /\ pc' = pc
      /\ Reading /\ Accepted(reader, page) /\ Ends(page) = <<>>
      /\ reader' = Absorbed(reader, page)
      /\ file' = file /\ size' = size /\ target' = target /\ result' = result
      /\ UNCHANGED seekVars
  BY DEF TurnMore, Keep
<1>3. /\ ReaderRight(reader') /\ reader'.next = i + 1 /\ reader'.queue = <<>>
      /\ reader.queue = <<>> /\ i \in 1..Len(file) /\ ~ Ending(i)
  BY <1>1, <1>2, MoreTakes
<1>4. SeekTypes'
  <2>1. SeekTypes
    BY DEF SeekInv
  <2> QED BY <1>2, <1>3, <2>1, TypesKept DEF SeekTypes, seekVars
<1>5. i \in Nat /\ Len(file) \in Nat /\ DOMAIN file = 1..Len(file)
  BY <1>1, <1>3, SeekFile
<1>6. pc # "skip"
  <2>1. Ending(1) /\ Ending(2)
    BY <1>1, SeekPages
  <2>2. pc = "skip" => i \in {1, 2}
    BY DEF SeekInv, Places, Skipping
  <2> QED BY <1>3, <2>1, <2>2
<1> HIDE DEF i
<1>7. pc = "read" => (Known /\ Wide /\ AtPage)'
  <2> SUFFICES ASSUME pc = "read" PROVE (Known /\ Wide /\ AtPage)'
    OBVIOUS
  <2>1. Known /\ Wide /\ AtPage
    BY DEF SeekInv, Places
  <2>2. Known' /\ Wide'
    BY <1>2, <2>1, KnownKept, WideKept DEF seekVars
  <2>3. PICK s \in DOMAIN file : /\ Offset(s) = pagePosition /\ s <= i
                                 /\ \A k \in s..(i - 1) : ~ Ending(k)
    BY <2>1 DEF AtPage, i
  <2>4. s <= i + 1 /\ \A k \in s..((i + 1) - 1) : ~ Ending(k)
    <3>1. \A k \in s..((i + 1) - 1) : k \in s..(i - 1) \/ k = i
      BY <1>5, <2>3
    <3> QED BY <1>3, <1>5, <2>3, <3>1
  <2>5. AtPage'
    BY <1>2, <1>3, <2>1, <2>3, <2>4 DEF AtPage, Offset, Ending, seekVars
  <2> QED BY <2>2, <2>5
<1>8. pc = "scan" => Scanning'
  <2> SUFFICES ASSUME pc = "scan" PROVE Scanning'
    OBVIOUS
  <2>1. target > 0 /\ result.call = "seek"
    BY DEF SeekInv, Places, Scanning
  <2>2. PICK s \in DOMAIN file : Passed(s)
    BY DEF SeekInv, Places, Scanning
  <2>3. /\ s <= i /\ \A k \in s..(i - 1) : Ending(k) => file[k].granule < target
        /\ \E e \in DOMAIN file : FirstFrom(s, e) /\ file[e].granule < target
        /\ \/ \A k \in s..(i - 1) : ~ Ending(k)
           \/ \E k \in s..(i - 1) : /\ Ending(k) /\ last = file[k].granule
                                    /\ \A j \in (k + 1)..(i - 1) : ~ Ending(j)
    BY <2>2 DEF Passed, i
  <2>4. /\ s <= i + 1
        /\ \A k \in s..((i + 1) - 1) : k \in s..(i - 1) \/ k = i
        /\ \A k \in s..(i - 1) : k \in s..((i + 1) - 1)
    BY <1>5, <2>3
  <2>5. \A k \in s..((i + 1) - 1) : Ending(k) => file[k].granule < target
    BY <1>3, <2>3, <2>4
  <2>6. \/ \A k \in s..((i + 1) - 1) : ~ Ending(k)
        \/ \E k \in s..((i + 1) - 1) :
              /\ Ending(k) /\ last = file[k].granule
              /\ \A j \in (k + 1)..((i + 1) - 1) : ~ Ending(j)
    <3>1. CASE \A k \in s..(i - 1) : ~ Ending(k)
      BY <1>3, <2>4, <3>1
    <3>2. CASE \E k \in s..(i - 1) : /\ Ending(k) /\ last = file[k].granule
                                     /\ \A j \in (k + 1)..(i - 1) : ~ Ending(j)
      <4>1. PICK k \in s..(i - 1) : /\ Ending(k) /\ last = file[k].granule
                                    /\ \A j \in (k + 1)..(i - 1) : ~ Ending(j)
        BY <3>2
      <4>2. \A j \in (k + 1)..((i + 1) - 1) : j \in (k + 1)..(i - 1) \/ j = i
        BY <1>5, <2>3
      <4>3. \A j \in (k + 1)..((i + 1) - 1) : ~ Ending(j)
        BY <1>3, <4>1, <4>2
      <4> QED BY <2>4, <4>1, <4>3
    <3> QED BY <2>3, <3>1, <3>2
  <2>7. Passed(s)'
    BY <1>2, <1>3, <2>3, <2>4, <2>5, <2>6 DEF Passed, FirstFrom, Ending, seekVars
  <2> QED BY <1>2, <2>1, <2>2, <2>7 DEF Scanning
<1>9. pc = "tail" => Tailing'
  <2> SUFFICES ASSUME pc = "tail" PROVE Tailing'
    OBVIOUS
  <2>1. result.call = "length"
    BY DEF SeekInv, Places, Tailing
  <2>2. i # Len(file)
    BY <1>1, <1>3, SeekPages
  <2>3. i + 1 <= Len(file)
    BY <1>3, <1>5, <2>2
  <2>4. InStep(reader')
    BY <1>1, <1>2, StaysInStep
  <2> QED BY <1>2, <1>3, <2>1, <2>3, <2>4 DEF Tailing, InStep
<1>10. Places'
  BY <1>2, <1>6, <1>7, <1>8, <1>9 DEF Places
<1>11. pc' # "idle"
  BY <1>2
<1> QED BY <1>4, <1>10, <1>11, NotReturned DEF SeekInv

(* A call of SeekToPage that fails leaves nothing to show but that it may. *)
LEMMA SeekFailed ==
    ASSUME SeekTypes', pc' = "idle", result'.call = "seek", ~ result'.ok, ~ Inside'
    PROVE  SeekInv'
<1>1. Places'
  BY DEF Places
<1>2. SeekLands' /\ LengthRight'
  BY DEF SeekLands, LandsInStream, RewindLands, LengthRight, Returned
<1>3. SeekFindsBetween'
  BY DEF SeekFindsBetween, Inside
<1> QED BY <1>1, <1>2, <1>3 DEF SeekInv

LEMMA SeekFound ==
    ASSUME SeekTypes', pc' = "idle", result'.call = "seek", result'.ok, SeekLands'
    PROVE  SeekInv'
<1>1. Places'
  BY DEF Places
<1>2. LengthRight' /\ SeekFindsBetween'
  BY DEF LengthRight, SeekFindsBetween, Returned
<1> QED BY <1>1, <1>2 DEF SeekInv

(* No error while every page can be used and there is one to read.         *)
LEMMA NoError ==
    ASSUME file \in Files, ReaderRight(reader), HasError, reader.next <= Len(file)
    PROVE  ~ Inside
<1> SUFFICES ASSUME Inside PROVE FALSE
  OBVIOUS
<1>1. ~ reader.astray
  BY DEF Inside, ReaderRight
<1>2. Reading /\ ~ Accepted(reader, page)
  BY <1>1 DEF HasError, Reading
<1> QED BY <1>2, AllUsable

LEMMA SeekCallRewind == ASSUME SeekInv, CallRewind PROVE SeekInv'
<1>1. file \in Files /\ ReaderRight(reader) /\ SeekTypes
  BY DEF SeekInv, SeekTypes
<1>2. /\ reader' = Reposition(reader, 1) /\ target' = 0 /\ last' = 2 /\ pc' = "skip"
      /\ result' = [result EXCEPT !.call = "seek"]
      /\ UNCHANGED <<file, size, total, start, position, pagePosition, lowest, highest>>
  BY DEF CallRewind, Headers
<1>3. ReaderRight(reader') /\ reader'.next = 1 /\ reader'.queue = <<>>
  <2>1. 1 \in DOMAIN file
    BY <1>1, SeekFile
  <2> QED BY <1>1, <1>2, <2>1, RepositionTakes
<1>4. result' = [ok |-> result.ok, value |-> result.value, call |-> "seek"]
  BY <1>1, <1>2 DEF SeekTypes
<1>5. SeekTypes'
  BY <1>1, <1>2, <1>3, <1>4, TypesKept DEF SeekTypes
<1>6. Skipping'
  BY <1>2, <1>3, <1>4 DEF Skipping
<1>7. Places' /\ pc' # "idle"
  BY <1>2, <1>6 DEF Places
<1> QED BY <1>5, <1>7, NotReturned DEF SeekInv

LEMMA SeekSkipHeader == ASSUME SeekInv, SkipHeader PROVE SeekInv'
<1> DEFINE rd == AfterPacket
<1>1. file \in Files /\ ReaderRight(reader) /\ SeekTypes
  BY DEF SeekInv, SeekTypes
<1>2. /\ pc = "skip" /\ HasPacket /\ reader' = rd /\ last' = last - 1
      /\ IF last = 1 THEN Return(TRUE, 0) ELSE UNCHANGED <<pc, result>>
      /\ UNCHANGED <<file, size, target, total, start, position, pagePosition,
                     lowest, highest>>
  BY DEF SkipHeader, Keep
<1>3. /\ target = 0 /\ result.call = "seek" /\ reader.queue = <<>>
      /\ \/ last = 2 /\ reader.next = 1
         \/ last = 1 /\ reader.next = 2
  BY <1>2 DEF SeekInv, Places, Skipping
<1>4. Took(TurnPacket, rd)
  BY <1>1, <1>2, TurnTakes
<1>5. ReaderRight(rd) /\ rd.next = reader.next + 1 /\ rd.queue = <<>>
  BY <1>3, <1>4 DEF Took
<1> HIDE DEF rd
<1>6. CASE last = 1
  <2>1. /\ pc' = "idle" /\ last' = 0 /\ rd.next = 3
        /\ result' = [ok |-> TRUE, value |-> 0, call |-> "seek"]
    BY <1>2, <1>3, <1>5, <1>6 DEF Return
  <2>2. SeekTypes'
    BY <1>1, <1>2, <1>5, <2>1, TypesKept DEF SeekTypes
  <2>3. SeekLands'
    BY <1>2, <1>3, <1>5, <2>1 DEF SeekLands, LandsInStream, RewindLands
  <2> QED BY <2>1, <2>2, <2>3, SeekFound
<1>7. CASE last # 1
  <2>1. pc' = "skip" /\ last' = 1 /\ rd.next = 2 /\ result' = result
    BY <1>2, <1>3, <1>5, <1>7
  <2>2. SeekTypes'
    BY <1>1, <1>2, <1>5, <2>1, TypesKept DEF SeekTypes
  <2>3. Places' /\ pc' # "idle"
    BY <1>2, <1>3, <1>5, <2>1 DEF Places, Skipping
  <2> QED BY <2>2, <2>3, NotReturned DEF SeekInv
<1> QED BY <1>6, <1>7

LEMMA SeekSkipFails == ASSUME SeekInv, SkipFails PROVE SeekInv'
<1>1. file \in Files /\ ReaderRight(reader) /\ SeekTypes
  BY DEF SeekInv, SeekTypes
<1>2. /\ pc = "skip" /\ HasError /\ reader' \in AfterError /\ pc' = "idle"
      /\ result' = [ok |-> FALSE, value |-> 0, call |-> result.call]
      /\ UNCHANGED <<file, size, target>> /\ UNCHANGED seekVars
  BY DEF SkipFails, Keep, Return
<1>3. result.call = "seek" /\ reader.next \in {1, 2}
  BY <1>2 DEF SeekInv, Places, Skipping
<1>4. SeekTypes'
  BY <1>1, <1>2, ErrorTakes, TypesKept DEF SeekTypes, seekVars
<1>5. reader.next <= Len(file)
  BY <1>1, <1>3, SeekFile
<1>6. ~ Inside'
  BY <1>1, <1>2, <1>5, NoError, SameInside
<1> QED BY <1>2, <1>3, <1>4, <1>6, SeekFailed

LEMMA SeekCallSeek ==
    ASSUME SeekInv, NEW t \in Targets, CallSeek(t)
    PROVE  SeekInv'
<1> DEFINE n == Len(file)
<1>1. file \in Files /\ ReaderRight(reader) /\ SeekTypes
  BY DEF SeekInv, SeekTypes
<1>2. /\ target' = t /\ t > 0 /\ total' = size /\ start' = 0 /\ pc' = "probe"
      /\ granulePositions' = << >> /\ lowest' = 0 /\ highest' = 0
      /\ result' = [result EXCEPT !.call = "seek"]
      /\ UNCHANGED <<file, size, reader, position, pagePosition, last>>
  BY DEF CallSeek
<1>3. /\ n \in 1..n /\ DOMAIN file = 1..n /\ Last(file) = file[n]
      /\ Offset(n) \in Nat /\ file[n].size \in Nat \ {0}
  <2>1. n \in 1..n
    BY <1>1, SeekFile
  <2> QED BY <1>1, <2>1, SeekFile, SeekPages
<1>4. size \in Nat /\ Offset(n) < size
  <2>1. size = Offset(n) + file[n].size
    BY <1>1, <1>3 DEF SeekTypes, Offset
  <2> HIDE DEF n
  <2> QED BY <1>3, <2>1
<1>5. result' = [ok |-> result.ok, value |-> result.value, call |-> "seek"]
  BY <1>1, <1>2 DEF SeekTypes
<1>6. t \in Nat
  BY SeekConstants
<1>7. SeekTypes'
  BY <1>1, <1>2, <1>4, <1>5, <1>6, TypesKept DEF SeekTypes
<1>8. Known'
  <2>1. DOMAIN granulePositions' = {}
    BY <1>2
  <2> QED BY <1>2, <1>5, <2>1 DEF Known
<1>9. Wide'
  <2>1. DOMAIN granulePositions' = {}
    BY <1>2
  <2> QED BY <1>2, <1>3, <1>4, <2>1 DEF Wide, Offset
<1>10. Places' /\ pc' # "idle"
  BY <1>2, <1>8, <1>9 DEF Places
<1> QED BY <1>7, <1>10, NotReturned DEF SeekInv

LEMMA MiddleWithin ==
    ASSUME NEW a \in Nat, NEW b \in Nat, a < b
    PROVE  (b + a) \div 2 \in Nat /\ a <= (b + a) \div 2 /\ (b + a) \div 2 < b
  OBVIOUS

(* In a file without damage the page found from p on is the next one: the  *)
(* window from p holds more than a page.                                   *)
LEMMA FindsNext ==
    ASSUME file \in Files, Readable, NEW p \in Nat, p <= Offset(Len(file))
    PROVE  PageFrom(p) # {}
<1> DEFINE n == Len(file)
           T == {i \in 1..n : p <= Offset(i)}
<1>1. /\ n \in Nat /\ DOMAIN file = 1..n /\ n \in 1..n /\ Window \in Nat
      /\ \A i \in 1..n : /\ Offset(i) \in Nat /\ file[i].size \in Nat \ {0}
                         /\ file[i].size <= Window
                         /\ Offset(i) = IF i = 1 THEN 0
                                        ELSE Offset(i - 1) + file[i - 1].size
      /\ \A i \in 1..n : file[i].crc
  <2>1. n \in Nat /\ n > 2 /\ DOMAIN file = 1..n /\ Window \in Nat
    BY SeekFile, SeekConstants
  <2>2. \A i \in 1..n : /\ Offset(i) \in Nat /\ file[i].size \in Nat \ {0}
                         /\ file[i].size <= Window
                         /\ Offset(i) = IF i = 1 THEN 0
                                        ELSE Offset(i - 1) + file[i - 1].size
    BY SeekPages
  <2> HIDE DEF n
  <2>3. n \in 1..n /\ \A i \in 1..n : file[i].crc
    BY <2>1 DEF Readable
  <2> QED BY <2>1, <2>2, <2>3
<1>2. n \in T /\ T \subseteq Nat
  BY <1>1
<1>3. PICK i \in T : \A j \in T : i <= j
  BY <1>2, LeastOf, Zenon
<1>4. i \in 1..n /\ Offset(i) \in Nat /\ p <= Offset(i)
  BY <1>1, <1>3
<1>5. Offset(i) < p + Window
  <2>1. CASE i = 1
    <3>1. Offset(i) = 0 /\ file[i].size \in Nat \ {0} /\ file[i].size <= Window
      BY <1>1, <1>4, <2>1
    <3> HIDE DEF n
    <3> QED BY <1>1, <3>1
  <2>2. CASE i # 1
    <3>1. i - 1 \in 1..n /\ ~ (i <= i - 1)
      BY <1>1, <1>4, <2>2
    <3>2. i - 1 \notin T
      BY <1>3, <3>1
    <3>3. /\ Offset(i - 1) \in Nat /\ ~ (p <= Offset(i - 1))
          /\ file[i - 1].size \in Nat /\ file[i - 1].size <= Window
      BY <1>1, <3>1, <3>2
    <3>4. Offset(i) = Offset(i - 1) + file[i - 1].size
      BY <1>1, <1>4, <2>2
    <3> QED BY <1>1, <3>3, <3>4
  <2> QED BY <2>1, <2>2
<1>6. Offset(i) \in p..(p + Window - 1)
  BY <1>1, <1>4, <1>5
<1>7. i \in PageFrom(p)
  BY <1>1, <1>4, <1>6 DEF PageFrom
<1> QED BY <1>7

LEMMA SeekProbe == ASSUME SeekInv, Probe PROVE SeekInv'
<1> DEFINE n == Len(file)
           m == Middle
<1>1. file \in Files /\ ReaderRight(reader) /\ SeekTypes
  BY DEF SeekInv, SeekTypes
<1>2. /\ pc = "probe" /\ start < total /\ position' = m
      /\ IF PageFrom(m) = {}
         THEN total' = m /\ UNCHANGED <<reader, pc, pagePosition>>
         ELSE /\ pagePosition' = PageFound(m) /\ reader' = Reposition(reader, NextPage(m))
              /\ pc' = "read" /\ UNCHANGED total
      /\ UNCHANGED <<file, size, target, result, start, granulePositions, lowest,
                     highest, last>>
  BY DEF Probe, Keep, Searching
<1>3. Known /\ Wide
  BY <1>2 DEF SeekInv, Places
<1>4. m \in Nat /\ start <= m
  <2>1. start \in Nat /\ total \in Nat
    BY <1>1 DEF SeekTypes
  <2> QED BY <1>2, <2>1, MiddleWithin DEF Middle
<1>5. Known'
  BY <1>2, <1>3, KnownKept
<1> HIDE DEF m
<1>6. CASE PageFrom(m) = {}
  <2>1. total' = m /\ reader' = reader /\ pc' = "probe" /\ pagePosition' = pagePosition
    BY <1>2, <1>6
  <2>2. SeekTypes'
    BY <1>1, <1>2, <1>4, <2>1, TypesKept DEF SeekTypes
  <2>3. Inside => Offset(n) < m
    <3> SUFFICES ASSUME Inside PROVE Offset(n) < m
      OBVIOUS
    <3>1. n \in DOMAIN file /\ n \in 1..Len(file)
      BY <1>1, SeekFile
    <3>2. ~ (m <= Offset(n))
      BY <1>1, <1>4, <1>6, FindsNext DEF Inside
    <3>3. Offset(n) \in Nat
      BY <1>1, <3>1, SeekPages
    <3> HIDE DEF n
    <3> QED BY <1>4, <3>2, <3>3
  <2>4. Wide'
    <3>1. Inside' <=> Inside
      BY <1>2, SameInside
    <3> QED BY <1>2, <1>3, <2>1, <2>3, <3>1 DEF Wide, Offset
  <2>5. Places' /\ pc' # "idle"
    BY <1>5, <2>1, <2>4 DEF Places
  <2> QED BY <2>2, <2>5, NotReturned DEF SeekInv
<1>7. CASE PageFrom(m) # {}
  <2> DEFINE i == NextPage(m)
  <2>1. /\ total' = total /\ reader' = Reposition(reader, i) /\ pc' = "read"
        /\ pagePosition' = Offset(i)
    BY <1>2, <1>7 DEF PageFound
  <2>2. i \in DOMAIN file /\ Offset(i) >= m
    BY <1>1, <1>7, NextPageIs
  <2> HIDE DEF i
  <2>3. Offset(i) \in Nat /\ i \in Nat /\ DOMAIN file = 1..Len(file)
    <3>1. i \in 1..Len(file) /\ DOMAIN file = 1..Len(file)
      BY <1>1, <2>2, SeekFile
    <3>2. Offset(i) \in Nat
      BY <1>1, <3>1, SeekPages
    <3> QED BY <3>1, <3>2
  <2>4. ReaderRight(reader') /\ reader'.next = i /\ reader'.queue = <<>>
    BY <1>1, <2>1, <2>2, RepositionTakes
  <2>5. SeekTypes'
    BY <1>1, <1>2, <1>4, <2>1, <2>3, <2>4, TypesKept DEF SeekTypes
  <2>6. Wide'
    BY <1>2, <1>3, <2>1, WideKept
  <2>7. AtPage'
    <3>1. start' <= position' /\ position' <= pagePosition'
      BY <1>2, <1>4, <2>1, <2>2, <2>3
    <3>2. i <= reader'.next /\ \A k \in i..(reader'.next - 1) : ~ Ending(k)
      BY <2>3, <2>4
    <3> QED BY <1>2, <2>1, <2>2, <2>4, <3>1, <3>2 DEF AtPage, Offset, Ending
  <2>8. Places' /\ pc' # "idle"
    BY <1>5, <2>1, <2>6, <2>7 DEF Places
  <2> QED BY <2>5, <2>8, NotReturned DEF SeekInv
<1> QED BY <1>6, <1>7

(* In a search inside the stream the page probed is the one that is read.  *)
LEMMA InsideReads ==
    ASSUME SeekInv, pc = "read", Inside
    PROVE  reader.next \in DOMAIN file /\ Offset(reader.next) = pagePosition
           /\ reader.next <= Len(file)
<1>1. file \in Files /\ ReaderRight(reader)
  BY DEF SeekInv, SeekTypes
<1>2. PICK s \in DOMAIN file : /\ Offset(s) = pagePosition /\ s <= reader.next
                               /\ \A k \in s..(reader.next - 1) : ~ Ending(k)
  BY DEF SeekInv, Places, AtPage
<1>3. s \in 1..Len(file) /\ Len(file) \in Nat /\ reader.next \in Nat
  <2>1. reader.next \in 1..(Len(file) + 1)
    BY <1>1 DEF ReaderRight
  <2> QED BY <1>1, <1>2, <2>1, SeekFile
<1>4. Ending(s)
  BY <1>1, <1>3, AllUsable
<1>5. reader.next = s
  <2>1. s < reader.next => s \in s..(reader.next - 1)
    BY <1>3
  <2> QED BY <1>2, <1>3, <1>4, <2>1
<1> QED BY <1>2, <1>3, <1>5

LEMMA SeekProbeUnreadable == ASSUME SeekInv, ProbeUnreadable PROVE SeekInv'
<1>1. file \in Files /\ ReaderRight(reader) /\ SeekTypes
  BY DEF SeekInv, SeekTypes
<1>2. /\ pc = "read" /\ HasError /\ reader' \in AfterError /\ total' = position
      /\ pc' = "probe"
      /\ UNCHANGED <<file, size, target, result, start, position, pagePosition,
                     granulePositions, lowest, highest, last>>
  BY DEF ProbeUnreadable, Keep
<1>3. Known'
  <2>1. Known
    BY <1>2 DEF SeekInv, Places
  <2> QED BY <1>2, <2>1, KnownKept
<1>4. ~ Inside
  <2>1. Inside => reader.next <= Len(file)
    BY <1>2, InsideReads
  <2> QED BY <1>1, <1>2, <2>1, NoError
<1>5. Wide'
  <2>1. Inside' <=> Inside
    BY <1>2, SameInside
  <2> QED BY <1>4, <2>1 DEF Wide
<1>6. SeekTypes'
  BY <1>1, <1>2, ErrorTakes, TypesKept DEF SeekTypes
<1>7. Places' /\ pc' # "idle"
  BY <1>2, <1>3, <1>5 DEF Places
<1> QED BY <1>6, <1>7, NotReturned DEF SeekInv

(* A page met again leaves a range with the last page in it: had nothing   *)
(* above the target been seen, it would lie below the range.               *)
LEMMA SeekProbeAgain == ASSUME SeekInv, ProbeAgain PROVE SeekInv'
<1> DEFINE g == TurnPacket.granule
           rd == AfterPacket
<1>1. file \in Files /\ ReaderRight(reader) /\ SeekTypes
  BY DEF SeekInv, SeekTypes
<1>2. /\ pc = "read" /\ HasPacket /\ Scanned(g) /\ reader' = rd /\ total' = start + 1
      /\ pc' = IF position = start THEN "pick" ELSE "probe"
      /\ UNCHANGED <<file, size, target, result, start, position, pagePosition,
                     granulePositions, lowest, highest, last>>
  BY DEF ProbeAgain, Keep
<1>3. Known /\ Wide /\ start <= position /\ position <= pagePosition
  BY <1>2 DEF SeekInv, Places, AtPage
<1>4. Took(TurnPacket, rd)
  BY <1>1, <1>2, TurnTakes
<1>5. ReaderRight(rd)
  BY <1>4 DEF Took
<1> HIDE DEF rd, g
<1>6. start \in Nat /\ position \in Nat /\ pagePosition \in Nat
  BY <1>1 DEF SeekTypes
<1>7. Inside => highest # 0
  <2> SUFFICES ASSUME Inside, highest = 0 PROVE FALSE
    OBVIOUS
  <2>1. g \in DOMAIN granulePositions /\ granulePositions[g] = pagePosition
    BY <1>2 DEF Scanned
  <2>2. granulePositions[g] < start
    BY <1>3, <2>1 DEF Wide
  <2> QED BY <1>3, <1>6, <2>1, <2>2
<1>8. SeekTypes'
  <2>1. total' \in Nat
    BY <1>2, <1>6
  <2> QED BY <1>1, <1>2, <1>5, <2>1, TypesKept DEF SeekTypes
<1>9. Known'
  BY <1>2, <1>3, KnownKept
<1>10. (Inside' <=> Inside) /\ highest' = highest
  BY <1>2, SameInside
<1>11. Wide'
  BY <1>7, <1>10 DEF Wide
<1>12. Places' /\ pc' # "idle"
  BY <1>2, <1>7, <1>9, <1>10, <1>11 DEF Places
<1> QED BY <1>8, <1>12, NotReturned DEF SeekInv

(* A new page: above the target it narrows the range from above, below it  *)
(* from below, past the page itself.                                       *)
LEMMA SeekProbePage == ASSUME SeekInv, ProbePage PROVE SeekInv'
<1> DEFINE g == TurnPacket.granule
           rd == AfterPacket
           n == Len(file)
           e == rd.next - 1
           gp == [h \in DOMAIN granulePositions \cup {g} |->
                    IF h = g THEN pagePosition ELSE granulePositions[h]]
           high == TooHigh(g)
           low == TooLow(g)
<1>1. file \in Files /\ ReaderRight(reader) /\ SeekTypes
  BY DEF SeekInv, SeekTypes
<1>2. /\ pc = "read" /\ HasPacket /\ reader' = rd /\ granulePositions' = gp
      /\ highest' = (IF high THEN g ELSE highest)
      /\ total' = (IF high THEN position ELSE total)
      /\ lowest' = (IF low /\ g > lowest THEN g ELSE lowest)
      /\ start' = (IF low THEN pagePosition + 1 ELSE start)
      /\ pc' \in {"pick", "probe"} /\ (pc' = "pick" => high)
      /\ UNCHANGED <<file, size, target, result, position, pagePosition, last>>
  BY DEF ProbePage, Keep, NarrowTo
<1>3. Known /\ Wide /\ AtPage
  BY <1>2 DEF SeekInv, Places
<1>4. Took(TurnPacket, rd)
  BY <1>1, <1>2, TurnTakes
<1>5. /\ ReaderRight(rd) /\ e \in DOMAIN file /\ Ending(e) /\ g = file[e].granule
      /\ rd.next = reader.next + 1
  BY <1>3, <1>4 DEF Took, AtPage
<1>6. reader.next \in Nat /\ n \in Nat /\ DOMAIN file = 1..n /\ n \in 1..n
  <2>1. reader.next \in 1..(Len(file) + 1)
    BY <1>1 DEF ReaderRight
  <2> QED BY <1>1, <2>1, SeekFile
<1>7. e = reader.next
  BY <1>5, <1>6
<1>8. g \in Nat
  BY <1>1, <1>5, <1>6, SeekPages
<1> HIDE DEF g, rd, e, gp, high, low
<1>9. PICK s \in DOMAIN file : Offset(s) = pagePosition /\ FirstFrom(s, e)
  BY <1>3, <1>5, <1>7 DEF AtPage, FirstFrom
<1>10. /\ start \in Nat /\ position \in Nat /\ pagePosition \in Nat /\ total \in Nat
       /\ highest \in Nat /\ lowest \in Nat /\ target \in Nat
  BY <1>1 DEF SeekTypes
<1>11. /\ high <=> g > target /\ (highest = 0 \/ g <= highest)
       /\ low <=> g < target
  BY DEF high, low, TooHigh, TooLow
<1>12. /\ DOMAIN gp = {g} \cup DOMAIN granulePositions /\ gp[g] = pagePosition
       /\ \A h \in DOMAIN granulePositions : h # g => gp[h] = granulePositions[h]
  BY DEF gp
<1>13. SeekTypes'
  BY <1>1, <1>2, <1>5, <1>8, <1>10, TypesKept DEF SeekTypes
<1>14. Known'
  <2>1. target > 0 /\ result.call = "seek" /\ lowest' < target
    BY <1>2, <1>3, <1>11 DEF Known
  <2>2. ASSUME NEW h \in DOMAIN gp
        PROVE  \E a, b \in DOMAIN file : /\ FirstFrom(a, b) /\ file[b].granule = h
                                         /\ Offset(a) = gp[h]
    <3>1. CASE h = g
      BY <1>5, <1>9, <1>12, <3>1
    <3>2. CASE h # g
      <4>1. h \in DOMAIN granulePositions /\ gp[h] = granulePositions[h]
        BY <1>12, <3>2
      <4> QED BY <1>3, <4>1 DEF Known
    <3> QED BY <3>1, <3>2
  <2> QED BY <1>2, <2>1, <2>2 DEF Known, FirstFrom, Ending, Offset
<1>15. ASSUME Inside, highest' = 0
       PROVE  /\ start' <= Offset(n) /\ Offset(n) < total'
              /\ \A h \in DOMAIN gp : gp[h] < start'
  <2>1. highest = 0 /\ ~ high
    BY <1>2, <1>8, <1>10, <1>11, <1>15
  <2>2. g # target
    BY <1>3, <1>5, <1>15 DEF Inside, Known
  <2>3. low
    BY <1>8, <1>10, <1>11, <2>1, <2>2
  <2>4. /\ start <= Offset(n) /\ Offset(n) < total
        /\ \A h \in DOMAIN granulePositions : granulePositions[h] < start
    BY <1>3, <1>15, <2>1 DEF Wide
  <2>5. start <= pagePosition
    BY <1>3, <1>10 DEF AtPage
  <2>6. Offset(e) = pagePosition
    BY <1>2, <1>7, <1>15, InsideReads
  <2>7. e # n
    <3>1. target < file[n].granule /\ file[n].granule \in Nat
      BY <1>1, <1>6, <1>15, SeekFile, SeekPages DEF Inside
    <3> QED BY <1>5, <1>10, <1>11, <2>3, <3>1
  <2>8. Offset(e) < Offset(n) /\ Offset(n) \in Nat
    <3>1. e \in 1..n /\ e < n
      BY <1>5, <1>6, <2>7
    <3> QED BY <1>1, <1>6, <3>1, SeekPages
  <2>9. start' = pagePosition + 1 /\ total' = total
    BY <1>2, <2>1, <2>3
  <2>10. start' <= Offset(n) /\ start <= start' /\ pagePosition < start'
    BY <1>10, <2>5, <2>6, <2>8, <2>9
  <2>11. ASSUME NEW h \in DOMAIN gp PROVE gp[h] < start'
    <3>1. CASE h = g
      BY <1>12, <2>10, <3>1
    <3>2. CASE h # g
      <4>1. h \in DOMAIN granulePositions /\ gp[h] = granulePositions[h]
        BY <1>12, <3>2
      <4>2. PICK a \in DOMAIN file : Offset(a) = granulePositions[h]
        BY <1>3, <4>1 DEF Known
      <4>3. Offset(a) \in Nat
        BY <1>1, <1>6, <4>2, SeekPages
      <4> QED BY <1>10, <2>4, <2>9, <2>10, <4>1, <4>2, <4>3
    <3> QED BY <3>1, <3>2
  <2> QED BY <2>4, <2>9, <2>10, <2>11
<1>16. Inside' <=> Inside
  BY <1>2, SameInside
<1>17. Wide'
  BY <1>2, <1>15, <1>16 DEF Wide, Offset
<1>18. pc' = "pick" => highest' # 0
  BY <1>2, <1>8, <1>10, <1>11
<1>19. Places' /\ pc' # "idle"
  BY <1>2, <1>14, <1>17, <1>18 DEF Places
<1> QED BY <1>13, <1>19, NotReturned DEF SeekInv

LEMMA SeekEndSearch == ASSUME SeekInv, EndSearch PROVE SeekInv'
<1>1. file \in Files /\ ReaderRight(reader) /\ SeekTypes
  BY DEF SeekInv, SeekTypes
<1>2. /\ pc = "probe" /\ ~ (start < total) /\ pc' = "pick"
      /\ UNCHANGED <<file, size, target, reader, result>> /\ UNCHANGED seekVars
  BY DEF EndSearch, Keep, Searching
<1>3. Known /\ Wide
  BY <1>2 DEF SeekInv, Places
<1>4. Inside => highest # 0
  <2> SUFFICES ASSUME Inside, highest = 0 PROVE FALSE
    OBVIOUS
  <2>1. start <= Offset(Len(file)) /\ Offset(Len(file)) < total
    BY <1>3 DEF Wide
  <2>2. Len(file) \in 1..Len(file)
    BY <1>1, SeekFile
  <2>3. Offset(Len(file)) \in Nat
    BY <1>1, <2>2, SeekPages
  <2>4. start \in Nat /\ total \in Nat
    BY <1>1 DEF SeekTypes
  <2> QED BY <1>2, <2>1, <2>3, <2>4
<1>5. SeekTypes'
  BY <1>1, <1>2, TypesKept DEF SeekTypes, seekVars
<1>6. Known'
  BY <1>2, <1>3, KnownKept DEF seekVars
<1>7. (Inside' <=> Inside) /\ highest' = highest
  BY <1>2, SameInside DEF seekVars
<1>8. Places' /\ pc' # "idle"
  BY <1>2, <1>4, <1>6, <1>7 DEF Places
<1> QED BY <1>5, <1>8, NotReturned DEF SeekInv

LEMMA SeekNotFound == ASSUME SeekInv, NotFound PROVE SeekInv'
<1>1. SeekTypes /\ ReaderRight(reader)
  BY DEF SeekInv, SeekTypes
<1>2. /\ pc = "pick" /\ highest = 0 /\ pc' = "idle"
      /\ result' = [ok |-> FALSE, value |-> 0, call |-> result.call]
      /\ UNCHANGED <<file, size, target, reader>> /\ UNCHANGED seekVars
  BY DEF NotFound, Keep, Return
<1>3. result.call = "seek" /\ ~ Inside
  BY <1>2 DEF SeekInv, Places, Known
<1>4. SeekTypes'
  BY <1>1, <1>2, TypesKept DEF SeekTypes, seekVars
<1>5. ~ Inside'
  BY <1>2, <1>3, SameInside
<1> QED BY <1>2, <1>3, <1>4, <1>5, SeekFailed

LEMMA SeekBeginScan == ASSUME SeekInv, BeginScan PROVE SeekInv'
<1>0. PICK s : s = ScanFrom
  OBVIOUS
<1>1. file \in Files /\ ReaderRight(reader) /\ SeekTypes
  BY DEF SeekInv, SeekTypes
<1>2. /\ pc = "pick" /\ pc' = "scan" /\ reader' = Reposition(reader, s) /\ last' = 0
      /\ UNCHANGED <<file, size, target, result, total, start, position, pagePosition,
                     granulePositions, lowest, highest>>
  BY <1>0 DEF BeginScan, Keep
<1>3. Known
  BY <1>2 DEF SeekInv, Places
<1>4. s \in DOMAIN file /\ \E e \in DOMAIN file : FirstFrom(s, e) /\ file[e].granule < target
  <2>1. CASE lowest \in DOMAIN granulePositions
    <3>1. PICK t, e \in DOMAIN file : /\ FirstFrom(t, e) /\ file[e].granule = lowest
                                      /\ Offset(t) = granulePositions[lowest]
      BY <1>3, <2>1 DEF Known
    <3>2. s = t
      BY <1>0, <1>1, <2>1, <3>1, PageAtIs DEF ScanFrom
    <3>3. lowest < target
      BY <1>3 DEF Known
    <3> QED BY <3>1, <3>2, <3>3
  <2>2. CASE lowest \notin DOMAIN granulePositions
    <3>1. s = 1
      BY <1>0, <2>2 DEF ScanFrom
    <3>5. Ending(1) /\ file[1].granule = 0
      BY <1>1, SeekPages
    <3>6. Len(file) \in Nat /\ Len(file) > 2 /\ DOMAIN file = 1..Len(file)
      BY <1>1, SeekFile
    <3>2. 1 \in DOMAIN file /\ Ending(1) /\ file[1].granule = 0
      BY <3>5, <3>6
    <3>3. FirstFrom(1, 1)
      BY <3>2 DEF FirstFrom
    <3>4. 0 < target
      BY <1>1, <1>3 DEF Known, SeekTypes
    <3> QED BY <3>1, <3>2, <3>3, <3>4
  <2> QED BY <2>1, <2>2
<1>5. ReaderRight(reader') /\ reader'.next = s /\ reader'.queue = <<>>
  BY <1>1, <1>2, <1>4, RepositionTakes
<1>6. SeekTypes'
  BY <1>1, <1>2, <1>5, TypesKept DEF SeekTypes
<1>7. s \in Nat
  BY <1>1, <1>4, SeekFile
<1>8. Passed(s)'
  <2>1. s..(s - 1) = {} /\ s <= s
    BY <1>7
  <2>2. s <= reader'.next /\ s..(reader'.next - 1) = {} /\ reader'.queue = <<>>
    BY <1>5, <2>1
  <2>3. PICK e \in DOMAIN file : FirstFrom(s, e) /\ file[e].granule < target
    BY <1>4
  <2>4. e \in DOMAIN file' /\ FirstFrom(s, e)' /\ file'[e].granule < target'
    BY <1>2, <2>3 DEF FirstFrom, Ending
  <2> QED BY <2>2, <2>4 DEF Passed
<1>9. Scanning'
  <2>1. target' > 0 /\ result'.call = "seek"
    BY <1>2, <1>3 DEF Known
  <2>2. s \in DOMAIN file'
    BY <1>2, <1>4
  <2> QED BY <1>8, <2>1, <2>2 DEF Scanning
<1>10. Places' /\ pc' # "idle"
  BY <1>2, <1>9 DEF Places
<1> QED BY <1>6, <1>10, NotReturned DEF SeekInv

LEMMA SeekScanFails == ASSUME SeekInv, ScanFails PROVE SeekInv'
<1>1. file \in Files /\ ReaderRight(reader) /\ SeekTypes
  BY DEF SeekInv, SeekTypes
<1>2. /\ pc = "scan" /\ HasError /\ reader' \in AfterError /\ pc' = "idle"
      /\ result' = [ok |-> FALSE, value |-> 0, call |-> result.call]
      /\ UNCHANGED <<file, size, target>> /\ UNCHANGED seekVars
  BY DEF ScanFails, Keep, Return
<1>3. result.call = "seek"
  BY <1>2 DEF SeekInv, Places, Scanning
<1>4. PICK s \in DOMAIN file : Passed(s)
  BY <1>2 DEF SeekInv, Places, Scanning
<1>5. SeekTypes'
  BY <1>1, <1>2, ErrorTakes, TypesKept DEF SeekTypes, seekVars
<1>6. ASSUME Inside, reader.next > Len(file) PROVE FALSE
  <2>1. /\ Len(file) \in Nat /\ s \in 1..Len(file) /\ reader.next \in 1..(Len(file) + 1)
        /\ Len(file) \in 1..Len(file) /\ Last(file) = file[Len(file)]
    <3>1. Len(file) \in Nat /\ s \in 1..Len(file) /\ Last(file) = file[Len(file)]
      BY <1>1, SeekFile
    <3>2. reader.next \in 1..(Len(file) + 1)
      BY <1>1 DEF ReaderRight
    <3> QED BY <3>1, <3>2
  <2>2. Len(file) \in s..(reader.next - 1)
    BY <1>6, <2>1
  <2>3. Ending(Len(file)) /\ file[Len(file)].granule \in Nat
    BY <1>1, <2>1, SeekPages
  <2>4. file[Len(file)].granule < target
    BY <1>4, <2>2, <2>3 DEF Passed
  <2>5. target < file[Len(file)].granule
    BY <1>6, <2>1 DEF Inside
  <2>6. target \in Nat
    BY <1>1 DEF SeekTypes
  <2> QED BY <2>3, <2>4, <2>5, <2>6
<1>7. ~ Inside
  <2>1. reader.next <= Len(file) => ~ Inside
    BY <1>1, <1>2, NoError
  <2>2. reader.next \in Nat /\ Len(file) \in Nat
    <3>1. Len(file) \in Nat
      BY <1>1, SeekFile
    <3>2. reader.next \in 1..(Len(file) + 1)
      BY <1>1 DEF ReaderRight
    <3> QED BY <3>1, <3>2
  <2> QED BY <1>6, <2>1, <2>2
<1>8. ~ Inside'
  BY <1>2, <1>7, SameInside
<1> QED BY <1>2, <1>3, <1>5, <1>8, SeekFailed

(* Where a scan ends: i is the first page that reaches the target and k    *)
(* the last one before it that a packet ends on.                           *)
LEMMA LandsAt ==
    ASSUME file \in Files, target \in Nat, NEW i \in 1..Len(file), NEW k \in 1..Len(file),
           Ending(i), file[i].granule >= target, Ending(k), file[k].granule < target,
           \A j \in k..i : Ending(j) => j \in {k, i}, k < i
    PROVE  /\ AtOrAbove # {} /\ (CHOOSE j \in AtOrAbove : \A h \in AtOrAbove : j <= h) = i
           /\ LET b == {j \in Below : j < i}
              IN  (CHOOSE j \in b : \A h \in b : h <= j) = k
<1> DEFINE A == AtOrAbove
           b == {j \in Below : j < i}
<1>1. /\ DOMAIN file = 1..Len(file) /\ Len(file) \in Nat /\ i \in Nat /\ k \in Nat
      /\ \A j \in 1..Len(file) : file[j].granule \in Nat /\ j \in Nat
  <2>1. DOMAIN file = 1..Len(file) /\ Len(file) \in Nat
    BY SeekFile
  <2>2. \A j \in 1..Len(file) : file[j].granule \in Nat
    BY SeekPages
  <2>3. i \in Nat /\ k \in Nat /\ \A j \in 1..Len(file) : j \in Nat
    BY <2>1
  <2> QED BY <2>1, <2>2, <2>3
<1>2. \A j \in 1..Len(file) : Ending(j) /\ j < i => j <= k
  BY <1>1
<1>3. \A j \in 1..Len(file) : Ending(j) /\ j <= k => file[j].granule < target
  <2> SUFFICES ASSUME NEW j \in 1..Len(file), Ending(j), j <= k
               PROVE  file[j].granule < target
    OBVIOUS
  <2>1. j < k \/ j = k
    BY <1>1
  <2>2. j < k => file[j].granule <= file[k].granule
    BY SeekPages
  <2> QED BY <1>1, <2>1, <2>2
<1>4. i \in A /\ \A h \in A : i <= h
  <2>1. i \in A
    BY <1>1 DEF AtOrAbove
  <2>2. ASSUME NEW h \in A PROVE i <= h
    <3>1. h \in 1..Len(file) /\ Ending(h) /\ file[h].granule >= target
      BY <1>1 DEF AtOrAbove
    <3>2. h < i => file[h].granule < target
      BY <1>2, <1>3, <3>1
    <3> QED BY <1>1, <3>1, <3>2
  <2> QED BY <2>1, <2>2
<1>5. k \in b /\ \A h \in b : h <= k
  <2>1. k \in b
    BY <1>1 DEF Below
  <2>2. ASSUME NEW h \in b PROVE h <= k
    <3>1. h \in 1..Len(file) /\ Ending(h) /\ h < i
      BY <1>1 DEF Below
    <3> QED BY <1>2, <3>1
  <2> QED BY <2>1, <2>2
<1>6. A \subseteq Nat /\ b \subseteq Nat
  BY <1>1 DEF AtOrAbove, Below
<1> HIDE DEF A, b
<1>7. (CHOOSE j \in A : \A h \in A : j <= h) = i
  <2> DEFINE x == CHOOSE j \in A : \A h \in A : j <= h
  <2>1. x \in A /\ \A h \in A : x <= h
    BY <1>4, Zenon
  <2>2. x <= i /\ i <= x
    BY <1>4, <2>1
  <2> HIDE DEF x
  <2>3. x = i
    BY <1>1, <1>6, <2>1, <2>2
  <2> QED BY <2>3 DEF x
<1>8. (CHOOSE j \in b : \A h \in b : h <= j) = k
  <2> DEFINE x == CHOOSE j \in b : \A h \in b : h <= j
  <2>1. x \in b /\ \A h \in b : h <= x
    BY <1>5, Zenon
  <2>2. x <= k /\ k <= x
    BY <1>5, <2>1
  <2> HIDE DEF x
  <2>3. x = k
    BY <1>1, <1>6, <2>1, <2>2
  <2> QED BY <2>3 DEF x
<1>9. A # {}
  BY <1>4
<1> QED BY <1>7, <1>8, <1>9 DEF A, b

LEMMA SeekScan == ASSUME SeekInv, Scan PROVE SeekInv'
<1>0. PICK rd, pkt : rd = AfterPacket /\ pkt = TurnPacket
  OBVIOUS
<1>1. file \in Files /\ ReaderRight(reader) /\ SeekTypes
  BY DEF SeekInv, SeekTypes
<1>2. /\ pc = "scan" /\ HasPacket
      /\ IF pkt.granule >= target
         THEN reader' = PutBack(rd, pkt) /\ Return(TRUE, last) /\ UNCHANGED last
         ELSE reader' = rd /\ last' = pkt.granule /\ UNCHANGED <<pc, result>>
      /\ UNCHANGED <<file, size, target, total, start, position, pagePosition,
                     granulePositions, lowest, highest>>
  BY <1>0 DEF Scan, Keep
<1>3. PICK s \in DOMAIN file : Passed(s)
  BY <1>2 DEF SeekInv, Places, Scanning
<1>4. target > 0 /\ result.call = "seek" /\ target \in Nat
  BY <1>1, <1>2 DEF SeekInv, Places, Scanning, SeekTypes
<1>5. PICK n : n = reader.next
  OBVIOUS
<1>6. /\ s <= n
      /\ \A k \in s..(n - 1) : Ending(k) => file[k].granule < target
      /\ \E e \in DOMAIN file : FirstFrom(s, e) /\ file[e].granule < target
      /\ \/ reader.queue = <<>> /\ \A k \in s..(n - 1) : ~ Ending(k)
         \/ \E k \in s..(n - 1) : /\ Ending(k) /\ last = file[k].granule
                                  /\ \A j \in (k + 1)..(n - 1) : ~ Ending(j)
  BY <1>3, <1>5 DEF Passed
<1>7. Took(TurnPacket, AfterPacket)
  BY <1>1, <1>2, TurnTakes
<1>8. PICK i : i = rd.next - 1
  OBVIOUS
<1>9. /\ ReaderRight(rd) /\ i \in DOMAIN file /\ Ending(i)
      /\ rd.next = (IF reader.queue = <<>> THEN n + 1 ELSE n)
      /\ pkt.granule = file[i].granule
      /\ reader.queue = <<>> => /\ Waiting(<<pkt>> \o rd.queue, i)
                                /\ Len(<<pkt>> \o rd.queue) = Len(Ends(file[i]))
  BY <1>0, <1>5, <1>7, <1>8 DEF Took
<1>10. /\ DOMAIN file = 1..Len(file) /\ Len(file) \in Nat /\ s \in Nat /\ i \in Nat
       /\ n \in Nat /\ i = (IF reader.queue = <<>> THEN n ELSE n - 1)
       /\ i \in 1..Len(file) /\ s \in 1..Len(file) /\ file[i].granule \in Nat
  <2>1. DOMAIN file = 1..Len(file) /\ Len(file) \in Nat
    BY <1>1, SeekFile
  <2>2. n \in 1..(Len(file) + 1)
    BY <1>1, <1>5 DEF ReaderRight
  <2>3. file[i].granule \in Nat
    BY <1>1, <1>9, <2>1, SeekPages
  <2>4. i = (IF reader.queue = <<>> THEN n ELSE n - 1)
    BY <1>8, <1>9, <2>2
  <2> QED BY <1>9, <2>1, <2>2, <2>3, <2>4
<1>11. s <= i
  <2>1. reader.queue # <<>> => \E k \in s..(n - 1) : Ending(k)
    BY <1>6
  <2> QED BY <1>6, <1>10, <2>1
<1>12. CASE pkt.granule >= target
  <2>1. reader.queue = <<>> /\ i = n
    <3>1. reader.queue # <<>> => i \in s..(n - 1)
      BY <1>10, <1>11
    <3>2. reader.queue # <<>> => file[i].granule < target
      BY <1>6, <1>9, <3>1
    <3> QED BY <1>4, <1>9, <1>10, <1>12, <3>2
  <2>2. PICK k \in s..(n - 1) : /\ Ending(k) /\ last = file[k].granule
                                /\ \A j \in (k + 1)..(n - 1) : ~ Ending(j)
    <3>1. PICK e \in DOMAIN file : FirstFrom(s, e) /\ file[e].granule < target
      BY <1>6
    <3>2. e \in Nat /\ s <= e /\ Ending(e) /\ \A j \in s..(e - 1) : ~ Ending(j)
      BY <1>10, <3>1 DEF FirstFrom
    <3>3. e # i
      BY <1>4, <1>9, <1>10, <1>12, <3>1
    <3>4. ~ (i < e)
      <4>1. i < e => i \in s..(e - 1)
        BY <1>10, <1>11, <3>2
      <4> QED BY <1>9, <3>2, <4>1
    <3>5. e \in s..(n - 1)
      BY <1>10, <2>1, <3>2, <3>3, <3>4
    <3> QED BY <1>6, <3>2, <3>5
  <2>3. /\ k \in 1..Len(file) /\ k < i /\ file[k].granule < target
        /\ \A j \in k..i : Ending(j) => j \in {k, i}
    <3>1. k \in 1..Len(file) /\ k < i
      BY <1>10, <2>1
    <3>2. file[k].granule < target
      BY <1>6, <2>2
    <3>3. \A j \in k..i : j = k \/ j = i \/ j \in (k + 1)..(n - 1)
      BY <1>10, <2>1
    <3> QED BY <2>2, <3>1, <3>2, <3>3
  <2>4. /\ AtOrAbove # {} /\ (CHOOSE j \in AtOrAbove : \A h \in AtOrAbove : j <= h) = i
        /\ LET b == {j \in Below : j < i}
           IN  (CHOOSE j \in b : \A h \in b : h <= j) = k
    BY <1>1, <1>4, <1>9, <1>10, <1>12, <2>2, <2>3, LandsAt
  <2>5. /\ pc' = "idle" /\ reader' = [rd EXCEPT !.queue = <<pkt>> \o @]
        /\ result' = [ok |-> TRUE, value |-> last, call |-> result.call] /\ last' = last
    BY <1>2, <1>12 DEF Return, PutBack
  <2>6. reader' = [next |-> rd.next, astray |-> rd.astray,
                   serial |-> rd.serial, pending |-> rd.pending,
                   queue |-> <<pkt>> \o rd.queue]
    <3>1. rd = [next |-> rd.next, astray |-> rd.astray,
                serial |-> rd.serial, pending |-> rd.pending,
                queue |-> rd.queue]
      BY <1>9 DEF ReaderRight, Fields
    <3> QED BY <2>5, <3>1
  <2>7. /\ reader'.next = rd.next /\ reader'.queue = <<pkt>> \o rd.queue
        /\ reader'.serial = rd.serial /\ reader'.pending = rd.pending /\ Fields(reader')
        /\ reader'.astray = rd.astray
    BY <2>6 DEF Fields
  <2>8. ReaderRight(reader')
    <3>1. \E T : reader'.queue \in Seq(T)
      BY <1>9, <2>1, <2>7 DEF Waiting
    <3> QED BY <1>8, <1>9, <2>1, <2>7, <3>1 DEF ReaderRight
  <2>9. SeekTypes'
    BY <1>1, <1>2, <2>5, <2>8, TypesKept DEF SeekTypes
  <2>10. AtOrAbove' = AtOrAbove /\ Below' = Below
    BY <1>2 DEF AtOrAbove, Below, Ending
  <2>11. LandsInStream'
    <3>1. reader'.next = i + 1 /\ Len(reader'.queue) = Len(Ends(file[i]))
      BY <1>8, <1>9, <1>10, <2>1, <2>7
    <3>2. result'.value = file[k].granule
      BY <2>2, <2>5
    <3> QED BY <1>2, <2>4, <2>10, <3>1, <3>2 DEF LandsInStream
  <2>12. SeekLands'
    BY <1>2, <1>4, <2>11 DEF SeekLands, RewindLands
  <2> QED BY <1>4, <2>5, <2>9, <2>12, SeekFound
<1>13. CASE ~ (pkt.granule >= target)
  <2>1. reader' = rd /\ last' = file[i].granule /\ pc' = "scan" /\ result' = result
    BY <1>2, <1>9, <1>13
  <2>2. file[i].granule < target
    BY <1>4, <1>9, <1>10, <1>13
  <2>3. SeekTypes'
    BY <1>1, <1>2, <1>9, <1>10, <2>1, TypesKept DEF SeekTypes
  <2>4. reader'.next - 1 = i /\ s <= reader'.next /\ i \in s..i
    <3>1. rd.next - 1 = i /\ rd.next = i + 1
      BY <1>8, <1>9, <1>10
    <3> QED BY <1>10, <1>11, <2>1, <3>1
  <2>5. \A k \in s..i : Ending(k) => file[k].granule < target
    <3>1. \A k \in s..i : k \in s..(n - 1) \/ k = i
      BY <1>10
    <3> QED BY <1>6, <2>2, <3>1
  <2>6. (i + 1)..i = {}
    BY <1>10
  <2>7. PICK e \in DOMAIN file : FirstFrom(s, e) /\ file[e].granule < target
    BY <1>6
  <2>8. FirstFrom(s, e)' /\ \A k : Ending(k)' <=> Ending(k)
    BY <1>2, <2>7 DEF FirstFrom, Ending
  <2>9. Passed(s)'
    BY <1>2, <1>9, <2>1, <2>4, <2>5, <2>6, <2>7, <2>8 DEF Passed
  <2>10. Scanning'
    BY <1>2, <1>4, <2>1, <2>9 DEF Scanning
  <2>11. Places' /\ pc' # "idle"
    BY <2>1, <2>10 DEF Places
  <2> QED BY <2>3, <2>11, NotReturned DEF SeekInv
<1> QED BY <1>12, <1>13

-----------------------------------------------------------------------------
(* The length of the stream.                                               *)
LEMMA SameReach ==
    ASSUME file' = file, size' = size
    PROVE  WithinReach' <=> WithinReach
<1>1. Tail64K' = Tail64K /\ (Readable' <=> Readable)
  BY DEF Tail64K, Readable
<1>2. PageFrom(Tail64K)' = PageFrom(Tail64K)
  BY <1>1 DEF PageFrom, Offset
<1>3. NextPage(Tail64K)' = NextPage(Tail64K)
  BY <1>2, Zenon DEF NextPage
<1> QED BY <1>1, <1>2, <1>3, Zenon DEF WithinReach

LEMMA LengthFailed ==
    ASSUME SeekTypes', pc' = "idle", result'.call = "length", ~ result'.ok,
           ~ WithinReach'
    PROVE  SeekInv'
<1>1. Places'
  BY DEF Places
<1>2. SeekLands' /\ SeekFindsBetween'
  BY DEF SeekLands, LandsInStream, RewindLands, SeekFindsBetween, Returned
<1>3. LengthRight'
  BY DEF LengthRight, WithinReach
<1> QED BY <1>1, <1>2, <1>3 DEF SeekInv

LEMMA LengthFound ==
    ASSUME SeekTypes', pc' = "idle", result'.call = "length", result'.ok,
           result'.value = Last(file)'.granule
    PROVE  SeekInv'
<1>1. Places'
  BY DEF Places
<1>2. SeekLands' /\ SeekFindsBetween'
  BY DEF SeekLands, LandsInStream, RewindLands, SeekFindsBetween, Returned
<1>3. LengthRight'
  BY DEF LengthRight
<1> QED BY <1>1, <1>2, <1>3 DEF SeekInv

LEMMA SeekCallLastGranule == ASSUME SeekInv, CallLastGranule PROVE SeekInv'
<1>1. file \in Files /\ ReaderRight(reader) /\ SeekTypes
  BY DEF SeekInv, SeekTypes
<1>2. /\ pc = "idle"
      /\ IF PageFrom(Tail64K) = {}
         THEN /\ result' = [ok |-> FALSE, value |-> 0, call |-> "length"]
              /\ UNCHANGED <<reader, pc>>
         ELSE /\ reader' = Reposition(reader, NextPage(Tail64K))
              /\ result' = [result EXCEPT !.call = "length"]
              /\ pc' = "tail"
      /\ UNCHANGED <<file, size, target>> /\ UNCHANGED seekVars
  BY DEF CallLastGranule
<1>3. CASE PageFrom(Tail64K) = {}
  <2>1. /\ result' = [ok |-> FALSE, value |-> 0, call |-> "length"]
        /\ pc' = "idle" /\ reader' = reader
    BY <1>2, <1>3
  <2>2. SeekTypes'
    BY <1>1, <1>2, <2>1, TypesKept DEF SeekTypes, seekVars
  <2>3. ~ WithinReach
    BY <1>3 DEF WithinReach
  <2>4. ~ WithinReach'
    BY <1>2, <2>3, SameReach
  <2> QED BY <2>1, <2>2, <2>4, LengthFailed
<1>4. CASE PageFrom(Tail64K) # {}
  <2>1. PICK i : i = NextPage(Tail64K)
    OBVIOUS
  <2>2. i \in DOMAIN file
    BY <1>1, <1>4, <2>1, NextPageIs
  <2>3. pc' = "tail" /\ reader' = Reposition(reader, i)
        /\ result' = [result EXCEPT !.call = "length"]
    BY <1>2, <1>4, <2>1
  <2>4. /\ ReaderRight(reader') /\ reader'.next = i
        /\ reader'.queue = <<>> /\ reader'.pending = <<>>
    BY <1>1, <2>2, <2>3, RepositionTakes
  <2>5. result' = [ok |-> result.ok, value |-> result.value, call |-> "length"]
    BY <1>1, <2>3 DEF SeekTypes
  <2>6. SeekTypes'
    BY <1>1, <1>2, <2>4, <2>5, TypesKept DEF SeekTypes, seekVars
  <2>7. WithinReach => ~ file[i].cont
    BY <2>1 DEF WithinReach
  <2>8. i <= Len(file)
    BY <1>1, <2>2, SeekFile
  <2>9. Tailing'
    <3>1. WithinReach' <=> WithinReach
      BY <1>2, SameReach
    <3> QED BY <1>2, <2>4, <2>5, <2>7, <2>8, <3>1 DEF Tailing, InStep
  <2>10. Places' /\ pc' # "idle"
    BY <2>3, <2>9 DEF Places
  <2> QED BY <2>6, <2>10, NotReturned DEF SeekInv
<1> QED BY <1>3, <1>4

LEMMA SeekLastGranule == ASSUME SeekInv, LastGranule PROVE SeekInv'
<1>0. PICK rd, pkt : rd = AfterPacket /\ pkt = TurnPacket
  OBVIOUS
<1>1. file \in Files /\ ReaderRight(reader) /\ SeekTypes
  BY DEF SeekInv, SeekTypes
<1>2. /\ pc = "tail" /\ HasPacket /\ reader' = rd
      /\ IF IsLast(pkt) THEN Return(TRUE, pkt.granule) ELSE UNCHANGED <<pc, result>>
      /\ UNCHANGED <<file, size, target>> /\ UNCHANGED seekVars
  BY <1>0 DEF LastGranule, Keep
<1>3. /\ result.call = "length"
      /\ WithinReach => /\ reader.next <= Len(file) \/ reader.queue # <<>>
                        /\ InStep(reader)
  BY <1>2 DEF SeekInv, Places, Tailing
<1>4. Took(TurnPacket, AfterPacket)
  BY <1>1, <1>2, TurnTakes
<1>5. PICK i : i = rd.next - 1
  OBVIOUS
<1>6. /\ ReaderRight(rd) /\ i \in DOMAIN file
      /\ pkt.granule = file[i].granule
      /\ IsLast(pkt) <=> rd.queue = <<>> /\ file[i].eos /\ file[i].granule # NoGranule
  BY <1>0, <1>4, <1>5 DEF Took
<1>7. /\ DOMAIN file = 1..Len(file) /\ Len(file) \in Nat /\ Len(file) \in 1..Len(file)
      /\ Last(file) = file[Len(file)]
  BY <1>1, SeekFile
<1>8. i \in 1..Len(file) /\ rd.next = i + 1 /\ file[i].granule \in Nat
  <2>1. i \in 1..Len(file) /\ rd.next \in 1..(Len(file) + 1)
    BY <1>6, <1>7 DEF ReaderRight
  <2>2. file[i].granule \in Nat
    BY <1>1, <2>1, SeekPages
  <2>3. rd.next = i + 1
    BY <1>5, <1>7, <2>1
  <2> QED BY <2>1, <2>2, <2>3
<1>9. CASE IsLast(pkt)
  <2>1. pc' = "idle" /\ result' = [ok |-> TRUE, value |-> file[i].granule, call |-> "length"]
    BY <1>2, <1>3, <1>6, <1>9 DEF Return
  <2>2. SeekTypes'
    BY <1>1, <1>2, <1>6, <2>1, TypesKept DEF SeekTypes, seekVars
  <2>3. i = Len(file)
    <3>1. file[i].eos
      BY <1>6, <1>9
    <3>2. \A j \in 1..Len(file) : file[j].eos => j = Len(file)
      BY <1>1, SeekPages
    <3> QED BY <1>8, <3>1, <3>2
  <2>4. result'.value = Last(file)'.granule
    BY <1>2, <1>7, <2>1, <2>3
  <2> QED BY <2>1, <2>2, <2>4, LengthFound
<1>10. CASE ~ IsLast(pkt)
  <2>1. pc' = "tail" /\ result' = result
    BY <1>2, <1>10
  <2>2. SeekTypes'
    BY <1>1, <1>2, <1>6, <2>1, TypesKept DEF SeekTypes, seekVars
  <2>3. WithinReach => rd.next <= Len(file) \/ rd.queue # <<>>
    <3> SUFFICES ASSUME WithinReach, ~ (rd.next <= Len(file)) PROVE rd.queue # <<>>
      OBVIOUS
    <3>1. i = Len(file)
      <4> DEFINE n == Len(file)
      <4>1. n \in Nat /\ i \in 1..n /\ ~ (i + 1 <= n)
        BY <1>7, <1>8
      <4> HIDE DEF n
      <4>2. i = n
        BY <4>1
      <4> QED BY <4>2 DEF n
    <3>2. file[i].eos
      BY <1>7, <3>1 DEF WithinReach
    <3>3. file[i].granule # NoGranule
      BY <1>1, <1>7, <3>1, SeekPages
    <3> QED BY <1>6, <1>10, <3>2, <3>3
  <2>4. WithinReach => InStep(rd)
    <3> SUFFICES ASSUME WithinReach PROVE InStep(rd)
      OBVIOUS
    <3>1. CASE reader.queue # <<>>
      <4>1. rd = [reader EXCEPT !.queue = Pop(@)]
        BY <1>0, <3>1 DEF AfterPacket
      <4>2. rd.next = reader.next /\ rd.pending = reader.pending
        <5>1. reader = [next |-> reader.next, astray |-> reader.astray,
                        serial |-> reader.serial,
                        pending |-> reader.pending, queue |-> reader.queue]
          BY <1>1 DEF ReaderRight, Fields
        <5> QED BY <4>1, <5>1
      <4> QED BY <1>3, <4>2 DEF InStep
    <3>2. CASE reader.queue = <<>>
      <4>1. Reading /\ Accepted(reader, page) /\ rd = Absorbed(reader, page)
        BY <1>0, <1>2, <3>2 DEF HasPacket, AfterPacket
      <4>2. Readable
        BY DEF WithinReach
      <4> QED BY <1>1, <4>1, <4>2, StaysInStep
    <3> QED BY <3>1, <3>2
  <2>5. Tailing'
    <3>1. WithinReach' <=> WithinReach
      BY <1>2, SameReach
    <3> QED BY <1>2, <1>3, <2>1, <2>3, <2>4, <3>1 DEF Tailing, InStep
  <2>6. Places' /\ pc' # "idle"
    BY <2>1, <2>5 DEF Places
  <2> QED BY <2>2, <2>6, NotReturned DEF SeekInv
<1> QED BY <1>9, <1>10

LEMMA SeekLastGranuleFails == ASSUME SeekInv, LastGranuleFails PROVE SeekInv'
<1>1. file \in Files /\ ReaderRight(reader) /\ SeekTypes
  BY DEF SeekInv, SeekTypes
<1>2. /\ pc = "tail" /\ HasError /\ reader' \in AfterError /\ pc' = "idle"
      /\ result' = [ok |-> FALSE, value |-> 0, call |-> result.call]
      /\ UNCHANGED <<file, size, target>> /\ UNCHANGED seekVars
  BY DEF LastGranuleFails, Keep, Return
<1>3. /\ result.call = "length"
      /\ WithinReach => /\ reader.next <= Len(file) \/ reader.queue # <<>>
                        /\ InStep(reader)
  BY <1>2 DEF SeekInv, Places, Tailing
<1>4. SeekTypes'
  BY <1>1, <1>2, ErrorTakes, TypesKept DEF SeekTypes, seekVars
<1>5. ASSUME WithinReach PROVE FALSE
  <2>0. ~ reader.astray
    BY <1>1, <1>5 DEF ReaderRight, WithinReach
  <2>1. Reading /\ ~ Accepted(reader, page) /\ InStep(reader)
    BY <1>2, <1>3, <1>5, <2>0 DEF HasError, Reading
  <2>2. page.crc
    <3>1. reader.next \in DOMAIN file
      <4>1. reader.next \in 1..(Len(file) + 1) /\ reader.next <= Len(file)
        BY <1>1, <2>1 DEF ReaderRight, Reading
      <4>2. Len(file) \in Nat /\ DOMAIN file = 1..Len(file)
        BY <1>1, SeekFile
      <4> QED BY <4>1, <4>2
    <3> QED BY <1>5, <3>1 DEF WithinReach, Readable, page
  <2>3. page.serial = Owned(reader, page) /\ page = file[reader.next]
    BY <1>1, <2>1, <2>2, PageAhead
  <2>4. page.cont => reader.pending # <<>>
    BY <2>1, <2>3 DEF InStep, Reading
  <2> QED BY <2>1, <2>2, <2>3, <2>4 DEF Accepted
<1>6. ~ WithinReach'
  BY <1>2, <1>5, SameReach
<1> QED BY <1>2, <1>3, <1>4, <1>6, LengthFailed

-----------------------------------------------------------------------------
LEMMA SeekStutters == ASSUME SeekInv, UNCHANGED vars PROVE SeekInv'
<1>1. /\ UNCHANGED <<file, reader, size, pc, target, calls, result>>
      /\ UNCHANGED seekVars
  BY DEF vars, readerVars
<1>2. SeekTypes /\ ReaderRight(reader')
  BY <1>1 DEF SeekInv, SeekTypes
<1>3. SeekTypes'
  BY <1>1, <1>2, TypesKept DEF SeekTypes, seekVars
<1>4. Inside' <=> Inside
  BY <1>1, SameInside
<1>5. WithinReach' <=> WithinReach
  BY <1>1, SameReach
<1>6. Places'
  <2>1. Places
    BY DEF SeekInv
  <2>2. Known => Known'
    BY <1>1, KnownKept DEF seekVars
  <2>3. Wide => Wide'
    BY <1>1, WideKept DEF seekVars
  <2>4. AtPage => AtPage'
    BY <1>1 DEF AtPage, seekVars, Offset, Ending
  <2>5. Scanning => Scanning'
    BY <1>1 DEF Scanning, Passed, FirstFrom, seekVars, Ending
  <2>6. (Skipping => Skipping') /\ (Tailing => Tailing')
    BY <1>1, <1>5 DEF Skipping, Tailing, InStep, seekVars
  <2>7. highest' = highest
    BY <1>1 DEF seekVars
  <2> QED BY <1>1, <1>4, <2>1, <2>2, <2>3, <2>4, <2>5, <2>6, <2>7 DEF Places
<1>7. SeekLands'
  <2>1. SeekLands
    BY DEF SeekInv
  <2>2. AtOrAbove' = AtOrAbove /\ Below' = Below
    BY <1>1 DEF AtOrAbove, Below, Ending
  <2> QED BY <1>1, <2>1, <2>2 DEF SeekLands, LandsInStream, RewindLands, Returned
<1>8. SeekFindsBetween'
  <2>1. SeekFindsBetween
    BY DEF SeekInv
  <2> QED BY <1>1, <1>4, <2>1 DEF SeekFindsBetween, Inside, Returned
<1>9. LengthRight'
  <2>1. LengthRight
    BY DEF SeekInv
  <2> QED BY <1>1, <1>5, <2>1 DEF LengthRight, WithinReach, Returned
<1> QED BY <1>3, <1>6, <1>7, <1>8, <1>9 DEF SeekInv

LEMMA SeekInvStep == SeekInv /\ [NextSeek]_vars => SeekInv'
<1> SUFFICES ASSUME SeekInv, [NextSeek]_vars PROVE SeekInv'
  OBVIOUS
<1>1. CASE Calls
  BY <1>1, SeekCallRewind, SeekCallSeek, SeekCallLastGranule DEF Calls
<1>2. CASE Steps
  BY <1>2, SeekTurnMore, SeekSkipHeader, SeekSkipFails, SeekProbe, SeekProbeUnreadable,
     SeekProbeAgain, SeekProbePage, SeekEndSearch, SeekNotFound, SeekBeginScan,
     SeekScan, SeekScanFails, SeekLastGranule, SeekLastGranuleFails DEF Steps
<1>3. CASE UNCHANGED vars
  BY <1>3, SeekStutters
<1> QED BY <1>1, <1>2, <1>3 DEF NextSeek

LEMMA SeekInvAlways == SpecSeek => []SeekInv
<1> QED BY SeekInvInit, SeekInvStep, PTL DEF SpecSeek

(* SeekToPage, when it returns without an error, leaves the reader at the  *)
(* first packet of the page the target is on and returns the position that *)
(* page starts from; to zero, it leaves it behind the two headers.         *)
THEOREM SeekLandsHolds == SpecSeek => []SeekLands
<1>1. SeekInv => SeekLands
  BY DEF SeekInv
<1> QED BY <1>1, SeekInvAlways, PTL

(* SeekToPage finds every target inside a stream whose pages can all be    *)
(* read and begin with a packet, but the positions of pages themselves.    *)
THEOREM SeekFindsHolds == SpecSeek => []SeekFindsBetween
<1>1. SeekInv => SeekFindsBetween
  BY DEF SeekInv
<1> QED BY <1>1, SeekInvAlways, PTL

(* LastPageGranule returns the position of the last page or an error, and  *)
(* no error when that page marks the end and is within its reach.          *)
THEOREM LengthHolds == SpecSeek => []LengthRight
<1>1. SeekInv => LengthRight
  BY DEF SeekInv
<1> QED BY <1>1, SeekInvAlways, PTL
=============================================================================
