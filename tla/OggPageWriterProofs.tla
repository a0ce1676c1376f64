------------------------ MODULE OggPageWriterProofs ------------------------
(***************************************************************************)
(* TLAPS proofs about OggPageWriter, for every page size, span, packet     *)
(* size and granule position the constants allow.                          *)
(***************************************************************************)
EXTENDS OggPageWriter, SequenceTheorems, WellFoundedInduction, TLAPS

-----------------------------------------------------------------------------
(* Induction over the natural numbers, from the library's theorem that     *)
(* they are well founded.  A property P(n) of numbers is the set           *)
(* {n \in Nat : P(n)}.                                                     *)
Less == OpToRel(<, Nat)

LEMMA LessMeans ==
    ASSUME NEW x \in Nat, NEW y \in Nat
    PROVE  <<x, y>> \in Less <=> x < y
  BY DEF Less, OpToRel

LEMMA LessWellFounded == IsWellFoundedOn(Less, Nat)
  BY NatLessThanWellFounded, Zenon DEF Less

LEMMA LeastOf ==
    ASSUME NEW T, T \subseteq Nat, T # {}
    PROVE  \E x \in T : \A y \in T : x <= y
<1>1. PICK x \in T : \A y \in T : ~ (<<y, x>> \in Less)
  BY LessWellFounded, WFMin, Zenon
<1>2. \A y \in T : y \in Nat /\ x \in Nat /\ ~ (y < x)
  BY <1>1, LessMeans
<1> QED BY <1>2

LEMMA SetInduction ==
    ASSUME NEW S, 0 \in S, \A n \in Nat : n \in S => n + 1 \in S
    PROVE  \A n \in Nat : n \in S
<1> SUFFICES ASSUME Nat \ S # {} PROVE FALSE
  OBVIOUS
<1>1. PICK x \in Nat \ S : \A y \in Nat \ S : x <= y
  <2>1. Nat \ S \subseteq Nat
    OBVIOUS
  <2> QED BY <2>1, LeastOf, Zenon
<1>2. x - 1 \in Nat /\ x - 1 \notin Nat \ S
  BY <1>1
<1> QED BY <1>1, <1>2

-----------------------------------------------------------------------------
(* The recursive function inside FlattenSeq, up to m.                      *)
Flattens(f, ss, m) ==
    f = [i \in 1..m |-> IF i = 1 THEN ss[i] ELSE f[i - 1] \o ss[i]]

LEMMA FlattensAt ==
    ASSUME NEW f, NEW ss, NEW m, Flattens(f, ss, m)
    PROVE  \A i \in 1..m : f[i] = IF i = 1 THEN ss[i] ELSE f[i - 1] \o ss[i]
  BY DEF Flattens

LEMMA FlattensExists ==
    ASSUME NEW ss
    PROVE  \A m \in Nat : \E f : Flattens(f, ss, m)
<1> DEFINE S == {m \in Nat : \E f : Flattens(f, ss, m)}
<1>1. 0 \in S
  <2> DEFINE f == [i \in 1..0 |-> ss[i]]
  <2>1. Flattens(f, ss, 0)
    BY DEF Flattens
  <2> QED BY <2>1
<1>2. ASSUME NEW m \in Nat, m \in S PROVE m + 1 \in S
  <2>1. PICK f : Flattens(f, ss, m)
    BY <1>2
  <2> DEFINE g == [i \in 1..(m + 1) |->
                     IF i = 1 THEN ss[i]
                     ELSE (IF i = m + 1 THEN f[m] ELSE f[i - 1]) \o ss[i]]
  <2>2. \A i \in 1..m : f[i] = IF i = 1 THEN ss[i] ELSE f[i - 1] \o ss[i]
    BY <2>1, FlattensAt
  <2>3. \A i \in 1..m : g[i] = f[i]
    BY <2>2
  <2>4. g = [i \in 1..(m + 1) |-> IF i = 1 THEN ss[i] ELSE g[i - 1] \o ss[i]]
    <3>1. \A i \in 1..(m + 1) : g[i] = IF i = 1 THEN ss[i] ELSE g[i - 1] \o ss[i]
      <4> SUFFICES ASSUME NEW i \in 1..(m + 1), i # 1 PROVE g[i] = g[i - 1] \o ss[i]
        OBVIOUS
      <4>1. i - 1 \in 1..m
        OBVIOUS
      <4>2. g[i] = (IF i = m + 1 THEN f[m] ELSE f[i - 1]) \o ss[i]
        BY Zenon
      <4>3. i = m + 1 => f[m] = f[i - 1]
        OBVIOUS
      <4> HIDE DEF g
      <4> QED BY <2>3, <4>1, <4>2, <4>3
    <3> HIDE DEF g
    <3>2. g = [i \in 1..(m + 1) |-> g[i]]
      BY DEF g
    <3> QED BY <3>1, <3>2
  <2> HIDE DEF g
  <2>5. Flattens(g, ss, m + 1)
    BY <2>4 DEF Flattens
  <2> QED BY <2>5
<1> HIDE DEF S
<1>3. \A m \in Nat : m \in S
  BY <1>1, <1>2, SetInduction
<1> QED BY <1>3 DEF S

LEMMA FlattensUnique ==
    ASSUME NEW ss, NEW tt, NEW m \in Nat, NEW n \in Nat, m <= n,
           \A i \in 1..m : ss[i] = tt[i],
           NEW f, NEW g, Flattens(f, ss, m), Flattens(g, tt, n)
    PROVE  \A i \in 1..m : f[i] = g[i]
<1> DEFINE S == {i \in Nat : i \in 1..m => f[i] = g[i]}
<1>1. \A i \in 1..m : f[i] = IF i = 1 THEN ss[i] ELSE f[i - 1] \o ss[i]
  BY FlattensAt
<1>2. \A i \in 1..m : g[i] = IF i = 1 THEN tt[i] ELSE g[i - 1] \o tt[i]
  BY FlattensAt
<1>3. 0 \in S
  OBVIOUS
<1>4. ASSUME NEW i \in Nat, i \in S PROVE i + 1 \in S
  <2> SUFFICES ASSUME i + 1 \in 1..m PROVE f[i + 1] = g[i + 1]
    OBVIOUS
  <2>1. CASE i = 0
    BY <1>1, <1>2, <2>1
  <2>2. CASE i # 0
    <3>1. f[i] = g[i] /\ i + 1 # 1 /\ (i + 1) - 1 = i
      BY <1>4, <2>2
    <3>2. f[i + 1] = f[i] \o ss[i + 1] /\ g[i + 1] = g[i] \o tt[i + 1]
      BY <1>1, <1>2, <3>1
    <3> QED BY <3>1, <3>2
  <2> QED BY <2>1, <2>2
<1> HIDE DEF S
<1>5. \A i \in Nat : i \in S
  BY <1>3, <1>4, SetInduction
<1> QED BY <1>5 DEF S

LEMMA FlattenEmpty == FlattenSeq(<<>>) = <<>>
  BY DEF FlattenSeq

LEMMA FlattenMeans ==
    ASSUME NEW ss, Len(ss) \in Nat, Len(ss) # 0
    PROVE  \E f : Flattens(f, ss, Len(ss)) /\ FlattenSeq(ss) = f[Len(ss)]
<1> DEFINE f == CHOOSE f : Flattens(f, ss, Len(ss))
<1>1. Flattens(f, ss, Len(ss))
  BY FlattensExists, Zenon
<1>2. FlattenSeq(ss) = f[Len(ss)]
  BY Zenon DEF FlattenSeq, Flattens
<1> QED BY <1>1, <1>2

(* FlattenSeq builds its value one element after another: f[n] is the       *)
(* concatenation of the first n.                                            *)
Building(f, ss, S) ==
    /\ f[0] = <<>>
    /\ \A n \in 1..Len(ss) : f[n] = f[n - 1] \o ss[n]
    /\ \A n \in 0..Len(ss) : f[n] \in Seq(S)
    /\ FlattenSeq(ss) = f[Len(ss)]

LEMMA FlattenBuilding ==
    ASSUME NEW S, NEW ss \in Seq(Seq(S))
    PROVE  \E f : Building(f, ss, S)
<1> DEFINE m == Len(ss)
<1>1. m \in Nat /\ \A n \in 1..m : ss[n] \in Seq(S)
  OBVIOUS
<1>2. CASE m = 0
  <2> DEFINE f == [n \in {0} |-> <<>>]
  <2>1. ss = <<>> /\ f[0] = <<>> /\ <<>> \in Seq(S)
    BY <1>1, <1>2
  <2>2. FlattenSeq(ss) = f[0]
    BY <2>1, FlattenEmpty
  <2> HIDE DEF f
  <2>3. /\ \A n \in 1..Len(ss) : f[n] = f[n - 1] \o ss[n]
        /\ \A n \in 0..Len(ss) : f[n] \in Seq(S)
    <3>1. \A n \in 0..Len(ss) : n = 0
      BY <1>2
    <3>2. f[0] \in Seq(S)
      BY <2>1
    <3>3. \A n \in 1..Len(ss) : FALSE
      BY <1>2
    <3> QED BY <3>1, <3>2, <3>3
  <2>4. FlattenSeq(ss) = f[Len(ss)]
    BY <1>2, <2>2
  <2>5. Building(f, ss, S)
    BY <2>1, <2>3, <2>4 DEF Building
  <2> QED BY <2>5
<1>3. CASE m # 0
  <2>1. PICK h : Flattens(h, ss, m) /\ FlattenSeq(ss) = h[m]
    BY <1>1, <1>3, FlattenMeans
  <2>2. \A n \in 1..m : h[n] = IF n = 1 THEN ss[n] ELSE h[n - 1] \o ss[n]
    BY <2>1, FlattensAt
  <2> HIDE DEF m
  <2> DEFINE f == [n \in 0..m |-> IF n = 0 THEN <<>> ELSE h[n]]
  <2>3. f[0] = <<>> /\ \A n \in 1..m : f[n] = h[n]
    BY <1>1
  <2> HIDE DEF f
  <2>4. \A n \in 1..m : f[n] = f[n - 1] \o ss[n]
    <3> SUFFICES ASSUME NEW n \in 1..m PROVE f[n] = f[n - 1] \o ss[n]
      OBVIOUS
    <3>1. CASE n = 1
      <4>1. ss[1] \in Seq(S) /\ <<>> \o ss[1] = ss[1]
        BY <1>1, <3>1
      <4>2. f[1] = ss[1] /\ f[1 - 1] = <<>>
        BY <2>2, <2>3, <3>1
      <4> QED BY <3>1, <4>1, <4>2
    <3>2. CASE n # 1
      <4>1. n - 1 \in 1..m
        BY <1>1, <3>2
      <4> QED BY <2>2, <2>3, <3>2, <4>1
    <3> QED BY <3>1, <3>2
  <2> DEFINE T == {n \in Nat : n \in 0..m => f[n] \in Seq(S)}
  <2>5. 0 \in T
    <3>1. <<>> \in Seq(S)
      OBVIOUS
    <3> QED BY <2>3, <3>1
  <2>6. ASSUME NEW n \in Nat, n \in T PROVE n + 1 \in T
    <3> SUFFICES ASSUME n + 1 \in 0..m PROVE f[n + 1] \in Seq(S)
      OBVIOUS
    <3>1. n \in 0..m /\ n + 1 \in 1..m /\ (n + 1) - 1 = n
      BY <1>1
    <3>2. f[n + 1] = f[n] \o ss[n + 1]
      BY <2>4, <3>1
    <3>3. f[n] \in Seq(S) /\ ss[n + 1] \in Seq(S)
      BY <1>1, <2>6, <3>1
    <3> QED BY <3>2, <3>3
  <2> HIDE DEF T
  <2>7. \A n \in Nat : n \in T
    BY <2>5, <2>6, SetInduction
  <2>8. \A n \in 0..m : f[n] \in Seq(S)
    BY <1>1, <2>7 DEF T
  <2>9. FlattenSeq(ss) = f[m]
    <3>1. m \in 1..m
      BY <1>1, <1>3
    <3> QED BY <2>1, <2>3, <3>1
  <2>10. Building(f, ss, S)
    BY <2>3, <2>4, <2>8, <2>9 DEF Building, m
  <2> QED BY <2>10
<1> QED BY <1>2, <1>3
-----------------------------------------------------------------------------
(* Pages that are typed, within the limits, and numbered from `first'. *)
GoodPages(pages, first) ==
    /\ pages \in Seq(Page)
    /\ \A i \in DOMAIN pages : /\ Len(pages[i].segs) \in 1..MaxSegs
                               /\ pages[i].seq = first + i - 1

(* oggLacing makes n typed lacing values. *)
LEMMA LacingType ==
    ASSUME NEW p \in Nat, NEW n \in Nat
    PROVE  oggLacing(p, n) \in Seq(Seg) /\ Len(oggLacing(p, n)) = n
<1>1. \A k \in 1..n : [pkt |-> p, k |-> k, end |-> k = n] \in Seg
  BY DEF Seg
<1> QED BY <1>1 DEF oggLacing

(* Every page but the last of a packet is full and the last is not empty:  *)
(* the ceiling division of PacketWriter.WritePacket's loop.                *)
LEMMA CountOf ==
    ASSUME NEW n \in Nat \ {0}
    PROVE  \E q \in Nat, r \in 0..(MaxSegs - 1) :
             n + MaxSegs - 1 = q * MaxSegs + r /\ PageCount(n) = q
<1>1. MaxSegs \in Nat \ {0}
  BY WriterConstants
<1> QED BY <1>1 DEF PageCount

LEMMA SliceBounds ==
    ASSUME NEW n \in Nat \ {0}, NEW i \in 1..PageCount(n)
    PROVE  /\ (i - 1) * MaxSegs + 1 \in 1..n
           /\ (i - 1) * MaxSegs + MaxSegs = i * MaxSegs
<1>1. MaxSegs \in Nat \ {0}
  BY WriterConstants
<1>2. PICK q \in Nat, r \in 0..(MaxSegs - 1) :
          /\ n + MaxSegs - 1 = q * MaxSegs + r
          /\ PageCount(n) = q
  BY CountOf
<1> QED BY <1>1, <1>2

LEMMA SliceType ==
    ASSUME NEW n \in Nat \ {0}, NEW i \in 1..PageCount(n),
           NEW lace \in Seq(Seg), Len(lace) = n
    PROVE  Slice(lace, i) \in Seq(Seg) /\ Len(Slice(lace, i)) \in 1..MaxSegs
<1> DEFINE from == (i - 1) * MaxSegs + 1
           upto == IF i * MaxSegs < Len(lace) THEN i * MaxSegs ELSE Len(lace)
<1>1. MaxSegs \in Nat \ {0} /\ i * MaxSegs \in Nat
  <2>1. i \in Nat /\ MaxSegs \in Nat \ {0}
    BY WriterConstants DEF PageCount
  <2> QED BY <2>1
<1>2. /\ from \in 1..n
      /\ from + MaxSegs = i * MaxSegs + 1
  BY <1>1, SliceBounds
<1>3. /\ from \in 1..Len(lace) /\ upto \in from..Len(lace)
      /\ upto - from + 1 \in 1..MaxSegs
  BY <1>1, <1>2
<1> HIDE DEF from, upto
<1>4. SubSeq(lace, from, upto) \in Seq(Seg)
  BY <1>3
<1>5. Len(SubSeq(lace, from, upto)) = upto - from + 1
  BY <1>3
<1> QED BY <1>3, <1>4, <1>5 DEF Slice, from, upto

LEMMA HeaderType ==
    ASSUME NEW i \in Nat, NEW count \in Nat, NEW g \in Granule,
           NEW bos \in BOOLEAN, NEW eos \in BOOLEAN,
           NEW number \in Nat, NEW s \in Seq(Seg)
    PROVE  MakePage(Header(i, count, g, bos, eos), number, s) \in Page
<1>1. NoGranule \in Granule
  BY WriterConstants DEF NoGranule, Granule
<1> QED BY <1>1 DEF Header, MakePage, Page

(* The pages of one packet, whatever its size. *)
LEMMA PacketPagesGood ==
    ASSUME NEW p \in Nat, NEW n \in Nat \ {0}, NEW g \in Granule,
           NEW bos \in BOOLEAN, NEW eos \in BOOLEAN, NEW first \in Nat
    PROVE  GoodPages(PacketPages(p, n, g, bos, eos, first), first)
<1> DEFINE count == PageCount(n)
           page(i) == MakePage(Header(i, count, g, bos, eos), first + i - 1,
                               Slice(oggLacing(p, n), i))
<1>1. count \in Nat
  BY WriterConstants DEF PageCount
<1>2. ASSUME NEW i \in 1..count
      PROVE  /\ page(i) \in Page
             /\ Len(page(i).segs) \in 1..MaxSegs
             /\ page(i).seq = first + i - 1
  <2>1. /\ Slice(oggLacing(p, n), i) \in Seq(Seg)
        /\ Len(Slice(oggLacing(p, n), i)) \in 1..MaxSegs
    BY LacingType, SliceType
  <2>2. page(i) \in Page
    BY <1>1, <2>1, HeaderType
  <2> QED BY <2>1, <2>2 DEF MakePage
<1>3. PacketPages(p, n, g, bos, eos, first) = [i \in 1..count |-> page(i)]
  BY DEF PacketPages
<1> HIDE DEF page, count
<1>4. PacketPages(p, n, g, bos, eos, first) \in Seq(Page)
  BY <1>1, <1>2, <1>3
<1> QED BY <1>1, <1>2, <1>3, <1>4 DEF GoodPages

(* What flushPage writes. *)
LEMMA FlushPagesGood ==
    ASSUME NEW s \in Seq(Seg), Len(s) <= MaxSegs, NEW g \in Granule,
           NEW eos \in BOOLEAN, NEW number \in Nat
    PROVE  /\ GoodPages(FlushPages(s, g, eos, number), number)
           /\ Len(FlushPages(s, g, eos, number)) = IF s = <<>> THEN 0 ELSE 1
<1>1. CASE s = <<>>
  BY <1>1 DEF FlushPages, GoodPages
<1>2. CASE s # <<>>
  <2> DEFINE page == MakePage(Header(1, 1, g, FALSE, eos), number, s)
  <2>1. page \in Page
    BY HeaderType
  <2>2. page.seq = number /\ page.segs = s /\ Len(s) \in 1..MaxSegs
    BY <1>2, WriterConstants DEF MakePage
  <2>3. FlushPages(s, g, eos, number) = <<page>>
    BY <1>2 DEF FlushPages
  <2> HIDE DEF page
  <2> QED BY <1>2, <2>1, <2>2, <2>3 DEF GoodPages
<1> QED BY <1>1, <1>2

LEMMA ConcatGood ==
    ASSUME NEW ps, NEW qs, NEW first \in Nat,
           GoodPages(ps, first), GoodPages(qs, first + Len(ps))
    PROVE  GoodPages(ps \o qs, first)
<1>1. ps \in Seq(Page) /\ qs \in Seq(Page)
  BY DEF GoodPages
<1>2. ps \o qs \in Seq(Page) /\ Len(ps \o qs) = Len(ps) + Len(qs)
  BY <1>1
<1>3. ASSUME NEW i \in DOMAIN (ps \o qs)
      PROVE  /\ Len((ps \o qs)[i].segs) \in 1..MaxSegs
             /\ (ps \o qs)[i].seq = first + i - 1
  <2>1. CASE i \in 1..Len(ps)
    BY <1>1, <2>1 DEF GoodPages
  <2>2. CASE i \in (Len(ps) + 1)..(Len(ps) + Len(qs))
    <3>1. (ps \o qs)[i] = qs[i - Len(ps)] /\ i - Len(ps) \in DOMAIN qs
      BY <1>1, <2>2
    <3>2. qs[i - Len(ps)].seq = first + Len(ps) + (i - Len(ps)) - 1
      BY <3>1 DEF GoodPages
    <3> QED BY <1>1, <2>2, <3>1, <3>2 DEF GoodPages
  <2> QED BY <1>1, <1>2, <2>1, <2>2
<1> QED BY <1>2, <1>3 DEF GoodPages

LEMMA PrefixGood ==
    ASSUME NEW ps, NEW first \in Nat, GoodPages(ps, first),
           NEW k \in 0..Len(ps)
    PROVE  GoodPages(SubSeq(ps, 1, k), first) /\ Len(SubSeq(ps, 1, k)) = k
<1>1. ps \in Seq(Page)
  BY DEF GoodPages
<1>2. /\ SubSeq(ps, 1, k) \in Seq(Page)
      /\ Len(SubSeq(ps, 1, k)) = k
      /\ \A i \in 1..k : SubSeq(ps, 1, k)[i] = ps[i]
  BY <1>1
<1> QED BY <1>1, <1>2 DEF GoodPages

----------------------------------------------------------------------------
IInv == TypeOK /\ PageLimits

(* What the output looks like: the part of IInv Emit has to preserve. *)
OutGood == GoodPages(out, 0) /\ seq = Len(out) /\ failed \in BOOLEAN

LEMMA IInvOut == IInv => OutGood
<1> SUFFICES ASSUME IInv PROVE OutGood
  OBVIOUS
<1> QED BY DEF IInv, TypeOK, PageLimits, OutGood, GoodPages

LEMMA EmitGood ==
    ASSUME OutGood, NEW pages, GoodPages(pages, seq),
           NEW k \in 0..Len(pages), Emit(pages, k)
    PROVE  OutGood'
<1>1. out \in Seq(Page) /\ pages \in Seq(Page) /\ seq \in Nat
  BY DEF OutGood, GoodPages
<1>2. GoodPages(SubSeq(pages, 1, k), seq) /\ Len(SubSeq(pages, 1, k)) = k
  BY <1>1, PrefixGood
<1>3. GoodPages(out \o SubSeq(pages, 1, k), 0)
  BY <1>1, <1>2, ConcatGood DEF OutGood
<1>4. Len(out \o SubSeq(pages, 1, k)) = seq + k
  <2>1. SubSeq(pages, 1, k) \in Seq(Page)
    BY <1>2 DEF GoodPages
  <2> QED BY <1>1, <1>2, <2>1 DEF OutGood
<1> QED BY <1>3, <1>4 DEF Emit, OutGood

LEMMA IInvInit == Init => IInv
<1> SUFFICES ASSUME Init PROVE IInv
  OBVIOUS
<1>1. 0 \in Granule
  BY WriterConstants DEF Granule
<1>2. TypeOK
  <2>1. <<>> \in Seq(Seg) /\ <<>> \in Seq(Page) /\ <<>> \in Seq(SentPacket)
    OBVIOUS
  <2>2. 0 \in Nat /\ FALSE \in BOOLEAN
    OBVIOUS
  <2> QED BY <1>1, <2>1, <2>2, Zenon DEF Init, TypeOK
<1>3. Len(segs) = 0 /\ Len(out) = 0 /\ DOMAIN out = {}
  BY DEF Init
<1>4. PageLimits
  BY <1>3, WriterConstants DEF Init, PageLimits
<1> QED BY <1>2, <1>4 DEF IInv

LEMMA FlushedGood ==
    ASSUME IInv
    PROVE  /\ GoodPages(Flushed, seq)
           /\ Len(Flushed) \in 0..1
           /\ Flushed \in Seq(Page)
<1>1. segs \in Seq(Seg) /\ Len(segs) <= MaxSegs /\ granule \in Granule /\ seq \in Nat
  BY DEF IInv, TypeOK, PageLimits
<1>2. /\ GoodPages(FlushPages(segs, granule, FALSE, seq), seq)
      /\ Len(FlushPages(segs, granule, FALSE, seq)) = IF segs = <<>> THEN 0 ELSE 1
  BY <1>1, FlushPagesGood
<1>3. FlushPages(segs, granule, FALSE, seq) \in Seq(Page)
  BY <1>2 DEF GoodPages
<1>4. Flushed = FlushPages(segs, granule, FALSE, seq)
  BY DEF Flushed
<1>5. GoodPages(Flushed, seq) /\ Flushed \in Seq(Page)
  BY <1>2, <1>3, <1>4, Zenon
<1>6. Len(Flushed) = IF segs = <<>> THEN 0 ELSE 1
  BY <1>2, <1>4, Zenon
<1>7. Len(Flushed) \in 0..1
  BY <1>6
<1> QED BY <1>5, <1>7

(* A flush followed by a packet's own pages: both callers of               *)
(* PacketWriter.WritePacket.                                               *)
LEMMA FlushedPacketGood ==
    ASSUME IInv, NEW p \in Nat, NEW n \in Nat \ {0}, NEW g \in Granule,
           NEW bos \in BOOLEAN, NEW eos \in BOOLEAN
    PROVE  GoodPages(Flushed \o PacketPages(p, n, g, bos, eos, seq + Len(Flushed)), seq)
<1>1. seq \in Nat /\ Len(Flushed) \in Nat
  BY FlushedGood DEF IInv, TypeOK
<1>2. GoodPages(PacketPages(p, n, g, bos, eos, seq + Len(Flushed)), seq + Len(Flushed))
  BY <1>1, PacketPagesGood
<1> QED BY <1>1, <1>2, FlushedGood, ConcatGood

LEMMA TakeType ==
    ASSUME sent \in Seq(SentPacket), NEW n \in Nat \ {0}, NEW g \in Granule,
           NEW bos \in BOOLEAN, NEW eos \in BOOLEAN, Take(n, g, bos, eos)
    PROVE  sent' \in Seq(SentPacket)
<1>1. [laces |-> n, granule |-> g, bos |-> bos, eos |-> eos] \in SentPacket
  BY DEF SentPacket
<1> QED BY <1>1 DEF Take

(* The pending page keeps to its limit when it is closed or left alone. *)
LEMMA SegsStay ==
    ASSUME IInv, segs' = <<>> \/ segs' = segs
    PROVE  (segs \in Seq(Seg) /\ Len(segs) <= MaxSegs)'
<1>1. segs \in Seq(Seg) /\ Len(segs) <= MaxSegs
  BY DEF IInv, TypeOK, PageLimits
<1>2. CASE segs' = <<>>
  <2>1. <<>> \in Seq(Seg) /\ Len(<<>>) = 0
    OBVIOUS
  <2> QED BY <1>2, <2>1, WriterConstants
<1>3. CASE segs' = segs
  BY <1>1, <1>3
<1> QED BY <1>2, <1>3

(* The invariant after a step, from its parts. *)
LEMMA IInvFromParts ==
    ASSUME OutGood', (segs \in Seq(Seg))', (Len(segs) <= MaxSegs)',
           (granule \in Granule)', (pageStart \in Granule)',
           (sent \in Seq(SentPacket))'
    PROVE  IInv'
<1>1. (\A i \in DOMAIN out : Len(out[i].segs) \in 1..MaxSegs /\ out[i].seq = i - 1)'
  BY DEF OutGood, GoodPages
<1> QED BY <1>1 DEF IInv, TypeOK, PageLimits, OutGood, GoodPages

LEMMA HeaderStep ==
    ASSUME IInv, NEW n \in Laces, WriteHeaderPacket(n)
    PROVE  IInv'
<1> DEFINE bos == sent = <<>>
           pages == Flushed \o PacketPages(Len(sent) + 1, n, 0, bos, FALSE,
                                           seq + Len(Flushed))
<1>1. n \in Nat \ {0} /\ 0 \in Granule /\ bos \in BOOLEAN /\ Len(sent) + 1 \in Nat
  BY WriterConstants DEF Granule, IInv, TypeOK
<1>2. GoodPages(pages, seq)
  BY <1>1, FlushedPacketGood
<1> HIDE DEF pages
<1>3. PICK k \in 0..Len(pages) :
         /\ Emit(pages, k)
         /\ IF k >= Len(Flushed)
              THEN segs' = <<>> /\ Take(n, 0, bos, FALSE)
              ELSE UNCHANGED <<segs, sent>>
  BY DEF WriteHeaderPacket, pages
<1>4. OutGood'
  BY <1>2, <1>3, IInvOut, EmitGood
<1>5. (segs \in Seq(Seg) /\ Len(segs) <= MaxSegs)'
  <2>1. segs' = <<>> \/ segs' = segs
    BY <1>3
  <2> QED BY <2>1, SegsStay
<1>6. sent' \in Seq(SentPacket)
  BY <1>1, <1>3, TakeType DEF IInv, TypeOK
<1>7. granule' \in Granule /\ pageStart' \in Granule
  BY DEF WriteHeaderPacket, IInv, TypeOK
<1> QED BY <1>4, <1>5, <1>6, <1>7, IInvFromParts

LEMMA SpanningStep ==
    ASSUME IInv, NEW n \in Laces, NEW g \in Granules, NEW eos \in BOOLEAN,
           WriteSpanning(n, g, eos)
    PROVE  IInv'
<1> DEFINE pages == Flushed \o PacketPages(Len(sent) + 1, n, g, FALSE, eos,
                                           seq + Len(Flushed))
<1>1. n \in Nat \ {0} /\ g \in Granule /\ Len(sent) + 1 \in Nat
  BY WriterConstants DEF Granule, IInv, TypeOK
<1>2. GoodPages(pages, seq)
  BY <1>1, FlushedPacketGood
<1> HIDE DEF pages
<1>3. PICK k \in 0..Len(pages) :
         /\ Emit(pages, k)
         /\ IF k >= Len(Flushed)
              THEN /\ segs' = <<>> /\ granule' = g /\ pageStart' = g
                   /\ Take(n, g, FALSE, eos)
              ELSE UNCHANGED <<segs, granule, pageStart, sent>>
  BY DEF WriteSpanning, pages
<1>4. OutGood'
  BY <1>2, <1>3, IInvOut, EmitGood
<1>5. (segs \in Seq(Seg) /\ Len(segs) <= MaxSegs)'
  <2>1. segs' = <<>> \/ segs' = segs
    BY <1>3
  <2> QED BY <2>1, SegsStay
<1>6. sent' \in Seq(SentPacket)
  BY <1>1, <1>3, TakeType DEF IInv, TypeOK
<1>7. granule' \in Granule /\ pageStart' \in Granule
  BY <1>1, <1>3 DEF IInv, TypeOK
<1> QED BY <1>4, <1>5, <1>6, <1>7, IInvFromParts

LEMMA RefuseStep ==
    ASSUME IInv, NEW n \in Laces, RefusePacket(n)
    PROVE  IInv'
<1>1. GoodPages(Flushed, seq) /\ 0 \in 0..Len(Flushed) /\ Emit(Flushed, 0)
  BY FlushedGood DEF RefusePacket
<1>2. OutGood'
  BY <1>1, IInvOut, EmitGood
<1>3. segs' = segs /\ granule' = granule /\ pageStart' = pageStart /\ sent' = sent
  BY DEF RefusePacket
<1>4. (segs \in Seq(Seg) /\ Len(segs) <= MaxSegs)'
  BY <1>3, SegsStay
<1>5. granule' \in Granule /\ pageStart' \in Granule /\ sent' \in Seq(SentPacket)
  BY <1>3 DEF IInv, TypeOK
<1> QED BY <1>2, <1>4, <1>5, IInvFromParts

(* The pending page cannot outgrow its limit: a packet is only added to it *)
(* when it fits, or when the page was closed first.                        *)
LEMMA QueueStep ==
    ASSUME IInv, NEW n \in Laces, NEW g \in Granules, NEW eos \in BOOLEAN,
           QueuePacket(n, g, eos)
    PROVE  IInv'
<1> DEFINE before == IF Overflows(n) THEN Flushed ELSE <<>>
           base   == IF Overflows(n) THEN <<>> ELSE segs
           start  == IF base = <<>> THEN granule ELSE pageStart
           page   == base \o oggLacing(Len(sent) + 1, n)
           after  == IF eos \/ Spans(g, start)
                     THEN FlushPages(page, g, eos, seq + Len(before)) ELSE <<>>
<1>1. n \in Nat \ {0} /\ n <= MaxSegs /\ g \in Granule /\ Len(sent) + 1 \in Nat
  BY WriterConstants DEF QueuePacket, Granule, IInv, TypeOK
<1>2. seq \in Nat /\ segs \in Seq(Seg) /\ MaxSegs \in Nat
  BY WriterConstants DEF IInv, TypeOK
<1>3. GoodPages(before, seq) /\ before \in Seq(Page) /\ Len(before) \in 0..1
  BY FlushedGood DEF GoodPages
<1>4. base \in Seq(Seg) /\ Len(base) + n <= MaxSegs
  BY <1>1, <1>2 DEF Overflows
<1> HIDE DEF before, base
<1>5. page \in Seq(Seg) /\ Len(page) <= MaxSegs
  <2>1. /\ oggLacing(Len(sent) + 1, n) \in Seq(Seg)
        /\ Len(oggLacing(Len(sent) + 1, n)) = n
    BY <1>1, LacingType
  <2> QED BY <1>1, <1>2, <1>4, <2>1
<1> HIDE DEF page
<1>6. GoodPages(after, seq + Len(before)) /\ after \in Seq(Page)
  <2>1. GoodPages(FlushPages(page, g, eos, seq + Len(before)), seq + Len(before))
    BY <1>1, <1>2, <1>3, <1>5, FlushPagesGood
  <2>2. GoodPages(<<>>, seq + Len(before))
    BY DEF GoodPages
  <2> QED BY <2>1, <2>2 DEF GoodPages
<1>7. start \in Granule
  BY DEF IInv, TypeOK
<1> HIDE DEF start, after
<1>8. GoodPages(before \o after, seq) /\ Len(before \o after) = Len(before) + Len(after)
  BY <1>2, <1>3, <1>6, ConcatGood
<1>9. PICK k \in Len(before)..(Len(before) + Len(after)) :
         /\ Emit(before \o after, k)
         /\ segs' = IF after # <<>> /\ k = Len(before \o after) THEN <<>> ELSE page
  BY DEF QueuePacket, before, base, start, page, after
<1>10. k \in 0..Len(before \o after)
  BY <1>3, <1>6, <1>8, <1>9
<1>11. OutGood'
  BY <1>8, <1>9, <1>10, IInvOut, EmitGood
<1>12. (segs \in Seq(Seg) /\ Len(segs) <= MaxSegs)'
  BY <1>2, <1>5, <1>9
<1>13. granule' \in Granule /\ pageStart' \in Granule
  BY <1>1, <1>7 DEF QueuePacket, start, base
<1>14. sent' \in Seq(SentPacket)
  <2>1. Take(n, g, FALSE, eos)
    BY DEF QueuePacket
  <2> QED BY <1>1, <2>1, TakeType DEF IInv, TypeOK
<1> QED BY <1>11, <1>12, <1>13, <1>14, IInvFromParts

LEMMA FlushStep == ASSUME IInv, FlushPage PROVE IInv'
<1>1. PICK k \in 0..1 : Emit(Flushed, k) /\ segs' = IF k = 1 THEN <<>> ELSE segs
  BY DEF FlushPage
<1>2. GoodPages(Flushed, seq) /\ Len(Flushed) = 1
  <2>1. segs # <<>> /\ segs \in Seq(Seg) /\ Len(segs) <= MaxSegs
        /\ granule \in Granule /\ seq \in Nat
    BY DEF FlushPage, IInv, TypeOK, PageLimits
  <2> QED BY <2>1, FlushPagesGood DEF Flushed
<1>3. OutGood'
  BY <1>1, <1>2, IInvOut, EmitGood
<1>4. (segs \in Seq(Seg) /\ Len(segs) <= MaxSegs)'
  BY <1>1, SegsStay
<1> QED BY <1>3, <1>4, IInvFromParts DEF FlushPage, IInv, TypeOK

LEMMA IInvStep == IInv /\ [Next]_writerVars => IInv'
<1> SUFFICES ASSUME IInv, [Next]_writerVars PROVE IInv'
  OBVIOUS
<1>1. CASE FlushPage
  BY <1>1, FlushStep
<1>2. ASSUME NEW n \in Laces, WriteHeaderPacket(n) PROVE IInv'
  BY <1>2, HeaderStep
<1>3. ASSUME NEW n \in Laces, RefusePacket(n) PROVE IInv'
  BY <1>3, RefuseStep
<1>4. ASSUME NEW n \in Laces, NEW g \in Granules, NEW eos \in BOOLEAN,
             WriteSpanning(n, g, eos)
      PROVE  IInv'
  BY <1>4, SpanningStep
<1>5. ASSUME NEW n \in Laces, NEW g \in Granules, NEW eos \in BOOLEAN,
             QueuePacket(n, g, eos)
      PROVE  IInv'
  BY <1>5, QueueStep
<1>6. CASE UNCHANGED writerVars
  BY <1>6 DEF writerVars, IInv, TypeOK, PageLimits
<1> QED BY <1>1, <1>2, <1>3, <1>4, <1>5, <1>6 DEF Next

(* The muxer's state stays typed under every schedule of calls and write   *)
(* errors; in particular page granule positions stay 64-bit values.        *)
THEOREM WriterTypeOK == Spec => []TypeOK
<1>1. Spec => []IInv
  BY IInvInit, IInvStep, PTL DEF Spec
<1>2. IInv => TypeOK
  BY DEF IInv
<1> QED BY <1>1, <1>2, PTL

(* PageLimits for every page capacity: neither a written page nor the      *)
(* pending one ever holds more lacing values than the one-byte segment     *)
(* count can say, and page numbers have no gap.                            *)
THEOREM WriterPageLimits == Spec => []PageLimits
<1>1. Spec => []IInv
  BY IInvInit, IInvStep, PTL DEF Spec
<1>2. IInv => PageLimits
  BY DEF IInv
<1> QED BY <1>1, <1>2, PTL

-----------------------------------------------------------------------------
(***************************************************************************)
(* What the pages say.  A lacing value is right when the packet it belongs *)
(* to was sent and it ends the packet exactly in its last place; a run is  *)
(* right when each value follows the one before.  A page is right when it  *)
(* is a run within one packet or of whole packets, and its header tells    *)
(* the position and the flags of the packet it ends.                       *)
(***************************************************************************)
SegRight(s, snt) ==
    /\ s \in Seg /\ s.pkt \in 1..Len(snt) /\ s.k \in 1..snt[s.pkt].laces
    /\ s.end <=> s.k = snt[s.pkt].laces

Follows(s, t) ==
    IF s.end THEN t.pkt = s.pkt + 1 /\ t.k = 1
             ELSE t.pkt = s.pkt /\ t.k = s.k + 1

RunRight(x, snt) ==
    /\ x \in Seq(Seg)
    /\ \A j \in DOMAIN x : SegRight(x[j], snt)
    /\ \A j \in DOMAIN x : j > 1 => Follows(x[j - 1], x[j])

SpannedIn(snt, p, q) == (snt[q].granule + GranuleMod - snt[p].granule) % GranuleMod

PageRight(pg, snt) ==
    LET first == pg.segs[1]
        last  == pg.segs[Len(pg.segs)]
    IN  /\ pg \in Page /\ Len(pg.segs) \in 1..MaxSegs
        /\ RunRight(pg.segs, snt)
        /\ last.end => pg.granule = snt[last.pkt].granule /\ (pg.eos <=> snt[last.pkt].eos)
        /\ ~last.end => /\ \A j \in DOMAIN pg.segs : ~pg.segs[j].end
                        /\ pg.granule = NoGranule /\ ~pg.eos
        /\ pg.bos <=> first.pkt = 1 /\ first.k = 1
        /\ first.k > 1 => snt[first.pkt].laces > MaxSegs
        /\ last.pkt > first.pkt =>
             first.pkt > 1 /\ SpannedIn(snt, first.pkt - 1, last.pkt - 1) < maxSpan

(* A page goes on where the one before broke off, and says so.             *)
Joined(a, b) ==
    LET last == a.segs[Len(a.segs)]
    IN  (b.cont <=> ~last.end) /\ Follows(last, b.segs[1])

PagesRight(ps, snt) ==
    /\ ps \in Seq(Page)
    /\ \A i \in DOMAIN ps : PageRight(ps[i], snt) /\ (ps[i].eos => i = Len(ps))
    /\ \A i \in DOMAIN ps : i > 1 => Joined(ps[i - 1], ps[i])
    /\ ps # <<>> => ~ps[1].cont /\ ps[1].segs[1].k = 1

(* The pending page holds whole packets up to the last one taken.          *)
PendingRight(x, snt, start) ==
    LET first == x[1].pkt
        last  == x[Len(x)]
    IN  /\ RunRight(x, snt)
        /\ last.end /\ last.pkt = Len(snt)
        /\ x[1].k = 1 /\ first > 2
        /\ start = snt[first - 1].granule
        /\ last.pkt > first => SpannedIn(snt, first - 1, last.pkt - 1) < maxSpan

SentRight ==
    /\ \A p \in DOMAIN sent : /\ sent[p].bos <=> p = 1
                              /\ p <= 2 => sent[p].granule = 0 /\ ~sent[p].eos
                              /\ sent[p].eos => p = Len(sent)
    /\ granule = IF sent = <<>> THEN 0 ELSE sent[Len(sent)].granule

Pending ==
    segs # <<>> => /\ PendingRight(segs, sent, pageStart)
                   /\ ~sent[Len(sent)].eos
                   /\ SpannedIn(sent, segs[1].pkt - 1, Len(sent)) < maxSpan

(* How far the written pages go.                                           *)
Unwritten == IF segs = <<>> THEN Len(sent) + 1 ELSE segs[1].pkt
WireEnds ==
    IF out = <<>> THEN segs = <<>> /\ sent = <<>>
    ELSE LET last == out[Len(out)].segs[Len(out[Len(out)].segs)]
         IN  last.end /\ last.pkt + 1 = Unwritten

HInv ==
    /\ IInv /\ SentRight
    /\ PagesRight(out, sent) /\ (out # <<>> => out[1].segs[1].pkt = 1)
    /\ ~failed => Pending /\ WireEnds

(* Pages stay right when more is sent.                                     *)
Extends(snt2, snt) ==
    /\ snt \in Seq(SentPacket) /\ snt2 \in Seq(SentPacket) /\ Len(snt) <= Len(snt2)
    /\ \A p \in 1..Len(snt) : snt2[p] = snt[p]

LEMMA SegStays ==
    ASSUME NEW snt, NEW snt2, Extends(snt2, snt), NEW s, SegRight(s, snt)
    PROVE  SegRight(s, snt2) /\ snt2[s.pkt] = snt[s.pkt] /\ s.pkt \in Nat /\ s.pkt >= 1
  BY DEF SegRight, Extends

LEMMA RunStays ==
    ASSUME NEW snt, NEW snt2, Extends(snt2, snt), NEW x, RunRight(x, snt)
    PROVE  RunRight(x, snt2)
  BY SegStays DEF RunRight

LEMMA PageStays ==
    ASSUME NEW snt, NEW snt2, Extends(snt2, snt), NEW pg, PageRight(pg, snt)
    PROVE  PageRight(pg, snt2)
<1> DEFINE first == pg.segs[1]
           last == pg.segs[Len(pg.segs)]
<1>1. RunRight(pg.segs, snt) /\ pg.segs \in Seq(Seg) /\ Len(pg.segs) >= 1
  BY WriterConstants DEF PageRight, RunRight
<1>2. 1 \in DOMAIN pg.segs /\ Len(pg.segs) \in DOMAIN pg.segs
  BY <1>1
<1>3. SegRight(first, snt) /\ SegRight(last, snt)
  BY <1>1, <1>2 DEF RunRight
<1>4. /\ snt2[first.pkt] = snt[first.pkt] /\ snt2[last.pkt] = snt[last.pkt]
      /\ first.pkt \in 1..Len(snt) /\ last.pkt \in 1..Len(snt)
  <2>1. \A s : SegRight(s, snt) => s.pkt \in 1..Len(snt)
    BY DEF SegRight
  <2> HIDE DEF first, last
  <2>2. snt2[first.pkt] = snt[first.pkt] /\ snt2[last.pkt] = snt[last.pkt]
    BY <1>3, SegStays
  <2> QED BY <1>3, <2>1, <2>2
<1>5. last.pkt > first.pkt /\ first.pkt > 1 =>
        SpannedIn(snt2, first.pkt - 1, last.pkt - 1) = SpannedIn(snt, first.pkt - 1, last.pkt - 1)
  <2> SUFFICES ASSUME last.pkt > first.pkt, first.pkt > 1
               PROVE  SpannedIn(snt2, first.pkt - 1, last.pkt - 1)
                        = SpannedIn(snt, first.pkt - 1, last.pkt - 1)
    OBVIOUS
  <2>0. PICK a \in 1..Len(snt), b \in 1..Len(snt) : a = first.pkt /\ b = last.pkt
    BY <1>4
  <2>1. first.pkt - 1 \in 1..Len(snt) /\ last.pkt - 1 \in 1..Len(snt)
    <3>1. Len(snt) \in Nat
      BY DEF Extends
    <3>2. a - 1 \in 1..Len(snt) /\ b - 1 \in 1..Len(snt)
      BY SMTT(30), <2>0, <3>1
    <3> QED BY <2>0, <3>2
  <2>2. snt2[first.pkt - 1] = snt[first.pkt - 1] /\ snt2[last.pkt - 1] = snt[last.pkt - 1]
    BY <2>1 DEF Extends
  <2> QED BY <2>2 DEF SpannedIn
<1>6. RunRight(pg.segs, snt2)
  BY <1>1, RunStays
<1> QED BY <1>4, <1>5, <1>6 DEF PageRight

LEMMA PagesStay ==
    ASSUME NEW snt, NEW snt2, Extends(snt2, snt), NEW ps, PagesRight(ps, snt)
    PROVE  PagesRight(ps, snt2)
  BY PageStays DEF PagesRight

(* What Take adds.                                                         *)
Took(n, g, bos, eos) ==
    /\ Extends(sent', sent) /\ Len(sent') = Len(sent) + 1
    /\ LET p == sent'[Len(sent) + 1]
       IN  p.laces = n /\ p.granule = g /\ (p.bos <=> bos) /\ (p.eos <=> eos)

LEMMA TakeAdds ==
    ASSUME sent \in Seq(SentPacket), NEW n \in Nat \ {0}, NEW g \in Granule,
           NEW bos \in BOOLEAN, NEW eos \in BOOLEAN, Take(n, g, bos, eos)
    PROVE  Took(n, g, bos, eos)
<1>1. sent' \in Seq(SentPacket)
  BY TakeType
<1> DEFINE p == [laces |-> n, granule |-> g, bos |-> bos, eos |-> eos]
<1>2. p.laces = n /\ p.granule = g /\ (p.bos <=> bos) /\ (p.eos <=> eos)
  OBVIOUS
<1>3. sent' = Append(sent, p)
  BY DEF Take
<1> HIDE DEF p
<1> QED BY <1>1, <1>2, <1>3 DEF Took, Extends

(* The lacing of a packet that was sent.                                   *)
LEMMA LacingAt ==
    ASSUME NEW snt \in Seq(SentPacket), NEW p \in 1..Len(snt), NEW n, n = snt[p].laces
    PROVE  LET x == oggLacing(p, n)
           IN  /\ RunRight(x, snt) /\ Len(x) = n /\ n \in Nat \ {0}
               /\ \A j \in 1..n : x[j].pkt = p /\ x[j].k = j /\ (x[j].end <=> j = n)
<1> DEFINE x == oggLacing(p, n)
<1>1. p \in Nat /\ n \in Nat \ {0}
  <2>1. snt[p] \in SentPacket
    OBVIOUS
  <2> QED BY <2>1 DEF SentPacket
<1>2. x \in Seq(Seg) /\ Len(x) = n
  BY <1>1, LacingType
<1>3. \A j \in 1..n : x[j].pkt = p /\ x[j].k = j /\ (x[j].end <=> j = n)
  BY <1>1 DEF oggLacing
<1>4. \A j \in DOMAIN x : x[j] \in Seg /\ j \in 1..n
  BY <1>2
<1> HIDE DEF x
<1>5. \A j \in DOMAIN x : SegRight(x[j], snt)
  BY <1>1, <1>3, <1>4 DEF SegRight
<1>6. \A j \in DOMAIN x : j > 1 => Follows(x[j - 1], x[j])
  BY <1>1, <1>2, <1>3 DEF Follows
<1> QED BY <1>1, <1>2, <1>3, <1>5, <1>6 DEF RunRight, x

(* The lacing of the packet just taken.                                    *)
LEMMA LacingRight ==
    ASSUME NEW snt \in Seq(SentPacket), snt # <<>>
    PROVE  LET p == Len(snt)
               n == snt[p].laces
               x == oggLacing(p, n)
           IN  /\ RunRight(x, snt) /\ Len(x) = n /\ n \in Nat \ {0}
               /\ \A j \in 1..n : x[j].pkt = p /\ x[j].k = j /\ (x[j].end <=> j = n)
<1>1. Len(snt) \in 1..Len(snt)
  OBVIOUS
<1> QED BY <1>1, LacingAt

(* A part of a run is one.                                                 *)
LEMMA RunPart ==
    ASSUME NEW snt, NEW x, RunRight(x, snt), NEW a \in 1..Len(x), NEW b \in a..Len(x)
    PROVE  /\ RunRight(SubSeq(x, a, b), snt) /\ Len(SubSeq(x, a, b)) = b - a + 1
           /\ \A j \in 1..(b - a + 1) : SubSeq(x, a, b)[j] = x[a + j - 1]
<1> DEFINE y == SubSeq(x, a, b)
<1>1. x \in Seq(Seg)
  BY DEF RunRight
<1>2. /\ y \in Seq(Seg) /\ Len(y) = b - a + 1
      /\ \A j \in 1..(b - a + 1) : y[j] = x[a + j - 1]
  BY <1>1
<1> HIDE DEF y
<1>3. \A j \in DOMAIN y : j \in 1..(b - a + 1) /\ a + j - 1 \in DOMAIN x
  BY <1>1, <1>2
<1>4. \A j \in DOMAIN y : SegRight(y[j], snt)
  BY <1>2, <1>3 DEF RunRight
<1>5. ASSUME NEW j \in DOMAIN y, j > 1 PROVE Follows(y[j - 1], y[j])
  <2>1. /\ j \in 1..(b - a + 1) /\ j - 1 \in 1..(b - a + 1)
        /\ a + (j - 1) - 1 = (a + j - 1) - 1 /\ a + j - 1 > 1
    BY <1>1, <1>3, <1>5
  <2>2. y[j] = x[a + j - 1] /\ y[j - 1] = x[(a + j - 1) - 1]
    BY <1>2, <2>1
  <2> QED BY <1>3, <2>1, <2>2 DEF RunRight
<1> QED BY <1>2, <1>4, <1>5 DEF RunRight, y

(* One run after another.                                                  *)
LEMMA RunConcat ==
    ASSUME NEW snt, NEW x, NEW y, RunRight(x, snt), RunRight(y, snt),
           x # <<>> /\ y # <<>> => Follows(x[Len(x)], y[1])
    PROVE  RunRight(x \o y, snt)
<1> DEFINE z == x \o y
<1>1. x \in Seq(Seg) /\ y \in Seq(Seg)
  BY DEF RunRight
<1>2. /\ z \in Seq(Seg) /\ Len(z) = Len(x) + Len(y)
      /\ \A j \in 1..Len(x) : z[j] = x[j]
      /\ \A j \in 1..Len(y) : z[Len(x) + j] = y[j]
  BY <1>1
<1> HIDE DEF z
<1>3. ASSUME NEW j \in DOMAIN z
      PROVE  SegRight(z[j], snt) /\ (j > 1 => Follows(z[j - 1], z[j]))
  <2>1. CASE j \in 1..Len(x)
    <3>1. z[j] = x[j] /\ j \in DOMAIN x
      BY <1>1, <1>2, <2>1
    <3>2. j > 1 => z[j - 1] = x[j - 1]
      BY <1>1, <1>2, <2>1
    <3> QED BY <3>1, <3>2 DEF RunRight
  <2>2. CASE j \in (Len(x) + 1)..(Len(x) + Len(y))
    <3>0. PICK i \in 1..Len(y) : j = Len(x) + i
      <4>1. j - Len(x) \in 1..Len(y) /\ j = Len(x) + (j - Len(x))
        BY <1>1, <2>2
      <4> QED BY <4>1
    <3>1. j - Len(x) \in DOMAIN y /\ z[j] = y[j - Len(x)]
      <4>1. j - Len(x) = i
        BY <1>1, <3>0
      <4> QED BY <1>1, <1>2, <3>0, <4>1
    <3>2. CASE j = Len(x) + 1 /\ x # <<>>
      <4>1. z[j - 1] = x[Len(x)] /\ z[j] = y[1] /\ y # <<>>
        <5>1. i = 1 /\ j - 1 = Len(x) /\ Len(x) \in 1..Len(x)
          BY <1>1, <3>0, <3>2
        <5> QED BY <1>2, <3>0, <5>1
      <4> QED BY <3>1, <3>2, <4>1 DEF RunRight
    <3>3. CASE j = Len(x) + 1 /\ x = <<>>
      BY <1>1, <3>1, <3>3 DEF RunRight
    <3>4. CASE j > Len(x) + 1
      <4>1. /\ z[j - 1] = y[(j - Len(x)) - 1] /\ j - Len(x) > 1
        <5>1. i - 1 \in 1..Len(y) /\ j - 1 = Len(x) + (i - 1) /\ (j - Len(x)) - 1 = i - 1
          BY <1>1, <3>0, <3>4
        <5>2. z[Len(x) + (i - 1)] = y[i - 1]
          BY <1>2, <5>1
        <5>3. j - Len(x) > 1
          BY <1>1, <3>0, <3>4
        <5> QED BY <5>1, <5>2, <5>3
      <4> QED BY <3>1, <4>1 DEF RunRight
    <3> QED BY <1>1, <2>2, <3>2, <3>3, <3>4
  <2> QED BY <1>1, <1>2, <2>1, <2>2
<1> QED BY <1>2, <1>3 DEF RunRight, z

(* The slices PacketWriter cuts a packet into: none but the last ends it.  *)
LEMMA SliceRight ==
    ASSUME NEW snt \in Seq(SentPacket), snt # <<>>
    PROVE  LET p == Len(snt)
               n == snt[p].laces
               count == PageCount(n)
           IN  /\ n \in Nat \ {0} /\ count \in Nat \ {0}
               /\ \A i \in 1..count :
                    LET y == Slice(oggLacing(p, n), i)
                    IN  /\ RunRight(y, snt) /\ Len(y) \in 1..MaxSegs
                        /\ y[1].pkt = p /\ y[1].k = (i - 1) * MaxSegs + 1
                        /\ y[Len(y)].pkt = p
                        /\ y[Len(y)].end <=> i = count
                        /\ i < count => /\ y[Len(y)].k = i * MaxSegs
                                        /\ \A j \in DOMAIN y : ~y[j].end
                        /\ i > 1 => n > MaxSegs
<1> DEFINE p == Len(snt)
           n == snt[p].laces
           x == oggLacing(p, n)
           count == PageCount(n)
<1>1. /\ RunRight(x, snt) /\ Len(x) = n /\ n \in Nat \ {0}
      /\ \A j \in 1..n : x[j].pkt = p /\ x[j].k = j /\ (x[j].end <=> j = n)
  BY LacingRight
<1>2. MaxSegs \in Nat \ {0}
  BY WriterConstants
<1> HIDE DEF x, n, p
<1>3. PICK q \in Nat, r \in 0..(MaxSegs - 1) : n + MaxSegs - 1 = q * MaxSegs + r /\ count = q
  BY <1>1, CountOf DEF count
<1> HIDE DEF count
<1>4. count \in Nat \ {0} /\ n + MaxSegs - 1 = count * MaxSegs + r
  <2>1. CASE q = 0
    <3>1. q * MaxSegs = 0
      BY <1>2, <2>1
    <3> QED BY <1>1, <1>2, <1>3, <3>1
  <2>2. CASE q # 0
    BY <1>3, <2>2
  <2> QED BY <2>1, <2>2
<1>5. ASSUME NEW i \in 1..count
      PROVE  LET y == Slice(x, i)
             IN  /\ RunRight(y, snt) /\ Len(y) \in 1..MaxSegs
                 /\ y[1].pkt = p /\ y[1].k = (i - 1) * MaxSegs + 1
                 /\ y[Len(y)].pkt = p
                 /\ y[Len(y)].end <=> i = count
                 /\ i < count => /\ y[Len(y)].k = i * MaxSegs
                                 /\ \A j \in DOMAIN y : ~y[j].end
                 /\ i > 1 => n > MaxSegs
  <2> DEFINE a == (i - 1) * MaxSegs + 1
             b == IF i * MaxSegs < Len(x) THEN i * MaxSegs ELSE Len(x)
             y == Slice(x, i)
  <2>1. /\ a \in 1..n /\ (i - 1) * MaxSegs + MaxSegs = i * MaxSegs
        /\ i * MaxSegs \in Nat
    <3>1. i \in 1..PageCount(n)
      BY DEF count
    <3>2. (i - 1) * MaxSegs + 1 \in 1..n /\ (i - 1) * MaxSegs + MaxSegs = i * MaxSegs
      BY <1>1, <3>1, SliceBounds
    <3>3. i * MaxSegs \in Nat
      BY <1>2, <1>4
    <3> QED BY <3>2, <3>3
  <2>2. i < count => i * MaxSegs < n
    <3>1. i + 1 <= count => (i + 1) * MaxSegs <= count * MaxSegs
      BY <1>2, <1>4
    <3>2. (i + 1) * MaxSegs = i * MaxSegs + MaxSegs
      BY <1>2, <1>4
    <3>3. count * MaxSegs \in Nat
      BY <1>2, <1>4
    <3> QED BY <1>1, <1>2, <1>3, <1>4, <2>1, <3>1, <3>2, <3>3
  <2>3. i = count => i * MaxSegs >= n
    BY <1>1, <1>2, <1>3, <1>4, <2>1
  <2>4. /\ b \in a..n /\ b \in 1..n /\ b - a + 1 \in 1..MaxSegs
        /\ i < count => b = i * MaxSegs /\ b < n
        /\ i = count => b = n
    BY <1>1, <1>2, <2>1, <2>2, <2>3
  <2>5. i > 1 => n > MaxSegs
    <3>1. i > 1 => (i - 1) * MaxSegs >= 1 * MaxSegs
      BY <1>2, <1>4
    <3>2. (i - 1) * MaxSegs \in Nat
      BY <1>2, <1>4
    <3> QED BY <1>1, <1>2, <2>1, <3>1, <3>2
  <2>6. y = SubSeq(x, a, b)
    BY DEF Slice
  <2> HIDE DEF a, b, y
  <2>7. /\ RunRight(y, snt) /\ Len(y) = b - a + 1
        /\ \A j \in 1..(b - a + 1) : y[j] = x[a + j - 1]
    BY SMTT(30), <1>1, <2>1, <2>4, <2>6, RunPart
  <2>8. y[1] = x[a] /\ y[Len(y)] = x[b] /\ DOMAIN y = 1..Len(y)
    <3>1. 1 \in 1..(b - a + 1) /\ a + 1 - 1 = a /\ (b - a + 1) \in 1..(b - a + 1)
          /\ a + (b - a + 1) - 1 = b
      BY <1>1, <2>1, <2>4
    <3>2. y \in Seq(Seg)
      BY <2>7 DEF RunRight
    <3>3. DOMAIN y = 1..Len(y)
      BY <3>2
    <3>4. y[1] = x[a + 1 - 1] /\ y[b - a + 1] = x[a + (b - a + 1) - 1]
      BY <2>7, <3>1
    <3> QED BY <2>7, <3>1, <3>3, <3>4
  <2>9. i < count => \A j \in DOMAIN y : ~y[j].end
    <3> SUFFICES ASSUME i < count, NEW j \in DOMAIN y PROVE ~y[j].end
      OBVIOUS
    <3>1. j \in 1..(b - a + 1) /\ a + j - 1 \in 1..n /\ a + j - 1 < n
      BY <1>1, <2>1, <2>4, <2>7, <2>8, SMTT(30)
    <3> QED BY <1>1, <2>7, <3>1
  <2>10. y[1].pkt = p /\ y[1].k = a /\ y[Len(y)].pkt = p /\ y[Len(y)].k = b
         /\ (y[Len(y)].end <=> b = n)
    BY <1>1, <2>1, <2>4, <2>8
  <2>11. Len(y) \in 1..MaxSegs
    BY <2>4, <2>7
  <2> QED BY <1>4, <2>4, <2>5, <2>7, <2>9, <2>10, <2>11 DEF a, y
<1> QED BY <1>1, <1>4, <1>5 DEF x, n, p, count

LEMMA MakePageFields ==
    ASSUME NEW i, NEW count, NEW g, NEW bos, NEW eos, NEW number, NEW s
    PROVE  LET pg == MakePage(Header(i, count, g, bos, eos), number, s)
           IN  /\ pg.segs = s /\ pg.granule = (IF i = count THEN g ELSE NoGranule)
               /\ pg.cont <=> i > 1
               /\ pg.bos <=> bos /\ i = 1
               /\ pg.eos <=> eos /\ i = count
  BY DEF MakePage, Header

(* The pages a packet gets of its own.                                     *)
OwnRight(ps, snt) ==
    LET last == ps[Len(ps)].segs
    IN  /\ PagesRight(ps, snt) /\ Len(ps) \in Nat \ {0}
        /\ ps[1].segs[1].pkt = Len(snt)
        /\ last[Len(last)].end /\ last[Len(last)].pkt = Len(snt)

LEMMA PacketPagesRight ==
    ASSUME NEW snt \in Seq(SentPacket), snt # <<>>, NEW n, NEW g,
           n = snt[Len(snt)].laces, g = snt[Len(snt)].granule,
           NEW bos \in BOOLEAN, NEW eos \in BOOLEAN, NEW first \in Nat,
           bos <=> Len(snt) = 1, eos <=> snt[Len(snt)].eos
    PROVE  OwnRight(PacketPages(Len(snt), n, g, bos, eos, first), snt)
<1> DEFINE p == Len(snt)
           count == PageCount(n)
           x == oggLacing(p, n)
           ps == PacketPages(p, n, g, bos, eos, first)
<1>1. /\ n \in Nat \ {0} /\ count \in Nat \ {0}
      /\ \A i \in 1..count :
           LET y == Slice(x, i)
           IN  /\ RunRight(y, snt) /\ Len(y) \in 1..MaxSegs
               /\ y[1].pkt = p /\ y[1].k = (i - 1) * MaxSegs + 1
               /\ y[Len(y)].pkt = p
               /\ y[Len(y)].end <=> i = count
               /\ i < count => /\ y[Len(y)].k = i * MaxSegs
                               /\ \A j \in DOMAIN y : ~y[j].end
               /\ i > 1 => n > MaxSegs
  BY SliceRight
<1>2. p \in Nat \ {0} /\ g \in Granule
  <2>1. p \in Nat \ {0} /\ p \in 1..Len(snt)
    OBVIOUS
  <2>2. snt[p] \in SentPacket
    BY <2>1
  <2> QED BY <2>1, <2>2 DEF SentPacket
<1>3. /\ ps \in Seq(Page)
      /\ \A i \in DOMAIN ps : Len(ps[i].segs) \in 1..MaxSegs
  <2>1. p \in Nat
    BY <1>2
  <2>2. GoodPages(ps, first)
    BY <1>1, <1>2, <2>1, PacketPagesGood
  <2> QED BY <2>2 DEF GoodPages
<1>4. ps = [i \in 1..count |-> MakePage(Header(i, count, g, bos, eos), first + i - 1, Slice(x, i))]
  BY DEF PacketPages
<1>5. MaxSegs \in Nat \ {0}
  BY WriterConstants
<1> HIDE DEF ps, x, count
<1>6. Len(ps) = count /\ DOMAIN ps = 1..count
  BY <1>1, <1>4
<1>7. ASSUME NEW i \in 1..count
      PROVE  /\ ps[i].segs = Slice(x, i) /\ ps[i].granule = (IF i = count THEN g ELSE NoGranule)
             /\ ps[i].cont <=> i > 1
             /\ ps[i].bos <=> bos /\ i = 1
             /\ ps[i].eos <=> eos /\ i = count
  <2>1. ps[i] = MakePage(Header(i, count, g, bos, eos), first + i - 1, Slice(x, i))
    BY <1>4
  <2> QED BY <2>1, MakePageFields
<1>8. ASSUME NEW i \in 1..count
      PROVE  PageRight(ps[i], snt) /\ (ps[i].eos => i = Len(ps))
  <2> DEFINE y == Slice(x, i)
  <2>1. /\ RunRight(y, snt) /\ Len(y) \in 1..MaxSegs
        /\ y[1].pkt = p /\ y[1].k = (i - 1) * MaxSegs + 1
        /\ y[Len(y)].pkt = p
        /\ y[Len(y)].end <=> i = count
        /\ i < count => \A j \in DOMAIN y : ~y[j].end
        /\ i > 1 => n > MaxSegs
    BY <1>1
  <2> HIDE DEF y
  <2>2. y[1].k = 1 <=> i = 1
    <3>0. i \in Nat \ {0}
      BY <1>1
    <3>1. PICK m \in Int : m = (i - 1) * MaxSegs
      BY <1>5, <3>0
    <3>2. (i > 1 => m >= 1) /\ (i = 1 => m = 0)
      BY <1>5, <3>0, <3>1
    <3> QED BY <2>1, <3>0, <3>1, <3>2
  <2>3. ps[i].segs = y
    BY <1>7 DEF y
  <2>4. y[1].k > 1 => n > MaxSegs
    BY <1>1, <1>5, <2>1, <2>2
  <2>5. y[Len(y)].end => ps[i].granule = snt[p].granule /\ (ps[i].eos <=> snt[p].eos)
    BY <1>7, <2>1
  <2>6. ~y[Len(y)].end => /\ \A j \in DOMAIN y : ~y[j].end
                          /\ ps[i].granule = NoGranule /\ ~ps[i].eos
    <3>1. i # count => i < count
      BY <1>1
    <3> QED BY <1>7, <2>1, <3>1
  <2>7. ps[i].bos <=> y[1].pkt = 1 /\ y[1].k = 1
    BY <1>7, <2>1, <2>2
  <2>8. ~(y[Len(y)].pkt > y[1].pkt)
    BY <1>2, <2>1
  <2>9. ps[i] \in Page
    BY <1>3, <1>6
  <2>10. PageRight(ps[i], snt)
    BY <2>1, <2>3, <2>4, <2>5, <2>6, <2>7, <2>8, <2>9 DEF PageRight
  <2> QED BY <1>6, <1>7, <2>10
<1>9. ASSUME NEW i \in 1..count, i > 1 PROVE Joined(ps[i - 1], ps[i])
  <2> DEFINE y == Slice(x, i - 1)
             z == Slice(x, i)
  <2>1. i - 1 \in 1..count /\ i - 1 < count
    BY <1>1, <1>9
  <2>2. /\ y[Len(y)].pkt = p /\ ~y[Len(y)].end /\ y[Len(y)].k = (i - 1) * MaxSegs
        /\ z[1].pkt = p /\ z[1].k = (i - 1) * MaxSegs + 1
    BY <1>1, <2>1
  <2>3. ps[i - 1].segs = y /\ ps[i].segs = z /\ ps[i].cont
    BY <1>7, <1>9, <2>1
  <2> HIDE DEF y, z
  <2> QED BY <2>2, <2>3 DEF Joined, Follows
<1>10. 1 \in 1..count /\ count \in 1..count
  BY <1>1
<1>11. /\ ~ps[1].cont /\ ps[1].segs[1].k = 1 /\ ps[1].segs[1].pkt = p
  <2>1. ps[1].segs = Slice(x, 1) /\ ~ps[1].cont
    BY <1>7, <1>10
  <2>2. Slice(x, 1)[1].pkt = p /\ Slice(x, 1)[1].k = (1 - 1) * MaxSegs + 1
    BY <1>1, <1>10
  <2> QED BY <1>5, <2>1, <2>2
<1>12. LET last == ps[Len(ps)].segs IN last[Len(last)].end /\ last[Len(last)].pkt = p
  <2>1. ps[Len(ps)].segs = Slice(x, count)
    BY <1>6, <1>7, <1>10
  <2> QED BY <1>1, <1>10, <2>1
<1>13. OwnRight(ps, snt)
  BY <1>1, <1>3, <1>6, <1>8, <1>9, <1>11, <1>12 DEF PagesRight, OwnRight, p
<1> QED BY <1>13, Zenon DEF ps, p

(* The page that shared packets get.                                       *)
LEMMA FlushPageRight ==
    ASSUME NEW snt \in Seq(SentPacket), snt # <<>>, NEW x, NEW start,
           PendingRight(x, snt, start), x # <<>>, Len(x) <= MaxSegs,
           NEW g, g = snt[Len(snt)].granule,
           NEW eos \in BOOLEAN, eos <=> snt[Len(snt)].eos, NEW number \in Nat
    PROVE  LET ps == FlushPages(x, g, eos, number)
           IN  PagesRight(ps, snt) /\ Len(ps) = 1 /\ ps[1].segs = x
<1> DEFINE pg == MakePage(Header(1, 1, g, FALSE, eos), number, x)
<1>1. FlushPages(x, g, eos, number) = <<pg>>
  BY DEF FlushPages
<1>2. /\ pg.segs = x /\ pg.granule = g /\ ~pg.cont /\ ~pg.bos /\ (pg.eos <=> eos)
  <2>1. PICK no \in BOOLEAN : ~no
    OBVIOUS
  <2>2. LET q == MakePage(Header(1, 1, g, no, eos), number, x)
        IN  q.segs = x /\ q.granule = g /\ ~q.cont /\ ~q.bos /\ (q.eos <=> eos)
    BY <2>1, MakePageFields
  <2>3. no = FALSE
    BY <2>1
  <2> QED BY <2>2, <2>3
<1>3. g \in Granule /\ Len(snt) \in 1..Len(snt)
  <2>1. Len(snt) \in 1..Len(snt)
    OBVIOUS
  <2>2. snt[Len(snt)] \in SentPacket
    BY <2>1
  <2> QED BY <2>1, <2>2 DEF SentPacket
<1>4. RunRight(x, snt) /\ x \in Seq(Seg)
  BY DEF PendingRight, RunRight
<1>5. Len(x) \in 1..MaxSegs
  BY <1>4, WriterConstants
<1>6. pg \in Page
  BY <1>3, <1>4, HeaderType
<1> HIDE DEF pg
<1>7. PageRight(pg, snt)
  <2>1. /\ x[Len(x)].end /\ x[Len(x)].pkt = Len(snt) /\ x[1].k = 1 /\ x[1].pkt > 2
        /\ x[Len(x)].pkt > x[1].pkt =>
             SpannedIn(snt, x[1].pkt - 1, x[Len(x)].pkt - 1) < maxSpan
    BY DEF PendingRight
  <2>2. x[1].pkt # 1 /\ x[1].pkt > 1 /\ ~(x[1].k > 1)
    <3>1. x[1] \in Seg
      BY <1>4, <1>5
    <3>2. x[1].pkt \in Nat /\ x[1].k \in Nat
      BY <3>1 DEF Seg
    <3> QED BY <2>1, <3>2
  <2> QED BY <1>2, <1>4, <1>5, <1>6, <2>1, <2>2 DEF PageRight
<1> QED BY <1>1, <1>2, <1>6, <1>7 DEF PagesRight, PendingRight

LEMMA PagesPrefix ==
    ASSUME NEW snt, NEW ps, PagesRight(ps, snt), NEW k \in 0..Len(ps)
    PROVE  /\ PagesRight(SubSeq(ps, 1, k), snt) /\ Len(SubSeq(ps, 1, k)) = k
           /\ \A i \in 1..k : SubSeq(ps, 1, k)[i] = ps[i]
<1> DEFINE qs == SubSeq(ps, 1, k)
<1>1. ps \in Seq(Page)
  BY DEF PagesRight
<1>2. qs \in Seq(Page) /\ Len(qs) = k /\ \A i \in 1..k : qs[i] = ps[i]
  BY <1>1
<1> HIDE DEF qs
<1>3. ASSUME NEW i \in DOMAIN qs
      PROVE  /\ PageRight(qs[i], snt) /\ (qs[i].eos => i = Len(qs))
             /\ i > 1 => Joined(qs[i - 1], qs[i])
  <2>1. i \in DOMAIN ps /\ qs[i] = ps[i] /\ (i > 1 => qs[i - 1] = ps[i - 1])
    BY <1>1, <1>2
  <2>2. ps[i].eos => i = Len(qs)
    BY <1>1, <1>2, <2>1 DEF PagesRight
  <2> QED BY <2>1, <2>2 DEF PagesRight
<1>4. qs # <<>> => ps # <<>> /\ qs[1] = ps[1]
  BY <1>1, <1>2
<1> QED BY <1>2, <1>3, <1>4 DEF PagesRight, qs

(* Pages after pages: the first ones end a packet, the others begin the    *)
(* next.                                                                   *)
LEMMA PagesConcat ==
    ASSUME NEW snt, NEW ps, NEW qs, PagesRight(ps, snt), PagesRight(qs, snt),
           ps # <<>> /\ qs # <<>> =>
             LET last == ps[Len(ps)].segs[Len(ps[Len(ps)].segs)]
             IN  /\ last.end /\ qs[1].segs[1].pkt = last.pkt + 1
                 /\ \A i \in DOMAIN ps : ~ps[i].eos
    PROVE  PagesRight(ps \o qs, snt)
<1> DEFINE rs == ps \o qs
<1>1. ps \in Seq(Page) /\ qs \in Seq(Page)
  BY DEF PagesRight
<1>2. /\ rs \in Seq(Page) /\ Len(rs) = Len(ps) + Len(qs)
      /\ \A i \in 1..Len(ps) : rs[i] = ps[i]
      /\ \A i \in 1..Len(qs) : rs[Len(ps) + i] = qs[i]
  BY <1>1
<1> HIDE DEF rs
<1>3. ASSUME NEW i \in DOMAIN rs
      PROVE  /\ PageRight(rs[i], snt) /\ (rs[i].eos => i = Len(rs))
             /\ i > 1 => Joined(rs[i - 1], rs[i])
  <2>1. CASE i \in 1..Len(ps)
    <3>1. rs[i] = ps[i] /\ i \in DOMAIN ps /\ (i > 1 => rs[i - 1] = ps[i - 1])
      BY <1>1, <1>2, <2>1, SMTT(60)
    <3>2. ps[i].eos => i = Len(ps) /\ (ps # <<>> => qs = <<>>)
      BY <3>1 DEF PagesRight
    <3>3. ps[i].eos => i = Len(rs)
      BY <1>1, <1>2, <2>1, <3>2
    <3> QED BY <3>1, <3>3 DEF PagesRight
  <2>2. CASE i \in (Len(ps) + 1)..(Len(ps) + Len(qs))
    <3>0. PICK j \in 1..Len(qs) : i = Len(ps) + j
      <4>1. i - Len(ps) \in 1..Len(qs) /\ i = Len(ps) + (i - Len(ps))
        BY <1>1, <2>2
      <4> QED BY <4>1
    <3>1. rs[i] = qs[j] /\ j \in DOMAIN qs
      BY <1>1, <1>2, <3>0
    <3>2. PageRight(rs[i], snt) /\ (rs[i].eos => j = Len(qs))
      BY <3>1 DEF PagesRight
    <3>3. CASE j = 1 /\ ps # <<>>
      <4>1. rs[i - 1] = ps[Len(ps)] /\ qs # <<>>
        <5>1. i - 1 = Len(ps) /\ Len(ps) \in 1..Len(ps)
          BY <1>1, <3>0, <3>3
        <5> QED BY <1>1, <1>2, <3>0, <5>1
      <4>2. Joined(rs[i - 1], rs[i])
        BY <3>1, <3>3, <4>1 DEF Joined, Follows, PagesRight
      <4> QED BY <1>1, <1>2, <3>0, <3>2, <4>2
    <3>4. CASE j = 1 /\ ps = <<>>
      BY <1>1, <1>2, <3>0, <3>2, <3>4
    <3>5. CASE j > 1
      <4>1. j - 1 \in 1..Len(qs) /\ i - 1 = Len(ps) + (j - 1)
        BY <1>1, <3>0, <3>5
      <4>2. rs[Len(ps) + (j - 1)] = qs[j - 1]
        BY <1>2, <4>1
      <4>3. Joined(qs[j - 1], qs[j])
        BY <3>1, <3>5 DEF PagesRight
      <4>4. j = Len(qs) => i = Len(rs)
        BY <1>2, <3>0
      <4> QED BY <3>1, <3>2, <4>1, <4>2, <4>3, <4>4
    <3> QED BY <3>0, <3>3, <3>4, <3>5
  <2> QED BY <1>1, <1>2, <2>1, <2>2
<1>4. rs # <<>> => ~rs[1].cont /\ rs[1].segs[1].k = 1
  <2>1. CASE ps # <<>>
    <3>1. rs[1] = ps[1]
      BY <1>1, <1>2, <2>1
    <3> QED BY <2>1, <3>1 DEF PagesRight
  <2>2. CASE ps = <<>>
    <3>1. rs # <<>> => qs # <<>> /\ rs[1] = qs[1]
      BY <1>1, <1>2, <2>2
    <3> QED BY <3>1 DEF PagesRight
  <2> QED BY <2>1, <2>2
<1> QED BY <1>2, <1>3, <1>4 DEF PagesRight, rs

LEMMA NoEosYet ==
    ASSUME HInv, sent # <<>> => ~sent[Len(sent)].eos
    PROVE  \A i \in DOMAIN out : ~out[i].eos
<1> SUFFICES ASSUME NEW i \in DOMAIN out, out[i].eos PROVE FALSE
  OBVIOUS
<1> DEFINE pg == out[i]
           last == pg.segs[Len(pg.segs)]
<1>1. PageRight(pg, sent)
  BY DEF HInv, PagesRight
<1>2. last.end /\ sent[last.pkt].eos
  BY <1>1 DEF PageRight
<1>3. SegRight(last, sent)
  <2>1. Len(pg.segs) \in DOMAIN pg.segs
    BY <1>1, WriterConstants DEF PageRight, RunRight
  <2> QED BY <1>1, <2>1 DEF PageRight, RunRight
<1>4. last.pkt \in 1..Len(sent) /\ sent \in Seq(SentPacket)
  BY <1>3 DEF SegRight, HInv, IInv, TypeOK
<1>5. last.pkt = Len(sent)
  BY <1>2, <1>4 DEF HInv, SentRight
<1> QED BY <1>2, <1>4, <1>5

(* The output after a call that wrote k of the pages ps.                   *)
LEMMA EmitRight ==
    ASSUME HInv, ~failed, Extends(sent', sent), NEW ps, PagesRight(ps, sent'),
           ps # <<>> => ps[1].segs[1].pkt = Unwritten,
           NEW k \in 0..Len(ps), Emit(ps, k),
           sent # <<>> => ~sent[Len(sent)].eos
    PROVE  /\ PagesRight(out', sent') /\ (out' # <<>> => out'[1].segs[1].pkt = 1)
           /\ ~failed' => out' = out \o ps
<1> DEFINE qs == SubSeq(ps, 1, k)
<1>1. /\ PagesRight(qs, sent') /\ Len(qs) = k /\ \A i \in 1..k : qs[i] = ps[i]
  BY PagesPrefix
<1>2. out' = out \o qs /\ (~failed' => ~(k < Len(ps)))
  BY DEF Emit
<1>3. ps \in Seq(Page) /\ out \in Seq(Page) /\ qs \in Seq(Page)
  BY <1>1 DEF HInv, PagesRight
<1>4. PagesRight(out, sent')
  BY PagesStay DEF HInv
<1>5. qs # <<>> => ps # <<>> /\ qs[1] = ps[1]
  BY <1>1, <1>3
<1> DEFINE last == out[Len(out)].segs[Len(out[Len(out)].segs)]
<1>6. out # <<>> => last.end /\ last.pkt + 1 = Unwritten
  BY DEF HInv, WireEnds
<1>7. \A i \in DOMAIN out : ~out[i].eos
  BY NoEosYet
<1>8. ~failed' => qs = ps
  BY <1>1, <1>2, <1>3
<1> HIDE DEF qs
<1>9. PagesRight(out \o qs, sent')
  BY <1>1, <1>4, <1>5, <1>6, <1>7, PagesConcat
<1>10. out' # <<>> => out'[1].segs[1].pkt = 1
  <2>1. CASE out # <<>>
    <3>1. out'[1] = out[1]
      BY <1>2, <1>3, <2>1
    <3> QED BY <2>1, <3>1 DEF HInv
  <2>2. CASE out = <<>>
    <3>1. out' # <<>> => qs # <<>> /\ out'[1] = qs[1]
      BY <1>2, <1>3, <2>2
    <3>2. Unwritten = 1
      BY <2>2 DEF HInv, WireEnds, Unwritten
    <3> QED BY <1>5, <3>1, <3>2
  <2> QED BY <2>1, <2>2
<1> QED BY <1>2, <1>8, <1>9, <1>10

(* The record of what was sent after another packet.                       *)
LEMMA SentGrows ==
    ASSUME HInv, NEW n, NEW g, NEW bos \in BOOLEAN, NEW eos \in BOOLEAN,
           Took(n, g, bos, eos), granule' = g, bos <=> sent = <<>>,
           sent # <<>> => ~sent[Len(sent)].eos,
           Len(sent) < 2 => g = 0 /\ ~eos
    PROVE  SentRight'
<1> DEFINE m == Len(sent) + 1
<1>1. /\ sent \in Seq(SentPacket) /\ sent' \in Seq(SentPacket) /\ Len(sent') = m
      /\ \A p \in 1..Len(sent) : sent'[p] = sent[p]
  BY DEF Took, Extends
<1>2. /\ sent'[m].granule = g /\ (sent'[m].bos <=> bos) /\ (sent'[m].eos <=> eos)
  BY DEF Took
<1>3. Len(sent) \in Nat /\ (sent = <<>> <=> Len(sent) = 0)
  BY <1>1
<1> HIDE DEF m
<1>4. ASSUME NEW p \in DOMAIN sent'
      PROVE  /\ sent'[p].bos <=> p = 1
             /\ p <= 2 => sent'[p].granule = 0 /\ ~sent'[p].eos
             /\ sent'[p].eos => p = Len(sent')
  <2>1. CASE p = m
    <3>1. p = 1 <=> sent = <<>>
      BY <1>3, <2>1 DEF m
    <3>2. p <= 2 => Len(sent) < 2
      BY <1>3, <2>1 DEF m
    <3> QED BY <1>1, <1>2, <2>1, <3>1, <3>2
  <2>2. CASE p \in 1..Len(sent)
    <3>1. /\ sent[p].bos <=> p = 1
          /\ p <= 2 => sent[p].granule = 0 /\ ~sent[p].eos
          /\ sent[p].eos => p = Len(sent)
      BY <1>1, <2>2 DEF HInv, SentRight
    <3>2. sent # <<>>
      BY <1>3, <2>2
    <3> QED BY <1>1, <2>2, <3>1, <3>2
  <2> QED BY <1>1, <1>3, <2>1, <2>2 DEF m
<1>5. sent' # <<>> /\ sent'[Len(sent')].granule = g
  BY <1>1, <1>2, <1>3 DEF m
<1> QED BY <1>4, <1>5 DEF SentRight

(* Nothing was written and nothing more will be.                           *)
LEMMA StuckStays ==
    ASSUME HInv, IInv', failed', out' = out, Extends(sent', sent), SentRight'
    PROVE  HInv'
<1>1. PagesRight(out, sent')
  BY PagesStay DEF HInv
<1> QED BY <1>1 DEF HInv

LEMMA NothingOut ==
    ASSUME NEW pages \in Seq(Page), Emit(pages, 0), out \in Seq(Page)
    PROVE  out' = out
<1>1. SubSeq(pages, 1, 0) = <<>>
  OBVIOUS
<1> QED BY <1>1 DEF Emit

LEMMA SameSent == ASSUME sent \in Seq(SentPacket), sent' = sent PROVE Extends(sent', sent)
  BY DEF Extends

(* The pending page as flushPage closes it.                                *)
LEMMA FlushedRight ==
    ASSUME HInv, ~failed
    PROVE  /\ PagesRight(Flushed, sent)
           /\ segs = <<>> => Flushed = <<>> /\ Unwritten = Len(sent) + 1
           /\ segs # <<>> => /\ Len(Flushed) = 1 /\ Flushed[1].segs = segs
                             /\ segs[1].pkt = Unwritten /\ sent # <<>>
                             /\ segs[Len(segs)].end /\ segs[Len(segs)].pkt = Len(sent)
           /\ \A i \in DOMAIN Flushed : ~Flushed[i].eos
<1>1. CASE segs = <<>>
  <2>1. Flushed = <<>>
    BY <1>1 DEF Flushed, FlushPages
  <2>2. PagesRight(<<>>, sent)
    BY DEF PagesRight
  <2> QED BY <1>1, <2>1, <2>2 DEF Unwritten
<1>2. CASE segs # <<>>
  <2>1. /\ PendingRight(segs, sent, pageStart) /\ ~sent[Len(sent)].eos
        /\ sent \in Seq(SentPacket) /\ Len(segs) <= MaxSegs /\ segs \in Seq(Seg)
    BY <1>2 DEF HInv, Pending, IInv, TypeOK, PageLimits
  <2>2. sent # <<>>
    <3>1. SegRight(segs[1], sent)
      BY <1>2, <2>1 DEF PendingRight, RunRight
    <3> QED BY <2>1, <3>1 DEF SegRight
  <2>3. granule = sent[Len(sent)].granule
    BY <2>2 DEF HInv, SentRight
  <2>4. PICK no \in BOOLEAN : ~no
    OBVIOUS
  <2>5. LET ps == FlushPages(segs, granule, no, seq)
        IN  PagesRight(ps, sent) /\ Len(ps) = 1 /\ ps[1].segs = segs
    <3>1. seq \in Nat
      BY DEF HInv, IInv, TypeOK
    <3> QED BY <1>2, <2>1, <2>2, <2>3, <2>4, <3>1, FlushPageRight
  <2>6. Flushed = FlushPages(segs, granule, no, seq)
    BY <2>4 DEF Flushed
  <2>7. PagesRight(Flushed, sent) /\ Len(Flushed) = 1 /\ Flushed[1].segs = segs
    BY <2>5, <2>6
  <2>8. segs[Len(segs)].end /\ segs[Len(segs)].pkt = Len(sent)
    BY <2>1 DEF PendingRight
  <2>9. \A i \in DOMAIN Flushed : ~Flushed[i].eos
    <3>1. PageRight(Flushed[1], sent)
      BY <2>7 DEF PagesRight
    <3>2. ~Flushed[1].eos
      BY <2>1, <2>7, <2>8, <3>1 DEF PageRight
    <3>3. \A i \in DOMAIN Flushed : i = 1
      BY <2>7 DEF PagesRight
    <3> QED BY <3>2, <3>3
  <2> QED BY <1>2, <2>2, <2>7, <2>8, <2>9 DEF Unwritten
<1> QED BY <1>1, <1>2

(* A call that closes the page and gives its packet pages of its own, as   *)
(* WriteHeaderPacket and the spanning case of WritePacket do.              *)
LEMMA OwnPagesStep ==
    ASSUME HInv, IInv', NEW n \in Nat \ {0}, NEW g \in Granule,
           NEW bos \in BOOLEAN, NEW eos \in BOOLEAN,
           bos <=> sent = <<>>, sent # <<>> => ~sent[Len(sent)].eos,
           Len(sent) < 2 => g = 0 /\ ~eos,
           NEW pages, NEW k \in 0..Len(pages), Emit(pages, k),
           k >= Len(Flushed) => segs' = <<>> /\ Took(n, g, bos, eos) /\ granule' = g,
           k < Len(Flushed) => sent' = sent /\ granule' = granule
    PROVE  pages = Flushed \o PacketPages(Len(sent) + 1, n, g, bos, eos,
                                          seq + Len(Flushed)) => HInv'
<1>0. SUFFICES ASSUME pages = Flushed \o PacketPages(Len(sent) + 1, n, g, bos, eos,
                                                     seq + Len(Flushed))
               PROVE  HInv'
  OBVIOUS
<1> DEFINE own == PacketPages(Len(sent) + 1, n, g, bos, eos, seq + Len(Flushed))
<1>1. /\ IInv /\ sent \in Seq(SentPacket) /\ out \in Seq(Page) /\ seq \in Nat
      /\ Flushed \in Seq(Page) /\ Len(Flushed) \in 0..1
  BY FlushedGood DEF HInv, IInv, TypeOK
<1>2. own \in Seq(Page)
  <2>1. Len(sent) + 1 \in Nat /\ seq + Len(Flushed) \in Nat
    BY <1>1
  <2> QED BY <2>1, PacketPagesGood DEF GoodPages
<1>3. pages = Flushed \o own /\ pages \in Seq(Page) /\ Len(pages) = Len(Flushed) + Len(own)
  BY <1>0, <1>1, <1>2
<1> HIDE DEF own
<1>4. CASE k < Len(Flushed)
  <2>1. k = 0 /\ k < Len(pages)
    BY <1>1, <1>2, <1>3, <1>4, SMTT(30)
  <2>2. out' = out /\ failed'
    BY <1>1, <1>3, <2>1, NothingOut DEF Emit
  <2>3. Extends(sent', sent) /\ sent' = sent /\ granule' = granule
    BY <1>1, <1>4, SameSent
  <2>4. SentRight'
    BY <2>3 DEF HInv, SentRight
  <2> QED BY <2>2, <2>3, <2>4, StuckStays
<1>5. CASE k >= Len(Flushed)
  <2>1. segs' = <<>> /\ Took(n, g, bos, eos) /\ granule' = g /\ Extends(sent', sent)
    BY <1>5 DEF Took
  <2>2. SentRight'
    BY <2>1, SentGrows
  <2>3. CASE failed
    <3>1. k = 0 /\ failed'
      BY <2>3 DEF Emit
    <3>2. out' = out
      BY <1>1, <1>3, <3>1, NothingOut
    <3> QED BY <2>1, <2>2, <3>1, <3>2, StuckStays
  <2>4. CASE ~failed
    <3>1. /\ sent' \in Seq(SentPacket) /\ sent' # <<>> /\ Len(sent') = Len(sent) + 1
          /\ sent'[Len(sent')].laces = n /\ sent'[Len(sent')].granule = g
          /\ (eos <=> sent'[Len(sent')].eos)
      BY <2>1 DEF Took, Extends
    <3>2. bos <=> Len(sent') = 1
      BY <1>1, <3>1
    <3> DEFINE last == own[Len(own)].segs
    <3>3. /\ PagesRight(own, sent') /\ Len(own) \in Nat \ {0}
          /\ own[1].segs[1].pkt = Len(sent')
          /\ last[Len(last)].end /\ last[Len(last)].pkt = Len(sent')
      <4>1. seq + Len(Flushed) \in Nat
        BY <1>1
      <4>3. PICK snt \in Seq(SentPacket), first \in Nat :
                snt = sent' /\ first = seq + Len(Flushed)
        BY <3>1, <4>1, Zenon
      <4>4. /\ snt # <<>> /\ (bos <=> Len(snt) = 1) /\ (eos <=> snt[Len(snt)].eos)
            /\ snt[Len(snt)].laces = n /\ snt[Len(snt)].granule = g
        BY <3>1, <3>2, <4>3, Zenon
      <4>5. OwnRight(PacketPages(Len(snt), n, g, bos, eos, first), snt)
        BY <4>4, PacketPagesRight, Zenon
      <4>6. own = PacketPages(Len(snt), n, g, bos, eos, first)
        BY <3>1, <4>3, Zenon DEF own
      <4> QED BY <4>3, <4>5, <4>6, Zenon DEF OwnRight, last
    <3> HIDE DEF last
    <3>4. /\ PagesRight(Flushed, sent)
          /\ segs = <<>> => Flushed = <<>> /\ Unwritten = Len(sent) + 1
          /\ segs # <<>> => /\ Len(Flushed) = 1 /\ Flushed[1].segs = segs
                            /\ segs[1].pkt = Unwritten
                            /\ segs[Len(segs)].end /\ segs[Len(segs)].pkt = Len(sent)
          /\ \A i \in DOMAIN Flushed : ~Flushed[i].eos
      BY <2>4, FlushedRight
    <3>5. PagesRight(Flushed, sent')
      BY <2>1, <3>4, PagesStay
    <3>6. Flushed # <<>> =>
            LET end == Flushed[Len(Flushed)].segs[Len(Flushed[Len(Flushed)].segs)]
            IN  end.end /\ own[1].segs[1].pkt = end.pkt + 1
      BY <3>1, <3>3, <3>4
    <3>7. PagesRight(pages, sent')
      BY <1>3, <3>3, <3>4, <3>5, <3>6, PagesConcat
    <3>8. pages # <<>> => pages[1].segs[1].pkt = Unwritten
      <4>1. CASE Flushed = <<>>
        BY <1>1, <1>2, <1>3, <3>1, <3>3, <3>4, <4>1
      <4>2. CASE Flushed # <<>>
        <5>1. pages[1] = Flushed[1]
          BY <1>1, <1>2, <1>3, <4>2
        <5> QED BY <3>4, <4>2, <5>1
      <4> QED BY <4>1, <4>2
    <3>9. /\ PagesRight(out', sent') /\ (out' # <<>> => out'[1].segs[1].pkt = 1)
          /\ ~failed' => out' = out \o pages
      BY <2>1, <2>4, <3>7, <3>8, EmitRight
    <3>10. ~failed' => (Pending /\ WireEnds)'
      <4> SUFFICES ASSUME ~failed' PROVE Pending' /\ WireEnds'
        OBVIOUS
      <4>1. out' # <<>> /\ out'[Len(out')] = own[Len(own)]
        <5>0. out' = out \o pages
          BY <3>9
        <5>1. out' = out \o pages /\ Len(pages) \in 1..Len(pages)
          <6>1. Len(own) \in Nat \ {0} /\ Len(Flushed) \in Nat
            BY <1>1, <3>3
          <6> QED BY <1>3, <5>0, <6>1
        <5>2. Len(out') = Len(out) + Len(pages) /\ out'[Len(out) + Len(pages)] = pages[Len(pages)]
          BY SMTT(30), <1>1, <1>3, <5>1
        <5>3. Len(own) \in 1..Len(own) /\ pages[Len(Flushed) + Len(own)] = own[Len(own)]
          BY SMTT(30), <1>1, <1>2, <1>3, <3>3
        <5> QED BY <1>1, <1>3, <5>1, <5>2, <5>3
      <4>2. Unwritten' = Len(sent') + 1
        BY <2>1 DEF Unwritten
      <4> QED BY <2>1, <3>3, <4>1, <4>2 DEF Pending, WireEnds, last
    <3> QED BY <2>2, <3>9, <3>10 DEF HInv
  <2> QED BY <2>3, <2>4
<1>6. k < Len(Flushed) \/ k >= Len(Flushed)
  BY <1>1
<1> QED BY <1>4, <1>5, <1>6

LEMMA HHeaderStep ==
    ASSUME HInv, NEW n \in Laces PROVE WriteHeaderPacket(n) => HInv'
<1>0. SUFFICES ASSUME WriteHeaderPacket(n) PROVE HInv'
  OBVIOUS
<1>1. PICK bos \in BOOLEAN, no \in BOOLEAN : bos = (sent = <<>>) /\ no = FALSE
  OBVIOUS
<1>2. /\ n \in Nat \ {0} /\ 0 \in Granule /\ IInv
      /\ sent \in Seq(SentPacket)
  BY WriterConstants DEF Granule, HInv, IInv, TypeOK
<1>3. IInv'
  BY <1>0, <1>2, HeaderStep
<1> DEFINE pages == Flushed \o PacketPages(Len(sent) + 1, n, 0, bos, no,
                                           seq + Len(Flushed))
<1>4. PICK k \in 0..Len(pages) :
         /\ Emit(pages, k)
         /\ IF k >= Len(Flushed)
              THEN segs' = <<>> /\ Take(n, 0, bos, no)
              ELSE UNCHANGED <<segs, sent>>
  BY <1>0, <1>1, Zenon DEF WriteHeaderPacket
<1> HIDE DEF pages
<1>5. Len(sent) < 2 /\ granule' = granule
  BY <1>0 DEF WriteHeaderPacket
<1>6. granule = 0 /\ (sent # <<>> => ~sent[Len(sent)].eos)
  <2>1. CASE sent = <<>>
    BY <2>1 DEF HInv, SentRight
  <2>2. CASE sent # <<>>
    <3>1. Len(sent) \in DOMAIN sent /\ Len(sent) <= 2
      BY <1>2, <1>5, <2>2
    <3> QED BY <2>2, <3>1 DEF HInv, SentRight
  <2> QED BY <2>1, <2>2
<1>7. k >= Len(Flushed) => segs' = <<>> /\ Took(n, 0, bos, no) /\ granule' = 0
  BY <1>2, <1>4, <1>5, <1>6, TakeAdds
<1>8. k < Len(Flushed) => sent' = sent /\ granule' = granule
  <2>1. k \in Nat /\ Len(Flushed) \in Nat
    BY <1>2, FlushedGood
  <2>2. k < Len(Flushed) => ~(k >= Len(Flushed))
    BY <2>1
  <2> QED BY <1>4, <1>5, <2>2
<1>9. (bos <=> sent = <<>>) /\ ~no
  BY <1>1
<1>10. pages = Flushed \o PacketPages(Len(sent) + 1, n, 0, bos, no, seq + Len(Flushed))
  BY DEF pages
<1>11. PICK g \in Granule : g = 0
  BY <1>2
<1>12. /\ k >= Len(Flushed) => segs' = <<>> /\ Took(n, g, bos, no) /\ granule' = g
       /\ pages = Flushed \o PacketPages(Len(sent) + 1, n, g, bos, no, seq + Len(Flushed))
       /\ Len(sent) < 2 => g = 0 /\ ~no
  BY <1>7, <1>9, <1>10, <1>11, Zenon
<1> QED BY <1>2, <1>3, <1>4, <1>6, <1>8, <1>9, <1>12, OwnPagesStep, Zenon

LEMMA HSpanningStep ==
    ASSUME HInv, NEW n \in Laces, NEW g \in Granules, NEW eos \in BOOLEAN
    PROVE  WriteSpanning(n, g, eos) => HInv'
<1>0. SUFFICES ASSUME WriteSpanning(n, g, eos) PROVE HInv'
  OBVIOUS
<1>1. PICK no \in BOOLEAN : no = FALSE
  OBVIOUS
<1>2. /\ n \in Nat \ {0} /\ g \in Granule /\ IInv
      /\ sent \in Seq(SentPacket)
  BY WriterConstants DEF Granule, HInv, IInv, TypeOK
<1>3. IInv'
  BY <1>0, <1>2, SpanningStep
<1> DEFINE pages == Flushed \o PacketPages(Len(sent) + 1, n, g, no, eos,
                                           seq + Len(Flushed))
<1>4. PICK k \in 0..Len(pages) :
         /\ Emit(pages, k)
         /\ IF k >= Len(Flushed)
              THEN /\ segs' = <<>> /\ granule' = g /\ pageStart' = g
                   /\ Take(n, g, no, eos)
              ELSE UNCHANGED <<segs, granule, pageStart, sent>>
  BY <1>0, <1>1, Zenon DEF WriteSpanning
<1> HIDE DEF pages
<1>5. Len(sent) \in Nat /\ Len(sent) >= 2 /\ ~sent[Len(sent)].eos /\ sent # <<>>
  BY <1>0, <1>2 DEF WriteSpanning, InAudio, Last
<1>6. Len(sent) < 2 => g = 0 /\ ~eos
  BY <1>5
<1>7. k >= Len(Flushed) => segs' = <<>> /\ Took(n, g, no, eos) /\ granule' = g
  BY <1>2, <1>4, TakeAdds
<1>8. k < Len(Flushed) => sent' = sent /\ granule' = granule
  <2>1. k \in Nat /\ Len(Flushed) \in Nat
    BY <1>2, FlushedGood
  <2>2. k < Len(Flushed) => ~(k >= Len(Flushed))
    BY <2>1
  <2> QED BY <1>4, <2>2
<1>9. (no <=> sent = <<>>) /\ (sent # <<>> => ~sent[Len(sent)].eos)
  BY <1>1, <1>5
<1>10. pages = Flushed \o PacketPages(Len(sent) + 1, n, g, no, eos, seq + Len(Flushed))
  BY DEF pages
<1> QED BY <1>2, <1>3, <1>4, <1>6, <1>7, <1>8, <1>9, <1>10, OwnPagesStep, Zenon

LEMMA HRefuseStep ==
    ASSUME HInv, NEW n \in Laces, RefusePacket(n) PROVE HInv'
<1>1. IInv' /\ IInv
  BY RefuseStep DEF HInv
<1>2. sent' = sent /\ granule' = granule /\ segs' = segs /\ pageStart' = pageStart
      /\ Emit(Flushed, 0)
  BY DEF RefusePacket
<1>3. Flushed \in Seq(Page) /\ out \in Seq(Page) /\ sent \in Seq(SentPacket)
  BY <1>1, FlushedGood DEF IInv, TypeOK
<1>4. out' = out
  BY <1>2, <1>3, NothingOut
<1>5. failed'
  <2>1. segs # <<>>
    <3>1. n <= MaxSegs /\ Len(segs) + n > MaxSegs /\ segs \in Seq(Seg)
      BY <1>1 DEF RefusePacket, Overflows, IInv, TypeOK
    <3>2. n \in Nat /\ MaxSegs \in Nat
      BY WriterConstants
    <3>3. Len(segs) # 0
      BY <3>1, <3>2
    <3> QED BY <3>3
  <2>2. 0 < Len(Flushed)
    BY <2>1 DEF Flushed, FlushPages
  <2> QED BY <1>2, <2>2 DEF Emit
<1>6. SentRight' /\ Extends(sent', sent)
  BY <1>2, <1>3, SameSent DEF HInv, SentRight
<1> QED BY <1>1, <1>4, <1>5, <1>6, StuckStays

LEMMA HFlushStep == ASSUME HInv, FlushPage PROVE HInv'
<1>1. IInv' /\ IInv
  BY FlushStep DEF HInv
<1>2. /\ sent' = sent /\ granule' = granule /\ segs # <<>>
      /\ sent \in Seq(SentPacket) /\ out \in Seq(Page) /\ Flushed \in Seq(Page)
  BY <1>1, FlushedGood DEF FlushPage, IInv, TypeOK
<1>3. PICK k \in 0..1 : Emit(Flushed, k) /\ segs' = IF k = 1 THEN <<>> ELSE segs
  BY DEF FlushPage
<1>4. Len(Flushed) = 1
  BY <1>2 DEF Flushed, FlushPages
<1>5. SentRight' /\ Extends(sent', sent)
  BY <1>2, SameSent DEF HInv, SentRight
<1>6. CASE k = 0
  <2>1. Emit(Flushed, 0) /\ 0 < Len(Flushed)
    BY <1>3, <1>4, <1>6
  <2>2. out' = out
    BY <1>2, <2>1, NothingOut
  <2>3. failed'
    BY <2>1, Zenon DEF Emit
  <2> QED BY <1>1, <1>5, <2>2, <2>3, StuckStays
<1>7. CASE k = 1
  <2>1. ~failed /\ segs' = <<>> /\ k \in 0..Len(Flushed)
    BY <1>3, <1>4, <1>7 DEF Emit
  <2>2. /\ PagesRight(Flushed, sent') /\ Flushed[1].segs = segs
        /\ segs[1].pkt = Unwritten /\ sent # <<>>
        /\ segs[Len(segs)].end /\ segs[Len(segs)].pkt = Len(sent)
    BY <1>2, <2>1, FlushedRight
  <2>3. ~sent[Len(sent)].eos
    BY <1>2, <2>1 DEF HInv, Pending
  <2>4. /\ PagesRight(out', sent') /\ (out' # <<>> => out'[1].segs[1].pkt = 1)
        /\ ~failed' => out' = out \o Flushed
    BY <1>3, <1>5, <2>1, <2>2, <2>3, EmitRight
  <2>5. ~failed' => (Pending /\ WireEnds)'
    <3> SUFFICES ASSUME ~failed' PROVE Pending' /\ WireEnds'
      OBVIOUS
    <3>0. out' = out \o Flushed
      BY <2>4
    <3>1. out' # <<>> /\ out'[Len(out')] = Flushed[1]
      <4>1. Len(out \o Flushed) = Len(out) + 1 /\ (out \o Flushed)[Len(out) + 1] = Flushed[1]
        <5>1. /\ Len(out \o Flushed) = Len(out) + Len(Flushed)
              /\ \A i \in 1..Len(Flushed) : (out \o Flushed)[Len(out) + i] = Flushed[i]
          BY <1>2
        <5> QED BY <1>4, <5>1
      <4>2. Len(out) \in Nat
        BY <1>2
      <4> QED BY <3>0, <4>1, <4>2
    <3>2. Unwritten' = Len(sent') + 1
      BY <2>1 DEF Unwritten
    <3> QED BY <1>2, <2>1, <2>2, <3>1, <3>2 DEF Pending, WireEnds
  <2> QED BY <1>1, <1>5, <2>4, <2>5 DEF HInv
<1> QED BY <1>6, <1>7

(* Packets that share a page: each begins a new run of lacing values where  *)
(* the one before ended, and the page's span is measured from the position  *)
(* of the last packet that is not on it.                                    *)
LEMMA QueueRight ==
    ASSUME HInv, ~failed, NEW snt, Extends(snt, sent), Len(snt) = Len(sent) + 1,
           NEW n, n = snt[Len(snt)].laces, Len(sent) >= 2,
           NEW base, NEW start, base = <<>> \/ base = segs,
           start = IF base = <<>> THEN granule ELSE pageStart
    PROVE  LET page == base \o oggLacing(Len(sent) + 1, n)
           IN  /\ PendingRight(page, snt, start) /\ page # <<>>
               /\ page[1].pkt = IF base = <<>> THEN Len(sent) + 1 ELSE segs[1].pkt
<1> DEFINE own == oggLacing(Len(sent) + 1, n)
           page == base \o own
           m == Len(sent) + 1
<1>1. /\ sent \in Seq(SentPacket) /\ snt \in Seq(SentPacket) /\ snt # <<>>
      /\ sent # <<>> /\ Len(sent) \in Nat /\ Len(sent) \in DOMAIN sent
      /\ \A p \in 1..Len(sent) : snt[p] = sent[p]
  BY DEF Extends
<1>2. /\ RunRight(own, snt) /\ Len(own) = n /\ n \in Nat \ {0}
      /\ \A j \in 1..n : own[j].pkt = m /\ own[j].k = j /\ (own[j].end <=> j = n)
  <2>1. LET x == oggLacing(Len(snt), n)
        IN  /\ RunRight(x, snt) /\ Len(x) = n /\ n \in Nat \ {0}
            /\ \A j \in 1..n : x[j].pkt = Len(snt) /\ x[j].k = j /\ (x[j].end <=> j = n)
    BY <1>1, LacingRight
  <2> QED BY <2>1
<1> HIDE DEF own, m
<1>3. 1 \in 1..n /\ n \in 1..n /\ own \in Seq(Seg)
  BY <1>2 DEF RunRight
<1>4. own[1].pkt = m /\ own[1].k = 1 /\ own[n].pkt = m /\ own[n].end
  BY <1>2, <1>3
<1>5. CASE base = <<>>
  <2>1. page = own
    BY <1>3, <1>5
  <2>2. start = sent[Len(sent)].granule
    BY <1>1, <1>5 DEF HInv, SentRight
  <2>3. snt[m - 1] = sent[Len(sent)] /\ m > 2 /\ m = Len(snt)
    <3>1. m - 1 = Len(sent)
      BY <1>1 DEF m
    <3> QED BY <1>1, <3>1 DEF m
  <2>4. ~(m > m)
    BY <1>1 DEF m
  <2>5. PendingRight(own, snt, start)
    BY <1>2, <1>4, <2>2, <2>3, <2>4 DEF PendingRight
  <2> QED BY <1>2, <1>4, <1>5, <2>1, <2>5 DEF own, m
<1>6. CASE base # <<>>
  <2>1. /\ PendingRight(segs, sent, pageStart)
        /\ SpannedIn(sent, segs[1].pkt - 1, Len(sent)) < maxSpan
        /\ base = segs /\ start = pageStart
    BY <1>6 DEF HInv, Pending
  <2> DEFINE first == segs[1].pkt
  <2>2. /\ RunRight(segs, sent) /\ segs[Len(segs)].end /\ segs[Len(segs)].pkt = Len(sent)
        /\ segs[1].k = 1 /\ first > 2 /\ pageStart = sent[first - 1].granule
    BY <2>1 DEF PendingRight
  <2>3. /\ segs \in Seq(Seg) /\ Len(segs) \in Nat /\ Len(segs) > 0
        /\ 1 \in DOMAIN segs
    BY <1>6, <2>1, <2>2 DEF RunRight
  <2>4. /\ page \in Seq(Seg) /\ Len(page) = Len(segs) + n /\ page # <<>>
        /\ page[1] = segs[1] /\ page[Len(page)] = own[n]
    <3>1. \A j \in 1..n : page[Len(segs) + j] = own[j]
      BY <1>2, <1>3, <2>1, <2>3
    <3> QED BY <1>2, <1>3, <2>1, <2>3, <3>1
  <2>5. RunRight(page, snt)
    <3>1. RunRight(base, snt)
      BY <2>1, <2>2, RunStays
    <3>2. Follows(base[Len(base)], own[1])
      BY <1>4, <2>1, <2>2 DEF Follows, m
    <3> QED BY <1>2, <3>1, <3>2, RunConcat
  <2>6. first \in 1..Len(sent) /\ first - 1 \in 1..Len(sent)
    <3>1. SegRight(segs[1], sent)
      BY <2>2, <2>3 DEF RunRight
    <3>2. first \in 1..Len(sent)
      BY <3>1 DEF SegRight
    <3>3. PICK f \in 1..Len(sent) : f = first
      BY <3>2
    <3>4. f - 1 \in 1..Len(sent)
      BY <1>1, <2>2, <3>3
    <3> QED BY <3>2, <3>3, <3>4
  <2>7. snt[first - 1] = sent[first - 1] /\ snt[Len(sent)] = sent[Len(sent)]
    BY <1>1, <2>6
  <2>8. SpannedIn(snt, first - 1, m - 1) < maxSpan
    <3>1. m - 1 = Len(sent)
      BY <1>1 DEF m
    <3> QED BY <2>1, <2>7, <3>1 DEF SpannedIn
  <2>9. m = Len(snt)
    BY DEF m
  <2> HIDE DEF page
  <2>10. PendingRight(page, snt, start)
    BY <1>4, <2>1, <2>2, <2>4, <2>5, <2>7, <2>8, <2>9 DEF PendingRight
  <2> QED BY <1>6, <2>4, <2>10 DEF page, own
<1> QED BY <1>5, <1>6

(* The page closed by the packet just taken, as one fact.                  *)
ShutInput(x, snt, start, g, eos) ==
    /\ snt \in Seq(SentPacket) /\ snt # <<>> /\ x # <<>> /\ Len(x) <= MaxSegs
    /\ PendingRight(x, snt, start)
    /\ g = snt[Len(snt)].granule /\ (eos <=> snt[Len(snt)].eos)

ShutRight(ps, snt, x) == PagesRight(ps, snt) /\ Len(ps) = 1 /\ ps[1].segs = x

LEMMA ShutPageRight ==
    ASSUME NEW x, NEW snt, NEW start, NEW g, NEW eos \in BOOLEAN, NEW number \in Nat
    PROVE  ShutInput(x, snt, start, g, eos)
             => ShutRight(FlushPages(x, g, eos, number), snt, x)
<1> SUFFICES ASSUME ShutInput(x, snt, start, g, eos)
             PROVE  ShutRight(FlushPages(x, g, eos, number), snt, x)
  OBVIOUS
<1>1. /\ snt \in Seq(SentPacket) /\ snt # <<>> /\ x # <<>> /\ Len(x) <= MaxSegs
      /\ PendingRight(x, snt, start)
      /\ g = snt[Len(snt)].granule /\ (eos <=> snt[Len(snt)].eos)
  BY Zenon DEF ShutInput
<1>2. LET ps == FlushPages(x, g, eos, number)
      IN  PagesRight(ps, snt) /\ Len(ps) = 1 /\ ps[1].segs = x
  BY <1>1, FlushPageRight
<1> QED BY <1>2, Zenon DEF ShutRight

LEMMA HQueueStep ==
    ASSUME HInv, NEW n \in Laces, NEW g \in Granules, NEW eos \in BOOLEAN
    PROVE  QueuePacket(n, g, eos) => HInv'
<1>0. SUFFICES ASSUME QueuePacket(n, g, eos) PROVE HInv'
  OBVIOUS
<1> DEFINE before == IF Overflows(n) THEN Flushed ELSE <<>>
           base   == IF Overflows(n) THEN <<>> ELSE segs
           start  == IF base = <<>> THEN granule ELSE pageStart
           page   == base \o oggLacing(Len(sent) + 1, n)
           after  == IF eos \/ Spans(g, start)
                     THEN FlushPages(page, g, eos, seq + Len(before)) ELSE <<>>
<1>1. PICK no \in BOOLEAN : no = FALSE
  OBVIOUS
<1>2. /\ n \in Nat \ {0} /\ n <= MaxSegs /\ g \in Granule /\ IInv
      /\ sent \in Seq(SentPacket) /\ out \in Seq(Page) /\ seq \in Nat
      /\ segs \in Seq(Seg)
  BY <1>0, WriterConstants DEF Granule, HInv, IInv, TypeOK, QueuePacket
<1>3. IInv'
  BY <1>0, <1>2, QueueStep
<1>4. Len(sent) \in Nat /\ Len(sent) >= 2 /\ ~sent[Len(sent)].eos /\ sent # <<>>
  BY <1>0, <1>2 DEF QueuePacket, InAudio, Last
<1>5. /\ Took(n, g, no, eos) /\ granule' = g /\ pageStart' = start
  <2>1. Take(n, g, no, eos)
    BY <1>0, <1>1, Zenon DEF QueuePacket
  <2> QED BY <1>0, <1>2, <2>1, TakeAdds, Zenon DEF QueuePacket
<1>6. /\ Extends(sent', sent) /\ Len(sent') = Len(sent) + 1 /\ sent' # <<>>
      /\ sent' \in Seq(SentPacket)
      /\ sent'[Len(sent')].laces = n /\ sent'[Len(sent')].granule = g
      /\ (eos <=> sent'[Len(sent')].eos)
  BY <1>4, <1>5 DEF Took, Extends
<1>7. PICK k \in Len(before)..(Len(before) + Len(after)) :
         /\ Emit(before \o after, k)
         /\ segs' = IF after # <<>> /\ k = Len(before \o after) THEN <<>> ELSE page
  BY <1>0, Zenon DEF QueuePacket
<1>8. SentRight'
  <2>1. (no <=> sent = <<>>) /\ (Len(sent) < 2 => g = 0 /\ ~eos)
    BY <1>1, <1>4
  <2> QED BY <1>4, <1>5, <2>1, SentGrows
<1>9. /\ before \in Seq(Page) /\ Len(before) \in 0..1
      /\ Overflows(n) => Len(before) = 1 /\ segs # <<>> /\ before = Flushed
      /\ ~Overflows(n) => before = <<>>
  <2>1. Overflows(n) => segs # <<>>
    <3>1. MaxSegs \in Nat
      BY WriterConstants
    <3>2. segs = <<>> => Len(segs) = 0
      OBVIOUS
    <3> QED BY <1>2, <3>1, <3>2 DEF Overflows
  <2>2. segs # <<>> => Len(Flushed) = 1
    BY DEF Flushed, FlushPages
  <2> QED BY <1>2, <2>1, <2>2, FlushedGood
<1>10. /\ base = <<>> \/ base = segs
       /\ Overflows(n) => base = <<>>
       /\ ~Overflows(n) => base = segs
       /\ base \in Seq(Seg) /\ Len(base) + n <= MaxSegs
  <2>1. CASE Overflows(n)
    <3>1. base = <<>> /\ Len(<<>>) = 0
      BY <2>1
    <3> QED BY <1>2, <2>1, <3>1
  <2>2. CASE ~Overflows(n)
    <3>1. base = segs
      BY <2>2
    <3>2. Len(segs) \in Nat /\ MaxSegs \in Nat
      BY <1>2, WriterConstants
    <3>3. Len(segs) + n <= MaxSegs
      BY <1>2, <2>2, <3>2 DEF Overflows
    <3> QED BY <1>2, <2>2, <3>1, <3>3
  <2> QED BY <2>1, <2>2
<1>11. start = IF base = <<>> THEN granule ELSE pageStart
  OBVIOUS
<1> HIDE DEF base, before
<1>12. page \in Seq(Seg) /\ Len(page) <= MaxSegs
  <2>1. /\ oggLacing(Len(sent) + 1, n) \in Seq(Seg)
        /\ Len(oggLacing(Len(sent) + 1, n)) = n
    <3>1. Len(sent) + 1 \in Nat /\ n \in Nat
      BY <1>2, <1>4
    <3> QED BY <3>1, LacingType
  <2> HIDE DEF page
  <2>2. page = base \o oggLacing(Len(sent) + 1, n)
    BY DEF page
  <2>3. page \in Seq(Seg) /\ Len(page) = Len(base) + n
    <3>1. base \in Seq(Seg)
      BY <1>10
    <3>2. \A own \in Seq(Seg) : /\ base \o own \in Seq(Seg)
                                /\ Len(base \o own) = Len(base) + Len(own)
      BY <3>1
    <3> QED BY <2>1, <2>2, <3>2, Zenon
  <2> QED BY <1>10, <2>3
<1>13. page = base \o oggLacing(Len(sent) + 1, n)
  OBVIOUS
<1> HIDE DEF start, page
<1>14. CASE failed
  <2>1. k = 0 /\ failed'
    BY <1>7, <1>14, Zenon DEF Emit
  <2>2. before \o after \in Seq(Page)
    <3>1. after \in Seq(Page)
      <4>1. seq + Len(before) \in Nat
        BY <1>2, <1>9
      <4>2. FlushPages(page, g, eos, seq + Len(before)) \in Seq(Page)
        BY <1>2, <1>12, <4>1, FlushPagesGood DEF GoodPages
      <4> QED BY <4>2
    <3> HIDE DEF after
    <3> QED BY <1>9, <3>1
  <2>3. Emit(before \o after, 0)
    BY <1>7, <2>1, Zenon
  <2>4. out' = out
    BY <1>2, <2>2, <2>3, NothingOut
  <2> QED BY <1>3, <1>6, <1>8, <2>1, <2>4, StuckStays
<1>15. CASE ~failed
  <2>1. /\ PendingRight(page, sent', start) /\ page # <<>>
        /\ page[1].pkt = IF base = <<>> THEN Len(sent) + 1 ELSE segs[1].pkt
    BY <1>4, <1>6, <1>10, <1>11, <1>13, <1>15, QueueRight
  <2>2. /\ PagesRight(before, sent) /\ \A i \in DOMAIN before : ~before[i].eos
        /\ before # <<>> => /\ before[Len(before)].segs = segs
                            /\ before[1].segs[1].pkt = Unwritten
                            /\ segs[Len(segs)].end /\ segs[Len(segs)].pkt = Len(sent)
                            /\ page[1].pkt = Len(sent) + 1
        /\ before = <<>> => page[1].pkt = Unwritten
    <3>1. CASE Overflows(n)
      <4>1. /\ PagesRight(Flushed, sent) /\ Len(Flushed) = 1 /\ Flushed[1].segs = segs
            /\ segs[1].pkt = Unwritten
            /\ segs[Len(segs)].end /\ segs[Len(segs)].pkt = Len(sent)
            /\ \A i \in DOMAIN Flushed : ~Flushed[i].eos
        BY <1>9, <1>15, <3>1, FlushedRight
      <4>2. before = Flushed /\ before # <<>> /\ Len(before) = 1 /\ base = <<>>
        <5>1. before = Flushed /\ Len(before) = 1 /\ base = <<>>
          BY <1>9, <1>10, <3>1, Zenon
        <5> QED BY <5>1
      <4> QED BY <2>1, <4>1, <4>2
    <3>2. CASE ~Overflows(n)
      <4>1. before = <<>> /\ base = segs
        BY <1>9, <1>10, <3>2
      <4>2. PagesRight(<<>>, sent)
        BY DEF PagesRight
      <4> QED BY <2>1, <4>1, <4>2 DEF Unwritten
    <3> QED BY <3>1, <3>2
  <2>3. PagesRight(before, sent')
    BY <1>6, <2>2, PagesStay
  <2> DEFINE shut == eos \/ Spans(g, start)
  <2>4. /\ shut => PagesRight(after, sent') /\ Len(after) = 1 /\ after[1].segs = page
        /\ ~shut => after = <<>>
    <3>1. CASE shut
      <4>1. after = FlushPages(page, g, eos, seq + Len(before))
        BY <3>1, Zenon
      <4>2. PICK number \in Nat : number = seq + Len(before)
        BY <1>2, <1>9
      <4>3. PICK snt \in Seq(SentPacket) : snt = sent'
        BY <1>6, Zenon
      <4>4. ShutInput(page, snt, start, g, eos)
        <5>1. ShutInput(page, sent', start, g, eos)
          BY <1>6, <1>12, <2>1, Zenon DEF ShutInput
        <5> QED BY <4>3, <5>1, Zenon
      <4>5. ShutRight(FlushPages(page, g, eos, number), snt, page)
        BY <4>4, ShutPageRight, Zenon
      <4>6. ShutRight(after, sent', page)
        BY <4>1, <4>2, <4>3, <4>5, Zenon
      <4> QED BY <3>1, <4>6, Zenon DEF ShutRight
    <3>2. CASE ~shut
      BY <3>2, Zenon
    <3> QED BY <3>1, <3>2, Zenon
  <2>5. ~shut => ~eos /\ ~Spans(g, start)
    OBVIOUS
  <2> HIDE DEF shut, after
  <2>6. PagesRight(after, sent') /\ after \in Seq(Page) /\ (after # <<>> <=> shut)
    <3>1. PagesRight(<<>>, sent')
      BY DEF PagesRight
    <3>2. PagesRight(after, sent')
      BY <2>4, <3>1
    <3> QED BY <2>4, <3>2 DEF PagesRight
  <2> DEFINE pages == before \o after
  <2>7. pages \in Seq(Page) /\ Len(pages) = Len(before) + Len(after)
    BY <1>9, <2>6
  <2>8. PagesRight(pages, sent')
    <3>1. before # <<>> /\ after # <<>> =>
            LET last == before[Len(before)].segs[Len(before[Len(before)].segs)]
            IN  /\ last.end /\ after[1].segs[1].pkt = last.pkt + 1
                /\ \A i \in DOMAIN before : ~before[i].eos
      BY <2>2, <2>4, <2>6
    <3> QED BY <2>3, <2>6, <3>1, PagesConcat
  <2>9. pages # <<>> => pages[1].segs[1].pkt = Unwritten
    <3>1. CASE before # <<>>
      <4>1. pages[1] = before[1]
        BY <1>9, <2>6, <3>1
      <4> QED BY <2>2, <3>1, <4>1
    <3>2. CASE before = <<>>
      <4>1. pages = after
        BY <2>6, <3>2
      <4> QED BY <2>2, <2>4, <2>6, <3>2, <4>1
    <3> QED BY <3>1, <3>2
  <2>10. /\ PagesRight(out', sent') /\ (out' # <<>> => out'[1].segs[1].pkt = 1)
         /\ ~failed' => out' = out \o pages
    <3>1. k \in 0..Len(pages) /\ Emit(pages, k)
      BY <1>7, <1>9, <2>7
    <3> HIDE DEF pages
    <3> QED BY <1>4, <1>6, <1>15, <2>8, <2>9, <3>1, EmitRight
  <2>11. ~failed' => (Pending /\ WireEnds)'
    <3> SUFFICES ASSUME ~failed' PROVE Pending' /\ WireEnds'
      OBVIOUS
    <3>1. k = Len(pages) /\ out' = out \o pages
      <4>1. ~(k < Len(before \o after))
        BY <1>7, Zenon DEF Emit
      <4>2. Len(before) \in Nat /\ Len(after) \in Nat
        BY <1>9, <2>6
      <4>3. k = Len(before) + Len(after)
        BY <2>7, <4>1, <4>2
      <4> QED BY <2>7, <2>10, <4>3
    <3>2. CASE shut
      <4>1. segs' = <<>> /\ Unwritten' = Len(sent') + 1
        BY <1>7, <2>6, <3>1, <3>2 DEF Unwritten
      <4>2. out' # <<>> /\ out'[Len(out')].segs = page
        <5>1. Len(after) = 1 /\ after[1].segs = page
          BY <2>4, <3>2
        <5>2. Len(pages) = Len(before) + 1 /\ pages[Len(before) + 1] = after[1]
          BY <1>9, <2>6, <2>7, <5>1
        <5>3. Len(out') = Len(out) + Len(pages) /\ out'[Len(out) + Len(pages)] = pages[Len(pages)]
          BY <1>2, <1>9, <2>7, <3>1, <5>2
        <5>4. Len(out') > 0 /\ out'[Len(out')] = after[1]
          BY <1>2, <1>9, <5>2, <5>3
        <5> QED BY <5>1, <5>4
      <4>3. page[Len(page)].end /\ page[Len(page)].pkt = Len(sent')
        BY <2>1 DEF PendingRight
      <4> QED BY <4>1, <4>2, <4>3 DEF Pending, WireEnds
    <3>3. CASE ~shut
      <4>1. segs' = page /\ Unwritten' = page[1].pkt
        BY <1>7, <2>1, <2>6, <3>3 DEF Unwritten
      <4>2. ~sent'[Len(sent')].eos /\ pageStart' = start
        BY <1>5, <1>6, <2>5, <3>3
      <4>3. SpannedIn(sent', page[1].pkt - 1, Len(sent')) < maxSpan
        <5>1. start = sent'[page[1].pkt - 1].granule
          BY <2>1 DEF PendingRight
        <5>2. ~((g + GranuleMod - start) % GranuleMod >= maxSpan)
          BY <2>5, <3>3 DEF Spans
        <5>3. (g + GranuleMod - start) % GranuleMod \in Int /\ maxSpan \in Int
          <6>1. start \in Int /\ g \in Int /\ GranuleMod \in Nat \ {0}
            BY <1>2, <1>5, <1>3, WriterConstants DEF IInv, TypeOK, Granule
          <6> QED BY <6>1, WriterConstants DEF maxSpan
        <5>4. (g + GranuleMod - start) % GranuleMod < maxSpan
          BY <5>2, <5>3
        <5> QED BY <1>6, <5>1, <5>4 DEF SpannedIn
      <4>4. Pending'
        BY <2>1, <4>1, <4>2, <4>3 DEF Pending
      <4>5. WireEnds'
        <5>1. pages = before
          BY <1>9, <2>6, <3>3
        <5>2. CASE before = <<>>
          <6>1. out' = out
            BY <1>2, <3>1, <5>1, <5>2
          <6>2. out # <<>>
            BY <1>4, <1>15 DEF HInv, WireEnds
          <6>3. Unwritten' = Unwritten
            BY <2>2, <4>1, <5>2
          <6>4. LET last == out[Len(out)].segs[Len(out[Len(out)].segs)]
                IN  last.end /\ last.pkt + 1 = Unwritten
            BY <1>15, <6>2 DEF HInv, WireEnds
          <6> QED BY <6>1, <6>2, <6>3, <6>4 DEF WireEnds
        <5>3. CASE before # <<>>
          <6>1. Len(before) = 1
            BY <1>9, <5>3
          <6>2. out' # <<>> /\ out'[Len(out')] = before[Len(before)]
            <7>1. Len(out \o before) = Len(out) + 1 /\ (out \o before)[Len(out) + 1] = before[1]
              <8>1. /\ Len(out \o before) = Len(out) + Len(before)
                    /\ \A i \in 1..Len(before) : (out \o before)[Len(out) + i] = before[i]
                BY <1>2, <1>9
              <8> QED BY <6>1, <8>1
            <7>2. Len(out) \in Nat
              BY <1>2
            <7> QED BY <3>1, <5>1, <6>1, <7>1, <7>2
          <6> QED BY <2>2, <4>1, <5>3, <6>2 DEF WireEnds
        <5> QED BY <5>2, <5>3
      <4> QED BY <4>4, <4>5
    <3> QED BY <3>2, <3>3
  <2> QED BY <1>3, <1>8, <2>10, <2>11 DEF HInv
<1> QED BY <1>14, <1>15

LEMMA HInvInit == Init => HInv
<1> SUFFICES ASSUME Init PROVE HInv
  OBVIOUS
<1>1. IInv
  BY IInvInit
<1>2. segs = <<>> /\ granule = 0 /\ out = <<>> /\ sent = <<>>
  BY DEF Init
<1>3. SentRight
  BY <1>2 DEF SentRight
<1>4. PagesRight(out, sent)
  BY <1>2 DEF PagesRight
<1>5. Pending /\ WireEnds
  BY <1>2 DEF Pending, WireEnds
<1> QED BY <1>1, <1>2, <1>3, <1>4, <1>5 DEF HInv

LEMMA HInvStep == HInv /\ [Next]_writerVars => HInv'
<1> SUFFICES ASSUME HInv, [Next]_writerVars PROVE HInv'
  OBVIOUS
<1>1. CASE FlushPage
  BY <1>1, HFlushStep
<1>2. ASSUME NEW n \in Laces, WriteHeaderPacket(n) PROVE HInv'
  BY <1>2, HHeaderStep
<1>3. ASSUME NEW n \in Laces, RefusePacket(n) PROVE HInv'
  BY <1>3, HRefuseStep
<1>4. ASSUME NEW n \in Laces, NEW g \in Granules, NEW eos \in BOOLEAN,
             WriteSpanning(n, g, eos)
      PROVE  HInv'
  BY <1>4, HSpanningStep
<1>5. ASSUME NEW n \in Laces, NEW g \in Granules, NEW eos \in BOOLEAN,
             QueuePacket(n, g, eos)
      PROVE  HInv'
  BY <1>5, HQueueStep
<1>6. CASE UNCHANGED writerVars
  <2>1. IInv'
    BY <1>6, IInvStep DEF HInv
  <2>2. /\ segs' = segs /\ granule' = granule /\ pageStart' = pageStart /\ seq' = seq
        /\ out' = out /\ failed' = failed /\ sent' = sent
    BY <1>6 DEF writerVars
  <2> QED BY <2>1, <2>2 DEF HInv, SentRight, Pending, WireEnds, Unwritten
<1> QED BY <1>1, <1>2, <1>3, <1>4, <1>5, <1>6 DEF Next

LEMMA Headers == HInv => PageHeadersRight
<1> SUFFICES ASSUME HInv PROVE PageHeadersRight
  OBVIOUS
<1>1. ASSUME NEW i \in DOMAIN out
      PROVE  /\ PageRight(out[i], sent) /\ (out[i].eos => i = Len(out))
             /\ i > 1 => Joined(out[i - 1], out[i])
             /\ i = 1 => ~out[i].cont
             /\ out[i].segs \in Seq(Seg) /\ Len(out[i].segs) \in DOMAIN out[i].segs
             /\ i \in Nat /\ i >= 1
  <2>1. PageRight(out[i], sent) /\ out \in Seq(Page)
    BY DEF HInv, PagesRight
  <2>2. out[i].segs \in Seq(Seg) /\ Len(out[i].segs) \in 1..MaxSegs
    BY <2>1 DEF PageRight, RunRight
  <2>3. Len(out[i].segs) \in DOMAIN out[i].segs
    BY <2>2, WriterConstants
  <2>4. out # <<>> /\ i \in Nat /\ i >= 1
    BY <2>1
  <2> QED BY <2>1, <2>2, <2>3, <2>4 DEF HInv, PagesRight
<1>2. GranuleOfLastPacket
  <2> SUFFICES ASSUME NEW i \in DOMAIN out
               PROVE  out[i].granule = IF Completed(out[i]) = {} THEN NoGranule
                                       ELSE sent[LastCompleted(out[i])].granule
    BY DEF GranuleOfLastPacket
  <2> DEFINE x == out[i].segs
  <2>1. x \in Seq(Seg) /\ Len(x) \in DOMAIN x
    BY <1>1
  <2>2. CASE x[Len(x)].end
    <3>1. Len(x) \in Completed(out[i]) /\ \A j \in Completed(out[i]) : j <= Len(x) /\ j \in Nat
      BY <2>1, <2>2 DEF Completed
    <3>2. PICK j \in Completed(out[i]) : /\ j = CHOOSE m \in Completed(out[i]) :
                                                  \A l \in Completed(out[i]) : l <= m
                                         /\ \A l \in Completed(out[i]) : l <= j
      BY <3>1, Zenon
    <3>3. j = Len(x)
      BY <2>1, <3>1, <3>2
    <3>4. LastCompleted(out[i]) = x[Len(x)].pkt
      BY <3>2, <3>3, Zenon DEF LastCompleted
    <3> QED BY <1>1, <2>2, <3>1, <3>4 DEF PageRight
  <2>3. CASE ~x[Len(x)].end
    <3>1. Completed(out[i]) = {}
      BY <1>1, <2>3 DEF PageRight, Completed
    <3> QED BY <1>1, <2>3, <3>1 DEF PageRight
  <2> QED BY <2>2, <2>3
<1>3. ContinuedExactly
  <2> SUFFICES ASSUME NEW i \in DOMAIN out
               PROVE  out[i].cont <=> i > 1 /\ ~ Last(out[i - 1].segs).end
    BY DEF ContinuedExactly
  <2>1. CASE i = 1
    BY <1>1, <2>1
  <2>2. CASE i > 1
    BY <1>1, <2>2 DEF Joined, Last
  <2> QED BY <1>1, <2>1, <2>2
<1>4. EosOnLastPage
  <2> SUFFICES ASSUME NEW i \in DOMAIN out
               PROVE  /\ out[i].eos <=> LET s == Last(out[i].segs)
                                        IN  s.end /\ sent[s.pkt].eos
                      /\ out[i].eos => i = Len(out)
    BY DEF EosOnLastPage
  <2> QED BY <1>1 DEF PageRight, Last
<1> QED BY <1>2, <1>3, <1>4 DEF PageHeadersRight

LEMMA SpanHeld == HInv => SpanBounded
<1> SUFFICES ASSUME HInv PROVE SpanBounded
  OBVIOUS
<1>1. ~failed /\ segs # <<>> => Spanned(segs[1].pkt - 1, Last(segs).pkt) < maxSpan
  BY DEF HInv, Pending, PendingRight, Spanned, SpannedIn, Last
<1>2. ASSUME NEW i \in DOMAIN out
      PROVE  LET first == out[i].segs[1].pkt
                 last  == Last(out[i].segs).pkt
             IN  last > first => Spanned(first - 1, last - 1) < maxSpan
  BY DEF HInv, PagesRight, PageRight, Spanned, SpannedIn, Last
<1> QED BY <1>1, <1>2 DEF SpanBounded

(* Whichever call closed a page, and however many pages a packet was cut   *)
(* into, the header flushPage or WritePacket gave it is true: its granule  *)
(* position is that of the last packet it ends or -1, the continued flag   *)
(* says that the page before broke off inside a packet, and the eos flag   *)
(* is on the page that ends the stream and on no other.                    *)
THEOREM WriterHeadersRight == Spec => []PageHeadersRight
<1>1. Spec => []HInv
  BY HInvInit, HInvStep, PTL DEF Spec
<1> QED BY <1>1, Headers, PTL

(* MaxPageGranules is kept, modulo 2^64: no page spans that much up to its *)
(* last packet but one, and the pending page never does.                   *)
THEOREM WriterSpanBounded == Spec => []SpanBounded
<1>1. Spec => []HInv
  BY HInvInit, HInvStep, PTL DEF Spec
<1> QED BY <1>1, SpanHeld, PTL

-----------------------------------------------------------------------------
(* Runs that follow one another make one run.                              *)
LEMMA ConcatEnds ==
    ASSUME NEW x \in Seq(Seg), NEW y \in Seq(Seg), y # <<>>
    PROVE  /\ x \o y \in Seq(Seg) /\ Len(x \o y) = Len(x) + Len(y) /\ x \o y # <<>>
           /\ x # <<>> => (x \o y)[1] = x[1]
           /\ x = <<>> => x \o y = y
           /\ (x \o y)[Len(x \o y)] = y[Len(y)]
<1> DEFINE z == x \o y
<1>1. /\ z \in Seq(Seg) /\ Len(z) = Len(x) + Len(y)
      /\ \A j \in 1..Len(x) : z[j] = x[j]
      /\ \A j \in 1..Len(y) : z[Len(x) + j] = y[j]
      /\ x = <<>> => z = y
  OBVIOUS
<1> HIDE DEF z
<1>2. Len(y) \in 1..Len(y) /\ Len(x) \in Nat /\ Len(z) > 0
  BY <1>1
<1>3. x # <<>> => 1 \in 1..Len(x)
  OBVIOUS
<1> QED BY <1>1, <1>2, <1>3 DEF z

LEMMA FlattenRun ==
    ASSUME NEW snt, NEW ss \in Seq(Seq(Seg)), ss # <<>>,
           \A i \in DOMAIN ss : ss[i] # <<>> /\ RunRight(ss[i], snt),
           \A i \in DOMAIN ss : i > 1 => Follows(ss[i - 1][Len(ss[i - 1])], ss[i][1])
    PROVE  LET x == FlattenSeq(ss)
           IN  /\ RunRight(x, snt) /\ x # <<>> /\ x[1] = ss[1][1]
               /\ x[Len(x)] = ss[Len(ss)][Len(ss[Len(ss)])]
<1>1. PICK f : Building(f, ss, Seg)
  BY FlattenBuilding
<1>2. /\ f[0] = <<>> /\ FlattenSeq(ss) = f[Len(ss)]
      /\ \A n \in 1..Len(ss) : f[n] = f[n - 1] \o ss[n]
      /\ \A n \in 0..Len(ss) : f[n] \in Seq(Seg)
  BY <1>1 DEF Building
<1> DEFINE Good(n) == /\ RunRight(f[n], snt) /\ f[n] # <<>> /\ f[n][1] = ss[1][1]
                      /\ f[n][Len(f[n])] = ss[n][Len(ss[n])]
           T == {n \in Nat : n \in 1..Len(ss) => Good(n)}
<1>3. 0 \in T
  OBVIOUS
<1>4. ASSUME NEW n \in Nat, n \in T PROVE n + 1 \in T
  <2> SUFFICES ASSUME n + 1 \in 1..Len(ss) PROVE Good(n + 1)
    OBVIOUS
  <2>1. (n + 1) - 1 = n /\ Len(ss) \in Nat /\ n + 1 \in DOMAIN ss /\ n \in 0..Len(ss)
    OBVIOUS
  <2> DEFINE x == f[n]
             y == ss[n + 1]
             z == x \o y
  <2>2. f[n + 1] = z
    BY <1>2, <2>1
  <2>3. x \in Seq(Seg) /\ y \in Seq(Seg) /\ y # <<>> /\ RunRight(y, snt)
    BY <1>2, <2>1
  <2>4. /\ z # <<>> /\ z[Len(z)] = y[Len(y)]
        /\ x # <<>> => z[1] = x[1]
        /\ x = <<>> => z = y
    BY <2>3, ConcatEnds
  <2> HIDE DEF z
  <2>6. CASE n = 0
    <3>1. x = <<>> /\ z = y
      BY <1>2, <2>4, <2>6
    <3> QED BY <2>2, <2>3, <2>4, <2>6, <3>1
  <2>7. CASE n # 0
    <3>1. n \in 1..Len(ss) /\ n + 1 > 1
      BY <2>1, <2>7
    <3>2. Good(n)
      BY <1>4, <3>1
    <3>3. x # <<>> /\ RunRight(x, snt) /\ Follows(x[Len(x)], y[1])
      BY <2>1, <3>1, <3>2
    <3>4. RunRight(z, snt)
      BY <2>3, <3>3, RunConcat DEF z
    <3>5. z[1] = ss[1][1]
      BY <2>4, <3>2, <3>3
    <3> QED BY <2>2, <2>4, <3>4, <3>5
  <2> QED BY <2>6, <2>7
<1> HIDE DEF T
<1>5. \A n \in Nat : n \in T
  BY <1>3, <1>4, SetInduction
<1>6. Len(ss) \in 1..Len(ss)
  OBVIOUS
<1>7. Good(Len(ss))
  <2>1. Len(ss) \in Nat
    OBVIOUS
  <2>2. Len(ss) \in T
    BY <1>5, <2>1
  <2> HIDE DEF Good
  <2> QED BY <1>6, <2>2 DEF T
<1> QED BY <1>2, <1>7

(* A run is determined by its first lacing value.                          *)
LEMMA RunDetermined ==
    ASSUME NEW snt, NEW x, NEW y, RunRight(x, snt), RunRight(y, snt),
           x # <<>>, y # <<>>, x[1].pkt = y[1].pkt, x[1].k = y[1].k,
           Len(x) <= Len(y)
    PROVE  \A j \in 1..Len(x) : x[j] = y[j]
<1>1. x \in Seq(Seg) /\ y \in Seq(Seg) /\ Len(x) \in Nat /\ Len(y) \in Nat
  BY DEF RunRight
<1>2. ASSUME NEW j \in 1..Len(x), x[j].pkt = y[j].pkt, x[j].k = y[j].k
      PROVE  x[j] = y[j]
  <2>1. SegRight(x[j], snt) /\ SegRight(y[j], snt) /\ x[j] \in Seg /\ y[j] \in Seg
    BY <1>1 DEF RunRight
  <2>2. x[j].end = y[j].end
    BY <1>2, <2>1, Zenon DEF SegRight, Seg
  <2>3. \A s \in Seg : s = [pkt |-> s.pkt, k |-> s.k, end |-> s.end]
    BY DEF Seg
  <2> QED BY <1>2, <2>1, <2>2, <2>3, Zenon
<1> DEFINE T == {n \in Nat : n + 1 \in 1..Len(x) => x[n + 1] = y[n + 1]}
<1>3. 0 \in T
  <2>1. 1 \in 1..Len(x)
    BY <1>1
  <2>2. x[1] = y[1]
    BY <1>2, <2>1
  <2> QED BY <2>2
<1>4. ASSUME NEW n \in Nat, n \in T PROVE n + 1 \in T
  <2> SUFFICES ASSUME (n + 1) + 1 \in 1..Len(x) PROVE x[(n + 1) + 1] = y[(n + 1) + 1]
    OBVIOUS
  <2>1. /\ n + 1 \in 1..Len(x) /\ (n + 1) + 1 > 1 /\ ((n + 1) + 1) - 1 = n + 1
        /\ (n + 1) + 1 \in DOMAIN x /\ (n + 1) + 1 \in DOMAIN y
    BY <1>1
  <2>2. x[n + 1] = y[n + 1]
    BY <1>4, <2>1
  <2>3. Follows(x[n + 1], x[(n + 1) + 1]) /\ Follows(x[n + 1], y[(n + 1) + 1])
    BY <2>1, <2>2 DEF RunRight
  <2>4. /\ x[(n + 1) + 1].pkt = y[(n + 1) + 1].pkt
        /\ x[(n + 1) + 1].k = y[(n + 1) + 1].k
    BY <2>3 DEF Follows
  <2> QED BY <1>2, <2>4
<1> HIDE DEF T
<1>5. \A n \in Nat : n \in T
  BY <1>3, <1>4, SetInduction
<1>6. ASSUME NEW j \in 1..Len(x) PROVE x[j] = y[j]
  <2>1. j - 1 \in Nat /\ (j - 1) + 1 = j
    BY <1>1
  <2> QED BY <1>5, <2>1 DEF T
<1> QED BY <1>6

(* No run goes beyond one that ends the last packet.                       *)
LEMMA RunWithin ==
    ASSUME NEW snt \in Seq(SentPacket), NEW x, NEW y, RunRight(x, snt), RunRight(y, snt),
           x # <<>>, y # <<>>, x[1].pkt = y[1].pkt, x[1].k = y[1].k,
           y[Len(y)].end, y[Len(y)].pkt = Len(snt)
    PROVE  Len(x) <= Len(y)
<1> SUFFICES ASSUME ~(Len(x) <= Len(y)) PROVE FALSE
  OBVIOUS
<1>1. x \in Seq(Seg) /\ y \in Seq(Seg) /\ Len(x) \in Nat /\ Len(y) \in Nat
  BY DEF RunRight
<1>2. /\ Len(y) <= Len(x) /\ Len(y) \in 1..Len(y) /\ Len(y) + 1 \in DOMAIN x
      /\ Len(y) + 1 > 1 /\ (Len(y) + 1) - 1 = Len(y)
  BY <1>1
<1>3. x[Len(y)] = y[Len(y)]
  BY <1>2, RunDetermined
<1>4. Follows(y[Len(y)], x[Len(y) + 1]) /\ SegRight(x[Len(y) + 1], snt)
  BY <1>2, <1>3 DEF RunRight
<1> QED BY <1>4 DEF Follows, SegRight

(* What the writer was to write: a run of all the packets.                 *)
LEMMA StreamRun ==
    ASSUME HInv
    PROVE  /\ sent = <<>> => Stream = <<>>
           /\ sent # <<>> => /\ RunRight(Stream, sent) /\ Stream # <<>>
                             /\ Stream[1].pkt = 1 /\ Stream[1].k = 1
                             /\ Stream[Len(Stream)].end
                             /\ Stream[Len(Stream)].pkt = Len(sent)
<1> DEFINE ss == [p \in DOMAIN sent |-> oggLacing(p, sent[p].laces)]
<1>1. sent \in Seq(SentPacket) /\ Stream = FlattenSeq(ss)
  BY DEF HInv, IInv, TypeOK, Stream
<1>2. ASSUME NEW p \in 1..Len(sent)
      PROVE  /\ ss[p] \in Seq(Seg) /\ ss[p] # <<>> /\ RunRight(ss[p], sent)
             /\ ss[p][1].pkt = p /\ ss[p][1].k = 1
             /\ ss[p][Len(ss[p])].end /\ ss[p][Len(ss[p])].pkt = p
  <2> DEFINE n == sent[p].laces
  <2>1. ss[p] = oggLacing(p, n)
    BY <1>1
  <2>2. LET x == oggLacing(p, n)
        IN  /\ RunRight(x, sent) /\ Len(x) = n /\ n \in Nat \ {0}
            /\ \A j \in 1..n : x[j].pkt = p /\ x[j].k = j /\ (x[j].end <=> j = n)
    BY <1>1, LacingAt
  <2> HIDE DEF ss, n
  <2>3. 1 \in 1..n /\ n \in 1..n /\ Len(ss[p]) = n /\ RunRight(ss[p], sent)
    BY <2>1, <2>2
  <2>4. ss[p] \in Seq(Seg) /\ ss[p] # <<>>
    BY <2>3 DEF RunRight
  <2> QED BY <2>1, <2>2, <2>3, <2>4
<1>3. DOMAIN ss = 1..Len(sent) /\ Len(sent) \in Nat
  BY <1>1
<1>4. CASE sent = <<>>
  <2>1. ss = <<>>
    BY <1>4
  <2> QED BY <1>1, <1>4, <2>1, FlattenEmpty, Zenon
<1>5. CASE sent # <<>>
  <2>0. ss = [p \in 1..Len(sent) |-> ss[p]]
    BY <1>1
  <2> HIDE DEF ss
  <2>1. ss \in Seq(Seq(Seg)) /\ Len(ss) = Len(sent) /\ ss # <<>>
    <3>1. ss \in [1..Len(sent) -> Seq(Seg)]
      BY <1>2, <2>0
    <3>2. ss \in Seq(Seq(Seg))
      BY <1>3, <3>1
    <3>3. Len(ss) = Len(sent)
      BY <1>3, <3>2
    <3>4. Len(sent) # 0
      BY <1>1, <1>5
    <3> QED BY <3>2, <3>3, <3>4
  <2>2. \A i \in DOMAIN ss : ss[i] # <<>> /\ RunRight(ss[i], sent)
    BY <1>2, <1>3
  <2>3. ASSUME NEW i \in DOMAIN ss, i > 1
        PROVE  Follows(ss[i - 1][Len(ss[i - 1])], ss[i][1])
    <3>1. i \in 1..Len(sent) /\ i - 1 \in 1..Len(sent) /\ (i - 1) + 1 = i
      BY <1>3, <2>3
    <3> QED BY <1>2, <3>1 DEF Follows
  <2>4. LET x == FlattenSeq(ss)
        IN  /\ RunRight(x, sent) /\ x # <<>> /\ x[1] = ss[1][1]
            /\ x[Len(x)] = ss[Len(ss)][Len(ss[Len(ss)])]
    BY <2>1, <2>2, <2>3, FlattenRun
  <2>5. 1 \in 1..Len(sent) /\ Len(sent) \in 1..Len(sent)
    BY <1>1, <1>5
  <2> QED BY <1>1, <1>2, <1>5, <2>1, <2>4, <2>5
<1> QED BY <1>4, <1>5

(* What it has written: a run from the first packet on.                    *)
LEMMA WireRun ==
    ASSUME HInv
    PROVE  /\ out = <<>> => Wire = <<>>
           /\ out # <<>> => /\ RunRight(Wire, sent) /\ Wire # <<>>
                            /\ Wire[1].pkt = 1 /\ Wire[1].k = 1
                            /\ Wire[Len(Wire)] = out[Len(out)].segs[Len(out[Len(out)].segs)]
<1> DEFINE ss == [i \in DOMAIN out |-> out[i].segs]
<1>1. out \in Seq(Page) /\ Wire = FlattenSeq(ss) /\ PagesRight(out, sent)
  BY DEF HInv, PagesRight, Wire
<1>2. ASSUME NEW i \in 1..Len(out)
      PROVE  /\ ss[i] = out[i].segs /\ ss[i] \in Seq(Seg) /\ ss[i] # <<>>
             /\ RunRight(ss[i], sent)
  <2>1. ss[i] = out[i].segs
    BY <1>1
  <2> HIDE DEF ss
  <2>2. RunRight(ss[i], sent) /\ Len(ss[i]) \in 1..MaxSegs
    BY <1>1, <2>1 DEF PagesRight, PageRight
  <2> QED BY <2>1, <2>2 DEF RunRight
<1>3. DOMAIN ss = 1..Len(out) /\ Len(out) \in Nat
  BY <1>1
<1>4. CASE out = <<>>
  <2>1. ss = <<>>
    BY <1>4
  <2> QED BY <1>1, <1>4, <2>1, FlattenEmpty, Zenon
<1>5. CASE out # <<>>
  <2>0. ss = [i \in 1..Len(out) |-> ss[i]]
    BY <1>1
  <2> HIDE DEF ss
  <2>1. ss \in Seq(Seq(Seg)) /\ Len(ss) = Len(out) /\ ss # <<>>
    <3>1. ss \in [1..Len(out) -> Seq(Seg)]
      BY <1>2, <2>0
    <3>2. ss \in Seq(Seq(Seg))
      BY <1>3, <3>1
    <3>3. Len(ss) = Len(out)
      BY <1>3, <3>2
    <3>4. Len(out) # 0
      BY <1>1, <1>5
    <3> QED BY <3>2, <3>3, <3>4
  <2>2. \A i \in DOMAIN ss : ss[i] # <<>> /\ RunRight(ss[i], sent)
    BY <1>2, <1>3
  <2>3. ASSUME NEW i \in DOMAIN ss, i > 1
        PROVE  Follows(ss[i - 1][Len(ss[i - 1])], ss[i][1])
    <3>1. i \in 1..Len(out) /\ i - 1 \in 1..Len(out) /\ i \in DOMAIN out
      BY <1>1, <1>3, <2>3
    <3>2. Joined(out[i - 1], out[i])
      BY <1>1, <2>3, <3>1 DEF PagesRight
    <3> QED BY <1>2, <3>1, <3>2 DEF Joined
  <2>4. LET x == FlattenSeq(ss)
        IN  /\ RunRight(x, sent) /\ x # <<>> /\ x[1] = ss[1][1]
            /\ x[Len(x)] = ss[Len(ss)][Len(ss[Len(ss)])]
    BY <2>1, <2>2, <2>3, FlattenRun
  <2>5. 1 \in 1..Len(out) /\ Len(out) \in 1..Len(out)
    BY <1>1, <1>5
  <2>6. out[1].segs[1].pkt = 1 /\ out[1].segs[1].k = 1
    BY <1>1, <1>5 DEF HInv, PagesRight
  <2> QED BY <1>1, <1>2, <1>5, <2>1, <2>4, <2>5, <2>6
<1> QED BY <1>4, <1>5

LEMMA NothingSent ==
    ASSUME HInv, sent = <<>>
    PROVE  out = <<>> /\ (~failed => segs = <<>>)
<1>1. out = <<>>
  <2> SUFFICES ASSUME out # <<>> PROVE FALSE
    OBVIOUS
  <2>1. out \in Seq(Page) /\ PagesRight(out, sent)
    BY DEF HInv, PagesRight
  <2>2. PageRight(out[1], sent)
    BY <2>1 DEF PagesRight
  <2>3. 1 \in DOMAIN out[1].segs /\ RunRight(out[1].segs, sent)
    BY <2>2, WriterConstants DEF PageRight, RunRight
  <2>4. SegRight(out[1].segs[1], sent)
    BY <2>3 DEF RunRight
  <2> QED BY <2>4 DEF SegRight
<1>2. ~failed => segs = <<>>
  <2> SUFFICES ASSUME ~failed, segs # <<>> PROVE FALSE
    OBVIOUS
  <2>1. RunRight(segs, sent) /\ segs \in Seq(Seg)
    BY DEF HInv, Pending, PendingRight, RunRight
  <2>2. SegRight(segs[1], sent)
    BY <2>1 DEF RunRight
  <2> QED BY <2>2 DEF SegRight
<1> QED BY <1>1, <1>2

(* A run from the first packet on is a prefix of the stream.               *)
LEMMA RunIsPrefix ==
    ASSUME HInv, sent # <<>>, NEW x, RunRight(x, sent), x # <<>>,
           x[1].pkt = 1, x[1].k = 1
    PROVE  /\ Len(x) <= Len(Stream) /\ x \in Seq(Seg) /\ Stream \in Seq(Seg)
           /\ \A j \in 1..Len(x) : x[j] = Stream[j]
<1>1. /\ RunRight(Stream, sent) /\ Stream # <<>>
      /\ Stream[1].pkt = 1 /\ Stream[1].k = 1
      /\ Stream[Len(Stream)].end /\ Stream[Len(Stream)].pkt = Len(sent)
  BY StreamRun
<1>2. sent \in Seq(SentPacket)
  BY DEF HInv, IInv, TypeOK
<1>3. Len(x) <= Len(Stream)
  BY <1>1, <1>2, RunWithin
<1>4. \A j \in 1..Len(x) : x[j] = Stream[j]
  BY <1>1, <1>3, RunDetermined
<1> QED BY <1>1, <1>3, <1>4 DEF RunRight

LEMMA Integrity == HInv => StreamIntegrity
<1> SUFFICES ASSUME HInv PROVE StreamIntegrity
  OBVIOUS
<1>1. sent \in Seq(SentPacket)
  BY DEF HInv, IInv, TypeOK
<1>2. CASE failed
  <2> SUFFICES IsPrefix(Wire, Stream)
    BY <1>2 DEF StreamIntegrity
  <2>1. CASE out = <<>>
    <3>1. Wire = <<>>
      BY <2>1, WireRun
    <3>2. Stream \in Seq(Seg)
      <4>1. CASE sent = <<>>
        <5>1. Stream = <<>>
          BY <4>1, StreamRun
        <5> QED BY <5>1
      <4>2. CASE sent # <<>>
        BY <4>2, StreamRun DEF RunRight
      <4> QED BY <4>1, <4>2
    <3> HIDE DEF Wire, Stream
    <3> QED BY <3>1, <3>2 DEF IsPrefix
  <2>2. CASE out # <<>>
    <3>1. sent # <<>>
      BY <2>2, NothingSent
    <3>2. RunRight(Wire, sent) /\ Wire # <<>> /\ Wire[1].pkt = 1 /\ Wire[1].k = 1
      BY <2>2, WireRun
    <3>3. /\ Len(Wire) <= Len(Stream) /\ Wire \in Seq(Seg) /\ Stream \in Seq(Seg)
          /\ \A j \in 1..Len(Wire) : Wire[j] = Stream[j]
      BY <3>1, <3>2, RunIsPrefix
    <3> QED BY <3>3 DEF IsPrefix
  <2> QED BY <2>1, <2>2
<1>3. CASE ~failed
  <2> SUFFICES Wire \o segs = Stream
    BY <1>3 DEF StreamIntegrity
  <2>1. CASE sent = <<>>
    <3>1. Wire = <<>> /\ segs = <<>> /\ Stream = <<>>
      BY <1>3, <2>1, NothingSent, WireRun, StreamRun
    <3> QED BY <3>1
  <2>2. CASE sent # <<>>
    <3> DEFINE x == Wire \o segs
               last == out[Len(out)].segs[Len(out[Len(out)].segs)]
    <3>1. out # <<>> /\ last.end /\ last.pkt + 1 = Unwritten
      BY <1>3, <2>2 DEF HInv, WireEnds
    <3>2. /\ RunRight(Wire, sent) /\ Wire # <<>> /\ Wire[1].pkt = 1 /\ Wire[1].k = 1
          /\ Wire[Len(Wire)] = last
      BY <3>1, WireRun
    <3> HIDE DEF last
    <3>3. Wire \in Seq(Seg) /\ SegRight(last, sent)
      <4>1. Wire \in Seq(Seg)
        BY <3>2 DEF RunRight
      <4>2. Len(Wire) \in DOMAIN Wire
        BY <3>2, <4>1
      <4> QED BY <3>2, <4>1, <4>2 DEF RunRight
    <3>4. /\ RunRight(x, sent) /\ x # <<>> /\ x[1].pkt = 1 /\ x[1].k = 1
          /\ x[Len(x)].end /\ x[Len(x)].pkt = Len(sent)
      <4>1. CASE segs = <<>>
        <5>1. x = Wire
          BY <3>3, <4>1
        <5>2. last.pkt = Len(sent)
          <6>1. last.pkt + 1 = Len(sent) + 1
            BY <3>1, <4>1 DEF Unwritten
          <6>2. last.pkt \in Nat /\ Len(sent) \in Nat
            BY <1>1, <3>3 DEF SegRight
          <6> QED BY <6>1, <6>2
        <5> HIDE DEF x
        <5> QED BY <3>1, <3>2, <5>1, <5>2
      <4>2. CASE segs # <<>>
        <5>1. /\ RunRight(segs, sent) /\ segs \in Seq(Seg) /\ segs[1].k = 1
              /\ segs[Len(segs)].end /\ segs[Len(segs)].pkt = Len(sent)
          BY <1>3, <4>2 DEF HInv, Pending, PendingRight, RunRight
        <5>2. Follows(Wire[Len(Wire)], segs[1])
          BY <3>1, <3>2, <4>2, <5>1 DEF Follows, Unwritten
        <5>3. RunRight(x, sent)
          BY <3>2, <5>1, <5>2, RunConcat
        <5>4. x # <<>> /\ x[1] = Wire[1] /\ x[Len(x)] = segs[Len(segs)]
          BY <3>2, <3>3, <4>2, <5>1, ConcatEnds
        <5> HIDE DEF x
        <5> QED BY <3>2, <5>1, <5>3, <5>4
      <4> QED BY <4>1, <4>2
    <3> HIDE DEF x
    <3>5. /\ Len(x) <= Len(Stream) /\ x \in Seq(Seg) /\ Stream \in Seq(Seg)
          /\ \A j \in 1..Len(x) : x[j] = Stream[j]
      BY <2>2, <3>4, RunIsPrefix
    <3>6. Len(Stream) <= Len(x)
      BY <1>1, <2>2, <3>4, StreamRun, RunWithin
    <3>7. x = Stream
      <4>1. Len(x) = Len(Stream)
        BY <3>5, <3>6
      <4> QED BY <3>5, <4>1
    <3> QED BY <3>7 DEF x
  <2> QED BY <2>1, <2>2
<1> QED BY <1>2, <1>3

(* Nothing is lost, repeated or reordered on the way through the pending   *)
(* page: without an error the pages and the pending page hold exactly what *)
(* was handed to the writer; after one, what was written is a prefix of    *)
(* it.  Every lacing value is its predecessor's successor, so the written  *)
(* run can only be the stream.                                             *)
THEOREM WriterIntegrity == Spec => []StreamIntegrity
<1>1. Spec => []HInv
  BY HInvInit, HInvStep, PTL DEF Spec
<1> QED BY <1>1, Integrity, PTL

-----------------------------------------------------------------------------
(* What was written and what was sent are only ever added to.              *)
Grown == Len(out) <= Len(out') /\ \A i \in 1..Len(out) : out'[i] = out[i]
SentNow(snt2, snt) ==
    snt2 = snt \/ \E p \in [laces: Laces, granule: Granules \cup {0},
                            bos: BOOLEAN, eos: BOOLEAN] : snt2 = Append(snt, p)

LEMMA EmitGrows ==
    ASSUME out \in Seq(Page), NEW pages, GoodPages(pages, seq),
           NEW k \in 0..Len(pages), Emit(pages, k)
    PROVE  Grown
<1>1. SubSeq(pages, 1, k) \in Seq(Page)
  BY PrefixGood DEF GoodPages
<1> DEFINE x == SubSeq(pages, 1, k)
<1>2. out' = out \o x
  BY DEF Emit
<1> HIDE DEF x
<1>3. /\ Len(out \o x) = Len(out) + Len(x) /\ Len(out) \in Nat /\ Len(x) \in Nat
      /\ \A i \in 1..Len(out) : (out \o x)[i] = out[i]
  BY <1>1 DEF x
<1> QED BY <1>2, <1>3 DEF Grown

LEMMA TakeGrows ==
    ASSUME NEW n \in Laces, NEW g \in Granules \cup {0}, NEW bos \in BOOLEAN,
           NEW eos \in BOOLEAN, Take(n, g, bos, eos)
    PROVE  SentNow(sent', sent)
  BY DEF Take, SentNow

LEMMA QueueGrows ==
    ASSUME IInv, NEW n \in Laces, NEW g \in Granules, NEW eos \in BOOLEAN,
           QueuePacket(n, g, eos)
    PROVE  Grown
<1> DEFINE before == IF Overflows(n) THEN Flushed ELSE <<>>
           base   == IF Overflows(n) THEN <<>> ELSE segs
           start  == IF base = <<>> THEN granule ELSE pageStart
           page   == base \o oggLacing(Len(sent) + 1, n)
           after  == IF eos \/ Spans(g, start)
                     THEN FlushPages(page, g, eos, seq + Len(before)) ELSE <<>>
<1>1. n \in Nat \ {0} /\ n <= MaxSegs /\ g \in Granule /\ Len(sent) + 1 \in Nat
  BY WriterConstants DEF QueuePacket, Granule, IInv, TypeOK
<1>2. seq \in Nat /\ segs \in Seq(Seg) /\ MaxSegs \in Nat
  BY WriterConstants DEF IInv, TypeOK
<1>3. GoodPages(before, seq) /\ before \in Seq(Page) /\ Len(before) \in 0..1
  BY FlushedGood DEF GoodPages
<1>4. base \in Seq(Seg) /\ Len(base) + n <= MaxSegs
  BY <1>1, <1>2 DEF Overflows
<1> HIDE DEF before, base
<1>5. page \in Seq(Seg) /\ Len(page) <= MaxSegs
  <2>1. /\ oggLacing(Len(sent) + 1, n) \in Seq(Seg)
        /\ Len(oggLacing(Len(sent) + 1, n)) = n
    BY <1>1, LacingType
  <2> QED BY <1>1, <1>2, <1>4, <2>1
<1> HIDE DEF page
<1>6. GoodPages(after, seq + Len(before)) /\ after \in Seq(Page)
  <2>1. GoodPages(FlushPages(page, g, eos, seq + Len(before)), seq + Len(before))
    BY <1>1, <1>2, <1>3, <1>5, FlushPagesGood
  <2>2. GoodPages(<<>>, seq + Len(before))
    BY DEF GoodPages
  <2> QED BY <2>1, <2>2 DEF GoodPages
<1> HIDE DEF start, after
<1>8. GoodPages(before \o after, seq) /\ Len(before \o after) = Len(before) + Len(after)
  BY <1>2, <1>3, <1>6, ConcatGood
<1>9. PICK k \in Len(before)..(Len(before) + Len(after)) :
         /\ Emit(before \o after, k)
         /\ segs' = IF after # <<>> /\ k = Len(before \o after) THEN <<>> ELSE page
  BY DEF QueuePacket, before, base, start, page, after
<1>10. k \in 0..Len(before \o after)
  BY <1>3, <1>6, <1>8, <1>9
<1> QED BY <1>2, <1>8, <1>9, <1>10, EmitGrows DEF IInv, TypeOK

LEMMA StepGrows ==
    ASSUME IInv, [Next]_writerVars
    PROVE  Grown /\ SentNow(sent', sent)
<1>1. out \in Seq(Page) /\ seq \in Nat /\ Len(sent) + 1 \in Nat /\ segs \in Seq(Seg)
  BY DEF IInv, TypeOK
<1>2. CASE FlushPage
  <2>1. PICK k \in 0..1 : Emit(Flushed, k)
    BY <1>2 DEF FlushPage
  <2>2. GoodPages(Flushed, seq) /\ Len(Flushed) = 1
    <3>1. /\ segs # <<>> /\ Len(segs) <= MaxSegs /\ granule \in Granule
      BY <1>2 DEF FlushPage, IInv, TypeOK, PageLimits
    <3> QED BY <1>1, <3>1, FlushPagesGood DEF Flushed
  <2>3. sent' = sent
    BY <1>2 DEF FlushPage
  <2> QED BY <1>1, <2>1, <2>2, <2>3, EmitGrows DEF SentNow
<1>3. ASSUME NEW n \in Laces, WriteHeaderPacket(n) PROVE Grown /\ SentNow(sent', sent)
  <2> DEFINE bos == sent = <<>>
             pages == Flushed \o PacketPages(Len(sent) + 1, n, 0, bos, FALSE,
                                             seq + Len(Flushed))
  <2>1. n \in Nat \ {0} /\ 0 \in Granule /\ bos \in BOOLEAN
    BY WriterConstants DEF Granule
  <2>2. GoodPages(pages, seq)
    BY <1>1, <2>1, FlushedPacketGood
  <2>3. PICK k \in 0..Len(pages) :
           Emit(pages, k) /\ (Take(n, 0, bos, FALSE) \/ sent' = sent)
    BY <1>3 DEF WriteHeaderPacket
  <2> HIDE DEF pages
  <2>4. Grown
    BY <1>1, <2>2, <2>3, EmitGrows
  <2>5. SentNow(sent', sent)
    BY <2>1, <2>3, TakeGrows DEF SentNow
  <2> QED BY <2>4, <2>5
<1>4. ASSUME NEW n \in Laces, RefusePacket(n) PROVE Grown /\ SentNow(sent', sent)
  <2>1. GoodPages(Flushed, seq) /\ 0 \in 0..Len(Flushed) /\ Emit(Flushed, 0) /\ sent' = sent
    BY <1>4, FlushedGood DEF RefusePacket
  <2> QED BY <1>1, <2>1, EmitGrows DEF SentNow
<1>5. ASSUME NEW n \in Laces, NEW g \in Granules, NEW eos \in BOOLEAN, WriteSpanning(n, g, eos)
      PROVE  Grown /\ SentNow(sent', sent)
  <2> DEFINE pages == Flushed \o PacketPages(Len(sent) + 1, n, g, FALSE, eos,
                                             seq + Len(Flushed))
  <2>1. n \in Nat \ {0} /\ g \in Granule /\ FALSE \in BOOLEAN
    BY WriterConstants DEF Granule
  <2>2. GoodPages(pages, seq)
    BY <1>1, <2>1, FlushedPacketGood
  <2>3. PICK k \in 0..Len(pages) :
           Emit(pages, k) /\ (Take(n, g, FALSE, eos) \/ sent' = sent)
    BY <1>5 DEF WriteSpanning
  <2> HIDE DEF pages
  <2>4. Grown
    BY <1>1, <2>2, <2>3, EmitGrows
  <2>5. SentNow(sent', sent)
    BY <2>1, <2>3, TakeGrows DEF SentNow
  <2> QED BY <2>4, <2>5
<1>6. ASSUME NEW n \in Laces, NEW g \in Granules, NEW eos \in BOOLEAN, QueuePacket(n, g, eos)
      PROVE  Grown /\ SentNow(sent', sent)
  <2>1. SentNow(sent', sent)
    <3>1. Take(n, g, FALSE, eos) /\ FALSE \in BOOLEAN /\ g \in Granules \cup {0}
      BY <1>6 DEF QueuePacket
    <3> QED BY <3>1, TakeGrows
  <2>2. Grown
    BY <1>6, QueueGrows
  <2> QED BY <2>1, <2>2
<1>7. CASE UNCHANGED writerVars
  <2>1. out' = out /\ sent' = sent
    BY <1>7 DEF writerVars
  <2> QED BY <1>1, <2>1 DEF Grown, SentNow
<1> QED BY <1>2, <1>3, <1>4, <1>5, <1>6, <1>7 DEF Next

-----------------------------------------------------------------------------
(* A stretch of a run from one packet's start to its end is that packet.   *)
LEMMA PieceIsPacket ==
    ASSUME NEW snt \in Seq(SentPacket), NEW y, RunRight(y, snt), y # <<>>,
           y[1].k = 1, y[Len(y)].end, \A j \in 1..(Len(y) - 1) : ~ y[j].end
    PROVE  /\ y[1].pkt \in 1..Len(snt) /\ y[Len(y)].pkt = y[1].pkt
           /\ y = oggLacing(y[1].pkt, snt[y[1].pkt].laces)
<1> DEFINE p == y[1].pkt
           n == snt[p].laces
           x == oggLacing(p, n)
<1>1. /\ y \in Seq(Seg) /\ Len(y) \in Nat /\ 1 \in DOMAIN y /\ Len(y) \in DOMAIN y
      /\ DOMAIN y = 1..Len(y)
  BY DEF RunRight
<1>2. p \in 1..Len(snt)
  BY <1>1 DEF RunRight, SegRight
<1>3. /\ RunRight(x, snt) /\ Len(x) = n /\ n \in Nat \ {0}
      /\ \A j \in 1..n : x[j].pkt = p /\ x[j].k = j /\ (x[j].end <=> j = n)
  <2>1. n = snt[p].laces
    OBVIOUS
  <2> HIDE DEF n, p
  <2> QED BY <1>2, <2>1, LacingAt
<1>4. x \in Seq(Seg) /\ DOMAIN x = 1..n
  <2>1. x \in Seq(Seg)
    BY <1>3, ZenonT(40) DEF RunRight
  <2> HIDE DEF x, n
  <2> QED BY <1>3, <2>1
<1>5. p = y[1].pkt
  OBVIOUS
<1> HIDE DEF x, n, p
<1>6. x # <<>> /\ x[1].pkt = y[1].pkt /\ x[1].k = y[1].k /\ 1 \in 1..n /\ n \in 1..n
  BY <1>3, <1>4, <1>5
<1>7. CASE Len(y) < n
  <2>0. Len(y) <= Len(x)
    BY <1>1, <1>3, <1>7
  <2>1. \A j \in 1..Len(y) : y[j] = x[j]
    BY <1>3, <1>6, <2>0, RunDetermined
  <2>2. x[Len(y)].end /\ Len(y) \in 1..n
    BY <1>1, <1>3, <1>7, <2>1
  <2> QED BY <1>3, <1>7, <2>2
<1>8. CASE n < Len(y)
  <2>1. \A j \in 1..n : x[j] = y[j]
    <3>1. Len(x) <= Len(y)
      BY <1>1, <1>3, <1>8
    <3> QED BY <1>3, <1>6, <3>1, RunDetermined, SMTT(30)
  <2>2. y[n].end /\ n \in 1..(Len(y) - 1)
    BY <1>1, <1>3, <1>6, <1>8, <2>1
  <2> QED BY <2>2
<1>9. CASE Len(y) = n
  <2>1. \A j \in 1..n : y[j] = x[j]
    <3>1. Len(y) <= Len(x)
      BY <1>1, <1>3, <1>9
    <3> QED BY <1>3, <1>6, <1>9, <3>1, RunDetermined
  <2>2. y = x
    BY <1>1, <1>4, <1>9, <2>1
  <2>3. y[Len(y)].pkt = p
    BY <1>3, <1>6, <1>9, <2>1
  <2>4. y = oggLacing(p, snt[p].laces)
    BY <2>2 DEF x, n
  <2> QED BY <1>2, <1>5, <2>3, <2>4
<1>10. Len(y) < n \/ n < Len(y) \/ Len(y) = n
  <2>1. Len(y) \in Nat /\ n \in Nat
    BY <1>1, <1>3
  <2> QED BY <2>1
<1> QED BY <1>7, <1>8, <1>9, <1>10, Zenon

(* So is a stretch of a run between two ends, or up to its first.          *)
Cut(z, a, b) ==
    /\ a < b /\ b <= Len(z) /\ z[b].end
    /\ IF a = 0 THEN z[1].k = 1 ELSE z[a].end
    /\ \A j \in (a + 1)..(b - 1) : ~ z[j].end
PacketAfter(z, a) == IF a = 0 THEN z[1].pkt ELSE z[a].pkt + 1

LEMMA CutPacket ==
    ASSUME NEW snt \in Seq(SentPacket), NEW z, RunRight(z, snt),
           NEW a \in Nat, NEW b \in Nat, Cut(z, a, b)
    PROVE  LET p == PacketAfter(z, a)
           IN  /\ p \in 1..Len(snt) /\ z[b].pkt = p
               /\ SubSeq(z, a + 1, b) = oggLacing(p, snt[p].laces)
<1> DEFINE y == SubSeq(z, a + 1, b)
           p == PacketAfter(z, a)
<1>0. /\ a < b /\ b <= Len(z) /\ z[b].end
      /\ a = 0 => z[1].k = 1 /\ p = z[1].pkt
      /\ a # 0 => z[a].end /\ p = z[a].pkt + 1
      /\ \A j \in (a + 1)..(b - 1) : ~ z[j].end
  BY DEF Cut, PacketAfter
<1> HIDE DEF p
<1>1. /\ z \in Seq(Seg) /\ Len(z) \in Nat /\ DOMAIN z = 1..Len(z)
      /\ a + 1 \in 1..Len(z) /\ b \in (a + 1)..Len(z)
      /\ a + 1 \in DOMAIN z
  BY <1>0 DEF RunRight
<1>2. /\ RunRight(y, snt) /\ Len(y) = b - (a + 1) + 1
      /\ \A j \in 1..(b - (a + 1) + 1) : y[j] = z[a + 1 + j - 1]
  BY <1>1, RunPart
<1> HIDE DEF y
<1>3. /\ Len(y) = b - a /\ \A j \in 1..(b - a) : y[j] = z[a + j]
  <2>1. b - (a + 1) + 1 = b - a /\ \A j \in 1..(b - a) : a + 1 + j - 1 = a + j
    OBVIOUS
  <2> QED BY <1>2, <2>1
<1>4. 1 \in 1..(b - a) /\ b - a \in 1..(b - a) /\ a + (b - a) = b /\ a + 1 = 1 + a
  BY <1>0
<1>5. y \in Seq(Seg) /\ y # <<>> /\ y[1] = z[a + 1] /\ y[Len(y)] = z[b]
  BY <1>2, <1>3, <1>4 DEF RunRight
<1>6. z[a + 1].k = 1 /\ z[a + 1].pkt = p
  <2>1. CASE a = 0
    <3>1. a + 1 = 1 /\ z[1].k = 1 /\ p = z[1].pkt
      BY <1>0, <2>1
    <3> QED BY <3>1
  <2>2. CASE a # 0
    <3>1. a + 1 > 1 /\ (a + 1) - 1 = a
      BY <2>2
    <3>2. Follows(z[a], z[a + 1])
      BY <1>1, <3>1 DEF RunRight
    <3> QED BY <1>0, <2>2, <3>2 DEF Follows
  <2> QED BY <2>1, <2>2
<1>7. ASSUME NEW j \in 1..(Len(y) - 1) PROVE ~ y[j].end
  <2>1. j \in 1..(b - a) /\ a + j \in (a + 1)..(b - 1)
    BY <1>3
  <2> QED BY <1>0, <1>3, <2>1
<1>8. /\ y[1].pkt \in 1..Len(snt) /\ y[Len(y)].pkt = y[1].pkt
      /\ y = oggLacing(y[1].pkt, snt[y[1].pkt].laces)
  <2>1. y[1].k = 1 /\ y[Len(y)].end
    BY <1>0, <1>5, <1>6, Zenon
  <2> QED BY <1>2, <1>5, <1>7, <2>1, PieceIsPacket
<1>9. y[1].pkt = p
  BY <1>5, <1>6
<1> QED BY <1>5, <1>8, <1>9 DEF y, p

(* Up to its first end a run that starts a packet stays in it.             *)
LEMMA StaysInPacket ==
    ASSUME NEW snt, NEW y, RunRight(y, snt), NEW m \in 1..Len(y),
           y[1].k = 1, \A j \in 1..(m - 1) : ~ y[j].end
    PROVE  \A j \in 1..m : y[j].pkt = y[1].pkt /\ y[j].k = j
<1> DEFINE At(j) == y[j].pkt = y[1].pkt /\ y[j].k = j
           T == {n \in Nat : n + 1 \in 1..m => At(n + 1)}
<1>1. Len(y) \in Nat /\ DOMAIN y = 1..Len(y) /\ m \in Nat
  BY DEF RunRight
<1>2. 0 \in T
  OBVIOUS
<1>3. ASSUME NEW n \in Nat, n \in T PROVE n + 1 \in T
  <2> SUFFICES ASSUME (n + 1) + 1 \in 1..m PROVE At((n + 1) + 1)
    OBVIOUS
  <2>1. /\ n + 1 \in 1..m /\ n + 1 \in 1..(m - 1) /\ (n + 1) + 1 \in DOMAIN y
        /\ (n + 1) + 1 > 1 /\ ((n + 1) + 1) - 1 = n + 1
    BY <1>1
  <2>2. At(n + 1)
    BY <1>3, <2>1
  <2>3. Follows(y[n + 1], y[(n + 1) + 1]) /\ ~ y[n + 1].end
    BY <2>1 DEF RunRight
  <2> QED BY <2>2, <2>3 DEF Follows
<1> HIDE DEF T, At
<1>4. \A n \in Nat : n \in T
  BY <1>2, <1>3, SetInduction
<1>5. ASSUME NEW j \in 1..m PROVE At(j)
  <2>1. j - 1 \in Nat /\ (j - 1) + 1 = j
    BY <1>1
  <2> QED BY <1>4, <2>1 DEF T
<1> QED BY <1>5 DEF At
=============================================================================
