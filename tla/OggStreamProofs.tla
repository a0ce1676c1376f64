--------------------------- MODULE OggStreamProofs ---------------------------
(***************************************************************************)
(* TLAPS proof that OggStream implements PacketChannel, for every page     *)
(* size, span, packet size and granule position the constants allow.       *)
(*                                                                         *)
(* The muxer's half is the invariant HInv of OggPageWriterProofs: what is  *)
(* written is one run of lacing values, its headers true.  The demuxer's   *)
(* half is StreamInv below: it has put together the packets the pages it   *)
(* has read complete, and holds the beginning of the next.                 *)
(***************************************************************************)
EXTENDS OggStream, SequenceTheorems, TLAPS

P == INSTANCE OggPageWriterProofs
\* This reader is only read from: nothing of its seeking is used.
Q == INSTANCE OggPacketReaderProofs WITH
        Files <- {}, Sent <- <<>>, file <- out, NoGranule <- GranuleMod - 1,
        Window <- 0, Targets <- {}, Backup <- 0, MaxCalls <- 0,
        size <- 0, pc <- "idle", target <- 0, total <- 0, start <- 0,
        position <- 0, pagePosition <- 0, granulePositions <- <<>>,
        lowest <- 0, highest <- 0, highestPage <- 0, last <- 0, calls <- 0,
        result <- 0

(* The proofs about the two halves apply to the composition.               *)
LEMMA WriterInit == W!Init => P!Init
  BY DEF W!Init, P!Init

LEMMA ReaderAssumed ==
    /\ <<>> \in Seq([laces: Nat \ {0}, granule: Nat])
    /\ \A f \in {} : Q!MuxedFile(f) /\ Q!DamageKnown(f)
    /\ {} \subseteq Nat /\ 0 \in Nat
    /\ \A f \in {} : Q!SeekableFile(f)
  OBVIOUS

LEMMA SameEnds ==
    ASSUME NEW pg
    PROVE  R!Ends(pg) = Q!Ends(pg)
  BY Zenon DEF R!Ends, Q!Ends, R!EndsUpTo, Q!EndsUpTo, R!Cardinality, Q!Cardinality

LEMMA EndsKnown ==
    ASSUME NEW pg, Len(pg.segs) \in Nat, DOMAIN pg.segs = 1..Len(pg.segs)
    PROVE  Q!EndsOf(R!Ends(pg), pg.segs)
  BY SameEnds, ReaderAssumed, Q!EndsAre

LEMMA SamePackets ==
    ASSUME NEW pg, NEW c
    PROVE  R!PagePackets(pg, c) = Q!PagePackets(pg, c)
  BY SameEnds, Zenon DEF R!PagePackets, Q!PagePackets, R!Ends, Q!Ends, R!EndsUpTo,
                         Q!EndsUpTo, R!Cardinality, Q!Cardinality

LEMMA Assumed == /\ MaxSegs \in Nat \ {0} /\ MaxPageGranules \in Nat
                 /\ DefaultMaxPageGranules \in Nat \ {0} /\ GranuleMod \in Nat \ {0}
                 /\ Laces \subseteq Nat \ {0} /\ Granules \subseteq 0..(GranuleMod - 1)
                 /\ MaxPackets \in Nat
  BY StreamConstants

-----------------------------------------------------------------------------
(***************************************************************************)
(* What a page completes.  c is what the demuxer carries over to it and x  *)
(* its lacing values: together a run that begins with a packet.            *)
(***************************************************************************)
Ahead(c, x, snt) ==
    /\ c \in Seq(P!Seg) /\ x \in Seq(P!Seg)
    /\ P!RunRight(c \o x, snt) /\ (c \o x)[1].k = 1
    /\ \A j \in DOMAIN c : ~ c[j].end

(* The packet before the j-th that ends on the page.                       *)
Prior(e, c, x, j) == IF j = 1 THEN (c \o x)[1].pkt - 1 ELSE x[e[j - 1]].pkt

LEMMA CutRight ==
    ASSUME NEW snt \in Seq(P!SentPacket), NEW pg, NEW c, Ahead(c, pg.segs, snt),
           NEW j \in 1..Len(R!Ends(pg))
    PROVE  LET e == R!Ends(pg)
               p == Prior(e, c, pg.segs, j) + 1
           IN  /\ p \in 1..Len(snt) /\ e[j] \in 1..Len(pg.segs)
               /\ pg.segs[e[j]].pkt = p
               /\ R!PagePackets(pg, c)[j].segs = P!oggLacing(p, snt[p].laces)
<1> DEFINE e == R!Ends(pg)
           x == pg.segs
           m == Len(c)
           z == c \o x
           a == IF j = 1 THEN 0 ELSE m + e[j - 1]
           b == m + e[j]
           q == R!PagePackets(pg, c)[j].segs
<1>1. c \in Seq(P!Seg) /\ x \in Seq(P!Seg)
  BY DEF Ahead
<1>2. Len(x) \in Nat /\ DOMAIN x = 1..Len(x) /\ m \in Nat /\ DOMAIN c = 1..m
  BY <1>1
<1>3. Q!EndsOf(e, x)
  BY <1>2, EndsKnown
<1>4. /\ Len(e) \in Nat /\ DOMAIN e = 1..Len(e)
      /\ \A i \in 1..Len(e) : e[i] \in 1..Len(x) /\ x[e[i]].end
      /\ \A i, l \in 1..Len(e) : i < l => e[i] < e[l]
      /\ \A i \in 1..Len(x) : x[i].end => \E l \in 1..Len(e) : e[l] = i
  BY <1>2, <1>3 DEF Q!EndsOf
<1>5. q = SubSeq(z, a + 1, b)
  <2>1. e = Q!Ends(pg) /\ R!PagePackets(pg, c) = Q!PagePackets(pg, c)
    BY SameEnds, SamePackets
  <2>2. Q!EndsOf(Q!Ends(pg), pg.segs) /\ j \in DOMAIN Q!Ends(pg)
    BY <1>3, <1>4, <2>1
  <2>3. Q!PagePackets(pg, c)[j].segs = SubSeq(c \o pg.segs, Q!From(pg, c, j) + 1, Q!Upto(pg, c, j))
    BY <1>1, <2>2, ReaderAssumed, Q!CutAt
  <2>4. Q!From(pg, c, j) = a /\ Q!Upto(pg, c, j) = b
    BY <2>1 DEF Q!From, Q!Upto
  <2> QED BY <2>1, <2>3, <2>4
<1> HIDE DEF e, q
<1>6. /\ z \in Seq(P!Seg) /\ Len(z) = m + Len(x)
      /\ (\A i \in 1..m : z[i] = c[i]) /\ \A i \in 1..Len(x) : z[m + i] = x[i]
  BY <1>1
<1> HIDE DEF z, m, x
<1>7. a = (IF j = 1 THEN 0 ELSE m + e[j - 1]) /\ b = m + e[j]
  OBVIOUS
<1> HIDE DEF a, b
<1>8. j \in 1..Len(e) /\ e[j] \in 1..Len(x) /\ (j # 1 => j - 1 \in 1..Len(e) /\ j - 1 < j)
  BY <1>4 DEF e
<1>9. j # 1 => e[j - 1] \in 1..Len(x) /\ e[j - 1] < e[j]
  BY <1>4, <1>8
<1>10. a \in Nat /\ b \in Nat /\ a < b /\ b <= Len(z) /\ z[b] = x[e[j]]
  <2>1. CASE j = 1
    <3>1. a = 0 /\ b = m + e[j]
      BY <1>7, <2>1
    <3> QED BY <1>2, <1>6, <1>8, <3>1
  <2>2. CASE j # 1
    <3>1. PICK u \in 1..Len(x), v \in 1..Len(x) : u = e[j - 1] /\ v = e[j] /\ u < v
      BY <1>8, <1>9, <2>2
    <3>2. a = m + u /\ b = m + v /\ z[b] = x[v]
      BY <1>6, <1>7, <2>2, <3>1
    <3>3. m + u \in Nat /\ m + v \in Nat /\ m + u < m + v /\ m + v <= m + Len(x)
      BY <1>2, <3>1, SMTT(30)
    <3> QED BY <1>6, <3>1, <3>2, <3>3
  <2> QED BY <2>1, <2>2
<1>11. IF a = 0 THEN z[1].k = 1 ELSE z[a].end
  <2>1. CASE a = 0
    BY <2>1 DEF Ahead, z, x
  <2>2. CASE a # 0
    <3>1. j # 1 /\ a = m + e[j - 1]
      BY <1>7, <2>2
    <3>2. z[a] = x[e[j - 1]] /\ x[e[j - 1]].end
      BY <1>4, <1>6, <1>8, <1>9, <3>1
    <3> QED BY <2>2, <3>2, Zenon
  <2> QED BY <2>1, <2>2
<1>12. z[b].end
  BY <1>4, <1>8, <1>10, Zenon
<1>13. \A i \in (a + 1)..(b - 1) : ~ z[i].end
  <2> SUFFICES ASSUME NEW i \in (a + 1)..(b - 1), z[i].end PROVE FALSE
    OBVIOUS
  <2>1. CASE i <= m
    <3>1. i \in DOMAIN c /\ z[i] = c[i]
      BY <1>2, <1>6, <1>10, <2>1
    <3> QED BY <3>1, Zenon DEF Ahead
  <2>2. CASE ~ (i <= m)
    <3>1. /\ i - m \in 1..Len(x) /\ m + (i - m) = i /\ i - m < e[j]
          /\ j # 1 => e[j - 1] < i - m
      <4>1. PICK v \in 1..Len(x) : v = e[j] /\ b = m + v
        BY <1>7, <1>8
      <4>2. i \in Nat /\ m < i /\ i < m + v
        BY <1>2, <1>10, <2>2, <4>1
      <4>3. i - m \in 1..Len(x) /\ m + (i - m) = i /\ i - m < v
        BY <1>2, <4>1, <4>2
      <4>4. ASSUME j # 1 PROVE e[j - 1] < i - m
        <5>1. PICK u \in 1..Len(x) : u = e[j - 1] /\ a = m + u
          BY <1>7, <1>9, <4>4
        <5>2. m + u < i
          BY <1>2, <1>10, <5>1
        <5> QED BY <1>2, <4>2, <5>1, <5>2
      <4> QED BY <4>1, <4>3, <4>4
    <3>2. x[i - m].end
      BY <1>6, <3>1, Zenon
    <3>3. PICK l \in 1..Len(e) : e[l] = i - m
      BY <1>4, <3>1, <3>2, Zenon
    <3>4. l < j
      BY <1>4, <1>8, <3>1, <3>3
    <3>5. j # 1 /\ (l = j - 1 \/ l < j - 1)
      BY <1>4, <1>8, <3>4
    <3>6. e[l] \in 1..Len(x) /\ e[j - 1] \in 1..Len(x) /\ (l # j - 1 => e[l] < e[j - 1])
      BY <1>4, <1>8, <3>5
    <3> QED BY <1>2, <3>1, <3>3, <3>5, <3>6
  <2> QED BY <2>1, <2>2
<1>14. P!Cut(z, a, b)
  BY <1>10, <1>11, <1>12, <1>13, Zenon DEF P!Cut
<1>15. P!RunRight(z, snt)
  BY DEF Ahead, z, x
<1> DEFINE p == P!PacketAfter(z, a)
<1>16. /\ p \in 1..Len(snt) /\ z[b].pkt = p
       /\ SubSeq(z, a + 1, b) = P!oggLacing(p, snt[p].laces)
  BY <1>10, <1>14, <1>15, StreamConstants, P!CutPacket
<1>17. p = Prior(e, c, x, j) + 1
  <2>1. CASE j = 1
    <3>1. p = z[1].pkt /\ Prior(e, c, x, j) = z[1].pkt - 1
      BY <1>7, <2>1 DEF Prior, z, P!PacketAfter
    <3>2. p \in Nat
      BY <1>16
    <3> QED BY <3>1, <3>2
  <2>2. CASE j # 1
    <3>1. a = m + e[j - 1] /\ a # 0 /\ z[a] = x[e[j - 1]]
      BY <1>2, <1>6, <1>7, <1>9, <2>2
    <3> QED BY <2>2, <3>1 DEF Prior, P!PacketAfter
  <2> QED BY <2>1, <2>2
<1> HIDE DEF p
<1>18. q = P!oggLacing(p, snt[p].laces) /\ x[e[j]].pkt = p
  BY <1>5, <1>10, <1>16
<1> QED BY <1>8, <1>16, <1>17, <1>18 DEF e, q, x

(* The packets that end on a page are the next ones, in order.             *)
LEMMA CutAll ==
    ASSUME NEW snt \in Seq(P!SentPacket), NEW pg, NEW c, Ahead(c, pg.segs, snt),
           NEW j \in 1..Len(R!Ends(pg))
    PROVE  LET p == (c \o pg.segs)[1].pkt + j - 1
           IN  /\ p \in 1..Len(snt) /\ R!Ends(pg)[j] \in 1..Len(pg.segs)
               /\ pg.segs[R!Ends(pg)[j]].pkt = p
               /\ R!PagePackets(pg, c)[j].segs = P!oggLacing(p, snt[p].laces)
<1> DEFINE first == (c \o pg.segs)[1].pkt
           e == R!Ends(pg)
           x == pg.segs
           Nth(i) == Prior(e, c, x, i) + 1
           T == {i \in Nat : i + 1 \in 1..Len(e) => Nth(i + 1) = first + (i + 1) - 1}
<1>1. Len(e) \in Nat
  <2>1. x \in Seq(P!Seg)
    BY DEF Ahead
  <2>2. Len(x) \in Nat /\ DOMAIN x = 1..Len(x)
    BY <2>1
  <2> QED BY <2>2, EndsKnown DEF Q!EndsOf
<1>2. \A i \in 1..Len(e) :
        /\ Nth(i) \in 1..Len(snt) /\ e[i] \in 1..Len(x) /\ x[e[i]].pkt = Nth(i)
        /\ R!PagePackets(pg, c)[i].segs = P!oggLacing(Nth(i), snt[Nth(i)].laces)
  BY CutRight
<1>3. Nth(1) = (first - 1) + 1 /\ \A i \in Nat : i > 1 => Nth(i) = x[e[i - 1]].pkt + 1
  BY DEF Prior
<1> HIDE DEF e, x, Nth, first
<1>4. first \in Int
  <2>1. (c \o pg.segs) \in Seq(P!Seg) /\ 1 \in 1..Len(c \o pg.segs)
    <3>1. /\ c \in Seq(P!Seg) /\ x \in Seq(P!Seg) /\ 1 \in 1..Len(e)
      BY <1>1 DEF Ahead, x, e
    <3>2. e[1] \in 1..Len(x)
      BY <1>2, <3>1
    <3> QED BY <3>1, <3>2 DEF x
  <2>2. (c \o pg.segs)[1] \in P!Seg
    BY <2>1
  <2>3. \A s \in P!Seg : s.pkt \in Int
    BY DEF P!Seg
  <2>4. first \in Int
    BY <2>2, <2>3, Zenon DEF first
  <2> QED BY <2>4
<1>5. 0 \in T
  <2>1. Nth(1) = first
    BY <1>3, <1>4
  <2>2. first + (0 + 1) - 1 = first /\ 0 + 1 = 1
    BY <1>4
  <2> QED BY <2>1, <2>2
<1>6. ASSUME NEW i \in Nat, i \in T PROVE i + 1 \in T
  <2> SUFFICES ASSUME (i + 1) + 1 \in 1..Len(e)
               PROVE  Nth((i + 1) + 1) = first + ((i + 1) + 1) - 1
    OBVIOUS
  <2>1. i + 1 \in 1..Len(e) /\ (i + 1) + 1 \in Nat /\ (i + 1) + 1 > 1 /\ ((i + 1) + 1) - 1 = i + 1
    BY <1>1
  <2>2. Nth(i + 1) = first + (i + 1) - 1
    BY <1>6, <2>1
  <2>3. Nth((i + 1) + 1) = x[e[i + 1]].pkt + 1
    BY <1>3, <2>1
  <2>4. x[e[i + 1]].pkt = Nth(i + 1)
    BY <1>2, <2>1
  <2> QED BY <1>4, <2>2, <2>3, <2>4
<1> HIDE DEF T
<1>7. \A i \in Nat : i \in T
  BY <1>5, <1>6, Q!SetInduction, ReaderAssumed
<1>8. j \in 1..Len(e) /\ j - 1 \in Nat /\ (j - 1) + 1 = j
  BY <1>1 DEF e
<1>9. Nth(j) = first + j - 1
  BY <1>7, <1>8 DEF T
<1> QED BY <1>2, <1>8, <1>9 DEF e, x, first

(***************************************************************************)
(* A packet as the demuxer returns it is the i-th that was sent: the       *)
(* claim Received makes, and one a page's header has to bear out.          *)
(***************************************************************************)
Came(d, i, snt) ==
    /\ i \in 1..Len(snt) /\ d.segs = P!oggLacing(i, snt[i].laces)
    /\ d.eos = snt[i].eos
    /\ snt[i].laces <= MaxSegs => d.bos = snt[i].bos
    /\ d.valid => d.granule = snt[i].granule

Packet == [segs: Seq(P!Seg), seq: Nat, granule: Nat, valid: BOOLEAN,
           bos: BOOLEAN, eos: BOOLEAN]

(* What is known of a page when the muxer's invariant holds.               *)
LEMMA PageKnown ==
    ASSUME P!HInv, NEW n \in 1..Len(out)
    PROVE  LET pg == out[n]
               first == pg.segs[1]
               last == pg.segs[Len(pg.segs)]
           IN  /\ sent \in Seq(P!SentPacket) /\ pg \in P!Page
               /\ pg.segs \in Seq(P!Seg) /\ Len(pg.segs) \in Nat \ {0} /\ pg.segs # <<>>
               /\ P!RunRight(pg.segs, sent)
               /\ last.end => pg.granule = sent[last.pkt].granule
                              /\ (pg.eos <=> sent[last.pkt].eos)
               /\ ~ last.end => /\ \A j \in DOMAIN pg.segs : ~ pg.segs[j].end
               /\ pg.bos <=> first.pkt = 1 /\ first.k = 1
               /\ first.k > 1 => sent[first.pkt].laces > MaxSegs
<1>1. out \in Seq(P!Page) /\ sent \in Seq(P!SentPacket) /\ n \in DOMAIN out
  BY DEF P!HInv, P!IInv, P!TypeOK
<1>2. P!PageRight(out[n], sent)
  BY <1>1 DEF P!HInv, P!PagesRight
<1>3. Len(out[n].segs) \in 1..MaxSegs /\ MaxSegs \in Nat
  BY <1>2, StreamConstants DEF P!PageRight
<1>4. out[n].segs \in Seq(P!Seg)
  BY <1>2 DEF P!PageRight, P!RunRight
<1>5. Len(out[n].segs) \in Nat \ {0} /\ out[n].segs # <<>>
  BY <1>3, <1>4
<1> QED BY <1>1, <1>2, <1>4, <1>5, Zenon DEF P!PageRight

(* The packet that ends a page ends it.                                    *)
LEMMA LastEnds ==
    ASSUME P!HInv, NEW n \in 1..Len(out)
    PROVE  LET pg == out[n]
               e == R!Ends(pg)
           IN  /\ Len(e) \in Nat /\ DOMAIN e = 1..Len(e)
               /\ IF pg.segs[Len(pg.segs)].end
                    THEN /\ Len(e) > 0 /\ e[Len(e)] = Len(pg.segs)
                         /\ R!Rest(pg) = <<>> /\ e # <<>>
                    ELSE e = <<>> /\ Len(e) = 0
<1> DEFINE pg == out[n]
           x == pg.segs
           e == R!Ends(pg)
           N == Len(x)
<1>1. x \in Seq(P!Seg) /\ N \in Nat \ {0} /\ DOMAIN x = 1..N
  BY PageKnown, SMTT(30)
<1>2. Q!EndsOf(e, x)
  BY <1>1, EndsKnown
<1>3. /\ Len(e) \in Nat /\ DOMAIN e = 1..Len(e)
      /\ \A i \in 1..Len(e) : e[i] \in 1..N /\ x[e[i]].end
      /\ \A i, l \in 1..Len(e) : i < l => e[i] < e[l]
      /\ \A i \in 1..N : x[i].end => \E l \in 1..Len(e) : e[l] = i
  BY <1>1, <1>2 DEF Q!EndsOf
<1>4. e = <<>> <=> Len(e) = 0
  BY <1>1, SameEnds, ReaderAssumed, Q!EndsEmpty
<1>5. R!Rest(pg) = SubSeq(x, R!Last(e) + 1, N) /\ R!Last(e) = e[Len(e)]
  BY DEF R!Rest, R!Last
<1>6. ~ x[N].end => \A j \in 1..N : ~ x[j].end
  BY <1>1, PageKnown
<1> HIDE DEF e, x, N
<1>7. CASE x[N].end
  <2>1. PICK l \in 1..Len(e) : e[l] = N
    BY <1>1, <1>3, <1>7
  <2>2. l = Len(e)
    <3>0. Len(e) \in Nat /\ l \in 1..Len(e)
      BY <1>3, <2>1
    <3>1. Len(e) \in 1..Len(e) /\ (l # Len(e) => l < Len(e))
      BY <3>0
    <3>2. e[Len(e)] \in 1..N /\ (l # Len(e) => e[l] < e[Len(e)])
      BY <1>3, <2>1, <3>1
    <3> QED BY <1>1, <2>1, <3>2
  <2>3. R!Rest(pg) = <<>>
    <3>1. R!Rest(pg) = SubSeq(x, N + 1, N)
      BY <1>5, <2>1, <2>2
    <3>2. SubSeq(x, N + 1, N) = <<>>
      BY <1>1
    <3> QED BY <3>1, <3>2
  <2>4. Len(e) > 0 /\ e # <<>>
    BY <1>3, <2>1
  <2> QED BY <1>3, <1>7, <2>1, <2>2, <2>3, <2>4 DEF e, x, N
<1>8. CASE ~ x[N].end
  <2>1. Len(e) = 0
    <3>1. Len(e) > 0 => 1 \in 1..Len(e)
      BY <1>3
    <3> QED BY <1>3, <1>6, <1>8, <3>1
  <2>2. e = <<>>
    BY <1>3, <1>4, <2>1
  <2> QED BY <1>3, <1>8, <2>1, <2>2 DEF e, x, N
<1> QED BY <1>7, <1>8

(* Where a page goes on from what is carried over to it.                   *)
LEMMA Onward ==
    ASSUME NEW snt, NEW c, NEW x, Ahead(c, x, snt), x # <<>>
    PROVE  LET z == c \o x
           IN  /\ x[1].pkt = z[1].pkt /\ x[1].k = Len(c) + 1
               /\ Len(c) \in Nat /\ z[1].pkt \in Nat
               /\ c # <<>> => z[1] = c[1]
<1> DEFINE z == c \o x
           m == Len(c)
<1>1. /\ c \in Seq(P!Seg) /\ x \in Seq(P!Seg)
      /\ P!RunRight(z, snt) /\ z[1].k = 1 /\ \A j \in DOMAIN c : ~ c[j].end
  BY DEF Ahead
<1>2. /\ z \in Seq(P!Seg) /\ Len(z) = m + Len(x) /\ m \in Nat /\ Len(x) \in Nat \ {0}
      /\ (\A i \in 1..m : z[i] = c[i]) /\ \A i \in 1..Len(x) : z[m + i] = x[i]
      /\ DOMAIN c = 1..m
  BY <1>1
<1>3. c # <<>> => 1 \in 1..m
  BY <1>1
<1> HIDE DEF z, m
<1>4. m + 1 \in 1..Len(z) /\ 1 \in 1..Len(x) /\ 1 \in 1..Len(z)
  BY <1>2
<1>5. \A j \in 1..((m + 1) - 1) : j \in 1..m
  BY <1>2
<1>6. \A j \in 1..((m + 1) - 1) : ~ z[j].end
  BY <1>1, <1>2, <1>5, Zenon
<1>7. z[m + 1].pkt = z[1].pkt /\ z[m + 1].k = m + 1
  <2>1. m + 1 \in 1..(m + 1)
    BY <1>2
  <2>2. \A j \in 1..(m + 1) : z[j].pkt = z[1].pkt /\ z[j].k = j
    BY <1>1, <1>4, <1>6, StreamConstants, P!StaysInPacket
  <2> QED BY <2>1, <2>2
<1>8. z[1].pkt \in Nat
  <2>1. z[1] \in P!Seg
    BY <1>2, <1>4
  <2> QED BY <2>1 DEF P!Seg
<1> QED BY <1>2, <1>3, <1>4, <1>7, <1>8 DEF z, m

(* What a page completes comes out as it was sent.                         *)
LEMMA PageComes ==
    ASSUME P!HInv, NEW n \in 1..Len(out), NEW c, Ahead(c, out[n].segs, sent)
    PROVE  LET pg == out[n]
               ps == R!PagePackets(pg, c)
               e == R!Ends(pg)
               first == (c \o pg.segs)[1].pkt
               last == pg.segs[Len(pg.segs)]
           IN  /\ ps \in Seq(Packet) /\ Len(ps) = Len(e)
               /\ \A j \in 1..Len(e) : Came(ps[j], first + j - 1, sent)
               /\ last.end => last.pkt = first + Len(e) - 1
<1> DEFINE pg == out[n]
           x == pg.segs
           ps == R!PagePackets(pg, c)
           e == R!Ends(pg)
           first == (c \o x)[1].pkt
           N == Len(x)
           last == x[N]
<1>1. /\ sent \in Seq(P!SentPacket) /\ x \in Seq(P!Seg) /\ N \in Nat \ {0} /\ x # <<>>
      /\ pg.bos \in BOOLEAN /\ pg.eos \in BOOLEAN /\ pg.granule \in Nat /\ pg.seq \in Nat
  <2>1. /\ sent \in Seq(P!SentPacket) /\ x \in Seq(P!Seg) /\ N \in Nat \ {0} /\ x # <<>>
        /\ pg \in P!Page
    BY PageKnown
  <2>2. P!Granule \subseteq Nat
    BY StreamConstants DEF P!Granule
  <2> HIDE DEF pg, N, x
  <2>3. pg.bos \in BOOLEAN /\ pg.eos \in BOOLEAN /\ pg.granule \in P!Granule /\ pg.seq \in Nat
    BY <2>1 DEF P!Page
  <2> QED BY <2>1, <2>2, <2>3
<1>2. /\ last.end => pg.granule = sent[last.pkt].granule /\ (pg.eos <=> sent[last.pkt].eos)
      /\ pg.bos <=> x[1].pkt = 1 /\ x[1].k = 1
      /\ x[1].k > 1 => sent[x[1].pkt].laces > MaxSegs
  BY PageKnown
<1>3. /\ Len(e) \in Nat /\ DOMAIN e = 1..Len(e)
      /\ Len(e) > 0 => last.end /\ e[Len(e)] = N
      /\ last.end => Len(e) > 0
  BY LastEnds
<1>4. x[1].pkt = first /\ x[1].k = Len(c) + 1 /\ Len(c) \in Nat /\ first \in Nat
  BY <1>1, Onward
<1>5. \A j \in 1..Len(e) :
         /\ first + j - 1 \in 1..Len(sent) /\ x[e[j]].pkt = first + j - 1
         /\ ps[j].segs = P!oggLacing(first + j - 1, sent[first + j - 1].laces)
  <2>1. ASSUME NEW j \in 1..Len(R!Ends(pg))
        PROVE  LET p == (c \o pg.segs)[1].pkt + j - 1
               IN  /\ p \in 1..Len(sent) /\ R!Ends(pg)[j] \in 1..Len(pg.segs)
                   /\ pg.segs[R!Ends(pg)[j]].pkt = p
                   /\ R!PagePackets(pg, c)[j].segs = P!oggLacing(p, sent[p].laces)
    <3>1. Ahead(c, pg.segs, sent)
      OBVIOUS
    <3> HIDE DEF pg
    <3> QED BY <1>1, <3>1, CutAll, ZenonT(60)
  <2> QED BY <2>1, Zenon
<1>6. \A j \in 1..Len(e) :
         /\ ps[j].seq = pg.seq /\ ps[j].granule = pg.granule
         /\ ps[j].valid <=> j = Len(e) /\ pg.granule # GranuleMod - 1
         /\ ps[j].bos <=> pg.bos /\ j = 1
         /\ ps[j].eos <=> pg.eos /\ j = Len(e)
         /\ ps[j].valid \in BOOLEAN /\ ps[j].bos \in BOOLEAN /\ ps[j].eos \in BOOLEAN
  <2>1. e = Q!Ends(pg) /\ ps = Q!PagePackets(pg, c)
    BY SameEnds, SamePackets
  <2>2. {pg.bos, pg.eos} \subseteq BOOLEAN
    BY <1>1
  <2> HIDE DEF pg
  <2> QED BY <2>1, <2>2, ReaderAssumed, Q!PagePacketFields
<1>7. ps = [j \in 1..Len(e) |-> ps[j]]
  BY DEF R!PagePackets
<1>8. /\ \A p \in 1..Len(sent) : (sent[p].bos <=> p = 1) /\ (sent[p].eos => p = Len(sent))
      /\ \A p \in 1..Len(sent) : /\ sent[p].bos \in BOOLEAN /\ sent[p].eos \in BOOLEAN
                                 /\ sent[p].laces \in Nat
  <2>1. \A p \in 1..Len(sent) : sent[p] \in P!SentPacket
    BY <1>1
  <2>2. P!SentRight /\ DOMAIN sent = 1..Len(sent)
    BY <1>1 DEF P!HInv
  <2> QED BY <2>1, <2>2 DEF P!SentPacket, P!SentRight
<1> HIDE DEF e, ps, x, first, N, last, pg
<1>9. Len(e) > 0 => last.pkt = first + Len(e) - 1
  <2>1. Len(e) > 0 => Len(e) \in 1..Len(e)
    BY <1>3
  <2> QED BY <1>3, <1>5, <2>1 DEF last
<1>10. ASSUME NEW j \in 1..Len(e) PROVE Came(ps[j], first + j - 1, sent) /\ ps[j] \in Packet
  <2> DEFINE i == first + j - 1
             d == ps[j]
  <2>1. i \in 1..Len(sent) /\ d.segs = P!oggLacing(i, sent[i].laces)
    BY <1>5
  <2>2. i \in Nat /\ (j = Len(e) => i = last.pkt) /\ (j # Len(e) => i < last.pkt)
        /\ Len(e) > 0 /\ last.pkt \in 1..Len(sent) /\ (j = 1 => i = first) /\ (j # 1 => i # 1)
    <3>1. Len(e) \in 1..Len(e) /\ Len(e) > 0 /\ Len(sent) \in Nat
      BY <1>1, <1>3
    <3>2. last.pkt \in 1..Len(sent)
      BY <1>5, <1>9, <3>1
    <3>3. first \in Nat /\ last.pkt = first + Len(e) - 1 /\ j \in Nat /\ Len(e) \in Nat
      BY <1>3, <1>4, <1>9, <3>1
    <3>4. j # Len(e) => j < Len(e)
      BY <3>3
    <3>5. i = first + j - 1 /\ j >= 1
      BY <3>3
    <3> HIDE DEF i
    <3>6. i \in Nat
      BY <3>3, <3>5
    <3>7. /\ j = Len(e) => i = last.pkt
          /\ j # Len(e) => i < last.pkt
          /\ j = 1 => i = first
      BY <3>3, <3>4, <3>5
    <3>8. j # 1 => i # 1
      <4>1. first >= 1
        <5>1. 1 \in 1..Len(e)
          BY <3>1
        <5>2. first + 1 - 1 \in 1..Len(sent)
          BY <1>5, <5>1
        <5> QED BY <3>3, <5>2
      <4> QED BY <3>3, <3>5, <4>1
    <3> QED BY <3>1, <3>2, <3>6, <3>7, <3>8
  <2> HIDE DEF i
  <2>3. d.eos = sent[i].eos
    <3>1. CASE j = Len(e)
      <4>1. d.eos <=> sent[i].eos
        BY <1>2, <1>3, <1>6, <2>2, <3>1, ZenonT(120)
      <4> QED BY <1>6, <1>8, <2>1, <4>1, ZenonT(120)
    <3>2. CASE j # Len(e)
      <4>1. i # Len(sent)
        BY <1>1, <2>2, <3>2
      <4> QED BY <1>6, <1>8, <2>1, <3>2, <4>1, ZenonT(120)
    <3> QED BY <3>1, <3>2
  <2>4. sent[i].laces <= MaxSegs => d.bos = sent[i].bos
    <3> SUFFICES ASSUME sent[i].laces <= MaxSegs PROVE d.bos = sent[i].bos
      OBVIOUS
    <3>1. CASE j = 1
      <4>1. sent[i].laces \in Nat /\ MaxSegs \in Nat /\ i = first
        BY <1>8, <2>1, <2>2, <3>1, StreamConstants
      <4>2. x[1].k = 1 /\ x[1].pkt = i
        BY <1>2, <1>4, <4>1
      <4>3. d.bos <=> i = 1
        BY <1>2, <1>6, <3>1, <4>2, ZenonT(120)
      <4> QED BY <1>6, <1>8, <2>1, <4>3, ZenonT(120)
    <3>2. CASE j # 1
      BY <1>6, <1>8, <2>1, <2>2, <3>2, ZenonT(120)
    <3> QED BY <3>1, <3>2
  <2>5. d.valid => d.granule = sent[i].granule
    BY <1>2, <1>3, <1>6, <2>2, Zenon
  <2>6. d.segs \in Seq(P!Seg)
    <3>1. i \in Nat /\ sent[i].laces \in Nat
      BY <1>8, <2>1, <2>2
    <3> QED BY <2>1, <3>1, StreamConstants, P!LacingType, ZenonT(120)
  <2>7. d = [segs |-> d.segs, seq |-> d.seq, granule |-> d.granule, valid |-> d.valid,
             bos |-> d.bos, eos |-> d.eos]
    BY DEF R!PagePackets, ps, e
  <2>8. d \in Packet
    BY <1>1, <1>6, <2>6, <2>7, Zenon DEF Packet
  <2> HIDE DEF d
  <2> QED BY <2>1, <2>3, <2>4, <2>5, <2>8 DEF Came, i, d
<1>11. ps \in Seq(Packet) /\ Len(ps) = Len(e)
  BY <1>3, <1>7, <1>10
<1> QED BY <1>3, <1>9, <1>10, <1>11 DEF pg, x, ps, e, first, N, last

-----------------------------------------------------------------------------
(***************************************************************************)
(* The inductive invariant: the muxer's, and the demuxer n - 1 pages into  *)
(* its output has put together the m packets those pages complete and      *)
(* holds the values c of the one that goes on.                             *)
(***************************************************************************)
Cursor(n, c, m) ==
    IF n = 1 THEN c = <<>> /\ m = 0
    ELSE LET last == out[n - 1].segs[Len(out[n - 1].segs)]
         IN  IF last.end THEN c = <<>> /\ m = last.pkt
             ELSE /\ c \in Seq(P!Seg) /\ c # <<>> /\ P!RunRight(c, sent)
                  /\ c[1].k = 1 /\ c[1].pkt = last.pkt /\ m + 1 = last.pkt
                  /\ c[Len(c)] = last /\ \A j \in DOMAIN c : ~ c[j].end

AllCame(D) == \A i \in DOMAIN D : Came(D[i], i, sent)

Readers == [next: 1..(Len(out) + 1), astray: {FALSE}, serial: {NoSerial, Serial},
            pending: Seq(P!Seg), queue: Seq(Packet)]

StreamInv ==
    /\ P!HInv
    /\ reader \in Readers /\ delivered \in Seq(Packet)
    /\ AllCame(delivered \o reader.queue)
    /\ Cursor(reader.next, reader.pending, Len(delivered \o reader.queue))

(* The next page goes on from what the demuxer holds.                      *)
LEMMA NextPage ==
    ASSUME P!HInv, NEW n \in 1..Len(out), NEW c, NEW m \in Nat, Cursor(n, c, m)
    PROVE  /\ (IF out[n].cont THEN c ELSE <<>>) = c
           /\ Ahead(c, out[n].segs, sent) /\ (c \o out[n].segs)[1].pkt = m + 1
<1> DEFINE x == out[n].segs
<1>1. /\ x \in Seq(P!Seg) /\ x # <<>> /\ P!RunRight(x, sent)
  BY PageKnown
<1>2. <<>> \in Seq(P!Seg) /\ <<>> \o x = x /\ DOMAIN <<>> = {}
  BY <1>1
<1>3. ASSUME c = <<>>, ~ out[n].cont, x[1].k = 1, x[1].pkt = m + 1
      PROVE  /\ (IF out[n].cont THEN c ELSE <<>>) = c
             /\ Ahead(c, x, sent) /\ (c \o x)[1].pkt = m + 1
  <2>1. c \o x = x
    BY <1>2, <1>3
  <2> HIDE DEF x
  <2> QED BY <1>1, <1>2, <1>3, <2>1 DEF Ahead
<1>4. CASE n = 1
  <2>1. out # <<>> /\ out \in Seq(P!Page)
    BY DEF P!HInv, P!IInv, P!TypeOK
  <2>2. ~ out[1].cont /\ out[1].segs[1].k = 1 /\ out[1].segs[1].pkt = 1
    BY <2>1 DEF P!HInv, P!PagesRight
  <2>3. c = <<>> /\ m = 0
    BY <1>4 DEF Cursor
  <2> QED BY <1>3, <1>4, <2>2, <2>3
<1>5. CASE n # 1
  <2> DEFINE w == out[n - 1].segs
             last == w[Len(w)]
  <2>1. n - 1 \in 1..Len(out) /\ n > 1 /\ n \in DOMAIN out
    BY <1>5 DEF P!HInv, P!IInv, P!TypeOK
  <2>2. (out[n].cont <=> ~ last.end) /\ P!Follows(last, x[1])
    BY <2>1 DEF P!HInv, P!PagesRight, P!Joined
  <2>3. CASE last.end
    <3>1. c = <<>> /\ m = last.pkt
      BY <1>5, <2>3 DEF Cursor
    <3>2. x[1].k = 1 /\ x[1].pkt = m + 1 /\ ~ out[n].cont
      BY <2>2, <2>3, <3>1 DEF P!Follows
    <3> QED BY <1>3, <3>1, <3>2
  <2>4. CASE ~ last.end
    <3>1. /\ c \in Seq(P!Seg) /\ c # <<>> /\ P!RunRight(c, sent)
          /\ c[1].k = 1 /\ c[1].pkt = last.pkt /\ m + 1 = last.pkt
          /\ c[Len(c)] = last /\ \A j \in DOMAIN c : ~ c[j].end
      BY <1>5, <2>4 DEF Cursor
    <3>2. P!RunRight(c \o x, sent)
      <4> HIDE DEF x, last
      <4> QED BY <1>1, <2>2, <3>1, StreamConstants, P!RunConcat
    <3>3. (c \o x)[1] = c[1]
      <4> HIDE DEF x
      <4> QED BY <1>1, <3>1, StreamConstants, P!ConcatEnds
    <3>4. (c \o x)[1].k = 1 /\ (c \o x)[1].pkt = m + 1
      BY <3>1, <3>3, Zenon
    <3>5. Ahead(c, x, sent)
      BY <1>1, <3>1, <3>2, <3>4, Zenon DEF Ahead
    <3>6. out[n].cont
      BY <2>2, <2>4
    <3> QED BY <3>4, <3>5, <3>6
  <2> QED BY <2>3, <2>4
<1> QED BY <1>4, <1>5

(* After it, the demuxer holds what it leaves unfinished.                  *)
LEMMA CursorMoves ==
    ASSUME P!HInv, NEW n \in 1..Len(out), NEW c, NEW m \in Nat,
           Ahead(c, out[n].segs, sent), (c \o out[n].segs)[1].pkt = m + 1
    PROVE  LET e == R!Ends(out[n])
           IN  Cursor(n + 1, IF e = <<>> THEN c \o out[n].segs ELSE R!Rest(out[n]),
                      m + Len(e))
<1> DEFINE x == out[n].segs
           z == c \o x
           e == R!Ends(out[n])
           last == x[Len(x)]
<1>1. n + 1 # 1 /\ (n + 1) - 1 = n
  OBVIOUS
<1>2. CASE last.end
  <2>1. e # <<>> /\ R!Rest(out[n]) = <<>> /\ Len(e) \in Nat
    BY <1>2, LastEnds
  <2>2. last.pkt = m + 1 + Len(e) - 1
    BY <1>2, PageComes
  <2>3. m + Len(e) = last.pkt
    BY <2>1, <2>2
  <2> HIDE DEF e
  <2> QED BY <1>1, <1>2, <2>1, <2>3 DEF Cursor, e
<1>3. CASE ~ last.end
  <2>1. e = <<>> /\ Len(e) = 0
    BY <1>3, LastEnds
  <2>2. /\ x \in Seq(P!Seg) /\ x # <<>> /\ c \in Seq(P!Seg)
        /\ \A j \in 1..Len(x) : ~ x[j].end
        /\ P!RunRight(z, sent) /\ z[1].k = 1
        /\ \A j \in DOMAIN c : ~ c[j].end
    <3>1. /\ x \in Seq(P!Seg) /\ x # <<>> /\ \A j \in DOMAIN x : ~ x[j].end
      BY <1>3, PageKnown
    <3>2. DOMAIN x = 1..Len(x)
      BY <3>1
    <3>3. /\ c \in Seq(P!Seg) /\ P!RunRight(z, sent) /\ z[1].k = 1
          /\ \A j \in DOMAIN c : ~ c[j].end
      BY DEF Ahead
    <3> QED BY <3>1, <3>2, <3>3
  <2>3. /\ z \in Seq(P!Seg) /\ Len(z) = Len(c) + Len(x)
        /\ (\A i \in 1..Len(c) : z[i] = c[i]) /\ \A i \in 1..Len(x) : z[Len(c) + i] = x[i]
        /\ Len(c) \in Nat /\ Len(x) \in Nat \ {0}
    BY SMTT(40), <2>2
  <2>4. z[Len(z)] = last /\ z # <<>> /\ Len(z) \in 1..Len(z) /\ DOMAIN z = 1..Len(z)
    BY <2>3
  <2> HIDE DEF z, x, e, last
  <2>5. ASSUME NEW j \in 1..Len(z), z[j].end PROVE FALSE
    <3>1. CASE j <= Len(c)
      <4>1. j \in DOMAIN c /\ z[j] = c[j]
        BY <2>2, <2>3, <3>1
      <4> QED BY <2>2, <2>5, <4>1, Zenon
    <3>2. CASE ~ (j <= Len(c))
      <4>1. j - Len(c) \in 1..Len(x) /\ Len(c) + (j - Len(c)) = j
        BY <2>3, <3>2
      <4> QED BY <2>2, <2>3, <2>5, <4>1, Zenon
    <3> QED BY <3>1, <3>2
  <2>6. z[Len(z)].pkt = z[1].pkt
    <3>1. \A j \in 1..(Len(z) - 1) : j \in 1..Len(z)
      BY <2>3
    <3>2. \A j \in 1..(Len(z) - 1) : ~ z[j].end
      BY <2>5, <3>1
    <3>3. \A j \in 1..Len(z) : z[j].pkt = z[1].pkt /\ z[j].k = j
      <4>1. P!RunRight(z, sent) /\ z[1].k = 1 /\ Len(z) \in 1..Len(z)
        BY <2>2, <2>4, Zenon
      <4> QED BY <3>2, <4>1, StreamConstants, P!StaysInPacket
    <3> QED BY <2>4, <3>3
  <2>7. /\ z[1].pkt = last.pkt /\ (m + 0) + 1 = last.pkt
        /\ \A j \in DOMAIN z : ~ z[j].end
    <3>1. z[1].pkt = m + 1
      BY DEF z, x
    <3> QED BY <2>4, <2>5, <2>6, <3>1
  <2>8. Cursor(n + 1, z, m + 0)
    BY <1>1, <1>3, <2>2, <2>3, <2>4, <2>7, Zenon DEF Cursor, last, x
  <2> QED BY <2>1, <2>8 DEF e, z, x
<1> QED BY <1>2, <1>3

(* What reading a page makes of the demuxer.                               *)
LEMMA ReadPage ==
    ASSUME StreamInv, reader.queue = <<>>, reader.next <= Len(out)
    PROVE  LET n == reader.next
               e == R!Ends(out[n])
               ps == R!Completed(reader, out[n])
               rd == R!Absorbed(reader, out[n])
           IN  /\ n \in 1..Len(out) /\ rd.next = n + 1 /\ rd \in [next: 1..(Len(out) + 1),
                     astray: {FALSE}, serial: {NoSerial, Serial}, pending: Seq(P!Seg),
                     queue: {IF e = <<>> THEN <<>> ELSE R!Pop(ps)}]
               /\ ps \in Seq(Packet) /\ (e = <<>> <=> ps = <<>>)
               /\ AllCame(delivered \o ps)
               /\ Cursor(n + 1, rd.pending, Len(delivered \o ps))
<1> DEFINE n == reader.next
           pg == out[n]
           x == pg.segs
           e == R!Ends(pg)
           c == reader.pending
           ps == R!Completed(reader, pg)
           rd == R!Absorbed(reader, pg)
           m == Len(delivered)
<1>1. /\ P!HInv /\ n \in 1..Len(out) /\ delivered \in Seq(Packet) /\ m \in Nat
      /\ Len(out) \in Nat /\ delivered \o <<>> = delivered /\ c \in Seq(P!Seg)
      /\ reader.serial \in {NoSerial, Serial}
  BY DEF StreamInv, Readers, P!HInv, P!IInv, P!TypeOK
<1>2. AllCame(delivered) /\ Cursor(n, c, m)
  <2>1. delivered \o reader.queue = delivered
    BY <1>1
  <2> QED BY <2>1 DEF StreamInv
<1>3. /\ (IF pg.cont THEN c ELSE <<>>) = c
      /\ Ahead(c, x, sent) /\ (c \o x)[1].pkt = m + 1
  BY <1>1, <1>2, NextPage
<1>4. /\ R!Carried(reader, pg) = c /\ ps = R!PagePackets(pg, c)
      /\ rd = [next |-> n + 1, astray |-> FALSE, serial |-> R!Owned(reader, pg),
               pending |-> IF e = <<>> THEN c \o x ELSE R!Rest(pg),
               queue |-> IF e = <<>> THEN <<>> ELSE R!Pop(ps)]
  <2>1. R!Carried(reader, pg) = c
    BY <1>3 DEF R!Carried
  <2> QED BY <2>1 DEF R!Completed, R!Absorbed
<1>5. R!Owned(reader, pg) \in {NoSerial, Serial}
  <2>1. pg \in P!Page
    BY <1>1, PageKnown
  <2>2. pg.serial = Serial
    BY <2>1 DEF P!Page
  <2> QED BY <1>1, <2>2 DEF R!Owned
<1>6. /\ ps \in Seq(Packet) /\ Len(ps) = Len(e)
      /\ \A j \in 1..Len(e) : Came(ps[j], (m + 1) + j - 1, sent)
  BY <1>1, <1>3, <1>4, PageComes
<1>7. Cursor(n + 1, IF e = <<>> THEN c \o x ELSE R!Rest(pg), m + Len(e))
  BY <1>1, <1>3, CursorMoves
<1>8. /\ Len(e) \in Nat /\ (e = <<>> <=> Len(e) = 0)
      /\ IF e = <<>> THEN c \o x \in Seq(P!Seg) ELSE R!Rest(pg) = <<>>
  <2>1. x \in Seq(P!Seg)
    BY <1>1, PageKnown
  <2>2. c \o x \in Seq(P!Seg)
    BY <1>1, <2>1
  <2> QED BY <1>1, <2>2, LastEnds
<1> HIDE DEF n, pg, x, e, c, ps, rd, m
<1>9. rd.pending = (IF e = <<>> THEN c \o x ELSE R!Rest(pg)) /\ rd.pending \in Seq(P!Seg)
  <2>1. rd.pending = (IF e = <<>> THEN c \o x ELSE R!Rest(pg))
    BY <1>4
  <2>2. <<>> \in Seq(P!Seg)
    OBVIOUS
  <2> QED BY <1>8, <2>1, <2>2
<1>10. /\ rd.next = n + 1 /\ n + 1 \in 1..(Len(out) + 1)
       /\ rd.serial = R!Owned(reader, pg) /\ rd.queue = IF e = <<>> THEN <<>> ELSE R!Pop(ps)
       /\ rd = [next |-> rd.next, astray |-> FALSE, serial |-> rd.serial,
                pending |-> rd.pending, queue |-> rd.queue]
  BY <1>1, <1>4
<1>11. rd \in [next: 1..(Len(out) + 1), astray: {FALSE}, serial: {NoSerial, Serial},
               pending: Seq(P!Seg), queue: {IF e = <<>> THEN <<>> ELSE R!Pop(ps)}]
  <2>1. /\ rd.next \in 1..(Len(out) + 1) /\ rd.serial \in {NoSerial, Serial}
        /\ rd.queue \in {IF e = <<>> THEN <<>> ELSE R!Pop(ps)}
    BY <1>5, <1>10
  <2>2. rd = [next |-> rd.next, astray |-> FALSE, serial |-> rd.serial,
              pending |-> rd.pending, queue |-> rd.queue]
    BY <1>10
  <2>3. PICK t, w, y, z : t = rd.next /\ w = rd.serial /\ y = rd.pending /\ z = rd.queue
    OBVIOUS
  <2>4. rd = [next |-> t, astray |-> FALSE, serial |-> w, pending |-> y, queue |-> z]
    BY <2>2, <2>3
  <2>5. /\ t \in 1..(Len(out) + 1) /\ w \in {NoSerial, Serial} /\ y \in Seq(P!Seg)
        /\ z \in {IF e = <<>> THEN <<>> ELSE R!Pop(ps)}
    BY <1>9, <2>1, <2>3
  <2> QED BY <2>4, <2>5
<1>12. /\ Len(delivered \o ps) = m + Len(ps) /\ (ps = <<>> <=> Len(ps) = 0)
       /\ (\A i \in 1..m : (delivered \o ps)[i] = delivered[i])
       /\ \A i \in 1..Len(ps) : (delivered \o ps)[m + i] = ps[i]
       /\ delivered \o ps \in Seq(Packet) /\ Len(ps) \in Nat
  <2>1. Len(ps) \in Nat /\ (ps = <<>> <=> Len(ps) = 0)
    BY <1>6
  <2>2. /\ delivered \o ps \in Seq(Packet) /\ Len(delivered \o ps) = Len(delivered) + Len(ps)
        /\ (\A i \in 1..Len(delivered) : (delivered \o ps)[i] = delivered[i])
        /\ \A i \in 1..Len(ps) : (delivered \o ps)[Len(delivered) + i] = ps[i]
    <3>1. delivered \in Seq(Packet) /\ ps \in Seq(Packet)
      BY <1>1, <1>6
    <3> QED BY <3>1
  <2> QED BY <2>1, <2>2 DEF m
<1>13. AllCame(delivered \o ps)
  <2> DEFINE D == delivered \o ps
  <2>1. DOMAIN D = 1..(m + Len(ps)) /\ \A i \in 1..m : D[i] = delivered[i]
    <3>1. D \in Seq(Packet) /\ Len(D) = m + Len(ps) /\ \A i \in 1..m : D[i] = delivered[i]
      BY <1>12
    <3> HIDE DEF D
    <3> QED BY <3>1
  <2>2. \A i \in 1..m : Came(delivered[i], i, sent)
    BY <1>1, <1>2 DEF AllCame, m
  <2>3. ASSUME NEW i \in 1..(m + Len(ps)) PROVE Came(D[i], i, sent)
    <3>1. CASE i <= m
      <4>1. i \in 1..m
        BY <1>1, <3>1
      <4> QED BY <2>1, <2>2, <4>1
    <3>2. CASE ~ (i <= m)
      <4>1. i - m \in 1..Len(ps) /\ m + (i - m) = i /\ (m + 1) + (i - m) - 1 = i
        BY <1>1, <1>12, <3>2
      <4>2. D[m + (i - m)] = ps[i - m]
        BY <1>12, <4>1
      <4>3. Came(ps[i - m], (m + 1) + (i - m) - 1, sent)
        BY <1>6, <4>1
      <4> QED BY <4>1, <4>2, <4>3
    <3> QED BY <3>1, <3>2
  <2> HIDE DEF D
  <2>4. AllCame(D)
    BY <2>1, <2>3 DEF AllCame
  <2> QED BY <2>4 DEF D
<1>14. Cursor(n + 1, rd.pending, Len(delivered \o ps))
  BY <1>6, <1>7, <1>9, <1>12
<1>15. e = <<>> <=> ps = <<>>
  BY <1>6, <1>8, <1>12
<1> QED BY <1>1, <1>6, <1>10, <1>11, <1>13, <1>14, <1>15 DEF n, e, ps, rd, pg

-----------------------------------------------------------------------------
(* The two halves of the invariant, each under the other's steps.          *)
LEMMA StreamInvInit == Init => StreamInv
<1> SUFFICES ASSUME Init PROVE StreamInv
  OBVIOUS
<1>1. P!HInv
  <2>1. P!Init
    BY WriterInit DEF Init
  <2> QED BY <2>1, StreamConstants, P!HInvInit
<1>2. reader = [next |-> 1, astray |-> FALSE, serial |-> NoSerial, pending |-> <<>>, queue |-> <<>>]
      /\ delivered = <<>> /\ out = <<>>
  BY DEF Init, R!Init, R!NewReader, W!Init
<1>3. /\ reader \in Readers /\ delivered \in Seq(Packet) /\ delivered \o reader.queue = <<>>
      /\ reader.next = 1 /\ reader.pending = <<>>
  BY <1>2 DEF Readers
<1>4. AllCame(<<>>) /\ Cursor(1, <<>>, 0) /\ Len(<<>>) = 0
  BY DEF AllCame, Cursor
<1> QED BY <1>1, <1>3, <1>4 DEF StreamInv

(* The writer's step, as OggPageWriterProofs knows it.                     *)
LEMMA SameNext == W!Next => P!Next
  BY Zenon DEF W!Next, P!Next, W!FlushPage, P!FlushPage, W!WriteHeaderPacket,
               P!WriteHeaderPacket, W!RefusePacket, P!RefusePacket,
               W!WriteSpanning, P!WriteSpanning, W!QueuePacket, P!QueuePacket,
               W!Flushed, P!Flushed, W!FlushPages, P!FlushPages, W!MakePage,
               P!MakePage, W!Header, P!Header, W!NoGranule, P!NoGranule, W!Emit,
               P!Emit, W!Take, P!Take, W!PacketPages, P!PacketPages, W!PageCount,
               P!PageCount, W!Slice, P!Slice, W!oggLacing, P!oggLacing, W!InAudio,
               P!InAudio, W!Last, P!Last, W!Overflows, P!Overflows, W!Spans,
               P!Spans, W!maxSpan, P!maxSpan

LEMMA WriterMoves ==
    ASSUME P!HInv, W!Next
    PROVE  P!HInv' /\ P!Grown /\ P!SentNow(sent', sent)
<1>1. P!Next
  BY SameNext
<1>2. P!IInv /\ [P!Next]_(P!writerVars)
  BY <1>1 DEF P!HInv
<1> QED BY <1>2, StreamConstants, P!HInvStep, P!StepGrows

(* What was sent stays as it was.                                          *)
LEMMA SentStays ==
    ASSUME P!HInv, P!SentNow(sent', sent)
    PROVE  P!Extends(sent', sent)
<1>1. sent \in Seq(P!SentPacket)
  BY DEF P!HInv, P!IInv, P!TypeOK
<1>2. CASE sent' = sent
  BY <1>1, <1>2, StreamConstants, P!SameSent
<1>3. ASSUME NEW p \in [laces: Laces, granule: Granules \cup {0}, bos: BOOLEAN, eos: BOOLEAN],
             sent' = Append(sent, p)
      PROVE  P!Extends(sent', sent)
  <2>1. Granules \cup {0} \subseteq P!Granule /\ Laces \subseteq Nat \ {0}
    BY StreamConstants DEF P!Granule
  <2>2. p \in P!SentPacket
    BY <2>1 DEF P!SentPacket
  <2> HIDE DEF P!SentPacket
  <2> QED BY <1>1, <1>3, <2>2 DEF P!Extends
<1> QED BY <1>2, <1>3 DEF P!SentNow

LEMMA WriteStep == ASSUME StreamInv, Write PROVE StreamInv'
<1>1. /\ P!HInv /\ W!Next /\ reader' = reader /\ delivered' = delivered
  BY DEF StreamInv, Write, readerVars
<1>2. P!HInv' /\ P!Grown /\ P!SentNow(sent', sent)
  BY <1>1, WriterMoves
<1>3. P!Extends(sent', sent)
  BY <1>1, <1>2, SentStays
<1>4. /\ Len(out) \in Nat /\ Len(out') \in Nat /\ Len(out) <= Len(out')
      /\ \A i \in 1..Len(out) : out'[i] = out[i]
  <2>1. out \in Seq(P!Page) /\ out' \in Seq(P!Page)
    BY Zenon, <1>1, <1>2 DEF P!HInv, P!IInv, P!TypeOK
  <2>2. Len(out) \in Nat /\ Len(out') \in Nat
    BY <2>1
  <2>3. P!Grown
    BY <1>2
  <2> QED BY Zenon, <2>2, <2>3 DEF P!Grown
<1>5. reader' \in Readers' /\ delivered' \in Seq(Packet)
  <2>1. 1..(Len(out) + 1) \subseteq 1..(Len(out') + 1)
    BY <1>4
  <2> QED BY <1>1, <2>1 DEF StreamInv, Readers
<1> DEFINE D == delivered \o reader.queue
<1>6. ASSUME NEW i \in DOMAIN D PROVE Came(D[i], i, sent')
  <2>1. Came(D[i], i, sent)
    BY DEF StreamInv, AllCame
  <2> HIDE DEF D
  <2>2. i \in 1..Len(sent) /\ i \in 1..Len(sent') /\ sent'[i] = sent[i]
    BY <1>3, <2>1 DEF Came, P!Extends
  <2> QED BY <2>1, <2>2, Zenon DEF Came
<1>7. AllCame(D)'
  BY <1>1, <1>6 DEF AllCame
<1>8. Cursor(reader.next, reader.pending, Len(D))'
  <2> DEFINE n == reader.next
             c == reader.pending
             m == Len(D)
  <2>1. Cursor(n, c, m) /\ n \in 1..(Len(out) + 1)
    BY DEF StreamInv, Readers
  <2>2. n' = n /\ c' = c /\ m' = m
    BY <1>1
  <2> HIDE DEF n, c, m
  <2>3. Cursor(n, c, m)'
    <3>1. CASE n = 1
      BY <2>1, <2>2, <3>1, Zenon DEF Cursor
    <3>2. CASE n # 1
      <4>1. n - 1 \in 1..Len(out)
        BY <1>4, <2>1, <3>2
      <4>2. out'[n - 1] = out[n - 1]
        BY <1>4, <4>1
      <4>3. P!RunRight(c, sent) => P!RunRight(c, sent')
        BY <1>3, StreamConstants, P!RunStays
      <4> QED BY <2>1, <2>2, <3>2, <4>2, <4>3, Zenon DEF Cursor
    <3> QED BY <3>1, <3>2
  <2> QED BY <2>3, Zenon DEF n, c, m
<1> QED BY <1>2, <1>5, <1>7, <1>8 DEF StreamInv

(* A step that leaves the muxer alone.                                     *)
LEMMA ReaderMoves ==
    ASSUME StreamInv, UNCHANGED writerVars,
           reader' \in Readers, delivered' \in Seq(Packet),
           AllCame(delivered' \o reader'.queue),
           Cursor(reader'.next, reader'.pending, Len(delivered' \o reader'.queue))
    PROVE  StreamInv'
<1>1. out' = out /\ sent' = sent /\ P!HInv
  BY DEF writerVars, StreamInv
<1>2. P!HInv'
  <2>1. [P!Next]_(P!writerVars)
    BY DEF writerVars, P!writerVars
  <2> QED BY <1>1, <2>1, StreamConstants, P!HInvStep
<1>3. reader' \in Readers'
  BY <1>1 DEF Readers
<1>4. AllCame(delivered \o reader.queue)'
  BY <1>1, Zenon DEF AllCame
<1>5. Cursor(reader.next, reader.pending, Len(delivered \o reader.queue))'
  BY <1>1, Zenon DEF Cursor
<1> QED BY <1>2, <1>3, <1>4, <1>5 DEF StreamInv

LEMMA OneMoves ==
    ASSUME NEW d \in Seq(Packet), NEW q \in Seq(Packet), q # <<>>
    PROVE  /\ Append(d, Head(q)) \in Seq(Packet) /\ Tail(q) \in Seq(Packet)
           /\ Append(d, Head(q)) \o Tail(q) = d \o q
BY ReaderAssumed, Q!MovesOne, ZenonT(120)

LEMMA ServeStep == ASSUME StreamInv, UNCHANGED writerVars, R!ServeQueue PROVE StreamInv'
<1>1. /\ reader.queue # <<>> /\ delivered' = Append(delivered, Head(reader.queue))
      /\ reader' = [reader EXCEPT !.queue = Tail(reader.queue)]
  BY DEF R!ServeQueue, R!Pop
<1>2. reader \in Readers /\ reader.queue \in Seq(Packet) /\ delivered \in Seq(Packet)
  BY DEF StreamInv, Readers
<1>3. /\ delivered' \in Seq(Packet) /\ Tail(reader.queue) \in Seq(Packet)
      /\ delivered' \o Tail(reader.queue) = delivered \o reader.queue
  BY <1>1, <1>2, OneMoves, ZenonT(120)
<1>4. /\ reader' \in Readers /\ reader'.next = reader.next
      /\ reader'.pending = reader.pending /\ reader'.queue = Tail(reader.queue)
  BY <1>1, <1>2, <1>3 DEF Readers
<1>5. /\ AllCame(delivered' \o reader'.queue)
      /\ Cursor(reader'.next, reader'.pending, Len(delivered' \o reader'.queue))
  BY <1>3, <1>4 DEF StreamInv
<1> QED BY <1>3, <1>4, <1>5, ReaderMoves

LEMMA ReadOnStep == ASSUME StreamInv, UNCHANGED writerVars, R!ReadOn PROVE StreamInv'
<1> DEFINE pg == out[reader.next]
           e == R!Ends(pg)
           ps == R!Completed(reader, pg)
<1>1. /\ reader.queue = <<>> /\ reader.next <= Len(out) /\ e = <<>>
      /\ reader' = R!Absorbed(reader, pg) /\ delivered' = delivered
  BY DEF R!ReadOn, R!Reading, R!page
<1>2. /\ reader'.next = reader.next + 1
      /\ reader' \in [next: 1..(Len(out) + 1), astray: {FALSE}, serial: {NoSerial, Serial},
                      pending: Seq(P!Seg), queue: {<<>>}]
      /\ ps = <<>> /\ AllCame(delivered \o ps)
      /\ Cursor(reader.next + 1, reader'.pending, Len(delivered \o ps))
  BY <1>1, ReadPage
<1> HIDE DEF ps
<1>3. reader' \in Readers /\ reader'.queue = <<>>
  <2>1. <<>> \in Seq(Packet)
    OBVIOUS
  <2> QED BY <1>2, <2>1 DEF Readers
<1>4. delivered' \in Seq(Packet) /\ delivered' \o reader'.queue = delivered \o ps
  BY <1>1, <1>2, <1>3 DEF StreamInv
<1> QED BY <1>2, <1>3, <1>4, ReaderMoves

LEMMA DeliverStep == ASSUME StreamInv, UNCHANGED writerVars, R!Deliver PROVE StreamInv'
<1> DEFINE pg == out[reader.next]
           e == R!Ends(pg)
           ps == R!Completed(reader, pg)
<1>1. /\ reader.queue = <<>> /\ reader.next <= Len(out) /\ e # <<>>
      /\ reader' = R!Absorbed(reader, pg) /\ delivered' = Append(delivered, ps[1])
  BY DEF R!Deliver, R!Reading, R!page
<1>2. /\ reader'.next = reader.next + 1
      /\ reader' \in [next: 1..(Len(out) + 1), astray: {FALSE}, serial: {NoSerial, Serial},
                      pending: Seq(P!Seg), queue: {R!Pop(ps)}]
      /\ ps \in Seq(Packet) /\ ps # <<>> /\ AllCame(delivered \o ps)
      /\ Cursor(reader.next + 1, reader'.pending, Len(delivered \o ps))
  BY <1>1, ReadPage
<1> HIDE DEF ps
<1>3. /\ delivered \in Seq(Packet) /\ Head(ps) = ps[1] /\ R!Pop(ps) = Tail(ps)
  BY <1>2 DEF StreamInv, R!Pop
<1>4. /\ delivered' \in Seq(Packet) /\ Tail(ps) \in Seq(Packet)
      /\ delivered' \o Tail(ps) = delivered \o ps
  <2>1. /\ Append(delivered, Head(ps)) \in Seq(Packet) /\ Tail(ps) \in Seq(Packet)
        /\ Append(delivered, Head(ps)) \o Tail(ps) = delivered \o ps
    BY <1>2, <1>3, OneMoves, ZenonT(120)
  <2> QED BY <1>1, <1>3, <2>1
<1>5. reader' \in Readers /\ reader'.queue = Tail(ps)
  BY <1>2, <1>3, <1>4 DEF Readers
<1> QED BY <1>2, <1>4, <1>5, ReaderMoves

LEMMA StreamInvStep == StreamInv /\ [Next]_vars => StreamInv'
<1> SUFFICES ASSUME StreamInv, [Next]_vars PROVE StreamInv'
  OBVIOUS
<1>1. CASE Write
  BY <1>1, WriteStep
<1>2. CASE Read
  BY <1>2, ServeStep, ReadOnStep, DeliverStep DEF Read
<1>3. CASE UNCHANGED vars
  <2>1. reader' = reader /\ delivered' = delivered /\ UNCHANGED writerVars
    BY <1>3 DEF vars, writerVars
  <2> QED BY <2>1, ReaderMoves DEF StreamInv
<1> QED BY <1>1, <1>2, <1>3 DEF Next

LEMMA StreamInvAlways == Spec => []StreamInv
  BY StreamInvInit, StreamInvStep, PTL DEF Spec

-----------------------------------------------------------------------------
(* What was delivered is a prefix of what was sent.                        *)
received == [i \in DOMAIN delivered |-> Received(delivered[i])]
Prefix(s, m) == [i \in 1..m |-> s[i]]
ReceivedSent ==
    /\ delivered \in Seq(Packet) /\ sent \in Seq(P!SentPacket) /\ Len(delivered) <= Len(sent)
    /\ received = Prefix(sent, Len(delivered))

LEMMA ReceivedIsSent == StreamInv => ReceivedSent
<1> SUFFICES ASSUME StreamInv PROVE ReceivedSent
  OBVIOUS
<1>1. delivered \in Seq(Packet) /\ reader.queue \in Seq(Packet)
  BY DEF StreamInv, Readers
<1>2. Len(delivered) \in Nat /\ DOMAIN delivered = 1..Len(delivered)
  BY <1>1
<1> DEFINE D == delivered \o reader.queue
<1>3. \A i \in 1..Len(delivered) : i \in DOMAIN D /\ D[i] = delivered[i]
  BY <1>1
<1> HIDE DEF D
<1>4. ASSUME NEW i \in 1..Len(delivered)
      PROVE  i \in 1..Len(sent) /\ Received(delivered[i]) = sent[i]
  <2> DEFINE d == delivered[i]
             n == sent[i].laces
  <2>1. Came(d, i, sent)
    BY <1>3 DEF StreamInv, AllCame, D
  <2>2. sent \in Seq(P!SentPacket) /\ i \in 1..Len(sent)
    BY <2>1 DEF Came, StreamInv, P!HInv, P!IInv, P!TypeOK
  <2>3. d.segs = P!oggLacing(i, n) /\ n \in Nat \ {0} /\ Len(d.segs) = n /\ d.segs[n].pkt = i
    <3>1. /\ Len(P!oggLacing(i, n)) = n /\ n \in Nat \ {0}
          /\ \A j \in 1..n : P!oggLacing(i, n)[j].pkt = i
      BY <2>2, StreamConstants, P!LacingAt
    <3> QED BY <2>1, <3>1 DEF Came
  <2>4. Owner(d) = i
    BY <2>3 DEF Owner, Last
  <2>5. W!oggLacing(i, n) = P!oggLacing(i, n)
    BY DEF W!oggLacing, P!oggLacing
  <2> HIDE DEF d
  <2>6. Received(d) = sent[i]
    BY <2>1, <2>3, <2>4, <2>5, Zenon DEF Received, Came
  <2> QED BY <2>2, <2>6 DEF d
<1>5. received = Prefix(sent, Len(delivered))
  BY <1>2, <1>4 DEF received, Prefix
<1>6. sent \in Seq(P!SentPacket)
  BY DEF StreamInv, P!HInv, P!IInv, P!TypeOK
<1>7. Len(delivered) <= Len(sent)
  <2>1. Len(delivered) > 0 => Len(delivered) \in 1..Len(delivered)
    BY <1>2
  <2> QED BY <1>2, <1>4, <1>6, <2>1
<1> QED BY <1>1, <1>5, <1>6, <1>7 DEF ReceivedSent

(* Each step is one of the channel's, or none.                             *)
LEMMA StreamStep ==
    ASSUME StreamInv, ReceivedSent, ReceivedSent', [Next]_vars
    PROVE  [Channel!Send \/ Channel!Receive]_(<<sent, received>>)
<1> DEFINE m == Len(delivered)
<1>1. /\ m \in Nat /\ Len(sent) \in Nat /\ m <= Len(sent) /\ received = Prefix(sent, m)
      /\ sent \in Seq(P!SentPacket) /\ delivered \in Seq(Packet)
  BY DEF ReceivedSent
<1>2. /\ received' = Prefix(sent', Len(delivered')) /\ Len(delivered') <= Len(sent')
  BY DEF ReceivedSent
<1>3. ASSUME delivered' = delivered, P!SentNow(sent', sent)
      PROVE  received' = received /\ (sent' = sent \/ Channel!Send)
  <2>1. P!Extends(sent', sent)
    BY <1>3, SentStays DEF StreamInv
  <2>2. \A i \in 1..m : sent'[i] = sent[i]
    BY <1>1, <2>1 DEF P!Extends
  <2>3. received' = received
    BY <1>1, <1>2, <1>3, <2>2 DEF Prefix
  <2>4. ASSUME NEW p \in [laces: Laces, granule: Granules \cup {0}, bos: BOOLEAN, eos: BOOLEAN],
               sent' = Append(sent, p)
        PROVE  Channel!Send
    BY <2>3, <2>4, Zenon DEF Channel!Send, received
  <2> QED BY <1>3, <2>3, <2>4 DEF P!SentNow
<1>4. ASSUME sent' = sent, NEW d, delivered' = Append(delivered, d)
      PROVE  Channel!Receive
  <2>1. Len(delivered') = m + 1
    BY <1>1, <1>4
  <2>2. m + 1 <= Len(sent) /\ received' = Prefix(sent, m + 1)
    BY <1>2, <1>4, <2>1
  <2>3. /\ Len(Prefix(sent, m)) = m
        /\ Prefix(sent, m + 1) = Append(Prefix(sent, m), sent[m + 1])
    <3>1. Prefix(sent, m) \in Seq(P!SentPacket) /\ sent[m + 1] \in P!SentPacket
      BY <1>1, <2>2 DEF Prefix
    <3>2. Len(Prefix(sent, m)) = m
      BY <1>1 DEF Prefix
    <3> QED BY <1>1, <3>1, <3>2 DEF Prefix
  <2>4. received' = Append(received, sent[m + 1]) /\ Len(received) = m
    BY <1>1, <2>2, <2>3
  <2>5. Len(received) < Len(sent) /\ received' = Append(received, sent[Len(received) + 1])
    BY <1>1, <2>2, <2>4
  <2> QED BY <1>4, <2>5 DEF Channel!Receive, received
<1>5. CASE Write
  <2>1. P!SentNow(sent', sent) /\ delivered' = delivered
    BY <1>5, WriterMoves DEF Write, readerVars, StreamInv
  <2> QED BY <1>3, <2>1 DEF received
<1>6. CASE Read
  <2>1. sent' = sent
    BY <1>6 DEF Read, writerVars
  <2>2. delivered' = delivered \/ \E d : delivered' = Append(delivered, d)
    BY <1>6 DEF Read, R!ServeQueue, R!ReadOn, R!Deliver
  <2>3. P!SentNow(sent', sent)
    BY <2>1 DEF P!SentNow
  <2> QED BY <1>3, <1>4, <2>1, <2>2, <2>3
<1>7. CASE UNCHANGED vars
  <2>1. sent' = sent /\ delivered' = delivered
    BY <1>7 DEF vars
  <2> QED BY <1>3, <2>1 DEF P!SentNow
<1> QED BY <1>5, <1>6, <1>7 DEF Next

(* Muxer and demuxer are a reliable channel: every packet the muxer was    *)
(* given comes out of the demuxer in order, once, with its size, flags and *)
(* position, whatever the pages, the calls and the output's failures.      *)
THEOREM StreamIsChannel == Spec => ImplementsChannel
<1>1. Init => Channel!Init
  <2> SUFFICES ASSUME Init PROVE Channel!Init
    OBVIOUS
  <2>1. sent = <<>> /\ delivered = <<>>
    BY DEF Init, W!Init, R!Init
  <2>2. received = <<>>
    BY <2>1 DEF received
  <2> QED BY <2>1, <2>2 DEF Channel!Init, received
<1>2. StreamInv /\ ReceivedSent /\ ReceivedSent' /\ [Next]_vars =>
        [Channel!Send \/ Channel!Receive]_(<<sent, received>>)
  BY StreamStep
<1> QED BY <1>1, <1>2, StreamInvAlways, ReceivedIsSent, PTL
        DEF Spec, ImplementsChannel, Channel!Spec, received
=============================================================================
