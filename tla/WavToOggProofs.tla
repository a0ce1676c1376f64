---------------------------- MODULE WavToOggProofs ----------------------------
(***************************************************************************)
(* Proofs about WavToOgg, for every rate, delay, frame size and file, and  *)
(* about the Resampler in it.                                              *)
(*                                                                         *)
(* The properties of the stream say something of the last packet only once *)
(* it is written; what makes them hold is known before: how far the        *)
(* encoder was fed (Ahead: never a whole frame more than the loop's        *)
(* condition asks for), and that the granules follow what was fed          *)
(* (Marked).                                                               *)
(***************************************************************************)
EXTENDS WavToOgg, TLAPS

Packet == [audio: Seq(Int), granule: Int, eos: BOOLEAN]

(* The last packet, marked EOS, has gone out. *)
Complete == held = <<>> /\ stream # <<>>

Typed ==
    /\ ratio \in Ratios /\ inFrames \in Nat /\ next \in Int
    /\ job \in Jobs /\ dataRemaining \in Int
    /\ pending \in Seq(Int)
    /\ eof \in BOOLEAN /\ exhausted \in BOOLEAN
    /\ fed \in Nat /\ realFrames \in Nat
    /\ held \in Seq(Packet) /\ stream \in Seq(Packet)
    /\ result \in {"setup", "running", "ok", "error"}

(* Until the input is exhausted every frame is full; the encoder is fed    *)
(* less than a frame beyond what the loop's condition asks for.            *)
Ahead ==
    /\ ~ exhausted => fed = realFrames
    /\ exhausted => fed > 0
    /\ fed > 0 => fed - job.frame < realFrames + job.lookahead

(* The granule of a packet is what was fed through it, but for the last.   *)
Marked ==
    /\ fed = (Len(stream) + Len(held)) * job.frame
    /\ Len(held) \in {0, 1}
    /\ \A i \in DOMAIN held : held[i].granule = fed * job.scale /\ ~ held[i].eos
    /\ \A i \in DOMAIN stream :
         ~ (Complete /\ i = Len(stream)) =>
             /\ stream[i].granule = (i * job.frame) * job.scale
             /\ ~ stream[i].eos

Finished ==
    /\ Complete =>
         /\ exhausted /\ fed >= realFrames + job.lookahead
         /\ stream[Len(stream)].granule = FinalGranule
         /\ stream[Len(stream)].eos
         /\ result \in {"ok", "error"}
    /\ result = "ok" => Complete

IInv == Typed /\ Ahead /\ Marked /\ Finished

----------------------------------------------------------------------------
LEMMA FunctionIsSeq ==
    ASSUME NEW S, NEW n \in Nat, NEW f \in [1..n -> S]
    PROVE  f \in Seq(S) /\ Len(f) = n
  OBVIOUS

LEMMA ConcatElements ==
    ASSUME NEW S, NEW s \in Seq(S), NEW t \in Seq(S)
    PROVE  /\ s \o t \in Seq(S) /\ Len(s \o t) = Len(s) + Len(t)
           /\ \A i \in 1..Len(s) : (s \o t)[i] = s[i]
           /\ \A i \in 1..Len(t) : (s \o t)[Len(s) + i] = t[i]
  OBVIOUS

LEMMA NumbersSeq ==
    ASSUME NEW from \in Int, NEW to \in Int
    PROVE  Numbers(from, to) \in Seq(Int)
<1> DEFINE f == [i \in 1..(to - from) |-> from + i - 1]
<1>1. CASE to - from \in Nat
<2>1. f \in [1..(to - from) -> Int]
  OBVIOUS
<2> HIDE DEF f
<2>2. f \in Seq(Int)
  BY <1>1, <2>1, FunctionIsSeq
<2>3. QED BY <2>2 DEF Numbers, f
<1>2. CASE ~ (to - from \in Nat)
<2>1. 1..(to - from) = 1..0
  BY <1>2
<2>2. f \in [1..0 -> Int]
  BY <2>1
<2> HIDE DEF f
<2>3. f \in Seq(Int)
  BY <2>2, FunctionIsSeq
<2>4. QED BY <2>3 DEF Numbers, f
<1>3. QED BY <1>1, <1>2

LEMMA MulMono ==
    ASSUME NEW a \in Int, NEW b \in Int, NEW c \in Nat \ {0}
    PROVE  /\ a =< b => a * c =< b * c
           /\ a < b => a * c < b * c
  OBVIOUS

LEMMA JobFacts ==
    ASSUME job \in Jobs
    PROVE  /\ job.frame \in Nat \ {0} /\ job.scale \in Nat \ {0}
           /\ job.lookahead \in Nat \ {0} /\ job.channels \in Nat \ {0}
           /\ job.bytes \in Nat /\ job.resampled \in BOOLEAN
<1>1. /\ job.frame \in FrameSizes /\ job.scale \in Scales
      /\ job.lookahead \in Lookaheads /\ job.channels \in Channels
      /\ job.bytes \in 0..MaxBytes /\ job.resampled \in BOOLEAN
  BY DEF Jobs
<1>2. job.bytes \in Nat
  BY <1>1, WavToOggConstants
<1>3. QED BY <1>1, <1>2, WavToOggConstants

----------------------------------------------------------------------------
(* The rate converter by itself, for every ratio, filter width and         *)
(* chunking.  ChunkingInvisible is not inductive: that an output frame     *)
(* finds its whole window rests on what earlier calls left in the buffer   *)
(* (Reach) and that it stays right when more input comes, on its window    *)
(* having been covered already (Done).                                     *)
(* The input frames output frame n is to be made from, of the first seen. *)
Clipped(n, seen) == {k \in Window(n) : 0 =< k /\ k < seen}

Buffer == /\ buf \in Seq(Int)
          /\ Len(buf) = inFrames - base
          /\ \A i \in DOMAIN buf : buf[i] = base + i - 1

(* No output frame still to come reaches below the buffer. *)
Reach == base = 0 \/ base =< Center(next) - ratio.half + 1

(* Before the end, what was produced had its window covered. *)
Done == ~ flushed => \A n \in 0..(next - 1) : Covered(n, inFrames)

ConverterInv ==
    /\ ratio \in Ratios /\ inFrames \in Nat /\ next \in Nat
    /\ flushed \in BOOLEAN
    /\ base \in 0..inFrames
    /\ out \in Seq(SUBSET Int) /\ Len(out) = next
    /\ Buffer /\ Reach /\ Done
    /\ \A i \in 1..next : out[i] = Clipped(i - 1, inFrames)
    /\ flushed => next = Total

(* Division rounds down, and so is monotone. *)
LEMMA DivBounds ==
    ASSUME NEW a \in Int, NEW b \in Nat \ {0}
    PROVE  /\ a \div b \in Int
           /\ (a \div b) * b =< a
           /\ a < (a \div b + 1) * b
           /\ a >= 0 => a \div b >= 0
  OBVIOUS

LEMMA DivMono ==
    ASSUME NEW a \in Int, NEW b \in Int, NEW c \in Nat \ {0}, a =< b
    PROVE  a \div c =< b \div c
<1>1. SUFFICES ASSUME b \div c + 1 =< a \div c PROVE FALSE
  BY DivBounds
<1>2. (b \div c + 1) * c =< (a \div c) * c
  BY <1>1, MulMono, DivBounds
<1>3. b < a
  BY <1>2, DivBounds
<1>4. QED BY <1>3

LEMMA CenterMono ==
    ASSUME ratio \in Ratios, NEW n \in Nat, NEW m \in Nat, n =< m
    PROVE  /\ Center(n) \in Nat /\ Center(m) \in Nat
           /\ Center(n) =< Center(m)
<1>1. ratio.up \in Nat \ {0} /\ ratio.down \in Nat \ {0}
  BY ResamplerConstants
<1>2. n * ratio.down =< m * ratio.down
  BY <1>1, MulMono
<1>3. n * ratio.down \in Nat /\ m * ratio.down \in Nat
  BY <1>1
<1>4. Center(n) \in Nat /\ Center(m) \in Nat
  BY <1>1, <1>3, DivBounds DEF Center
<1>5. Center(n) =< Center(m)
  BY <1>1, <1>2, <1>3, DivMono DEF Center
<1>6. QED BY <1>4, <1>5

(* What Produce reads: an output frame still to come finds its window.     *)
LEMMA SourcesClipped ==
    ASSUME ConverterInv, NEW n \in Nat, n >= next, NEW seen \in Nat, seen >= inFrames,
           NEW b \in Seq(Int), Len(b) = seen - base,
           \A i \in DOMAIN b : b[i] = base + i - 1
    PROVE  Sources(n, b, seen) = Clipped(n, seen)
<1>1. ratio.half \in Nat /\ ratio \in Ratios
  BY ResamplerConstants DEF ConverterInv
<1>2. Center(next) =< Center(n) /\ Center(n) \in Nat /\ Center(next) \in Nat
  BY CenterMono DEF ConverterInv
<1>3. base \in Nat /\ base =< seen
  BY DEF ConverterInv
<1>r. Reach
  BY DEF ConverterInv
<1>4. \A k \in Clipped(n, seen) : k \in Int /\ base =< k /\ k < seen
  BY <1>1, <1>2, <1>3, <1>r DEF Reach, Clipped, Window
<1>5. DOMAIN b = 1..(seen - base)
  OBVIOUS
<1>6. Window(n) \cap 0..(seen - 1) = Clipped(n, seen)
  BY <1>1, <1>2 DEF Clipped, Window
<1>7. ASSUME NEW k \in Clipped(n, seen)
      PROVE  k - base + 1 \in DOMAIN b /\ b[k - base + 1] = k
  BY <1>3, <1>4, <1>5
<1>8. \A i \in DOMAIN b : \A k \in Clipped(n, seen) : i = k - base + 1 => b[i] = k
  BY <1>7
<1>9. Sources(n, b, seen) =
        {b[i] : i \in {k - base + 1 : k \in Clipped(n, seen)} \cap DOMAIN b}
  BY <1>6 DEF Sources
<1>10. QED BY <1>7, <1>8, <1>9

(* What is dropped is in the buffer, and below every window to come.       *)
LEMMA DroppedBounds ==
    ASSUME ConverterInv, NEW n \in Nat, n >= next, NEW seen \in Nat, seen >= inFrames
    PROVE  /\ Dropped(n, seen) \in 0..(seen - base)
           /\ base + Dropped(n, seen) = 0
              \/ base + Dropped(n, seen) =< Center(n) - ratio.half + 1
<1>1. ratio.half \in Nat /\ ratio \in Ratios /\ base \in Nat /\ base =< seen /\ Reach
  BY ResamplerConstants DEF ConverterInv
<1>2. Center(next) =< Center(n) /\ Center(n) \in Nat /\ Center(next) \in Nat
  BY CenterMono DEF ConverterInv
<1>3. CASE ToDrop(n, seen) > 0
  BY <1>1, <1>2, <1>3 DEF Dropped, ToDrop
<1>4. CASE ~ (ToDrop(n, seen) > 0)
  BY <1>1, <1>2, <1>4 DEF Dropped, ToDrop, Reach
<1>5. QED BY <1>3, <1>4

(* Center, Window, Clipped and Total are the same after a step of the same *)
(* ratio.                                                                  *)
LEMMA ProduceStep ==
    ASSUME ConverterInv, NEW seen \in Nat, seen >= inFrames, NEW end \in Nat, end >= next,
           NEW b \in Seq(Int), Len(b) = seen - base,
           \A i \in DOMAIN b : b[i] = base + i - 1,
           Produce(b, seen, end), inFrames' = seen, UNCHANGED ratio,
           \A n \in 0..(next - 1) : Covered(n, inFrames)
    PROVE  /\ next' = end /\ base' \in 0..inFrames'
           /\ out' \in Seq(SUBSET Int) /\ Len(out') = next'
           /\ Buffer' /\ Reach'
           /\ \A i \in 1..next' : out'[i] = Clipped(i - 1, inFrames)'
<1>1. /\ ratio.half \in Nat /\ ratio \in Ratios /\ base \in Nat /\ base =< seen
      /\ inFrames \in Nat /\ next \in Nat
      /\ out \in Seq(SUBSET Int) /\ Len(out) = next
  BY ResamplerConstants DEF ConverterInv
<1>2. /\ next' = end
      /\ out' = out \o [i \in 1..(end - next) |-> Sources(next + i - 1, b, seen)]
      /\ buf' = SubSeq(b, Dropped(end, seen) + 1, Len(b))
      /\ base' = base + Dropped(end, seen)
<2> DEFINE new == IF next < end THEN end - next ELSE 0
<2>1. new = end - next /\ next + new = end
  BY <1>1
<2>2. /\ next' = next + new
      /\ out' = out \o [i \in 1..new |-> Sources(next + i - 1, b, seen)]
      /\ buf' = SubSeq(b, Dropped(next + new, seen) + 1, Len(b))
      /\ base' = base + Dropped(next + new, seen)
  BY Zenon DEF Produce, NewBase
<2> HIDE DEF new
<2>3. QED BY Zenon, <2>1, <2>2
<1>3. /\ Dropped(end, seen) \in 0..(seen - base)
      /\ base' = 0 \/ base' =< Center(end) - ratio.half + 1
  BY <1>2, DroppedBounds
<1>4. base' \in 0..inFrames'
  BY <1>1, <1>2, <1>3
<1>5. Buffer'
<2> DEFINE drop == Dropped(end, seen)
<2> HIDE DEF drop
<2>1. drop \in 0..(seen - base) /\ buf' = SubSeq(b, drop + 1, Len(b)) /\ base' = base + drop
  BY <1>2, <1>3 DEF drop
<2>2. buf' \in Seq(Int) /\ Len(buf') = Len(b) - drop
  BY <1>1, <2>1
<2>3. \A i \in 1..(Len(b) - drop) : buf'[i] = b[drop + i] /\ drop + i \in DOMAIN b
  BY <1>1, <2>1
<2>4. ASSUME NEW i \in DOMAIN buf' PROVE buf'[i] = base' + i - 1
<3>1. i \in 1..(Len(b) - drop) /\ i \in Int
  BY <1>1, <2>1, <2>2
<3>2. buf'[i] = b[drop + i] /\ b[drop + i] = base + (drop + i) - 1
  BY <2>3, <3>1
<3>3. QED BY <1>1, <2>1, <3>1, <3>2
<2>5. QED BY <1>1, <2>1, <2>2, <2>4 DEF Buffer
<1>6. Reach'
  BY <1>2, <1>3 DEF Reach, Center
<1>7. \A i \in 1..(end - next) :
         Sources(next + i - 1, b, seen) = Clipped(next + i - 1, seen)
  BY <1>1, SourcesClipped
<1>8. \A n \in Nat : Clipped(n, seen) \subseteq Int
  BY <1>1, CenterMono DEF Clipped, Window
<1>9. out' \in Seq(SUBSET Int) /\ Len(out') = next'
<2> DEFINE new == [i \in 1..(end - next) |-> Sources(next + i - 1, b, seen)]
<2>1. \A i \in 1..(end - next) : Sources(next + i - 1, b, seen) \in SUBSET Int
<3>1. \A i \in 1..(end - next) : next + i - 1 \in Nat
  BY <1>1
<3>2. QED BY <1>7, <1>8, <3>1
<2>2. new \in Seq(SUBSET Int) /\ Len(new) = end - next
<3>1. new \in [1..(end - next) -> SUBSET Int]
  BY Zenon, <2>1
<3>2. end - next \in Nat
  BY <1>1
<3> HIDE DEF new
<3>3. QED BY <3>1, <3>2, FunctionIsSeq
<2>3. out' = out \o new
  BY <1>2
<2> HIDE DEF new
<2>4. out' \in Seq(SUBSET Int) /\ Len(out') = Len(out) + Len(new)
  BY <1>1, <2>2, <2>3, ConcatElements
<2>5. Len(out) = next /\ Len(new) = end - next /\ next' = end
  BY <1>1, <1>2, <2>2
<2>6. QED BY <1>1, <2>4, <2>5
<1>10. ASSUME NEW i \in 1..next' PROVE out'[i] = Clipped(i - 1, inFrames)'
<2>1. Clipped(i - 1, inFrames)' = Clipped(i - 1, seen)
<3>1. Window(i - 1)' = Window(i - 1)
  BY Zenon DEF Window, Center
<3>2. QED BY Zenon, <3>1 DEF Clipped
<2>2. CASE i =< next
<3>1. out'[i] = out[i] /\ i \in 1..next
  BY <1>1, <1>2, <2>2
<3>2. out[i] = Clipped(i - 1, inFrames)
  BY <3>1 DEF ConverterInv
<3>3. Center(i - 1) + ratio.half < inFrames /\ Center(i - 1) \in Nat
<4>1. i - 1 \in Nat /\ i - 1 =< i - 1 /\ i - 1 \in 0..(next - 1) /\ ratio \in Ratios
  BY <1>1, <3>1 DEF ConverterInv
<4>2. Center(i - 1) \in Nat
  BY <4>1, CenterMono
<4>3. Covered(i - 1, inFrames)
  BY <4>1
<4>4. QED BY <4>2, <4>3 DEF Covered
<3>4. Clipped(i - 1, inFrames) = Clipped(i - 1, seen)
  BY <1>1, <3>3 DEF Clipped, Window
<3>5. QED BY <2>1, <3>1, <3>2, <3>4
<2>3. CASE i > next
<3> DEFINE j == i - next
           new == [l \in 1..(end - next) |-> Sources(next + l - 1, b, seen)]
<3>1. j \in 1..(end - next) /\ next + j - 1 = i - 1 /\ i = Len(out) + j
  BY <1>1, <1>2, <2>3
<3>2. DOMAIN new = 1..(end - next) /\ new[j] = Clipped(i - 1, seen)
<4>1. new[j] = Sources(next + j - 1, b, seen)
  BY <3>1
<4>2. Sources(next + j - 1, b, seen) = Clipped(next + j - 1, seen)
  BY <1>7, <3>1
<4>3. QED BY <3>1, <4>1, <4>2
<3>3. out' = out \o new
  BY <1>2
<3>4. new \in Seq(SUBSET Int) /\ Len(new) = end - next
<4>1. \A l \in 1..(end - next) : new[l] \in SUBSET Int
<5>1. \A l \in 1..(end - next) : next + l - 1 \in Nat
  BY <1>1
<5>2. QED BY <1>7, <1>8, <5>1
<4>2. new \in [1..(end - next) -> SUBSET Int]
  BY Zenon, <4>1
<4>3. end - next \in Nat
  BY <1>1
<4> HIDE DEF new
<4>4. QED BY <4>2, <4>3, FunctionIsSeq
<3> HIDE DEF new, j
<3>5. (out \o new)[Len(out) + j] = new[j]
  BY <1>1, <3>1, <3>4, ConcatElements
<3>6. out'[i] = new[j]
  BY <3>1, <3>3, <3>5
<3>7. QED BY <2>1, <3>2, <3>6
<2>4. QED BY <1>1, <1>2, <2>2, <2>3
<1>11. QED BY <1>2, <1>4, <1>5, <1>6, <1>9, <1>10

(* The length Total rounds up to, and that it is at least what was         *)
(* produced before: those windows were covered.                            *)
LEMMA TotalBounds ==
    ASSUME ratio \in Ratios, inFrames \in Nat
    PROVE  /\ Total \in Nat
           /\ Total * ratio.down >= inFrames * ratio.up
           /\ (Total - 1) * ratio.down < inFrames * ratio.up
<1>1. ratio.up \in Nat \ {0} /\ ratio.down \in Nat \ {0}
  BY ResamplerConstants
<1> DEFINE x == inFrames * ratio.up
<1>2. x \in Nat
  BY <1>1
<1> DEFINE y == x + ratio.down - 1
<1>3. y \in Nat /\ Total = y \div ratio.down
  BY <1>1, <1>2 DEF Total
<1> HIDE DEF y
<1>y. ratio.down \in Nat \ {0} /\ y \in Int
  BY <1>1, <1>3
<1> HIDE DEF x
<1>4. /\ Total \in Nat
      /\ Total * ratio.down =< y
      /\ y < (Total + 1) * ratio.down
<2> DEFINE d == ratio.down
           q == y \div d
<2>1. d \in Nat \ {0} /\ y \in Int /\ y >= 0
  BY <1>1, <1>3, <1>y
<2>2. Total = q
  BY <1>3
<2> HIDE DEF d
<2>3. q \in Int /\ q >= 0 /\ q * d =< y /\ y < (q + 1) * d
  BY <2>1, DivBounds
<2>4. QED BY <2>2, <2>3 DEF d
<1>5. \A t, d \in Int : (t + 1) * d = t * d + d /\ (t - 1) * d = t * d - d
  OBVIOUS
<1>6. QED BY <1>1, <1>2, <1>4, <1>5 DEF x, y

LEMMA TotalAhead ==
    ASSUME ConverterInv, ~ flushed
    PROVE  Total \in Nat /\ Total >= next
<1>1. /\ ratio.up \in Nat \ {0} /\ ratio.down \in Nat \ {0} /\ ratio.half \in Nat
      /\ ratio \in Ratios /\ inFrames \in Nat /\ next \in Nat /\ Done
  BY ResamplerConstants DEF ConverterInv
<1>2. Total \in Nat /\ Total * ratio.down >= inFrames * ratio.up
  BY <1>1, TotalBounds
<1>3. SUFFICES ASSUME Total =< next - 1 PROVE FALSE
  BY <1>1, <1>2
<1>4. next - 1 \in Nat /\ next - 1 \in 0..(next - 1)
  BY <1>1, <1>2, <1>3
<1>5. Center(next - 1) \in Nat /\ Center(next - 1) + 1 =< inFrames
  BY <1>1, <1>4, CenterMono DEF Done, Covered
<1>6. (next - 1) * ratio.down < (Center(next - 1) + 1) * ratio.up
  BY <1>1, <1>4, DivBounds DEF Center
<1>7. (Center(next - 1) + 1) * ratio.up =< inFrames * ratio.up
  BY <1>1, <1>5, MulMono
<1>8. Total * ratio.down =< (next - 1) * ratio.down
  BY <1>1, <1>2, <1>3, MulMono
<1>9. QED BY <1>1, <1>2, <1>4, <1>5, <1>6, <1>7, <1>8

----------------------------------------------------------------------------
LEMMA ConverterInitInv == ConverterInit => ConverterInv
<1> SUFFICES ASSUME ConverterInit PROVE ConverterInv
  OBVIOUS
<1>1. <<>> \in Seq(Int) /\ <<>> \in Seq(SUBSET Int)
  OBVIOUS
<1>2. /\ ratio \in Ratios /\ buf = <<>> /\ base = 0 /\ inFrames = 0
      /\ next = 0 /\ flushed = FALSE /\ out = <<>>
  BY DEF ConverterInit
<1>3. Len(<<>>) = 0 /\ DOMAIN <<>> = {}
  OBVIOUS
<1>4. 1..0 = {} /\ 0..(0 - 1) = {} /\ 0 \in Nat /\ 0 \in 0..0 /\ 0 - 0 = 0
  OBVIOUS
<1>5. Buffer
  BY <1>1, <1>2, <1>3, <1>4 DEF Buffer
<1>6. Reach
  BY <1>2, <1>4 DEF Reach
<1>7. Done
  BY <1>2, <1>4 DEF Done
<1>8. /\ inFrames \in Nat /\ next \in Nat /\ base \in 0..inFrames
      /\ flushed \in BOOLEAN
  BY <1>2, <1>4
<1>9. out \in Seq(SUBSET Int) /\ Len(out) = next
  BY <1>1, <1>2, <1>3
<1>10. \A i \in 1..next : out[i] = Clipped(i - 1, inFrames)
  BY <1>2, <1>4
<1>11. QED BY <1>2, <1>5, <1>6, <1>7, <1>8, <1>9, <1>10 DEF ConverterInv

LEMMA ConverterProcessInv ==
    ASSUME ConverterInv, NEW n \in Nat, Process(n)
    PROVE  ConverterInv'
<1> DEFINE seen == inFrames + n
           more == [i \in 1..n |-> inFrames + i - 1]
           b    == buf \o more
<1>1. /\ ~ flushed /\ n \in Nat /\ inFrames \in Nat /\ next \in Nat /\ Done
      /\ base \in 0..inFrames /\ buf \in Seq(Int) /\ Len(buf) = inFrames - base
      /\ \A i \in DOMAIN buf : buf[i] = base + i - 1
  BY ResamplerConstants DEF ConverterInv, Buffer, Process
<1>2. PICK end \in next..(next + seen * ratio.up) :
         /\ \A m \in next..(end - 1) : Covered(m, seen)
         /\ Produce(b, seen, end)
  BY DEF Process
<1>3. inFrames' = seen /\ UNCHANGED <<ratio, flushed>>
  BY DEF Process
<1>4. more \in Seq(Int) /\ Len(more) = n
<2>1. more \in [1..n -> Int]
  BY <1>1
<2> HIDE DEF more
<2>2. QED BY <1>1, <2>1, FunctionIsSeq
<1>5. b \in Seq(Int) /\ Len(b) = seen - base
  BY <1>1, <1>4, ConcatElements
<1>6. ASSUME NEW i \in DOMAIN b PROVE b[i] = base + i - 1
<2>1. i \in 1..(Len(buf) + n) /\ i \in Int
  BY <1>1, <1>5
<2>2. CASE i =< Len(buf)
<3>1. i \in 1..Len(buf) /\ i \in DOMAIN buf
  BY <1>1, <2>1, <2>2
<3>2. b[i] = buf[i]
  BY <1>1, <1>4, <3>1, ConcatElements
<3>3. QED BY <1>1, <3>1, <3>2
<2>3. CASE i > Len(buf)
<3> DEFINE j == i - Len(buf)
<3>1. j \in 1..n /\ i = Len(buf) + j
  BY <1>1, <2>1, <2>3
<3>3. more[j] = inFrames + j - 1
  BY <3>1
<3> HIDE DEF more, j
<3>2. b[Len(buf) + j] = more[j]
  BY <1>1, <1>4, <3>1, ConcatElements
<3>4. QED BY <1>1, <2>1, <3>1, <3>2, <3>3
<2>4. QED BY <1>1, <2>1, <2>2, <2>3
<1>7. seen \in Nat /\ seen >= inFrames /\ end \in Nat /\ end >= next
<2>1. seen \in Nat /\ seen >= inFrames
  BY <1>1
<2>2. end \in Int /\ end >= next
<3>1. ratio.up \in Nat
  BY ResamplerConstants DEF ConverterInv
<3>2. next + seen * ratio.up \in Int
  BY <1>1, <2>1, <3>1
<3> HIDE DEF seen
<3>3. QED BY <1>1, <1>2, <3>2
<2>3. QED BY <1>1, <2>1, <2>2
<1>8. \A m \in 0..(next - 1) : Covered(m, inFrames)
  BY <1>1 DEF Done
<1> HIDE DEF b, seen
<1>9. /\ next' = end /\ base' \in 0..inFrames'
      /\ out' \in Seq(SUBSET Int) /\ Len(out') = next'
      /\ Buffer' /\ Reach'
      /\ \A i \in 1..next' : out'[i] = Clipped(i - 1, inFrames)'
  BY <1>2, <1>3, <1>5, <1>6, <1>7, <1>8, ProduceStep
<1>10. Done'
<2>1. ASSUME NEW m \in 0..(end - 1) PROVE Covered(m, seen)
<3>1. CASE m < next
<4>1. /\ ratio.half \in Nat /\ ratio.down \in Nat \ {0} /\ ratio.up \in Nat \ {0}
      /\ ratio \in Ratios
  BY ResamplerConstants DEF ConverterInv
<4>2. m \in Nat /\ m \in 0..m /\ m \in 0..(next - 1)
  BY <1>1, <1>7, <3>1
<4>3. Center(m) \in Nat
  BY <4>1, <4>2, CenterMono
<4>4. Center(m) + ratio.half < inFrames
  BY <1>8, <4>2 DEF Covered
<4>5. QED BY <1>1, <1>7, <4>1, <4>3, <4>4 DEF Covered
<3>2. CASE m >= next
  BY <1>1, <1>2, <1>7, <3>2
<3>3. QED BY <1>1, <1>7, <3>1, <3>2
<2>2. \A m : Covered(m, inFrames)' <=> Covered(m, seen)
  BY Zenon, <1>3 DEF Covered, Center
<2>3. QED BY <1>9, <2>1, <2>2 DEF Done
<1>11. QED
<2>1. ratio' \in Ratios /\ inFrames' \in Nat /\ next' \in Nat /\ flushed' = FALSE
  BY <1>1, <1>3, <1>7, <1>9 DEF ConverterInv
<2>2. QED BY <1>9, <1>10, <2>1 DEF ConverterInv

LEMMA ConverterFlushInv ==
    ASSUME ConverterInv, Flush
    PROVE  ConverterInv'
<1>1. /\ ~ flushed /\ inFrames \in Nat /\ next \in Nat /\ Done /\ Buffer
      /\ base \in 0..inFrames
  BY DEF ConverterInv, Flush
<1>2. /\ flushed' = TRUE /\ UNCHANGED <<ratio, inFrames>>
      /\ Produce(buf, inFrames, Total)
  BY DEF Flush
<1>3. Total \in Nat /\ Total >= next
  BY <1>1, TotalAhead
<1>4. \A m \in 0..(next - 1) : Covered(m, inFrames)
  BY <1>1 DEF Done
<1>5. /\ buf \in Seq(Int) /\ Len(buf) = inFrames - base
      /\ \A i \in DOMAIN buf : buf[i] = base + i - 1
  BY <1>1 DEF Buffer
<1>6. inFrames >= inFrames
  BY <1>1
<1>7. /\ next' = Total /\ base' \in 0..inFrames'
      /\ out' \in Seq(SUBSET Int) /\ Len(out') = next'
      /\ Buffer' /\ Reach'
      /\ \A i \in 1..next' : out'[i] = Clipped(i - 1, inFrames)'
<2> HIDE DEF Total
<2>1. QED BY <1>1, <1>2, <1>3, <1>4, <1>5, <1>6, ProduceStep
<1>8. Total' = Total
  BY Zenon, <1>2 DEF Total
<1>9. Done'
  BY <1>2 DEF Done
<1>10. ratio' \in Ratios /\ inFrames' \in Nat
  BY <1>1, <1>2 DEF ConverterInv
<1> HIDE DEF Total
<1>11. QED BY <1>2, <1>3, <1>7, <1>8, <1>9, <1>10 DEF ConverterInv

LEMMA ConverterStutterInv ==
    ASSUME ConverterInv, UNCHANGED converter
    PROVE  ConverterInv'
  BY DEF ConverterInv, converter, Buffer, Reach, Done, Covered, Clipped, Window, Center, Total

(* The invariant the theorems rest on. *)
THEOREM ResamplerInv == ConverterSpec => []ConverterInv
<1>1. ConverterInv /\ [ConverterNext]_converter => ConverterInv'
  BY ResamplerConstants, ConverterProcessInv, ConverterFlushInv, ConverterStutterInv DEF ConverterNext
<1>2. QED BY ConverterInitInv, <1>1, PTL DEF ConverterSpec

(* Whatever the sizes of the chunks, an output frame is made from its whole *)
(* window of the whole input: nothing it needs was dropped, and it was not *)
(* produced before its input was there.                                    *)
THEOREM ResamplerChunking == ConverterSpec => []ChunkingInvisible
<1>1. ConverterInv => ChunkingInvisible
  BY DEF ConverterInv, ChunkingInvisible, Clipped
<1>2. QED BY ResamplerInv, <1>1, PTL

(* A whole stream gives exactly ceil(inputFrames * to / from) frames.      *)
THEOREM ResamplerCount == ConverterSpec => []CountExact
<1>1. ASSUME ConverterInv PROVE CountExact
<2>1. SUFFICES ASSUME flushed
               PROVE  /\ Len(out) * ratio.down >= inFrames * ratio.up
                      /\ (Len(out) - 1) * ratio.down < inFrames * ratio.up
  BY DEF CountExact
<2>2. Len(out) = Total /\ ratio \in Ratios /\ inFrames \in Nat
  BY <1>1, <2>1 DEF ConverterInv
<2> HIDE DEF Total
<2>3. QED BY <2>2, TotalBounds
<1>2. QED BY ResamplerInv, <1>1, PTL

----------------------------------------------------------------------------
LEMMA InitInv == Init => IInv
<1> SUFFICES ASSUME Init PROVE IInv
  OBVIOUS
<1>1. /\ ratio \in Ratios /\ inFrames = 0 /\ next = 0
  BY DEF Init, ConverterInit
<1>2. /\ job \in Jobs /\ dataRemaining = job.bytes /\ pending = <<>>
      /\ eof = FALSE /\ exhausted = FALSE /\ fed = 0 /\ realFrames = 0
      /\ held = <<>> /\ stream = <<>> /\ result = "setup"
  BY DEF Init
<1>3. job.bytes \in Nat /\ job.frame \in Nat
  BY <1>2, JobFacts
<1>4. <<>> \in Seq(Int) /\ <<>> \in Seq(Packet) /\ Len(<<>>) = 0 /\ DOMAIN <<>> = {}
  OBVIOUS
<1>5. Typed
<2>1. inFrames \in Nat /\ next \in Int /\ fed \in Nat /\ realFrames \in Nat
      /\ dataRemaining \in Int
  BY <1>1, <1>2, <1>3
<2>2. pending \in Seq(Int) /\ held \in Seq(Packet) /\ stream \in Seq(Packet)
  BY Zenon, <1>2, <1>4
<2>3. /\ eof \in BOOLEAN /\ exhausted \in BOOLEAN
      /\ result \in {"setup", "running", "ok", "error"}
  BY <1>2
<2>4. QED BY Zenon, <1>1, <1>2, <2>1, <2>2, <2>3 DEF Typed
<1>6. Ahead
  BY <1>2 DEF Ahead
<1>7. Marked
  BY <1>2, <1>3, <1>4 DEF Marked
<1>8. Finished
  BY <1>2 DEF Finished, Complete
<1>9. QED BY <1>5, <1>6, <1>7, <1>8 DEF IInv

(* What the converter does is outside the encode loop's bookkeeping.       *)
LEMMA ConverterTyped ==
    ASSUME Typed, NEW n \in Nat, Process(n) \/ Flush
    PROVE  ratio' \in Ratios /\ inFrames' \in Nat /\ next' \in Int /\ next =< next'
<1>1. /\ ratio \in Ratios /\ inFrames \in Nat /\ next \in Int
      /\ ratio.up \in Nat \ {0} /\ ratio.down \in Nat \ {0}
  BY ResamplerConstants DEF Typed
<1>2. CASE Process(n)
<2> DEFINE seen == inFrames + n
           b    == buf \o [i \in 1..n |-> inFrames + i - 1]
<2>1. PICK end \in next..(next + seen * ratio.up) : Produce(b, seen, end)
  BY <1>2 DEF Process
<2>2. ratio' = ratio /\ inFrames' = inFrames + n
  BY <1>2 DEF Process
<2>3. end \in Int
  BY <2>1
<2>4. next' = next + (IF next < end THEN end - next ELSE 0)
  BY <2>1 DEF Produce
<2>5. QED BY <1>1, <2>2, <2>3, <2>4
<1>3. CASE Flush
<2>1. Total \in Int
  BY <1>1 DEF Total
<2>2. ratio' = ratio /\ inFrames' = inFrames
  BY <1>3 DEF Flush
<2>3. next' = next + (IF next < Total THEN Total - next ELSE 0)
  BY <1>3 DEF Flush, Produce
<2> HIDE DEF Total
<2>4. QED BY <1>1, <2>1, <2>2, <2>3
<1>4. QED BY <1>2, <1>3

(* Steps that leave the loop's bookkeeping alone. *)
LEMMA QuietInv ==
    ASSUME IInv, Typed',
           UNCHANGED <<job, exhausted, fed, realFrames, held, stream>>,
           result' = result \/ result' \in {"running", "error"},
           result' = "running" => result \in {"setup", "running"}
    PROVE  IInv'
<1>1. Ahead'
  BY DEF IInv, Ahead
<1>2. Marked'
  BY DEF IInv, Marked, Complete
<1>3. Finished'
  BY DEF IInv, Finished, Complete, FinalGranule, PreSkip
<1>4. QED BY <1>1, <1>2, <1>3 DEF IInv

LEMMA ReadChunkInv ==
    ASSUME IInv, ReadChunk
    PROVE  IInv'
<1>1. Typed /\ job \in Jobs /\ dataRemaining \in Int /\ pending \in Seq(Int)
  BY DEF IInv, Typed
<1>2. /\ job.channels \in Nat \ {0} /\ job.bytes \in Nat /\ job.resampled \in BOOLEAN
  BY <1>1, JobFacts
<1>3. /\ Wanted > 0 /\ dataRemaining' = dataRemaining - 2 * Wanted
      /\ UNCHANGED <<job, eof, exhausted, fed, realFrames, held, stream, result>>
  BY DEF ReadChunk
<1>4. Wanted \in Int
  BY <1>1, <1>2, WavToOggConstants DEF Wanted, Least
<1>5. dataRemaining' \in Int
  BY <1>1, <1>3, <1>4
<1>6. /\ ratio' \in Ratios /\ inFrames' \in Nat /\ next' \in Int
      /\ pending' \in Seq(Int)
<2>1. CASE job.resampled
<3> DEFINE n == Wanted \div job.channels
<3>1. Process(n) /\ pending' = pending \o Numbers(next, next')
  BY <2>1 DEF ReadChunk, Appended
<3>2. n \in Nat
  BY <1>2, <1>3, <1>4
<3> HIDE DEF n
<3>3. ratio' \in Ratios /\ inFrames' \in Nat /\ next' \in Int
  BY <1>1, <3>1, <3>2, ConverterTyped
<3>4. Numbers(next, next') \in Seq(Int)
  BY <1>1, <3>3, NumbersSeq DEF Typed
<3>5. QED BY <1>1, <3>1, <3>3, <3>4, ConcatElements
<2>2. CASE ~ job.resampled
<3> DEFINE from == FramesRead(dataRemaining)
           to   == FramesRead(dataRemaining')
<3>1. pending' = pending \o Numbers(from, to) /\ UNCHANGED <<ratio, inFrames, next>>
  BY <1>3, <2>2 DEF ReadChunk, Appended, converter, FramesRead
<3>2. ASSUME NEW r \in Int PROVE FramesRead(r) \in Int
<4> DEFINE samples == (job.bytes - r) \div 2
<4>1. samples \in Int
  BY <1>2
<4>2. FramesRead(r) = samples \div job.channels
  BY Zenon DEF FramesRead
<4> HIDE DEF samples
<4>3. QED BY <1>2, <4>1, <4>2
<3>6. from \in Int /\ to \in Int
  BY <1>1, <1>5, <3>2
<3> HIDE DEF from, to
<3>3. Numbers(from, to) \in Seq(Int)
  BY <3>6, NumbersSeq
<3>4. pending' \in Seq(Int)
  BY <1>1, <3>1, <3>3, ConcatElements
<3>5. QED BY <1>1, <3>1, <3>4 DEF Typed
<2>3. QED BY <1>2, <2>1, <2>2
<1>7. Typed'
  BY <1>1, <1>3, <1>5, <1>6 DEF Typed
<1>8. QED BY <1>3, <1>7, QuietInv DEF ReadChunk, Reading

LEMMA ReadEndInv ==
    ASSUME IInv, ReadEnd
    PROVE  IInv'
<1>1. Typed /\ job \in Jobs /\ dataRemaining \in Int /\ pending \in Seq(Int)
  BY DEF IInv, Typed
<1>2. job.resampled \in BOOLEAN
  BY <1>1, JobFacts
<1>3. /\ dataRemaining' \in {0, dataRemaining} /\ eof' = TRUE
      /\ UNCHANGED <<job, exhausted, fed, realFrames, held, stream, result>>
  BY DEF ReadEnd
<1>4. /\ ratio' \in Ratios /\ inFrames' \in Nat /\ next' \in Int
      /\ pending' \in Seq(Int)
<2>1. CASE job.resampled
<3>1. Flush /\ pending' = pending \o Numbers(next, next')
  BY <2>1 DEF ReadEnd, Appended
<3>2. ratio' \in Ratios /\ inFrames' \in Nat /\ next' \in Int
  BY <1>1, <3>1, 0 \in Nat, ConverterTyped
<3>3. Numbers(next, next') \in Seq(Int)
  BY <1>1, <3>2, NumbersSeq DEF Typed
<3>4. QED BY <1>1, <3>1, <3>2, <3>3, ConcatElements
<2>2. CASE ~ job.resampled
<3>1. UNCHANGED <<ratio, inFrames, next, pending>>
  BY <2>2 DEF ReadEnd, converter
<3>2. QED BY <1>1, <3>1 DEF Typed
<2>3. QED BY <1>2, <2>1, <2>2
<1>5. Typed'
  BY <1>1, <1>3, <1>4 DEF Typed
<1>6. QED BY <1>3, <1>5, QuietInv DEF ReadEnd, Reading

(* The steps that change nothing but the result. *)
LEMMA ResultInv ==
    ASSUME IInv,
           WriteHeaders \/ ReadTorn \/ TurnFails \/ WriteLastFails \/ UNCHANGED vars
    PROVE  IInv'
<1>1. UNCHANGED <<converter, job, source, exhausted, fed, realFrames, held, stream>>
  BY DEF WriteHeaders, ReadTorn, TurnFails, WriteLastFails, vars
<1>2. /\ result' = result \/ result' \in {"running", "error"}
      /\ result' = "running" => result \in {"setup", "running"}
  BY DEF WriteHeaders, ReadTorn, TurnFails, WriteLastFails, vars
<1>3. Typed'
  BY <1>1, <1>2 DEF IInv, Typed, converter, source
<1>4. QED BY <1>1, <1>2, <1>3, QuietInv

----------------------------------------------------------------------------
(* What one turn takes from the pending samples. *)
LEMMA CopiedFacts ==
    ASSUME IInv, Filled
    PROVE  /\ Copied \in 0..job.frame
           /\ ~ Exhausted => Copied = job.frame
<1>1. job.frame \in Nat \ {0} /\ Len(pending) \in Nat
  BY JobFacts DEF IInv, Typed
<1>2. QED BY <1>1 DEF Filled, Copied, Least, Exhausted

(* The packet a turn makes. *)
NewPacket == [audio |-> Frame, granule |-> fed' * job.scale, eos |-> FALSE]

LEMMA FrameSeq ==
    ASSUME IInv, Filled
    PROVE  Frame \in Seq(Int)
<1>1. job.frame \in Nat \ {0} /\ pending \in Seq(Int) /\ Copied \in 0..job.frame
  BY JobFacts, CopiedFacts DEF IInv, Typed
<1>2. Copied =< Len(pending) /\ Len(pending) \in Nat
  BY <1>1 DEF Copied, Least
<1> DEFINE pad == [i \in 1..(job.frame - Copied) |-> Silence]
<1>3. pad \in [1..(job.frame - Copied) -> Int] /\ job.frame - Copied \in Nat
  BY <1>1 DEF Silence
<1>4. Frame = SubSeq(pending, 1, Copied) \o pad
  BY DEF Frame
<1> HIDE DEF pad, Copied
<1>5. pad \in Seq(Int)
  BY <1>3, FunctionIsSeq
<1>6. SubSeq(pending, 1, Copied) \in Seq(Int)
  BY <1>1, <1>2
<1>7. QED BY <1>4, <1>5, <1>6, ConcatElements

(* A sequence of packets, element by element. *)
LEMMA PacketSeq ==
    ASSUME NEW s \in Seq(Packet)
    PROVE  /\ Len(s) \in Nat /\ DOMAIN s = 1..Len(s)
           /\ \A i \in 1..Len(s) : s[i] \in Packet
  OBVIOUS

LEMMA PacketsConcat ==
    ASSUME NEW s \in Seq(Packet), NEW t \in Seq(Packet)
    PROVE  /\ s \o t \in Seq(Packet) /\ Len(s \o t) = Len(s) + Len(t)
           /\ \A i \in 1..Len(s) : (s \o t)[i] = s[i]
           /\ \A i \in 1..Len(t) : (s \o t)[Len(s) + i] = t[i]
  BY ConcatElements

LEMMA PacketChanged ==
    ASSUME NEW g \in Int, NEW e \in BOOLEAN
    PROVE  \A p \in Packet :
             /\ [p EXCEPT !.granule = g, !.eos = e] \in Packet
             /\ [p EXCEPT !.granule = g, !.eos = e].granule = g
             /\ [p EXCEPT !.granule = g, !.eos = e].eos = e
  BY DEF Packet

(* The packet held back, as it goes out. *)
LEMMA HeldOut ==
    ASSUME Typed, NEW g \in Int, NEW e \in BOOLEAN
    PROVE  LET sent == [i \in DOMAIN held |-> [held[i] EXCEPT !.granule = g, !.eos = e]]
           IN  /\ sent \in Seq(Packet) /\ Len(sent) = Len(held)
               /\ \A i \in 1..Len(held) : sent[i].granule = g /\ sent[i].eos = e
<1> DEFINE sent == [i \in DOMAIN held |-> [held[i] EXCEPT !.granule = g, !.eos = e]]
<1>1. held \in Seq(Packet)
  BY DEF Typed
<1>2. /\ Len(held) \in Nat /\ DOMAIN held = 1..Len(held)
      /\ \A i \in 1..Len(held) : held[i] \in Packet
  BY <1>1, PacketSeq
<1>3. \A i \in 1..Len(held) :
        /\ [held[i] EXCEPT !.granule = g, !.eos = e] \in Packet
        /\ [held[i] EXCEPT !.granule = g, !.eos = e].granule = g
        /\ [held[i] EXCEPT !.granule = g, !.eos = e].eos = e
<2>1. \A p \in Packet :
        /\ [p EXCEPT !.granule = g, !.eos = e] \in Packet
        /\ [p EXCEPT !.granule = g, !.eos = e].granule = g
        /\ [p EXCEPT !.granule = g, !.eos = e].eos = e
  BY PacketChanged
<2>2. QED BY Zenon, <1>2, <2>1
<1>4. sent \in [1..Len(held) -> Packet]
  BY <1>2, <1>3
<1>5. \A i \in 1..Len(held) : sent[i].granule = g /\ sent[i].eos = e
  BY <1>2, <1>3
<1> HIDE DEF sent
<1>6. sent \in Seq(Packet) /\ Len(sent) = Len(held)
  BY <1>2, <1>4, FunctionIsSeq
<1>7. QED BY <1>5, <1>6 DEF sent

(* In the turns of the loop the granule held back is already right.        *)
LEMMA HeldKept ==
    ASSUME Typed, Marked
    PROVE  [i \in DOMAIN held |-> [held[i] EXCEPT !.eos = HeldEos]]
             = [i \in DOMAIN held |-> [held[i] EXCEPT !.granule = fed * job.scale,
                                                      !.eos = FALSE]]
<1>1. held \in Seq(Packet)
  BY DEF Typed
<1>2. \A i \in DOMAIN held : held[i] \in Packet
  BY <1>1, PacketSeq
<1>3. ASSUME NEW i \in DOMAIN held
      PROVE  [held[i] EXCEPT !.eos = FALSE]
               = [held[i] EXCEPT !.granule = fed * job.scale, !.eos = FALSE]
<2>1. held[i] \in Packet /\ held[i].granule = fed * job.scale
  BY <1>2 DEF Marked
<2>2. \A p \in Packet : p = [p EXCEPT !.granule = p.granule]
  BY DEF Packet
<2>3. \A p \in Packet, g \in Int : p.granule = g =>
        [p EXCEPT !.eos = FALSE] = [p EXCEPT !.granule = g, !.eos = FALSE]
  BY DEF Packet
<2>4. held[i].granule \in Int
  BY <2>1 DEF Packet
<2>5. QED BY <2>1, <2>3, <2>4
<1>4. QED BY <1>3 DEF HeldEos

LEMMA EncodeFrameInv ==
    ASSUME IInv, EncodeFrame
    PROVE  IInv'
<1> DEFINE sent == [i \in DOMAIN held |-> [held[i] EXCEPT !.granule = fed * job.scale,
                                                         !.eos = FALSE]]
<1>1. /\ Typed /\ Ahead /\ Marked /\ Finished /\ Filled /\ result = "running" /\ More
  BY DEF IInv, EncodeFrame, Filled
<1>2. /\ job.frame \in Nat \ {0} /\ job.scale \in Nat \ {0} /\ job.lookahead \in Nat \ {0}
      /\ fed \in Nat /\ realFrames \in Nat /\ exhausted \in BOOLEAN
      /\ Len(held) \in {0, 1} /\ Len(stream) \in Nat
  BY <1>1, JobFacts DEF Typed, Marked
<1>3. Copied \in 0..job.frame /\ (~ Exhausted => Copied = job.frame)
  BY CopiedFacts, <1>1
<1>4. ~ Complete
  BY <1>1 DEF Finished
<1>5. /\ UNCHANGED <<job, result, ratio, inFrames, next, dataRemaining, eof>>
      /\ exhausted' = (exhausted \/ Exhausted)
      /\ realFrames' = realFrames + Copied /\ fed' = fed + job.frame
      /\ held' = <<NewPacket>>
      /\ pending' = SubSeq(pending, Copied + 1, Len(pending))
  BY DEF EncodeFrame, NewPacket, converter
<1>6. stream' = stream \o sent
  BY <1>1, HeldKept DEF EncodeFrame
<1>7. /\ sent \in Seq(Packet) /\ Len(sent) = Len(held)
      /\ \A i \in 1..Len(held) : sent[i].granule = fed * job.scale /\ sent[i].eos = FALSE
<2>1. fed * job.scale \in Int
  BY <1>2
<2>2. QED BY <1>1, <2>1, HeldOut
<1> HIDE DEF sent
<1>8. /\ stream' \in Seq(Packet) /\ Len(stream') = Len(stream) + Len(held)
      /\ \A i \in 1..Len(stream) : stream'[i] = stream[i]
      /\ \A i \in 1..Len(held) : stream'[Len(stream) + i] = sent[i]
<2>1. stream \in Seq(Packet)
  BY <1>1 DEF Typed
<2>2. /\ stream \o sent \in Seq(Packet)
      /\ Len(stream \o sent) = Len(stream) + Len(sent)
      /\ \A i \in 1..Len(stream) : (stream \o sent)[i] = stream[i]
      /\ \A i \in 1..Len(sent) : (stream \o sent)[Len(stream) + i] = sent[i]
  BY Zenon, <1>7, <2>1, PacketsConcat
<2>3. QED BY Zenon, <1>6, <1>7, <2>2
<1>9. fed' \in Nat /\ realFrames' \in Nat /\ fed' * job.scale \in Int
  BY SMTT(30), <1>2, <1>3, <1>5
<1>10. NewPacket \in Packet /\ NewPacket.granule = fed' * job.scale /\ NewPacket.eos = FALSE
  BY <1>1, <1>9, FrameSeq DEF NewPacket, Packet
<1>11. Len(held') = 1 /\ held' \in Seq(Packet) /\ held'[1] = NewPacket /\ DOMAIN held' = {1}
  BY <1>5, <1>10
<1>12. pending' \in Seq(Int)
<2>1. pending \in Seq(Int) /\ Copied + 1 \in 1..(Len(pending) + 1)
  BY SMTT(30), <1>1, <1>2, <1>3 DEF Typed, Copied, Least
<2> HIDE DEF Copied
<2>2. QED BY <1>5, <2>1
<1>13. Typed'
<2>1. exhausted' \in BOOLEAN
  BY <1>5
<2>2. QED BY <1>1, <1>5, <1>8, <1>9, <1>11, <1>12, <2>1 DEF Typed
<1>14. Ahead'
<2>1. ~ exhausted => fed = realFrames
  BY <1>1 DEF Ahead
<2>2. fed < realFrames + job.lookahead
  BY <1>1, <1>2, <2>1 DEF More
<2>3. ~ exhausted' => fed' = realFrames'
  BY <1>2, <1>3, <1>5, <2>1
<2>4. fed' > 0 /\ fed' - job.frame = fed /\ realFrames' >= realFrames
  BY <1>2, <1>3, <1>5
<2>5. fed' - job.frame < realFrames' + job.lookahead
  BY <1>2, <1>9, <2>2, <2>4
<2>6. QED BY <1>5, <2>3, <2>4, <2>5 DEF Ahead
<1>15. Marked'
<2>1. fed = (Len(stream) + Len(held)) * job.frame
  BY <1>1 DEF Marked
<2>2. fed' = (Len(stream') + 1) * job.frame
  BY <1>2, <1>5, <1>8, <2>1
<2>3. \A i \in DOMAIN held' : held'[i].granule = fed' * job.scale /\ ~ held'[i].eos
  BY <1>10, <1>11
<2>4. ASSUME NEW i \in DOMAIN stream'
      PROVE  stream'[i].granule = (i * job.frame) * job.scale /\ ~ stream'[i].eos
<3>1. i \in 1..(Len(stream) + Len(held)) /\ i \in Int
  BY <1>2, <1>8
<3>2. CASE i =< Len(stream)
<4>1. i \in 1..Len(stream) /\ i \in DOMAIN stream
  BY <1>1, <1>2, <3>1, <3>2 DEF Typed
<4>2. QED BY <1>1, <1>4, <1>8, <4>1 DEF Marked
<3>3. CASE i > Len(stream)
<4> HIDE DEF NewPacket
<4>5. Len(held) = 1
  BY <1>2, <3>1, <3>3
<4>6. i = Len(stream) + 1
  BY <1>2, <3>1, <3>3, <4>5
<4>1. Len(held) = 1 /\ i = Len(stream) + 1 /\ 1 \in 1..Len(held)
  BY <4>5, <4>6
<4>2. stream'[i] = sent[1]
  BY <1>8, <4>1
<4>3. fed = i * job.frame
  BY <2>1, <4>1
<4>4. QED BY <1>7, <4>1, <4>2, <4>3
<3>4. QED BY <1>2, <3>1, <3>2, <3>3
<2>5. QED BY <1>5, <1>11, <2>2, <2>3, <2>4 DEF Marked
<1>16. Finished'
  BY <1>1, <1>5, <1>11 DEF Finished, Complete
<1>17. QED BY <1>13, <1>14, <1>15, <1>16 DEF IInv

LEMMA WriteLastInv ==
    ASSUME IInv, WriteLast
    PROVE  IInv'
<1> DEFINE sent == [i \in DOMAIN held |-> [held[i] EXCEPT !.granule = FinalGranule,
                                                         !.eos = TRUE]]
<1>1. /\ Typed /\ Ahead /\ Marked /\ Finished /\ result = "running" /\ ~ More
  BY DEF IInv, WriteLast
<1>2. /\ job.frame \in Nat \ {0} /\ job.scale \in Nat \ {0} /\ job.lookahead \in Nat \ {0}
      /\ fed \in Nat /\ realFrames \in Nat /\ exhausted \in BOOLEAN
      /\ Len(held) \in {0, 1} /\ Len(stream) \in Nat
  BY <1>1, JobFacts DEF Typed, Marked
<1>3. exhausted /\ fed >= realFrames + job.lookahead /\ fed > 0
  BY <1>1, <1>2 DEF More, Ahead
<1>4. ~ Complete
  BY <1>1 DEF Finished
<1>5. Len(held) = 1
<2>1. SUFFICES ASSUME Len(held) = 0 PROVE FALSE
  BY <1>2
<2>2. held = <<>> /\ stream = <<>>
  BY <1>1, <1>4, <2>1 DEF Typed, Complete
<2>3. fed = 0 * job.frame
  BY <1>1, <2>2 DEF Marked
<2>4. QED BY <1>2, <1>3, <2>3
<1>6. /\ UNCHANGED <<job, exhausted, fed, realFrames, ratio, inFrames, next,
                     dataRemaining, eof, pending>>
      /\ held' = <<>> /\ result' \in {"ok", "error"}
      /\ stream' = stream \o sent
  BY DEF WriteLast, converter, source
<1>7. /\ sent \in Seq(Packet) /\ Len(sent) = 1
      /\ sent[1].granule = FinalGranule /\ sent[1].eos
<2>1. FinalGranule \in Int
  BY <1>2 DEF FinalGranule, PreSkip
<2> HIDE DEF FinalGranule
<2>2. /\ sent \in Seq(Packet) /\ Len(sent) = Len(held)
      /\ \A i \in 1..Len(held) : sent[i].granule = FinalGranule /\ sent[i].eos = TRUE
  BY <1>1, <2>1, HeldOut
<2> HIDE DEF sent
<2>3. 1 \in 1..Len(held)
  BY <1>5
<2>4. QED BY <1>5, <2>2, <2>3
<1> HIDE DEF sent
<1>8. /\ stream' \in Seq(Packet) /\ Len(stream') = Len(stream) + 1
      /\ \A i \in 1..Len(stream) : stream'[i] = stream[i]
      /\ stream'[Len(stream) + 1] = sent[1]
<2>1. stream \in Seq(Packet)
  BY <1>1 DEF Typed
<2>2. /\ stream \o sent \in Seq(Packet)
      /\ Len(stream \o sent) = Len(stream) + Len(sent)
      /\ \A i \in 1..Len(stream) : (stream \o sent)[i] = stream[i]
      /\ \A i \in 1..Len(sent) : (stream \o sent)[Len(stream) + i] = sent[i]
  BY Zenon, <1>7, <2>1, PacketsConcat
<2>3. 1 \in 1..Len(sent)
  BY <1>7
<2>4. QED BY Zenon, <1>6, <1>7, <2>2, <2>3
<1>9. Complete' /\ Len(held') = 0 /\ held' \in Seq(Packet) /\ DOMAIN held' = {}
  BY <1>2, <1>6, <1>8 DEF Complete
<1>10. Typed'
  BY <1>1, <1>6, <1>8, <1>9 DEF Typed
<1>11. Ahead'
  BY <1>1, <1>6 DEF Ahead
<1>12. Marked'
<2>1. fed' = (Len(stream') + Len(held')) * job.frame
<3>1. Len(stream') + Len(held') = Len(stream) + Len(held)
  BY <1>2, <1>5, <1>8, <1>9
<3>2. fed = (Len(stream) + Len(held)) * job.frame
  BY <1>1 DEF Marked
<3>3. QED BY Zenon, <1>6, <3>1, <3>2
<2>2. ASSUME NEW i \in DOMAIN stream', i # Len(stream')
      PROVE  stream'[i].granule = (i * job.frame) * job.scale /\ ~ stream'[i].eos
<3>1. i \in 1..Len(stream) /\ i \in DOMAIN stream
  BY <1>1, <1>2, <1>8, <2>2 DEF Typed
<3>2. QED BY <1>1, <1>4, <1>8, <3>1 DEF Marked
<2>3. QED BY <1>6, <1>9, <2>1, <2>2 DEF Marked
<1>13. FinalGranule' = FinalGranule
  BY <1>6 DEF FinalGranule, PreSkip
<1> HIDE DEF FinalGranule
<1>14. Finished'
  BY <1>3, <1>6, <1>7, <1>8, <1>9, <1>13 DEF Finished
<1>15. QED BY <1>10, <1>11, <1>12, <1>14 DEF IInv

THEOREM WavToOggInv == Spec => []IInv
<1>1. IInv /\ [Next]_vars => IInv'
  BY ReadChunkInv, ReadEndInv, EncodeFrameInv, WriteLastInv, ResultInv DEF Next
<1>2. QED BY InitInv, <1>1, PTL DEF Spec

(* The end trim of a finished stream takes less than its last packet,      *)
(* whatever the delay, the frame size and the length of the input.         *)
THEOREM WavToOggTrim == Spec => []TrimShort
<1>1. ASSUME IInv PROVE TrimShort
<2>1. SUFFICES ASSUME Complete
               PROVE  fed * job.scale - stream[Len(stream)].granule < job.frame * job.scale
  BY DEF TrimShort, Complete
<2>2. /\ job.frame \in Nat \ {0} /\ job.scale \in Nat \ {0} /\ job.lookahead \in Nat \ {0}
      /\ fed \in Nat /\ realFrames \in Nat /\ fed > 0
      /\ fed - job.frame < realFrames + job.lookahead
  BY <1>1, <2>1, JobFacts DEF IInv, Typed, Ahead, Finished
<2>3. stream[Len(stream)].granule = job.lookahead * job.scale + realFrames * job.scale
  BY <1>1, <2>1 DEF IInv, Finished, FinalGranule, PreSkip
<2>4. (fed - job.frame) * job.scale < (realFrames + job.lookahead) * job.scale
  BY <2>2, MulMono
<2>5. /\ (fed - job.frame) * job.scale = fed * job.scale - job.frame * job.scale
      /\ (realFrames + job.lookahead) * job.scale
           = realFrames * job.scale + job.lookahead * job.scale
  BY <2>2
<2>6. QED
<3> DEFINE f == fed * job.scale
           p == job.frame * job.scale
           r == realFrames * job.scale
           l == job.lookahead * job.scale
           g == stream[Len(stream)].granule
<3>1. f \in Int /\ p \in Int /\ r \in Int /\ l \in Int
  BY <2>2
<3>2. f - p < r + l /\ g = l + r
  BY Zenon, <2>3, <2>4, <2>5
<3> HIDE DEF f, p, r, l, g
<3>3. f - g < p
  BY <3>1, <3>2
<3>4. QED BY Zenon, <3>3 DEF f, p, g
<1>2. QED BY WavToOggInv, <1>1, PTL

(* EOS is on the last packet of a stream that is complete, and only there. *)
THEOREM WavToOggEos == Spec => []EosLast
<1>1. ASSUME IInv PROVE EosLast
<2>1. ASSUME NEW i \in DOMAIN stream, stream[i].eos
      PROVE  i = Len(stream) /\ exhausted /\ held = <<>>
  BY <1>1, <2>1 DEF IInv, Marked, Finished, Complete
<2>2. ASSUME result = "ok" PROVE stream[Len(stream)].eos
  BY <1>1, <2>2 DEF IInv, Finished
<2>3. QED BY <2>1, <2>2 DEF EosLast
<1>2. QED BY WavToOggInv, <1>1, PTL

(* Only the last packet of a complete stream is marked, and what it trims  *)
(* is less than it holds.                                                  *)
THEOREM WavToOggEnd == Spec => []EndMarked
<1>1. TrimShort /\ EosLast => EndMarked
  BY DEF EndMarked
<1>2. QED BY WavToOggTrim, WavToOggEos, <1>1, PTL

(* The granule of a packet, of all those made so far. *)
LEMMA PacketGranules ==
    ASSUME IInv
    PROVE  /\ Packets \in Seq(Packet) /\ Len(Packets) = Len(stream) + Len(held)
           /\ \A i \in 1..Len(Packets) : ~ (Complete /\ i = Len(stream)) =>
                Packets[i].granule = (i * job.frame) * job.scale
<1>1. stream \in Seq(Packet) /\ held \in Seq(Packet) /\ Typed /\ Marked
  BY DEF IInv, Typed
<1>2. /\ Packets \in Seq(Packet) /\ Len(Packets) = Len(stream) + Len(held)
      /\ \A i \in 1..Len(stream) : Packets[i] = stream[i]
      /\ \A i \in 1..Len(held) : Packets[Len(stream) + i] = held[i]
  BY Zenon, <1>1, PacketsConcat DEF Packets
<1>3. Len(stream) \in Nat /\ Len(held) \in {0, 1} /\ DOMAIN stream = 1..Len(stream)
      /\ DOMAIN held = 1..Len(held)
  BY <1>1 DEF Marked
<1>4. ASSUME NEW i \in 1..Len(Packets), ~ (Complete /\ i = Len(stream))
      PROVE  Packets[i].granule = (i * job.frame) * job.scale
<2>1. CASE i \in 1..Len(stream)
  BY <1>1, <1>2, <1>3, <1>4, <2>1 DEF Marked
<2>2. CASE i \notin 1..Len(stream)
<3>1. i \in 1..(Len(stream) + Len(held))
  BY <1>2, <1>4
<3>2. Len(held) = 1
  BY <1>3, <2>2, <3>1
<3>3. i = Len(stream) + 1 /\ i = Len(stream) + Len(held) /\ 1 \in DOMAIN held
  BY <1>3, <2>2, <3>1, <3>2
<3>4. held[1].granule = ((Len(stream) + Len(held)) * job.frame) * job.scale
  BY <1>1, <3>3 DEF Marked
<3>5. Packets[i] = held[1]
  BY <1>2, <1>3, <3>3
<3>6. QED BY Zenon, <3>3, <3>4, <3>5
<2>3. QED BY <2>1, <2>2
<1>5. QED BY <1>2, <1>4

(* Granules rise over the whole stream, the end-trimming one included.     *)
THEOREM WavToOggGranules == Spec => []GranulesRise
<1>1. ASSUME IInv PROVE GranulesRise
<2>1. /\ job.frame \in Nat \ {0} /\ job.scale \in Nat \ {0} /\ job.lookahead \in Nat \ {0}
      /\ fed \in Nat /\ realFrames \in Nat /\ Len(stream) \in Nat
  BY <1>1, JobFacts DEF IInv, Typed
<2>2. SUFFICES ASSUME NEW i \in 1..Len(Packets), NEW k \in 1..Len(Packets), i < k
               PROVE  Packets[i].granule < Packets[k].granule
<3>1. DOMAIN Packets = 1..Len(Packets)
  BY <1>1, PacketGranules, PacketSeq
<3>2. QED BY <3>1 DEF GranulesRise
<2>3. i \in Int /\ k \in Int /\ i =< k - 1
  BY <1>1, <2>2, PacketGranules
<2>4. Len(Packets) = Len(stream) + Len(held) /\ (Complete => Len(Packets) = Len(stream))
  BY <1>1, <2>1, PacketGranules DEF Complete
<2>5. i # Len(stream) \/ ~ Complete
  BY <2>1, <2>2, <2>3, <2>4
<2>6. Packets[i].granule = (i * job.frame) * job.scale
  BY <1>1, <2>5, PacketGranules
<2>7. CASE ~ (Complete /\ k = Len(stream))
<3>1. Packets[k].granule = (k * job.frame) * job.scale
  BY <1>1, <2>7, PacketGranules
<3>2. i * job.frame < k * job.frame
  BY <2>1, <2>2, <2>3, MulMono
<3>3. (i * job.frame) * job.scale < (k * job.frame) * job.scale
<4> DEFINE a == i * job.frame
           b == k * job.frame
<4>1. a \in Int /\ b \in Int /\ a < b
  BY <2>1, <2>3, <3>2
<4> HIDE DEF a, b
<4>2. a * job.scale < b * job.scale
  BY <2>1, <4>1, MulMono
<4>3. QED BY Zenon, <4>2 DEF a, b
<3>4. QED BY <2>6, <3>1, <3>3
<2>8. CASE Complete /\ k = Len(stream)
<3>1. Packets[k].granule = (job.lookahead + realFrames) * job.scale
<4>1. Packets = stream
  BY <1>1, <2>8 DEF Packets, Complete, IInv, Typed
<4>2. stream[k].granule = job.lookahead * job.scale + realFrames * job.scale
  BY <1>1, <2>8 DEF IInv, Finished, FinalGranule, PreSkip
<4>3. QED BY <2>1, <4>1, <4>2
<3>2. fed = k * job.frame /\ fed - job.frame < realFrames + job.lookahead
<4>1. fed = Len(stream) * job.frame
<5>1. Len(stream) + Len(held) = Len(stream)
  BY <2>1, <2>8 DEF Complete
<5>2. QED BY <1>1, <5>1 DEF IInv, Marked
<4>2. QED BY <1>1, <2>1, <2>8, <4>1 DEF IInv, Ahead, Finished
<3>3. i * job.frame =< (k - 1) * job.frame
  BY <2>1, <2>3, MulMono
<3>4. (k - 1) * job.frame = k * job.frame - job.frame
  BY <2>1, <2>3
<3>5. i * job.frame < job.lookahead + realFrames /\ i * job.frame \in Int
  BY SMTT(30), <2>1, <2>3, <3>2, <3>3, <3>4
<3>6. (i * job.frame) * job.scale < (job.lookahead + realFrames) * job.scale
<4> DEFINE a == i * job.frame
           b == job.lookahead + realFrames
<4>1. a \in Int /\ b \in Int /\ a < b
  BY <2>1, <3>5
<4> HIDE DEF a, b
<4>2. a * job.scale < b * job.scale
  BY <2>1, <4>1, MulMono
<4>3. QED BY Zenon, <4>2 DEF a, b
<3>7. QED BY <2>6, <3>1, <3>6
<2>9. QED BY <2>7, <2>8
<1>2. QED BY WavToOggInv, <1>1, PTL

----------------------------------------------------------------------------
(* What is encoded is the input: the converter's output frames are         *)
(* numbered without a gap, and there are Total of them once it is flushed. *)
(* What the p-th position of the encoder's input holds, and what a packet  *)
(* encoded as the k-th holds of it.                                        *)
Sample(p) == IF p < realFrames THEN p ELSE Silence
Carries(k, a) ==
    /\ Len(a) = job.frame
    /\ \A i \in 1..job.frame : a[i] = Sample((k - 1) * job.frame + i - 1)

(* Everything read is encoded or pending, in order; the silence of a short *)
(* frame is never followed by sound, since the input had run out by then.  *)
Sound ==
    /\ ConverterInv /\ realFrames =< fed
    /\ dataRemaining \in 0..job.bytes
    /\ dataRemaining = 0 \/ (job.bytes - dataRemaining) % 2 = 0
    /\ eof /\ job.resampled => flushed
    /\ exhausted => eof /\ pending = <<>>
    /\ realFrames + Len(pending) = Available
    /\ \A i \in DOMAIN pending : pending[i] = realFrames + i - 1
    /\ \A k \in DOMAIN stream : Carries(k, stream[k].audio)
    /\ \A k \in DOMAIN held : Carries(Len(stream) + k, held[k].audio)

LEMMA NumbersAre ==
    ASSUME NEW f \in Int, NEW t \in Int, f =< t
    PROVE  /\ Numbers(f, t) \in Seq(Int) /\ Len(Numbers(f, t)) = t - f
           /\ \A i \in 1..(t - f) : Numbers(f, t)[i] = f + i - 1
<1> DEFINE g == [i \in 1..(t - f) |-> f + i - 1]
<1>1. t - f \in Nat
  OBVIOUS
<1>2. g \in [1..(t - f) -> Int] /\ \A i \in 1..(t - f) : g[i] = f + i - 1
  OBVIOUS
<1>3. Numbers(f, t) = g
  BY DEF Numbers
<1> HIDE DEF g
<1> QED BY <1>1, <1>2, <1>3, FunctionIsSeq

(* What is read goes on where the pending samples end. *)
LEMMA PendingGrows ==
    ASSUME realFrames \in Nat, pending \in Seq(Int), NEW f \in Int, NEW t \in Int, f =< t,
           realFrames + Len(pending) = f,
           \A i \in DOMAIN pending : pending[i] = realFrames + i - 1
    PROVE  LET q == pending \o Numbers(f, t)
           IN  /\ q \in Seq(Int) /\ realFrames + Len(q) = t
               /\ \A i \in DOMAIN q : q[i] = realFrames + i - 1
<1> DEFINE a == realFrames
           s == pending
           w == Numbers(f, t)
           q == s \o w
           m == Len(s)
<1>1. w \in Seq(Int) /\ Len(w) = t - f /\ \A i \in 1..(t - f) : w[i] = f + i - 1
  BY NumbersAre
<1> HIDE DEF w
<1>2. /\ q \in Seq(Int) /\ Len(q) = m + (t - f) /\ m \in Nat
      /\ (\A i \in 1..m : q[i] = s[i]) /\ \A i \in 1..(t - f) : q[m + i] = w[i]
  BY <1>1, ConcatElements
<1>3. DOMAIN q = 1..(m + (t - f)) /\ \A i \in 1..m : s[i] = a + i - 1
  BY <1>2
<1> HIDE DEF q, m, a, s
<1>4. a + m = f /\ m \in Nat /\ a \in Nat
  BY DEF m, a, s
<1>5. ASSUME NEW i \in DOMAIN q PROVE q[i] = a + i - 1
  <2>1. CASE i \in 1..m
    BY <1>2, <1>3, <2>1
  <2>2. CASE i \notin 1..m
    <3>1. i - m \in 1..(t - f) /\ i = m + (i - m) /\ i \in Int
      BY <1>2, <1>3, <2>2
    <3>2. q[i] = f + (i - m) - 1
      BY <1>1, <1>2, <3>1
    <3>3. \A j \in Int : f + (j - m) - 1 = a + j - 1
      BY <1>4
    <3> QED BY <3>1, <3>2, <3>3
  <2> QED BY <2>1, <2>2
<1>6. a + Len(q) = t
  BY <1>2, <1>4
<1> QED BY <1>2, <1>5, <1>6 DEF q, w, a, s

(* Fewer bytes to come, no fewer sample frames read. *)
LEMMA FramesReadMono ==
    ASSUME job \in Jobs, NEW r \in Int, NEW s \in Int, s =< r
    PROVE  FramesRead(r) \in Int /\ FramesRead(s) \in Int /\ FramesRead(r) =< FramesRead(s)
<1> DEFINE x == (job.bytes - r) \div 2
           y == (job.bytes - s) \div 2
<1>1. job.bytes \in Int /\ job.channels \in Nat \ {0}
  BY JobFacts
<1>2. x \in Int /\ y \in Int /\ x =< y
  BY <1>1
<1>3. FramesRead(r) = x \div job.channels /\ FramesRead(s) = y \div job.channels
  BY Zenon DEF FramesRead
<1> HIDE DEF x, y
<1>4. x \div job.channels =< y \div job.channels
  BY <1>1, <1>2, DivMono
<1>5. x \div job.channels \in Int /\ y \div job.channels \in Int
  BY <1>1, <1>2
<1> QED BY <1>3, <1>4, <1>5

LEMMA SoundInit == Init => Sound
<1> SUFFICES ASSUME Init PROVE Sound
  OBVIOUS
<1>1. ConverterInv
  BY ConverterInitInv DEF Init
<1>2. /\ job \in Jobs /\ dataRemaining = job.bytes /\ pending = <<>>
      /\ eof = FALSE /\ exhausted = FALSE /\ fed = 0 /\ realFrames = 0
      /\ held = <<>> /\ stream = <<>> /\ next = 0
  BY DEF Init, ConverterInit
<1>3. job.bytes \in Nat /\ job.channels \in Nat \ {0}
  BY <1>2, JobFacts
<1>4. FramesRead(dataRemaining) = 0
  <2>1. job.bytes - dataRemaining = 0
    BY <1>2, <1>3
  <2>2. FramesRead(dataRemaining) = (0 \div 2) \div job.channels
    BY Zenon, <2>1 DEF FramesRead
  <2> QED BY <1>3, <2>2
<1>5. Available = 0
  BY <1>2, <1>4 DEF Available
<1>6. Len(pending) = 0 /\ DOMAIN pending = {} /\ DOMAIN held = {} /\ DOMAIN stream = {}
  BY <1>2
<1>7. dataRemaining \in 0..job.bytes /\ (job.bytes - dataRemaining) % 2 = 0 /\ realFrames =< fed
  BY <1>2, <1>3
<1> QED BY <1>1, <1>2, <1>5, <1>6, <1>7 DEF Sound

(* What is encoded stays while nothing is. *)
LEMMA CarriesKept ==
    ASSUME Sound, UNCHANGED <<job, realFrames, stream, held>>
    PROVE  /\ (\A k \in DOMAIN stream : Carries(k, stream[k].audio))'
           /\ (\A k \in DOMAIN held : Carries(Len(stream) + k, held[k].audio))'
  BY Zenon DEF Sound, Carries, Sample

(* New input is appended to the pending samples. *)
LEMMA SoundGrows ==
    ASSUME IInv, Sound, ConverterInv', UNCHANGED <<job, fed, realFrames, stream, held, exhausted>>,
           ~ exhausted, dataRemaining' \in 0..job.bytes,
           dataRemaining' = 0 \/ (job.bytes - dataRemaining') % 2 = 0,
           eof' /\ job.resampled => flushed',
           Available \in Int, Available' \in Int, Available =< Available',
           pending' = pending \o Numbers(Available, Available')
    PROVE  Sound'
<1>1. realFrames \in Nat /\ pending \in Seq(Int)
  BY DEF IInv, Typed
<1>2. realFrames + Len(pending) = Available /\ \A i \in DOMAIN pending : pending[i] = realFrames + i - 1
  BY DEF Sound
<1> DEFINE f == Available
           t == Available'
<1> HIDE DEF f, t
<1>3. f \in Int /\ t \in Int /\ f =< t /\ pending' = pending \o Numbers(f, t)
      /\ realFrames + Len(pending) = f
  BY <1>2 DEF f, t
<1>4. /\ realFrames + Len(pending') = t
      /\ \A i \in DOMAIN pending' : pending'[i] = realFrames + i - 1
  <2> DEFINE q == pending \o Numbers(f, t)
  <2>1. realFrames + Len(q) = t /\ \A i \in DOMAIN q : q[i] = realFrames + i - 1
    BY <1>1, <1>2, <1>3, PendingGrows, Zenon
  <2> QED BY <1>3, <2>1, Zenon
<1>5. /\ realFrames' + Len(pending') = Available'
      /\ \A i \in DOMAIN pending' : pending'[i] = realFrames' + i - 1
  BY <1>4 DEF t
<1> QED BY <1>5, CarriesKept DEF Sound

LEMMA SoundChunk == ASSUME IInv, IInv', Sound, ReadChunk PROVE Sound'
<1>1. Typed /\ Typed' /\ job \in Jobs
  BY DEF IInv, Typed
<1>2. /\ job.channels \in Nat \ {0} /\ job.bytes \in Nat /\ job.resampled \in BOOLEAN
  BY <1>1, JobFacts
<1>3. /\ Wanted > 0 /\ dataRemaining' = dataRemaining - 2 * Wanted /\ ~ eof
      /\ UNCHANGED <<job, eof, exhausted, fed, realFrames, held, stream, result>>
  BY DEF ReadChunk, Reading
<1>4. /\ dataRemaining \in 0..job.bytes
      /\ dataRemaining = 0 \/ (job.bytes - dataRemaining) % 2 = 0
      /\ ~ exhausted
  BY <1>3 DEF Sound
<1>5. Wanted \in Int /\ 2 * Wanted =< dataRemaining
  <2>1. ChunkFrames * job.channels \in Int /\ dataRemaining \div 2 \in Int
        /\ 2 * (dataRemaining \div 2) =< dataRemaining
    BY <1>2, <1>4, WavToOggConstants
  <2> QED BY <1>2, <1>4, <2>1 DEF Wanted, Least
<1>6. dataRemaining' \in 0..job.bytes /\ (job.bytes - dataRemaining') % 2 = 0
  <2> HIDE DEF Wanted
  <2>1. dataRemaining # 0
    BY <1>3, <1>4, <1>5
  <2> QED BY <1>2, <1>3, <1>4, <1>5, <2>1
<1>7. ConverterInv'
  <2>1. CASE job.resampled
    <3> DEFINE n == Wanted \div job.channels
    <3>1. Process(n)
      BY <2>1 DEF ReadChunk
    <3>2. n \in Nat
      BY <1>2, <1>3, <1>5
    <3> HIDE DEF n
    <3>3. Process(n)
      BY <3>1
    <3> QED BY <3>2, <3>3, ConverterProcessInv DEF Sound
  <2>2. CASE ~ job.resampled
    <3>1. UNCHANGED converter
      BY <2>2 DEF ReadChunk
    <3> QED BY <3>1, ConverterStutterInv DEF Sound, converter
  <2> QED BY <2>1, <2>2
<1>8. /\ Available \in Int /\ Available' \in Int /\ Available =< Available'
      /\ pending' = pending \o Numbers(Available, Available')
  <2>1. CASE job.resampled
    <3> DEFINE n == Wanted \div job.channels
    <3>1. Process(n) /\ pending' = pending \o Numbers(next, next')
      BY <2>1 DEF ReadChunk, Appended
    <3>2. n \in Nat
      BY <1>2, <1>3, <1>5
    <3> HIDE DEF n
    <3>3. next \in Int /\ next' \in Int /\ next =< next'
      BY <1>1, <3>1, <3>2, ConverterTyped DEF Typed
    <3> QED BY <1>3, <2>1, <3>1, <3>3 DEF Available
  <2>2. CASE ~ job.resampled
    <3>1. pending' = pending \o Numbers(FramesRead(dataRemaining), FramesRead(dataRemaining'))
      BY <2>2 DEF ReadChunk, Appended
    <3>2. FramesRead(dataRemaining)' = FramesRead(dataRemaining')
      BY <1>3 DEF FramesRead
    <3>3. dataRemaining \in Int /\ dataRemaining' \in Int /\ dataRemaining' =< dataRemaining
      BY <1>3, <1>4, <1>5
    <3>4. /\ FramesRead(dataRemaining) \in Int /\ FramesRead(dataRemaining') \in Int
          /\ FramesRead(dataRemaining) =< FramesRead(dataRemaining')
      BY <1>1, <3>3, FramesReadMono
    <3> QED BY <1>3, <2>2, <3>1, <3>2, <3>4 DEF Available
  <2> QED BY <1>2, <2>1, <2>2
<1> QED BY <1>3, <1>4, <1>6, <1>7, <1>8, SoundGrows

LEMMA SoundEnd == ASSUME IInv, IInv', Sound, ReadEnd PROVE Sound'
<1>1. Typed /\ Typed' /\ job \in Jobs
  BY DEF IInv, Typed
<1>2. /\ job.channels \in Nat \ {0} /\ job.bytes \in Nat /\ job.resampled \in BOOLEAN
  BY <1>1, JobFacts
<1>3. /\ ~ eof /\ eof' = TRUE
      /\ dataRemaining' = IF Wanted = 0 THEN 0 ELSE dataRemaining
      /\ UNCHANGED <<job, exhausted, fed, realFrames, held, stream, result>>
  BY DEF ReadEnd, Reading
<1>4. /\ dataRemaining \in 0..job.bytes
      /\ dataRemaining = 0 \/ (job.bytes - dataRemaining) % 2 = 0
      /\ ~ exhausted
  BY <1>3 DEF Sound
<1>5. dataRemaining' \in 0..job.bytes
      /\ (dataRemaining' = 0 \/ (job.bytes - dataRemaining') % 2 = 0)
  BY <1>2, <1>3, <1>4
<1>6. CASE job.resampled
  <2>1. Flush /\ pending' = pending \o Numbers(next, next') /\ flushed'
    BY <1>6 DEF ReadEnd, Appended, Flush
  <2>2. ConverterInv'
    <3>1. Flush
      BY <2>1
    <3> QED BY <3>1, ConverterFlushInv DEF Sound
  <2>3. next \in Int /\ next' \in Int /\ next =< next'
    BY <1>1, <2>1, 0 \in Nat, ConverterTyped DEF Typed
  <2>4. Available = next /\ Available' = next'
    BY <1>3, <1>6 DEF Available
  <2> QED BY <1>3, <1>4, <1>5, <2>1, <2>2, <2>3, <2>4, SoundGrows
<1>7. CASE ~ job.resampled
  <2>1. UNCHANGED converter /\ pending' = pending
    BY <1>7 DEF ReadEnd
  <2>2. ConverterInv'
    BY <2>1, ConverterStutterInv DEF Sound, converter
  <2>3. FramesRead(dataRemaining') = FramesRead(dataRemaining)
    <3>1. CASE dataRemaining' = dataRemaining
      BY <3>1
    <3>2. CASE dataRemaining' # dataRemaining
      <4>1. Wanted = 0 /\ dataRemaining' = 0 /\ dataRemaining # 0
        BY <1>3, <3>2
      <4>2. ChunkFrames * job.channels \in Nat \ {0}
        BY <1>2, WavToOggConstants
      <4>3. dataRemaining \div 2 = 0
        BY <1>4, <4>1, <4>2 DEF Wanted, Least
      <4>4. (job.bytes - 0) \div 2 = (job.bytes - dataRemaining) \div 2
        BY <1>2, <1>4, <4>1, <4>3
      <4> QED BY Zenon, <4>1, <4>4 DEF FramesRead
    <3> QED BY <3>1, <3>2
  <2>4. Available' = Available
    <3>1. FramesRead(dataRemaining)' = FramesRead(dataRemaining')
      BY <1>3 DEF FramesRead
    <3> QED BY <1>3, <1>7, <2>3, <3>1 DEF Available
  <2> QED BY <1>3, <1>4, <1>5, <1>7, <2>1, <2>2, <2>4, CarriesKept DEF Sound
<1> QED BY <1>2, <1>6, <1>7

LEMMA IntsConcat ==
    ASSUME NEW s \in Seq(Int), NEW t \in Seq(Int)
    PROVE  /\ s \o t \in Seq(Int) /\ Len(s \o t) = Len(s) + Len(t)
           /\ \A i \in 1..Len(s) : (s \o t)[i] = s[i]
           /\ \A i \in 1..Len(t) : (s \o t)[Len(s) + i] = t[i]
  BY ConcatElements

(* One turn's frame goes on from what was encoded: sound as long as there  *)
(* is some, then silence.                                                  *)
LEMMA FrameHolds ==
    ASSUME IInv, Sound, EncodeFrame
    PROVE  /\ Len(Frame) = job.frame
           /\ \A i \in 1..job.frame :
                Frame[i] = IF fed + i - 1 < realFrames + Copied THEN fed + i - 1 ELSE Silence
<1> DEFINE pad == [i \in 1..(job.frame - Copied) |-> Silence]
           cut == SubSeq(pending, 1, Copied)
<1>1. job.frame \in Nat \ {0} /\ pending \in Seq(Int) /\ Copied \in 0..job.frame
      /\ fed \in Nat /\ realFrames \in Nat
  BY JobFacts, CopiedFacts DEF IInv, Typed, EncodeFrame
<1>2. Copied =< Len(pending) /\ Len(pending) \in Nat
  BY <1>1 DEF Copied, Least
<1>3. Frame = cut \o pad
  BY DEF Frame
<1>4. \A i \in DOMAIN pending : pending[i] = realFrames + i - 1
  BY DEF Sound
<1>5. Copied > 0 => fed = realFrames
  <2>1. exhausted => Copied = 0
    BY <1>1, <1>2 DEF Sound, Copied, Least
  <2> QED BY <2>1 DEF IInv, Ahead
<1>6. fed >= realFrames + Copied \/ fed = realFrames
  <2>1. exhausted => Copied = 0
    BY <1>1, <1>2 DEF Sound, Copied, Least
  <2>2. fed >= realFrames
    BY DEF Sound
  <2> QED BY <1>1, <1>5, <2>2
<1>7. pad \in Seq(Int) /\ Len(pad) = job.frame - Copied
      /\ \A i \in 1..(job.frame - Copied) : pad[i] = Silence
  <2>1. /\ pad \in [1..(job.frame - Copied) -> Int] /\ job.frame - Copied \in Nat
        /\ \A i \in 1..(job.frame - Copied) : pad[i] = Silence
    BY <1>1 DEF Silence
  <2> HIDE DEF pad, Copied
  <2> QED BY <2>1, FunctionIsSeq
<1>8. cut \in Seq(Int) /\ Len(cut) = Copied /\ \A i \in 1..Copied : cut[i] = pending[i]
  <2> HIDE DEF Copied
  <2> QED BY <1>1, <1>2
<1> HIDE DEF pad, cut, Copied
<1>9. /\ Len(Frame) = job.frame
      /\ \A i \in 1..Copied : Frame[i] = cut[i]
      /\ \A i \in 1..(job.frame - Copied) : Frame[Copied + i] = Silence
  <2>1. /\ Len(cut \o pad) = Len(cut) + Len(pad)
        /\ \A i \in 1..Len(cut) : (cut \o pad)[i] = cut[i]
        /\ \A i \in 1..Len(pad) : (cut \o pad)[Len(cut) + i] = pad[i]
    <3>1. cut \in Seq(Int) /\ pad \in Seq(Int)
      BY <1>7, <1>8
    <3> QED BY <3>1, IntsConcat, Zenon
  <2>2. Copied + (job.frame - Copied) = job.frame
    BY <1>1
  <2> QED BY <1>3, <1>7, <1>8, <2>1, <2>2
<1>10. ASSUME NEW i \in 1..job.frame
       PROVE  Frame[i] = IF fed + i - 1 < realFrames + Copied THEN fed + i - 1 ELSE Silence
  <2>1. CASE i \in 1..Copied
    <3>1. i \in DOMAIN pending /\ Copied > 0
      BY <1>1, <1>2, <2>1
    <3>2. Frame[i] = pending[i]
      BY <1>8, <1>9, <2>1
    <3>3. Frame[i] = realFrames + i - 1 /\ fed = realFrames
      BY <1>4, <1>5, <3>1, <3>2
    <3>4. fed + i - 1 < realFrames + Copied
      BY <1>1, <2>1, <3>3
    <3> QED BY <3>3, <3>4
  <2>2. CASE i \notin 1..Copied
    <3>1. i - Copied \in 1..(job.frame - Copied) /\ i = Copied + (i - Copied)
      BY <1>1, <2>2
    <3>2. Frame[i] = Silence
      BY <1>9, <3>1
    <3>3. ~ (fed + i - 1 < realFrames + Copied)
      BY <1>1, <1>6, <2>2
    <3> QED BY <3>2, <3>3
  <2> QED BY <2>1, <2>2
<1> QED BY <1>9, <1>10

(* The held packet as it goes out, and that what was sound or silence stays so. *)
SentOut(g, e) == [i \in DOMAIN held |-> [held[i] EXCEPT !.granule = g, !.eos = e]]
SameSamples == \A p \in Int : p < fed => (p < realFrames' <=> p < realFrames)

(* A packet leaving changes its granule and its mark, never its samples.   *)
LEMMA SentAudio ==
    ASSUME Typed, NEW g \in Int, NEW e \in BOOLEAN
    PROVE  /\ SentOut(g, e) \in Seq(Packet) /\ Len(SentOut(g, e)) = Len(held)
           /\ \A i \in 1..Len(held) : SentOut(g, e)[i].audio = held[i].audio
<1> DEFINE x == [i \in DOMAIN held |-> [held[i] EXCEPT !.granule = g, !.eos = e]]
<1>1. /\ DOMAIN held = 1..Len(held)
      /\ \A i \in 1..Len(held) : held[i] \in Packet
  BY PacketSeq DEF Typed
<1>2. \A p \in Packet : [p EXCEPT !.granule = g, !.eos = e].audio = p.audio
  BY DEF Packet
<1>3. x \in Seq(Packet) /\ Len(x) = Len(held)
  <2>1. x \in [1..Len(held) -> Packet] /\ Len(held) \in Nat
    <3>1. \A p \in Packet : [p EXCEPT !.granule = g, !.eos = e] \in Packet
      BY PacketChanged, Zenon
    <3>2. Len(held) \in Nat
      BY PacketSeq DEF Typed
    <3> QED BY <1>1, <3>1, <3>2, Zenon
  <2> HIDE DEF x
  <2> QED BY <2>1, FunctionIsSeq
<1>4. \A i \in 1..Len(held) : x[i].audio = held[i].audio
  BY <1>1, <1>2, Zenon
<1> QED BY <1>3, <1>4, Zenon DEF SentOut

(* Whatever granule and mark the held packet goes out with, what the       *)
(* stream holds stays right.                                               *)
LEMMA StreamCarries ==
    ASSUME IInv, Sound, NEW g \in Int, NEW e \in BOOLEAN, UNCHANGED job,
           SameSamples, stream' = stream \o SentOut(g, e)
    PROVE  /\ Len(stream') = Len(stream) + Len(held)
           /\ (\A k \in DOMAIN stream : Carries(k, stream[k].audio))'
<1> DEFINE x == SentOut(g, e)
           n == Len(stream)
           m == Len(held)
<1>1. /\ stream \in Seq(Packet) /\ n \in Nat /\ m \in {0, 1}
      /\ DOMAIN stream = 1..n /\ DOMAIN held = 1..m
  BY PacketSeq DEF IInv, Typed, Marked
<1>0. job.frame \in Nat \ {0} /\ fed \in Nat /\ fed = (n + m) * job.frame
  BY JobFacts DEF IInv, Typed, Marked
<1>2. /\ x \in Seq(Packet) /\ Len(x) = m /\ \A i \in 1..m : x[i].audio = held[i].audio
  <2>1. Typed
    BY DEF IInv
  <2> QED BY <2>1, SentAudio, Zenon
<1> HIDE DEF x
<1>3. /\ stream' \in Seq(Packet) /\ Len(stream') = n + m
      /\ (\A i \in 1..n : stream'[i] = stream[i]) /\ \A i \in 1..m : stream'[n + i] = x[i]
  <2>1. /\ stream \o x \in Seq(Packet) /\ Len(stream \o x) = Len(stream) + Len(x)
        /\ \A i \in 1..Len(stream) : (stream \o x)[i] = stream[i]
        /\ \A i \in 1..Len(x) : (stream \o x)[Len(stream) + i] = x[i]
    BY <1>1, <1>2, PacketsConcat, Zenon
  <2>2. stream' = stream \o x
    BY Zenon DEF x
  <2> QED BY <1>2, <2>1, <2>2, Zenon
<1>4. DOMAIN stream' = 1..(n + m)
  BY <1>3, PacketSeq
<1> HIDE DEF n, m
<1>5. ASSUME NEW k \in 1..(n + m) PROVE Carries(k, stream'[k].audio)
  <2>1. CASE k \in 1..n
    BY <1>1, <1>3, <2>1 DEF Sound
  <2>2. CASE k \notin 1..n
    <3>1. m = 1 /\ k = n + 1
      BY <1>1, <2>2
    <3>2. stream'[k].audio = held[1].audio /\ 1 \in DOMAIN held
      <4>1. 1 \in 1..m
        BY <3>1
      <4> QED BY <1>1, <1>2, <1>3, <3>1, <4>1
    <3> QED BY <3>1, <3>2 DEF Sound, n
  <2> QED BY <2>1, <2>2
<1>6. ASSUME NEW k \in 1..(n + m)
      PROVE  /\ Len(stream'[k].audio) = job'.frame
             /\ \A i \in 1..job'.frame : stream'[k].audio[i] =
                  LET p == (k - 1) * job'.frame + i - 1
                  IN  IF p < realFrames' THEN p ELSE Silence
  <2> DEFINE a == stream'[k].audio
             At(i) == (k - 1) * job.frame + i - 1
  <2>1. Len(a) = job.frame
        /\ \A i \in 1..job.frame : a[i] = IF At(i) < realFrames THEN At(i) ELSE Silence
    BY <1>5 DEF Carries, Sample
  <2>2. ASSUME NEW i \in 1..job.frame
        PROVE  At(i) \in Int /\ At(i) < fed
    <3>1. k \in Int /\ n + m \in Int /\ k =< n + m /\ job.frame \in Nat \ {0}
      BY <1>0, <1>1
    <3>2. At(i) \in Int /\ At(i) < k * job.frame
      BY <3>1
    <3>3. k * job.frame =< (n + m) * job.frame
      BY <3>1, MulMono
    <3>4. k * job.frame \in Int
      BY <3>1
    <3> HIDE DEF At
    <3> QED BY <1>0, <3>2, <3>3, <3>4
  <2> HIDE DEF At, a
  <2>3. \A i \in 1..job.frame : a[i] = IF At(i) < realFrames' THEN At(i) ELSE Silence
    BY <2>1, <2>2 DEF SameSamples
  <2> QED BY <2>1, <2>3 DEF At, a
<1> QED BY <1>3, <1>4, <1>6 DEF n, m, Carries, Sample

LEMMA CutOff ==
    ASSUME NEW s \in Seq(Int), NEW c \in Nat, c =< Len(s)
    PROVE  LET t == SubSeq(s, c + 1, Len(s))
           IN  /\ Len(t) = Len(s) - c /\ t \in Seq(Int)
               /\ \A i \in DOMAIN t : t[i] = s[c + i] /\ c + i \in DOMAIN s
<1> DEFINE t == SubSeq(s, c + 1, Len(s))
<1>1. Len(s) \in Nat /\ c + 1 \in 1..(Len(s) + 1)
  OBVIOUS
<1>2. t \in Seq(Int) /\ Len(t) = Len(s) - c
  BY <1>1
<1>3. \A i \in 1..(Len(s) - c) : t[i] = s[c + 1 + i - 1]
  BY <1>1
<1>4. \A i \in 1..(Len(s) - c) : c + 1 + i - 1 = c + i /\ c + i \in 1..Len(s)
  BY <1>1
<1>5. DOMAIN t = 1..(Len(s) - c) /\ DOMAIN s = 1..Len(s)
  BY <1>1, <1>2
<1> HIDE DEF t
<1>6. \A i \in DOMAIN t : t[i] = s[c + i] /\ c + i \in DOMAIN s
  BY <1>3, <1>4, <1>5
<1> QED BY <1>2, <1>6 DEF t

LEMMA SoundEncode == ASSUME IInv, IInv', Sound, EncodeFrame PROVE Sound'
<1>1. /\ job.frame \in Nat \ {0} /\ job.scale \in Nat \ {0} /\ fed \in Nat
      /\ realFrames \in Nat /\ pending \in Seq(Int) /\ Copied \in 0..job.frame
      /\ (~ Exhausted => Copied = job.frame)
  BY JobFacts, CopiedFacts DEF IInv, Typed, EncodeFrame
<1>2. Copied =< Len(pending) /\ Len(pending) \in Nat
  BY <1>1 DEF Copied, Least
<1>3. /\ UNCHANGED <<converter, job, dataRemaining, inFile, eof, result>>
      /\ exhausted' = (exhausted \/ Exhausted)
      /\ realFrames' = realFrames + Copied /\ fed' = fed + job.frame
      /\ held' = <<NewPacket>>
      /\ pending' = SubSeq(pending, Copied + 1, Len(pending))
      /\ stream' = stream \o [i \in DOMAIN held |-> [held[i] EXCEPT !.eos = HeldEos]]
  BY DEF EncodeFrame, NewPacket
<1>4. exhausted => Copied = 0
  BY <1>1, <1>2 DEF Sound, Copied, Least
<1>5. SameSamples
  <2>1. CASE exhausted
    BY <1>1, <1>3, <1>4, <2>1 DEF SameSamples
  <2>2. CASE ~ exhausted
    <3>1. fed = realFrames
      BY <2>2 DEF IInv, Ahead
    <3> QED BY <1>1, <1>3, <3>1 DEF SameSamples
  <2> QED BY <2>1, <2>2
<1>6. stream' = stream \o SentOut(fed * job.scale, FALSE)
  <2>1. Typed /\ Marked
    BY DEF IInv
  <2>2. SentOut(fed * job.scale, FALSE)
          = [i \in DOMAIN held |-> [held[i] EXCEPT !.granule = fed * job.scale, !.eos = FALSE]]
    BY Zenon DEF SentOut
  <2> QED BY <1>3, <2>1, <2>2, HeldKept
<1>7. /\ Len(stream') = Len(stream) + Len(held)
      /\ (\A k \in DOMAIN stream : Carries(k, stream[k].audio))'
  <2>1. fed * job.scale \in Int /\ FALSE \in BOOLEAN /\ UNCHANGED job
    BY <1>1, <1>3
  <2> QED BY <1>5, <1>6, <2>1, StreamCarries
<1>8. (\A k \in DOMAIN held : Carries(Len(stream) + k, held[k].audio))'
  <2>1. DOMAIN held' = {1} /\ held'[1].audio = Frame
    BY <1>3 DEF NewPacket
  <2>2. Len(stream) \in Nat /\ Len(held) \in Nat /\ fed = (Len(stream) + Len(held)) * job.frame
    BY SMTT(30) DEF IInv, Typed, Marked
  <2>3. fed = (Len(stream') + 1 - 1) * job.frame
    BY <1>7, <2>2
  <2>4. /\ Len(Frame) = job'.frame
        /\ \A i \in 1..job'.frame : Frame[i] = LET p == fed + i - 1
                                               IN  IF p < realFrames' THEN p ELSE Silence
    BY <1>3, FrameHolds
  <2>5. /\ Len(Frame) = job'.frame
        /\ \A i \in 1..job'.frame : Frame[i] =
             LET p == (Len(stream') + 1 - 1) * job'.frame + i - 1
             IN  IF p < realFrames' THEN p ELSE Silence
    BY <1>3, <2>3, <2>4
  <2> QED BY <2>1, <2>5 DEF Carries, Sample
<1>9. /\ Len(pending') = Len(pending) - Copied
      /\ \A i \in DOMAIN pending' : pending'[i] = pending[Copied + i] /\ Copied + i \in DOMAIN pending
      /\ pending' \in Seq(Int)
  <2> HIDE DEF Copied
  <2>1. Copied \in Nat /\ Copied =< Len(pending) /\ Len(pending) \in Nat
        /\ pending \in Seq(Int) /\ DOMAIN pending = 1..Len(pending)
    BY <1>1, <1>2
  <2> QED BY <1>3, <2>1, CutOff
<1>10. \A i \in DOMAIN pending' : pending'[i] = realFrames' + i - 1
  <2>1. \A i \in DOMAIN pending : pending[i] = realFrames + i - 1
    BY DEF Sound
  <2>2. ASSUME NEW i \in DOMAIN pending' PROVE pending'[i] = realFrames' + i - 1
    <3>1. pending'[i] = realFrames + (Copied + i) - 1
      BY <1>9, <2>1
    <3>2. i \in Int
      BY <1>9
    <3> QED BY <1>1, <1>3, <3>1, <3>2
  <2> QED BY <2>2
<1>11. realFrames' + Len(pending') = Available'
  <2>1. realFrames + Len(pending) = Available
    BY DEF Sound
  <2>2. Available' = Available
    BY <1>3 DEF Available, FramesRead, converter
  <2>3. /\ realFrames \in Int /\ Copied \in Int /\ Len(pending) \in Int
        /\ realFrames' = realFrames + Copied /\ Len(pending') = Len(pending) - Copied
    BY <1>1, <1>2, <1>3, <1>9
  <2>4. (realFrames + Copied) + (Len(pending) - Copied) = realFrames + Len(pending)
    BY <2>3
  <2> QED BY <2>1, <2>2, <2>3, <2>4
<1>12. exhausted' => eof' /\ pending' = <<>>
  <2>1. (eof /\ (exhausted => pending = <<>>) /\ Len(pending) = Copied) \/ ~ exhausted'
    <3>1. exhausted => eof /\ pending = <<>> /\ Copied = 0
      BY <1>4 DEF Sound
    <3>2. Exhausted => eof /\ Len(pending) = Copied
      BY DEF Exhausted
    <3>3. pending = <<>> => Len(pending) = 0
      OBVIOUS
    <3> QED BY <1>3, <3>1, <3>2, <3>3
  <2>2. CASE exhausted'
    <3>1. Len(pending') = 0
      BY <1>1, <1>2, <1>9, <2>1, <2>2
    <3> QED BY <1>3, <1>9, <2>1, <2>2, <3>1
  <2> QED BY <2>2
<1>13. ConverterInv'
  BY <1>3, ConverterStutterInv DEF Sound, converter
<1>14. /\ dataRemaining' \in 0..job'.bytes
       /\ dataRemaining' = 0 \/ (job'.bytes - dataRemaining') % 2 = 0
       /\ (eof' /\ job'.resampled => flushed')
  BY <1>3 DEF Sound, converter
<1>15. realFrames' =< fed'
  BY <1>1, <1>3 DEF Sound
<1> QED BY <1>7, <1>8, <1>10, <1>11, <1>12, <1>13, <1>14, <1>15 DEF Sound

LEMMA SoundLast == ASSUME IInv, IInv', Sound, WriteLast PROVE Sound'
<1>1. /\ UNCHANGED <<converter, job, source, exhausted, fed, realFrames>> /\ held' = <<>>
      /\ stream' = stream \o SentOut(FinalGranule, TRUE)
  BY Zenon DEF WriteLast, SentOut
<1>2. FinalGranule \in Int
  <2>1. job.lookahead \in Nat /\ job.scale \in Nat /\ realFrames \in Nat
    BY JobFacts DEF IInv, Typed
  <2> QED BY <2>1 DEF FinalGranule, PreSkip
<1>3. SameSamples
  BY <1>1 DEF SameSamples
<1>4. (\A k \in DOMAIN stream : Carries(k, stream[k].audio))'
  BY <1>1, <1>2, <1>3, StreamCarries
<1>5. (\A k \in DOMAIN held : Carries(Len(stream) + k, held[k].audio))'
  BY <1>1
<1>6. ConverterInv'
  BY <1>1, ConverterStutterInv DEF Sound, converter
<1>7. Available' = Available
  BY <1>1 DEF Available, FramesRead, converter, source
<1> QED BY <1>1, <1>4, <1>5, <1>6, <1>7 DEF Sound, converter, source

LEMMA SoundQuiet ==
    ASSUME Sound,
           WriteHeaders \/ ReadTorn \/ TurnFails \/ WriteLastFails \/ UNCHANGED vars
    PROVE  Sound'
<1>1. UNCHANGED <<converter, job, source, exhausted, fed, realFrames, held, stream>>
  BY DEF WriteHeaders, ReadTorn, TurnFails, WriteLastFails, vars
<1>2. ConverterInv'
  BY <1>1, ConverterStutterInv DEF Sound, converter
<1>3. Available' = Available
  BY <1>1 DEF Available, FramesRead, converter, source
<1> QED BY <1>1, <1>2, <1>3, CarriesKept DEF Sound, converter, source

LEMMA SoundStep == IInv /\ IInv' /\ Sound /\ [Next]_vars => Sound'
  BY SoundChunk, SoundEnd, SoundEncode, SoundLast, SoundQuiet DEF Next

THEOREM WavToOggSound == Spec => [](IInv /\ Sound)
<1>1. IInv /\ Sound /\ [Next]_vars => (IInv /\ Sound)'
  BY ReadChunkInv, ReadEndInv, EncodeFrameInv, WriteLastInv, ResultInv, SoundStep DEF Next
<1> QED BY InitInv, SoundInit, <1>1, PTL DEF Spec

(* The packet and the place in it that position p of the input lies at.    *)
LEMMA PositionLies ==
    ASSUME NEW p \in Nat, NEW f \in Nat \ {0}, NEW n \in Nat, p < n * f
    PROVE  /\ p \div f + 1 \in 1..n /\ (p % f) + 1 \in 1..f
           /\ ((p \div f + 1) - 1) * f + ((p % f) + 1) - 1 = p
<1> DEFINE d == p \div f
           r == p % f
<1>1. d \in Nat /\ r \in 0..(f - 1) /\ p = d * f + r
  OBVIOUS
<1> HIDE DEF d, r
<1>2. d < n
  <2> SUFFICES ASSUME n =< d PROVE FALSE
    BY <1>1
  <2>1. n * f =< d * f
    BY <1>1, MulMono
  <2>2. n * f \in Int /\ d * f \in Int
    BY <1>1
  <2> QED BY <1>1, <2>1, <2>2
<1>3. ((d + 1) - 1) * f + (r + 1) - 1 = p
  <2>1. (d + 1) - 1 = d /\ d * f \in Int
    BY <1>1
  <2> QED BY <1>1, <2>1
<1>4. d + 1 \in 1..n /\ r + 1 \in 1..f
  BY <1>1, <1>2
<1> QED BY <1>3, <1>4 DEF d, r

LEMMA FedRight ==
    ASSUME IInv, Sound, NEW p \in 0..(fed - 1)
    PROVE  Fed(p) = Sample(p)
<1> DEFINE n == Len(stream)
           m == Len(held)
           f == job.frame
<1>1. /\ f \in Nat \ {0} /\ n \in Nat /\ m \in {0, 1} /\ fed = (n + m) * f
      /\ stream \in Seq(Packet) /\ held \in Seq(Packet)
  BY JobFacts, PacketSeq DEF IInv, Typed, Marked
<1>2. PICK k, i : /\ k = p \div f + 1 /\ i = (p % f) + 1
                  /\ k \in 1..(n + m) /\ i \in 1..f /\ (k - 1) * f + i - 1 = p
  <2>1. p \in Nat /\ n + m \in Nat /\ p < (n + m) * f
    BY <1>1
  <2>2. f \in Nat \ {0}
    BY <1>1
  <2> HIDE DEF n, m, f
  <2>3. /\ p \div f + 1 \in 1..(n + m) /\ (p % f) + 1 \in 1..f
        /\ ((p \div f + 1) - 1) * f + ((p % f) + 1) - 1 = p
    BY <2>1, <2>2, PositionLies
  <2>4. \A k, i : k = p \div f + 1 /\ i = (p % f) + 1 =>
          k \in 1..(n + m) /\ i \in 1..f /\ (k - 1) * f + i - 1 = p
    BY <2>3
  <2> QED BY <2>4
<1>3. Carries(k, Packets[k].audio)
  <2>1. /\ Packets \in Seq(Packet) /\ Len(Packets) = n + m
        /\ \A j \in 1..n : Packets[j] = stream[j]
        /\ \A j \in 1..m : Packets[n + j] = held[j]
    BY Zenon, <1>1, PacketsConcat DEF Packets
  <2>2. DOMAIN stream = 1..n /\ DOMAIN held = 1..m
    BY <1>1, PacketSeq
  <2> HIDE DEF n, m, f
  <2>3. CASE k \in 1..n
    BY <2>1, <2>2, <2>3 DEF Sound
  <2>4. CASE k \notin 1..n
    <3>1. m = 1 /\ k = n + 1 /\ 1 \in 1..m
      BY <1>1, <1>2, <2>4
    <3>2. Packets[k] = held[1]
      BY <2>1, <3>1
    <3>3. Carries(n + 1, held[1].audio)
      BY <2>2, <3>1 DEF Sound, n
    <3> QED BY <3>1, <3>2, <3>3
  <2> QED BY <2>3, <2>4
<1>4. Packets[k].audio[i] = Sample((k - 1) * f + i - 1)
  BY <1>2, <1>3 DEF Carries
<1>5. Fed(p) = Packets[k].audio[i]
  BY <1>2 DEF Fed
<1> QED BY <1>2, <1>4, <1>5

(* Whatever the rates, the frame size and the sizes of the reads, the      *)
(* samples encoded and those pending are all that was read, each once and  *)
(* in order, with silence only after the last.                             *)
THEOREM WavToOggNothingLost == Spec => []NothingLost
<1>1. ASSUME IInv, Sound PROVE NothingLost
  <2>1. \A p \in 0..(fed - 1) : Fed(p) = IF p < realFrames THEN p ELSE Silence
    BY <1>1, FedRight DEF Sample
  <2> QED BY <1>1, <2>1 DEF NothingLost, Sound
<1> QED BY WavToOggSound, <1>1, PTL

(* A finished file plays the input back exactly, whatever its length, the  *)
(* codec's delay and the frame size: the delay skipped before it, the      *)
(* silence after it trimmed, the last sample pushed through the codec.     *)
THEOREM WavToOggPlays == Spec => []PlaysInput
<1>1. ASSUME IInv, Sound PROVE PlaysInput
  <2> SUFFICES ASSUME result = "ok"
               PROVE  LET end == stream[Len(stream)].granule
                          all == IF job.resampled THEN Total ELSE FramesRead(dataRemaining)
                      IN  /\ end - PreSkip = all * job.scale
                          /\ end =< fed * job.scale
                          /\ \A p \in 0..(all - 1) : Fed(p) = p
    BY DEF PlaysInput
  <2> DEFINE all == IF job.resampled THEN Total ELSE FramesRead(dataRemaining)
             end == stream[Len(stream)].granule
  <2>1. exhausted /\ fed >= realFrames + job.lookahead /\ end = FinalGranule
    BY <1>1 DEF IInv, Finished
  <2>2. /\ job.scale \in Nat \ {0} /\ job.lookahead \in Nat \ {0}
        /\ fed \in Nat /\ realFrames \in Nat
    BY <1>1, JobFacts DEF IInv, Typed
  <2>3. all = realFrames
    <3>1. pending = <<>> /\ eof /\ realFrames + Len(pending) = Available
      BY <1>1, <2>1 DEF Sound
    <3>2. Len(pending) = 0
      BY <3>1
    <3>3. realFrames = Available
      BY <2>2, <3>1, <3>2
    <3>4. job.resampled => next = Total
      <4>1. job.resampled => flushed
        BY <1>1, <3>1 DEF Sound
      <4>2. flushed => next = Total
        BY <1>1 DEF Sound, ConverterInv
      <4> QED BY <4>1, <4>2
    <3> QED BY <3>3, <3>4 DEF Available
  <2> HIDE DEF all, end
  <2>4. end - PreSkip = all * job.scale
    <3>1. PreSkip \in Int /\ realFrames * job.scale \in Int
      BY <2>2 DEF PreSkip
    <3> HIDE DEF PreSkip
    <3> QED BY <2>1, <2>3, <3>1 DEF FinalGranule
  <2>5. end =< fed * job.scale
    <3>1. (realFrames + job.lookahead) * job.scale =< fed * job.scale
      BY <2>1, <2>2, MulMono
    <3>2. end = (realFrames + job.lookahead) * job.scale
      BY <2>1, <2>2 DEF FinalGranule, PreSkip
    <3> QED BY <3>1, <3>2
  <2>6. \A p \in 0..(all - 1) : Fed(p) = p
    <3> SUFFICES ASSUME NEW p \in 0..(realFrames - 1) PROVE Fed(p) = p
      BY <2>3
    <3>1. p \in 0..(fed - 1) /\ p < realFrames
      BY <2>1, <2>2
    <3> QED BY <1>1, <3>1, FedRight DEF Sample
  <2> QED BY <2>4, <2>5, <2>6 DEF all, end
<1> QED BY WavToOggSound, <1>1, PTL
=============================================================================
